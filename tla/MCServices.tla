------------------------------- MODULE MCServices -------------------------------
(***************************************************************************)
(* One instance for TLC of each of the services that share no state with   *)
(* the others.  A behaviour is of one of them, the one that is `chosen`;   *)
(* the rest stay as they start.                                            *)
(***************************************************************************)
EXTENDS AuditChain, RateLimiter, ReportViews, Deployment, ApiKeys, ClaimSeeding,
  Sessions, TLC

CONSTANTS w1, w2, e1, e2, t1, t2, t3, t4, u1, u2, q1, q2

Threads      == {w1, w2}
Entries      == {e1, e2}
OneGateway   == [w \in Threads |-> "gateway"]
FourTokens   == {t1, t2, t3, t4}

TwoUsers    == {u1, u2}
TheOfficial == u1 :> "official"
OnlyU1      == {u1}
SheIsIn     == <<u1>>
TwoRequests == {q1, q2}
Symmetric   == Permutations(TwoRequests)

\* The official of AInit a moment later: somebody has mistyped her password, and she
\* has renewed her session.
HalfWay ==
  /\ now = 0
  /\ accounts = u1 :> [Account("official", 0, FALSE, 1) EXCEPT !.failed = 1] @@ u2 :> NoAccount
  /\ sessions = <<NewSession(u1, [password |-> 0, secret |-> 1], FALSE)>>
  /\ tokens = <<MarkUsed(NewToken(1, REFRESH_TTL_S)), NewToken(1, REFRESH_TTL_S)>>
  /\ jwts = {AccessToken(u1, "official", 1)}
  /\ requests = [r \in Requests |-> Idle]
  /\ operations = 3

\* Or a fact-checker is there and signed in as well.
BothAreIn == Starts(u1 :> "official" @@ u2 :> "fact_checker", OnlyU1, <<u1, u2>>, 3)

VARIABLE chosen

services == <<chosen, uvars, lvars, wvars, dvars, kvars, svars, avars>>

Services == {"audit", "limiter", "views", "deployment", "keys", "seeding", "sessions"}

\* The step is one of this service.
Of(service) ==
  /\ chosen = service
  /\ UNCHANGED chosen
  /\ service # "audit"      => UNCHANGED uvars
  /\ service # "limiter"    => UNCHANGED lvars
  /\ service # "views"      => UNCHANGED wvars
  /\ service # "deployment" => UNCHANGED dvars
  /\ service # "keys"       => UNCHANGED kvars
  /\ service # "seeding"    => UNCHANGED svars
  /\ service # "sessions"   => UNCHANGED avars

ServicesInit ==
  /\ chosen \in Services
  /\ UInit /\ LInit /\ WInit /\ DInit /\ AKInit /\ SInit
  /\ HalfWay \/ (chosen = "sessions" /\ BothAreIn)
  /\ chosen # "deployment" => Present = {} /\ volumes = "none" /\ files = "none"
  /\ chosen # "keys" => plaintext = {}

ServicesNext ==
  \/ Of("audit") /\ UNext
  \/ Of("limiter") /\ LNext
  \/ Of("views") /\ WNext
  \/ Of("deployment") /\ DNext
  \/ Of("keys") /\ AKNext
  \/ Of("seeding") /\ SNext
  \/ Of("sessions") /\ ANext

ServicesSpec == ServicesInit /\ [][ServicesNext]_services
=============================================================================
