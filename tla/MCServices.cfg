\* Each of the small services on its own: two threads that write the audit log, or pass
\* the limiter; two visitors of the portal; four containers and a leftover; two runs of
\* demo-seed.py, or of seed-claims.py; an official with a second factor who is signed
\* in and one more name, with two requests at a time and two more sign-ins, renewals or
\* changes to come.  The log and the runs end.
SPECIFICATION ServicesSpec
CONSTANTS
  w1 = w1
  w2 = w2
  e1 = e1
  e2 = e2
  t1 = t1
  t2 = t2
  t3 = t3
  t4 = t4
  Recorders <- Threads
  ProcessOf <- OneGateway
  AuditEntries <- Entries
  MaxRows = 4
  Keys = {"k1"}
  HitThreads <- Threads
  limit = 2
  window_s = 2
  MaxHitKeys = 1
  HitDelay = 1
  MaxHitTime = 5
  Members = {"org1", "org2"}
  Posts = {"r1"}
  Visitors = {"v1", "v2"}
  PUBLIC_TTL_S = 2
  MaxViewTime = 2
  LedgerLayer = {"fabric", "gateway"}
  AppLayer = {"worker", "engine"}
  Unnamed = {"build"}
  OptionalChecks = {"engine"}
  ListingFails = FALSE
  KeyOrgs = {3, 4}
  Tokens <- FourTokens
  SeedRuns = {"s1", "s2"}
  Claims = {"c1", "c2"}
  Seeders = {"s1", "s2"}
  MaxExtra = 1
  u1 = u1
  u2 = u2
  q1 = q1
  q2 = q2
  Users <- TwoUsers
  Staff <- TheOfficial
  Enrolled <- OnlyU1
  SignedIn <- SheIsIn
  Requests <- TwoRequests
  MAX_FAILED_LOGINS = 2
  LOCKOUT_S = 1
  ACCESS_TTL_S = 1
  REFRESH_TTL_S = 2
  REFRESH_REUSE_GRACE_S = 1
  MaxTime = 2
  MaxOperations = 5
SYMMETRY Symmetric
INVARIANTS
  LiveSessionsProveCredentials
  GraceDoesNotSlide
  EndedSessionsStayEnded
  UnalteredIsIntact
  AlterationIsFound
  AtMostLimitPerWindow
  PublicAnswersHold
  ExitIsTruthful
  NoWellKnownKeys
  SeedingKeysEnd
  SeedingIsAccounted
PROPERTIES
  LockOutlastsNewSignIns
CHECK_DEADLOCK FALSE
