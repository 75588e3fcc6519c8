\* Two of four members come to vote, through two handlers next to the expiry pass, with
\* any two of: a pass, an outage, a timeout, a crash.
SPECIFICATION GSpec
CONSTANTS
  o1 = o1
  o2 = o2
  o3 = o3
  o4 = o4
  r1 = r1
  h1 = h1
  h2 = h2
  Free = Free
  Orgs <- FourOrgs
  VotingOrgs <- TwoOrgs
  SERVICE_ORG = o1
  Reports <- OneReport
  Times <- OneTick
  Window = 0
  Handlers <- TwoHandlers
  Disturbances <- All
  MaxDisturbances = 2
SYMMETRY Symmetric
INVARIANTS
  EveryReportHasDocument
  DocumentMirrorsLedger
  PublishedVerdictIsDecided
