\* A report, among six founders: the fewest among whom an official can be left to
\* close it with the label "0".  The membership: five organisations may found, o4
\* and o5 may also be admitted.  The demo's ledger: one report, three founders and
\* one who may join, and one crash or write that fails; it has nothing left to do
\* once everything is decided.
SPECIFICATION BothSpec
CONSTANTS
  o1 = o1
  o2 = o2
  o3 = o3
  o4 = o4
  o5 = o5
  o6 = o6
  r1 = r1
  subject = r1
  Orgs <- SixOrgs
  Candidates <- Joiners
  Reports <- OneReport
  Limits = {0, 1, 4, 6}
  Times <- OneTick
  Window = 0
  MockOrgs <- FourOrgs
  ORGS <- FoundersOfTheDemo
  MockReports <- OneReport
  StatePath = TRUE
  window = 0
  MaxMockTime = 1
  MaxMockFaults = 1
SYMMETRY Swaps
INVARIANTS
  OneVotePerOrg
  OpenReportUndecided
  LabelIsMajority
  FoundersWithinLimit
  AdmittedHasSponsor
  ConfirmedVotesStand
PROPERTIES
  EarlyCloseNeedsTwoThirds
  RecordIsAppendOnly
  ImplementsConsensus
  MembershipGrowsByRule
  MirrorsChaincode
CHECK_DEADLOCK FALSE
