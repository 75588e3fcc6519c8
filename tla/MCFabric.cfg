\* Two calls under way at a time: on one report, of four founders, the fewest who
\* can leave a report to an official; or on the founding, registration and
\* admission of four organisations.
SPECIFICATION AboutSpec
CONSTANTS
  o1 = o1
  o2 = o2
  o3 = o3
  o4 = o4
  r1 = r1
  p1 = p1
  p2 = p2
  p3 = p3
  c1 = c1
  c2 = c2
  Peers <- ThreePeers
  Calls <- TwoCalls
  Orgs <- FourOrgs
  Candidates <- FourOrgs
  Reports <- OneReport
  Limits = {1, 2, 4}
  Times <- OneTick
  Window = 0
SYMMETRY Symmetric
INVARIANTS
  AcceptedWritesFit
PROPERTIES
  ImplementsChaincode
  ClosedOnTwoClocks
