\* Two handlers beside one expiry pass.
SPECIFICATION GSpec
CONSTANTS
  o1 = o1
  o2 = o2
  o3 = o3
  o4 = o4
  r1 = r1
  h1 = h1
  h2 = h2
  Free = Free
  Orgs <- ThreeOrgs
  VotingOrgs <- ThreeOrgs
  SERVICE_ORG = o1
  Reports <- OneReport
  Times <- OneTick
  Window = 0
  Handlers <- TwoHandlers
  Disturbances <- OnePass
  MaxDisturbances = 1
PROPERTIES
  ReasoningAccumulates
