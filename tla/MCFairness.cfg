\* Four requests for the model; two handlers of the gateway for four organisations, or
\* one and the expiry pass, undisturbed, to the end of their work.
SPECIFICATION FairnessSpec
CONSTANTS
  q1 = q1
  q2 = q2
  q3 = q3
  q4 = q4
  Requests <- FourRequests
  max_batch_size = 3
  o1 = o1
  o2 = o2
  o3 = o3
  o4 = o4
  r1 = r1
  h1 = h1
  h2 = h2
  Free = Free
  Orgs <- FourOrgs
  VotingOrgs <- FourOrgs
  SERVICE_ORG = o1
  Reports <- OneReport
  Times <- OneTick
  Window = 0
  Handlers <- TwoHandlers
  Disturbances = {}
  MaxDisturbances = 0
INVARIANTS
  PendingIsHeld
  ResultIsOwn
  DocumentIsComplete
PROPERTIES
  BatchAnsweredTogether
  EveryRequestEnds
  ExpiredIsRecorded
CHECK_DEADLOCK FALSE
