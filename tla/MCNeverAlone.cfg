\* The comment in SubmitFactCheck, with two founding organisations.
SPECIFICATION Spec
CONSTANTS
  o1 = o1
  o2 = o2
  o3 = o3
  o4 = o4
  o5 = o5
  o6 = o6
  r1 = r1
  subject = r1
  Orgs <- FourOrgs
  Candidates <- NoOrgs
  Reports <- OneReport
  Limits = {}
  Times = {0}
  Window = 1
SYMMETRY Everybody
PROPERTIES
  NeverDecidesAlone
