\* Two members, one of them an official's; nobody calls the gateway but by the pages.
SPECIFICATION OSpec
CONSTANTS
  Members = {"org1", "org2"}
  Posts = {"r1"}
  Visitors = {}
  PUBLIC_TTL_S = 2
  MaxViewTime = 0
  Officials = {"org2"}
  DirectReaders = {}
PROPERTIES
  VotesAreBlind
CHECK_DEADLOCK FALSE
