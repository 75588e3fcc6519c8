\* Two claims, one of them malformed, and any three things that may go wrong.
SPECIFICATION PFairSpec
CONSTANTS
  k1 = k1
  k2 = k2
  None = None
  Garbage = Garbage
  Claims <- TwoClaims
  Malformed <- OnlyK2
  Disturbances <- AnyFault
  MaxDisturbances = 3
INVARIANTS
  ProcessedIsAnchored
  ExtraReportsAreUnnoted
  PassedIsSettled
PROPERTIES
  ClaimsArrive
