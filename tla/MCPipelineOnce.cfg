\* A worker that crashes between the answer and the commit of the offset.
SPECIFICATION PSpec
CONSTANTS
  k1 = k1
  k2 = k2
  None = None
  Garbage = Garbage
  Claims <- OnlyK1
  Malformed <- NoClaims
  Disturbances <- WorkerCrash
  MaxDisturbances = 1
INVARIANTS
  AnchoredOnce
