SPECIFICATION Spec
CONSTANTS
  a = a
  b = b
  k1 = k1
  k2 = k2
  p1 = p1
  p2 = p2
  desk = desk
  clip = clip
  NoCall = NoCall
  Calls = {a, b}
  Keys = {k1, k2}
  Resources = {desk, clip}
  KeyOf <- OwnKeys
  PayloadOf <- OtherPayload
  Needs <- Nested
  MaxFaults = 0
  MaxCrashes = 1
  MayDrain = FALSE
VIEW LiveView
INVARIANTS
  NoOverlappingEffects
  DurableCleanupIsTrue
  AdmissionOpensSafely
  LeasesFollowOperations
PROPERTIES
  QuarantineLiftsOnProof
  ImplementsExclusiveEffects
CHECK_DEADLOCK FALSE
