SPECIFICATION Spec
CONSTANTS
  a = a
  b = b
  k1 = k1
  k2 = k2
  p1 = p1
  p2 = p2
  desk = desk
  clip = clip
  NoCall = NoCall
  Calls = {a, b}
  Keys = {k1, k2}
  Resources = {desk, clip}
  KeyOf <- OneKey
  PayloadOf <- OtherPayload
  Needs <- Apart
  MaxFaults = 0
  MaxCrashes = 0
  MayDrain = TRUE
VIEW LiveView
INVARIANTS
  OneOperationPerKey
CHECK_DEADLOCK FALSE
