SPECIFICATION Spec
CONSTANTS
  a = a
  b = b
  k1 = k1
  k2 = k2
  p1 = p1
  p2 = p2
  desk = desk
  clip = clip
  NoCall = NoCall
  Calls = {a, b}
  Keys = {k1, k2}
  Resources = {desk}
  KeyOf <- OneKey
  PayloadOf <- SamePayload
  Needs <- BothDesktop
  MaxFaults = 0
  MaxCrashes = 1
  MayDrain = FALSE
VIEW LiveView
INVARIANTS
  AtMostOnceEffect
CHECK_DEADLOCK FALSE
