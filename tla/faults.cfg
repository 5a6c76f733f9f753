SPECIFICATION Spec
CONSTANTS
  a = a
  b = b
  k1 = k1
  k2 = k2
  p1 = p1
  p2 = p2
  desk = desk
  clip = clip
  NoCall = NoCall
  Calls = {a}
  Keys = {k1}
  Resources = {desk}
  KeyOf <- SingleKey
  PayloadOf <- SinglePayload
  Needs <- SingleDesktop
  MaxFaults = 2
  MaxCrashes = 1
  MayDrain = TRUE
VIEW LiveView
INVARIANTS
  TypeOK
  WriteAhead
  CompletedIsDurable
PROPERTIES
  AnswerIsFinal
  DrainCleanIsQuiet
CHECK_DEADLOCK FALSE
