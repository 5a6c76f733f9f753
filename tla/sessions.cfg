SPECIFICATION ClientsSpec
CONSTANTS
  a = a
  x = x
  NoSession = NoSession
  NoCall = NoCall
  NoInstance = NoInstance
  Lineages = {l}
  Sessions = {s1, s2, s3}
  Calls = {a}
  Instances = {x}
  Uses <- Alone
  MaxWaiting = 2
  MaxFaults = 1
  MaxCrashes = 1
  o1 = o1
  o2 = o2
  o3 = o3
  o4 = o4
  o5 = o5
  o6 = o6
  LifeOps = {o1, o2, o3, o4, o5, o6}
  LifeKind <- OneOfEach
  LifeLineage <- OneClient
  MaxLifeFaults = 2
  MaxLifeCrashes = 1
  Users = {r1, r2, r3}
  ReadOnly = {r1}
  LongBudget = {r2}
  MaxClientFaults = 2
  MaxShotLosses = 2
  MaxLateChanges = 1
SYMMETRY EverySession
INVARIANTS
  ClientsTypeOK
  TokenResumesOneSession
  ClientIsServed
  CaptureIsSettled
PROPERTIES
  OperationsKeepTheirSession
  BrowserIsHeldOnce
  GraceSparesTheConnected
CHECK_DEADLOCK FALSE
