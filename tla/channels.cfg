SPECIFICATION ChannelsSpec
CONSTANTS
  e1 = e1
  e2 = e2
  e3 = e3
  Exchanges = {e1, e2, e3}
  ExchangeKind <- OneOfEach
  MaxSessionFaults = 1
  Actions = {a1, a2}
  MaxFrames = 1
  MaxMaintenance = 1
  MaxLoopFaults = 1
  MaxShotFaults = 2
  MaxActivities = 4
  MaxBeats = 4
INVARIANTS
  ChannelsTypeOK
  CaptureEndsClean
PROPERTIES
  SessionIsAligned
  LoopKeepsItsWord
  HeartbeatIsTrue
  SilenceEnds
CHECK_DEADLOCK FALSE
