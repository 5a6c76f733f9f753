SPECIFICATION ServicesSpec
CONSTANTS
  Targets = {t1, t2}
  Views = {v1, v2}
  AgentActions = {x1, x2}
  MaxEvents = 1
  MaxViewFaults = 1
  Subscribers = {s1, s2}
  MaxObserved = 3
  AdapterBuffer = 1
  HubHistory = 2
  SubscriberQueue = 2
  MaxSubscribers = 2
  MaxHubFaults = 1
  HostOps = {h1, h2}
  MaxHostFaults = 3
  Lookers = {l1, l2}
  MaxLooks = 4
  MaxPermissionFaults = 2
  MaxInstallFaults = 2
  MaxInstallCrashes = 2
  ReadinessPolls = 2
  PermissionPolls = 3
  ObserverPolls = 2
  PrepareAttempts = 3
  MaxPreparations = 2
  MaxSilences = 2
  LegacyServices = 2
  MaxLegacyFaults = 1
  MaxLegacyMoves = 2
  MaxDeviceOps = 3
  MaxDeviceFaults = 2
  MaxDeviceMoves = 1
  MaxPolls = 2
  MaxRequests = 1
  MaxSessionFaults = 2
SYMMETRY InterchangeableViews
INVARIANTS
  ServicesTypeOK
  RotationIsSafe
  BrowserIsTold
PROPERTIES
  ViewsServeOnce
  EventsAreNotLost
  AdmissionIsGuarded
  AdministrationIsSafe
CHECK_DEADLOCK FALSE
