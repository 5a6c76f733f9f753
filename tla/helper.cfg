SPECIFICATION HelperSpec
CONSTANTS
  Codes = {k1}
  MaxInputs = 2
  MaxLedgerFaults = 1
  MaxPostFaults = 1
  MaxStops = 2
  actions = actions
  results = results
  control = control
  plain = plain
  layout = layout
  Callers = {actions, results, control}
  CallerOps <- CallsOfQueues
  Captures = {plain, layout}
  Children <- KidsOfCaptures
  Authorities = {u1, u2}
  MaxNative = 2
  MaxRouterFaults = 1
  MaxPrepares = 2
  MaxControls = 2
  MaxRecorded = 3
  HistoryLimit = 2
  PushLimit = 2
  Pids = {g1, g2}
  Windows = {w1, w2}
  WindowLimit = 2
  MaxBirths = 2
  MaxSubscribes = 2
  first = first
  second = second
  sheet = sheet
  cgFirst = cgFirst
  cgSecond = cgSecond
  Elements = {first, second, sheet}
  Sheets = {sheet}
  SheetPairs <- EitherWindow
  LaunchOf <- OneIncarnation
  Incarnations = 2
  CGWindows = {cgFirst, cgSecond}
  TitleOf <- TwoTitles
  HandleLimit = 2
  LastEpoch = 2
  MaxRefreshes = 3
  MaxChanges = 2
SYMMETRY Interchangeable
INVARIANTS
  HelperTypeOK
  HeldInputIsSafe
  InventoryIsTrue
PROPERTIES
  CaptureOwnership
  ObservationIsTrue
CHECK_DEADLOCK FALSE
