SPECIFICATION LiveSpec
CONSTANTS
  a = a
  x = x
  NoSession = NoSession
  NoCall = NoCall
  NoInstance = NoInstance
  Lineages = {l}
  Sessions = {s1, s2}
  Calls = {a}
  Instances = {x}
  Uses <- Alone
  MaxWaiting = 1
  MaxFaults = 2
  MaxCrashes = 1
PROPERTIES
  CredentialsAreAnswered
  GraceCleansUp
CHECK_DEADLOCK FALSE
