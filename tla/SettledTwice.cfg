CONSTANTS
  Rides = {r1}
  Calls = {c1, c2}
  BatchSize = 1
  GiveUp = 1
  MaxFaults = 0
  Sandbox = TRUE
  None = None
SPECIFICATION Spec
PROPERTIES SettledOnce
CHECK_DEADLOCK FALSE
