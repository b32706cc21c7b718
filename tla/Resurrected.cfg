CONSTANTS
  Rides = {r1}
  Drivers = {d1}
  Passengers = {p1}
  Slots = {1}
  Calls = {c1, c2}
  Workload = {"request", "cancel", "accept", "advance"}
  InitialDriver <- AllReady
  MaxRounds = 3
  RoundCap = 4
  MaxFaults = 0
  None = None
SPECIFICATION Spec
PROPERTY TerminalIsFinal
CHECK_DEADLOCK FALSE
