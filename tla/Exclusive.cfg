CONSTANTS
  Rides = {r1, r2}
  Drivers = {d1}
  Passengers = {p1, p2}
  Slots = {1, 2}
  Calls = {c1}
  Workload = {"request", "accept", "reject", "offline"}
  InitialDriver <- AllReady
  MaxRounds = 1
  RoundCap = 2
  MaxFaults = 0
  None = None
SPECIFICATION Spec
SYMMETRY Symmetry
INVARIANT DriverExclusive
CHECK_DEADLOCK FALSE
