CONSTANTS
  Rides = {r1}
  Drivers = {d1, d2}
  Passengers = {p1}
  Slots = {1, 2}
  Calls = {c1, c2}
  Workload = {"request", "cancel", "accept", "reject", "advance"}
  InitialDriver <- AllReady
  MaxRounds = 1
  RoundCap = 2
  MaxFaults = 1
  None = None
SPECIFICATION Spec
SYMMETRY Symmetry
INVARIANTS AssignmentConsistent StaleAdvanceIsOwn ActiveIsHeld
PROPERTY NeverRedispatched
CHECK_DEADLOCK FALSE
