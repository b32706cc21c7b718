CONSTANTS
  Rides = {r1}
  Drivers = {d1}
  Passengers = {p1}
  Slots = {1, 2}
  Calls = {c1}
  Workload = {"request", "reject"}
  InitialDriver <- AllReady
  MaxRounds = 3
  RoundCap = 4
  MaxFaults = 0
  None = None
SPECIFICATION Spec
INVARIANT OnePipelinePerRide
CHECK_DEADLOCK FALSE
