CONSTANTS
  Rides = {r1, r2}
  Drivers = {d1}
  Passengers = {p1, p2}
  Slots = {1}
  Calls = {c1}
  Workload = {"request"}
  InitialDriver <- AllReady
  MaxRounds = 1
  RoundCap = 2
  MaxFaults = 0
  None = None
SPECIFICATION FairSpec
PROPERTY SearchIsDecided
CHECK_DEADLOCK FALSE
