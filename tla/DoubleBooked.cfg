CONSTANTS
  Rides = {r1, r2}
  Drivers = {d1}
  Passengers = {p1, p2}
  Slots = {1}
  Calls = {c1}
  Workload = {"request", "online"}
  InitialDriver <- AllReady
  MaxRounds = 3
  RoundCap = 4
  MaxFaults = 0
  None = None
SPECIFICATION Spec
INVARIANT NoDoubleBooking
CHECK_DEADLOCK FALSE
