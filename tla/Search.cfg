CONSTANTS
  Rides = {r1}
  Drivers = {d1, d2}
  Passengers = {p1}
  Slots = {1}
  Calls = {c1, c2}
  Workload = {"request", "cancel", "accept", "advance"}
  InitialDriver <- SomeReady
  MaxRounds = 2
  RoundCap = 3
  MaxFaults = 0
  None = None
SPECIFICATION FairSpec
PROPERTIES OfferResolves SearchIsDecided
CHECK_DEADLOCK FALSE
