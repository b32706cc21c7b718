CONSTANTS
  Rides = {r1}
  Drivers = {d1}
  Passengers = {p1}
  Slots = {1, 2}
  Calls = {c1}
  Workload = {"request", "accept", "reject", "online", "offline", "advance", "admin"}
  InitialDriver <- AnyDriver
  MaxRounds = 2
  RoundCap = 3
  MaxFaults = 0
  None = None
SPECIFICATION Spec
SYMMETRY Symmetry
INVARIANTS TypeOK OfferIsTimed
PROPERTY ImplementsAssignment
CHECK_DEADLOCK FALSE
