----------------------------- MODULE RideStates -----------------------------
(***************************************************************************)
(* The tables of src/src/modules/rides/ride-state.ts: which status may     *)
(* follow which, and the three groups of statuses the queries use.  A ride *)
(* that has not been created yet is "ABSENT", which is no RideStatus.      *)
(***************************************************************************)

\* The part of the lifecycle before a driver has accepted.
SearchingStates == {"REQUESTED", "MATCHING"}

\* States where a ride is assigned to a driver.
AssignedActiveStates ==
  {"RESERVED", "OFFERED", "EN_ROUTE_TO_PICKUP", "ARRIVED_AT_PICKUP",
   "PICKED_UP", "EN_ROUTE_TO_DROPOFF"}

\* Non-terminal states.
ActiveRideStates == SearchingStates \cup AssignedActiveStates

TerminalStates ==
  {"COMPLETED", "CANCELLED", "DRIVER_NO_SHOW", "PASSENGER_NO_SHOW",
   "DISPUTE", "FAILED"}

RideStatus == ActiveRideStates \cup TerminalStates

\* States where the passenger may cancel the ride.
CancellableStates ==
  ActiveRideStates \ {"PICKED_UP", "EN_ROUTE_TO_DROPOFF"}

\* The driver's own transitions: forward progress of the trip.
DriverForward ==
  {<<"OFFERED", "EN_ROUTE_TO_PICKUP">>,
   <<"EN_ROUTE_TO_PICKUP", "ARRIVED_AT_PICKUP">>,
   <<"ARRIVED_AT_PICKUP", "PICKED_UP">>,
   <<"PICKED_UP", "EN_ROUTE_TO_DROPOFF">>,
   <<"EN_ROUTE_TO_DROPOFF", "COMPLETED">>}

\* TRANSITIONS as a relation: dispatch's edges, the driver's, the passenger's.
Transitions ==
  {<<"REQUESTED", "MATCHING">>, <<"REQUESTED", "FAILED">>,
   <<"MATCHING", "RESERVED">>, <<"MATCHING", "FAILED">>,
   <<"RESERVED", "OFFERED">>, <<"RESERVED", "MATCHING">>}
    \cup DriverForward
    \cup (CancellableStates \X {"CANCELLED"})

CanTransition(from, to) == <<from, to>> \in Transitions

IsDriverForwardTransition(from, to) == <<from, to>> \in DriverForward
=============================================================================
