------------------------- MODULE DispatchProperties -------------------------
(***************************************************************************)
(* What ride dispatch guarantees, and what its documentation says of it.   *)
(***************************************************************************)
EXTENDS Dispatch, FiniteSets

\* A ride out of dispatch's hands: accepted by a driver, or over.
SettledStates == RideStatus \ {"REQUESTED", "MATCHING", "RESERVED"}

-----------------------------------------------------------------------------
(* Types.                                                                  *)

PipeRecord == [phase : PipePhases, round : 0 .. RoundCap,
               driver : Drivers \cup {None}, holds : BOOLEAN]

RideRecord == [state : Statuses, passenger : Passengers \cup {None},
               driver : Drivers \cup {None}, offer : Offers \cup {NoOffer}]

CallRecord == [kind : Endpoints \cup {"none"}, phase : CallPhases,
               who : Drivers \cup Passengers \cup {None},
               ride : Rides \cup {None}, offer : Offers \cup {NoOffer},
               next : Statuses, todo : SUBSET Rides]

Types ==
  /\ ride \in [Rides -> RideRecord]
  /\ driver \in [Drivers -> DriverRecord]
  /\ active \subseteq Rides
  /\ pipe \in [Rides -> [Slots -> PipeRecord]]
  /\ call \in [Calls -> CallRecord]
  /\ faults \in 0 .. MaxFaults

\* A pipeline works on a ride that exists, in a round it may be in, and has a
\* driver in the phases that use one.
PipeWellFormed(r, s) ==
  /\ pipe[r][s].phase # "idle" => /\ pipe[r][s].round >= 1
                                  /\ ride[r].state # "ABSENT"
  /\ pipe[r][s].phase \in {"reserve", "offer", "armed", "expire"} =>
       pipe[r][s].driver \in Drivers
  /\ pipe[r][s].phase \in {"expire", "requeue"} => pipe[r][s].round < RoundCap

\* A request has the ride and the driver its handler goes on with.
CallWellFormed(c) ==
  /\ call[c].kind \in {"cancel", "accept", "reject", "advance"} =>
       call[c].ride \in Rides
  /\ call[c].kind \in {"accept", "reject", "online", "offline", "advance"} =>
       call[c].who \in Drivers
  /\ call[c].kind = "request" => call[c].who \in Passengers
  /\ call[c].kind = "advance" => call[c].next \in SettledStates
  /\ \A r \in call[c].todo : ride[r].state # "ABSENT"

\* Every variable has its type: in particular no pipeline runs past RoundCap
\* or uses a driver it has not found, and no ride carries an offer identifier
\* that dispatch did not build.
TypeOK ==
  /\ Types
  /\ \A r \in Rides, s \in Slots : PipeWellFormed(r, s)
  /\ \A c \in Calls : CallWellFormed(c)

-----------------------------------------------------------------------------
(* What holds of every instance.                                           *)

\* state, driverId and offerId of a ride agree although updateState and the
\* FAILED update write the state alone: no driver while the ride is searched
\* for, always one while it is assigned, and it is the driver of the offer.
AssignmentConsistent ==
  \A r \in Rides :
    /\ ride[r].state \in SearchingStates => ride[r].driver = None
    /\ ride[r].state \in AssignedActiveStates => ride[r].driver # None
    /\ ride[r].offer.driver = ride[r].driver

\* A driver's status update that was checked on an old read of the ride is
\* written to a ride that is still that driver's and still settled, however
\* long the request waited between the read and the unguarded write.
StaleAdvanceIsOwn ==
  \A c \in Calls :
    call[c].kind = "advance" =>
      /\ ride[call[c].ride].driver = call[c].who
      /\ ride[call[c].ride].driver # None
      /\ ride[call[c].ride].state \in SettledStates

\* Once a driver has accepted (or the ride is over) the ride never goes back to
\* dispatch and never changes driver: ride-state.ts, ASSIGNED_ACTIVE_STATES
\* "cannot be re-dispatched".
NeverRedispatched ==
  [][\A r \in Rides :
       ride[r].state \in SettledStates =>
         /\ ride'[r].state \in SettledStates
         /\ ride'[r].driver = ride[r].driver
         /\ ride'[r].passenger = ride[r].passenger]_vars

\* Until something throws, every outstanding offer has a pipeline that will
\* send it or time it out, whichever handlers release and renew offers.
OfferIsTimed ==
  faults = 0 =>
    \A r \in Rides :
      ride[r].state = "RESERVED" =>
        \E s \in Slots :
          /\ pipe[r][s].phase \in {"offer", "armed", "expire"}
          /\ OfferStands(r, s)

\* A ride marked in activeRides has a pipeline that will clear the mark, also
\* after exceptions and restarts: dispatch.start is never disabled for good.
ActiveIsHeld ==
  \A r \in active : \E s \in Slots : pipe[r][s].holds

\* Ride dispatch implements the assignment protocol of RideAssignment.
AssignmentPhase(state) ==
  IF state = "ABSENT" THEN "none"
  ELSE IF state \in SearchingStates THEN "searching"
  ELSE IF state = "RESERVED" THEN "offered"
  ELSE "settled"

Assignment ==
  INSTANCE RideAssignment WITH
    phase <- [r \in Rides |-> AssignmentPhase(ride[r].state)],
    holder <- [r \in Rides |-> ride[r].driver]

\* Every behaviour of dispatch is one of the assignment protocol: offers are
\* exclusive per ride, withdrawn as a whole, and final once settled.
ImplementsAssignment == Assignment!Spec

-----------------------------------------------------------------------------
(* What holds of some workloads.                                           *)

\* No two rides assigned to one driver: "prevents two concurrent dispatch loops
\* from offering different rides to the same driver" (dispatch.service.ts:62).
NoDoubleBooking ==
  \A q, r \in Rides :
    /\ ride[q].state \in AssignedActiveStates
    /\ ride[r].state \in AssignedActiveStates
    /\ ride[q].driver = ride[r].driver
    => q = r

\* What the claim of the driver (dispatch.service.ts:62-74) achieves as long as
\* it alone decides about isAvailable: a driver has at most one assigned ride,
\* and none while it is available.
DriverExclusive ==
  /\ NoDoubleBooking
  /\ \A d \in Drivers : driver[d].available => ~Busy(d)

\* An offer below the last round the model follows is answered, withdrawn or
\* expired: no driver holds a ride by saying nothing.
OfferResolves ==
  \A r \in Rides, d \in Drivers, n \in 1 .. (RoundCap - 1) :
    LET Stands == ride[r].state = "RESERVED" /\ ride[r].offer = OfferOf(d, n)
    IN Stands ~> ~Stands

\* A requested ride is eventually offered to a driver, cancelled or FAILED:
\* "After exhaustion, system marks ride as FAILED" (docs/PHASE_9:121).
SearchIsDecided ==
  \A r \in Rides :
    ride[r].state \in SearchingStates ~> ride[r].state \notin SearchingStates

-----------------------------------------------------------------------------
(* What the documentation says and the code does not do.                   *)

\* "Never run two dispatch pipelines for the same ride concurrently"
\* (dispatch.service.ts:25): at most one attempt of a ride is under way.
OnePipelinePerRide ==
  \A r \in Rides :
    Cardinality({s \in Slots : pipe[r][s].phase \in
                   {"due", "match", "reserve", "offer", "giveup", "report"}}) <= 1

\* "Terminal states (no outgoing transitions)" (ride-state.ts:7).
TerminalIsFinal ==
  [][\A r \in Rides :
       ride[r].state \in TerminalStates => ride'[r].state = ride[r].state]_vars
=============================================================================
