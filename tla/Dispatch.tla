------------------------------ MODULE Dispatch ------------------------------
(***************************************************************************)
(* Ride dispatch: the matching pipelines of DispatchService                *)
(* (src/src/modules/rides/dispatch.service.ts), the ride endpoints of      *)
(* RidesService (rides.service.ts) and the administrator's endpoints that  *)
(* decide who may drive (admin.service.ts), over one shared database.      *)
(*                                                                         *)
(* The server is one event loop: code between two awaits runs alone, and   *)
(* at every await any other handler may run.  One action below is one      *)
(* database access together with the code up to the next await.  A MongoDB *)
(* transaction is one action: two that write the same document conflict,   *)
(* and the loser is retried by retryTransaction, so those that commit are  *)
(* serialized by the documents they write.                                 *)
(*                                                                         *)
(* Timers have no duration here: a timer fires at any moment after it is   *)
(* set.  The bounds of the model are Slots (pipelines of one ride at the   *)
(* same time), RoundCap (the last round a pipeline reaches; the code has   *)
(* no such limit), Calls (HTTP requests in progress at the same time) and  *)
(* MaxFaults (exceptions and crashes in a behaviour).                      *)
(***************************************************************************)
EXTENDS Naturals, RideStates

CONSTANTS
  Rides,          \* identifiers a new ride may get
  Drivers,        \* driver profiles
  Passengers,     \* users with the role PASSENGER
  Slots,          \* slots for the pipelines of one ride
  Calls,          \* slots for HTTP requests in progress
  Workload,       \* the endpoints clients use in this instance
  InitialDriver,  \* the states a driver profile may start in
  MaxRounds,      \* maxRounds, 3 in the code
  RoundCap,       \* bound on the round number
  MaxFaults,      \* bound on exceptions and crashes
  None            \* null

Endpoints == {"request", "cancel", "accept", "reject", "online", "offline",
              "advance", "admin"}

DriverRecord == [approved : BOOLEAN, suspended : BOOLEAN, available : BOOLEAN]

ASSUME RoundsAssumption ==
  /\ MaxRounds \in Nat \ {0}
  /\ RoundCap \in Nat
  /\ MaxRounds <= RoundCap

ASSUME FaultsAssumption == MaxFaults \in Nat

ASSUME InputsAssumption ==
  /\ Workload \subseteq Endpoints
  /\ InitialDriver \subseteq DriverRecord

ASSUME NoneAssumption == None \notin Rides \cup Drivers \cup Passengers

VARIABLES
  ride,     \* collection Ride: state, passengerId, driverId, offerId
  driver,   \* collection Driver, with the status of its user
  active,   \* DispatchService.activeRides
  pipe,     \* the dispatch pipelines: timers and attempts in progress
  call,     \* the HTTP requests in progress
  faults    \* exceptions and crashes so far

vars == <<ride, driver, active, pipe, call, faults>>

-----------------------------------------------------------------------------
(* The state.                                                              *)

\* offerId is `${rideId}:${driver.id}:${round}`; the ride is implied.
Offers == [driver : Drivers, round : 1 .. RoundCap]
NoOffer == [driver |-> None, round |-> 0]
OfferOf(d, n) == [driver |-> d, round |-> n]

Statuses == RideStatus \cup {"ABSENT"}

NoRide ==
  [state |-> "ABSENT", passenger |-> None, driver |-> None, offer |-> NoOffer]

\* What a pipeline does next; "due" and "armed" are pending timers.
PipePhases == {"idle", "due", "match", "reserve", "offer", "armed", "expire",
               "requeue", "giveup", "report"}

\* holds: the promise of this attempt clears activeRides when it settles.
Pipeline(phase, round, d, holds) ==
  [phase |-> phase, round |-> round, driver |-> d, holds |-> holds]
NoPipe == Pipeline("idle", 0, None, FALSE)

CallPhases == {"idle", "check", "commit", "start"}

\* The handler `kind` with what it has read so far; todo: rides to dispatch.
Handler(kind, phase, who, r, o, next, todo) ==
  [kind |-> kind, phase |-> phase, who |-> who, ride |-> r, offer |-> o,
   next |-> next, todo |-> todo]
NoCall == Handler("none", "idle", None, None, NoOffer, "ABSENT", {})
Starting(todo) == Handler("none", "start", None, None, NoOffer, "ABSENT", todo)

Init ==
  /\ ride = [r \in Rides |-> NoRide]
  /\ driver \in [Drivers -> InitialDriver]
  /\ active = {}
  /\ pipe = [r \in Rides |-> [s \in Slots |-> NoPipe]]
  /\ call = [c \in Calls |-> NoCall]
  /\ faults = 0

-----------------------------------------------------------------------------
(* Steps shared by several handlers.                                       *)

WriteRide(r, state, d, o) ==
  ride' = [ride EXCEPT ![r] = [state |-> state, passenger |-> ride[r].passenger,
                               driver |-> d, offer |-> o]]

SetAvailable(d, b) == driver' = [driver EXCEPT ![d].available = b]

Busy(d) ==
  \E r \in Rides : ride[r].driver = d /\ ride[r].state \in AssignedActiveStates

\* The filter of driver.findFirst; the order by rating is left open.
Eligible(d) ==
  driver[d].approved /\ driver[d].available /\ ~driver[d].suspended /\ ~Busy(d)

\* The offer that pipeline s of ride r made is still the ride's offer.
OfferStands(r, s) ==
  /\ ride[r].state = "RESERVED"
  /\ ride[r].offer = OfferOf(pipe[r][s].driver, pipe[r][s].round)

PipeGoes(r, s, next) == pipe' = [pipe EXCEPT ![r][s] = next]

\* The attempt goes on to `phase` with driver d; its promise is pending.
Attempt(r, s, phase, d) ==
  /\ PipeGoes(r, s, Pipeline(phase, pipe[r][s].round, d, pipe[r][s].holds))
  /\ UNCHANGED active

\* Wrong on purpose: no `finally`, the ride stays marked (see the README).
SettleKeepsMark(r, s, next) == PipeGoes(r, s, next) /\ UNCHANGED active

\* The attempt returns: its promise settles, and a timer `next` may remain.
Settle(r, s, next) ==
  /\ PipeGoes(r, s, next)
  /\ active' = IF pipe[r][s].holds THEN active \ {r} ELSE active

FreeSlot(r) == CHOOSE s \in Slots : pipe[r][s] = NoPipe

\* DispatchService.start for each of the rides, in one turn of the loop.
StartAll(todo) ==
  LET fresh == todo \ active IN
  /\ \A r \in fresh : \E s \in Slots : pipe[r][s] = NoPipe
  /\ active' = active \cup fresh
  /\ pipe' = [r \in Rides |->
                IF r \in fresh
                  THEN [pipe[r] EXCEPT
                          ![FreeSlot(r)] = Pipeline("due", 1, None, TRUE)]
                  ELSE pipe[r]]

CallGoes(c, next) == call' = [call EXCEPT ![c] = next]

Begins(c, kind) == kind \in Workload /\ call[c] = NoCall

At(c, kind, phase) == call[c].kind = kind /\ call[c].phase = phase

-----------------------------------------------------------------------------
(* Wrong on purpose: operations with a bug that is easily made.  Nothing   *)
(* below uses them; they show what the properties notice (see the README). *)

\* The claim forgets that the driver may have been taken.
CanReserveTaken(r, d) ==
  /\ driver[d].approved
  /\ ride[r].state \in SearchingStates /\ ride[r].driver = None

\* The claim forgets that the ride may be over.
CanReserveOver(r, d) ==
  driver[d].approved /\ driver[d].available /\ ride[r].driver = None

\* The offer is sent but its timer is not set.
SendOfferUntimed(r, s) ==
  /\ pipe[r][s].phase = "offer"
  /\ Settle(r, s, NoPipe)
  /\ UNCHANGED <<ride, driver, call, faults>>

\* The release leaves driverId in place.
ExpireOfferKeepsDriver(r, s) ==
  LET d == pipe[r][s].driver IN
  /\ pipe[r][s].phase = "expire"
  /\ \/ /\ OfferStands(r, s)
        /\ WriteRide(r, "MATCHING", ride[r].driver, NoOffer)
        /\ SetAvailable(d, driver[d].available \/ driver[d].approved)
     \/ /\ ~OfferStands(r, s)
        /\ UNCHANGED <<ride, driver>>
  /\ Attempt(r, s, "requeue", None)
  /\ UNCHANGED <<call, faults>>

\* The release trusts the read before the transaction.
ExpireOfferUnchecked(r, s) ==
  /\ pipe[r][s].phase = "expire"
  /\ WriteRide(r, "MATCHING", None, NoOffer)
  /\ Attempt(r, s, "requeue", None)
  /\ UNCHANGED <<driver, call, faults>>

\* The ride is marked active but no round is scheduled.
RequeueForgets(r, s) ==
  /\ pipe[r][s].phase = "requeue"
  /\ PipeGoes(r, s, NoPipe)
  /\ active' = active \cup {r}
  /\ UNCHANGED <<ride, driver, call, faults>>

\* An answer is accepted whatever became of the offer.
AnswerHoldsAnyState(c) ==
  /\ ride[call[c].ride].driver = call[c].who
  /\ ride[call[c].ride].offer = call[c].offer

\* The status asked for is not checked against the one that was read.
AdvanceReadAnyState(c, r, next) ==
  /\ Begins(c, "advance")
  /\ ride[r].driver # None
  /\ ~driver[ride[r].driver].suspended
  /\ CallGoes(c, Handler("advance", "check", ride[r].driver, r, NoOffer, next, {}))
  /\ UNCHANGED <<ride, driver, active, pipe, faults>>

-----------------------------------------------------------------------------
(* DispatchService.attemptMatch.                                           *)

\* The timer fires and the attempt reads the ride.
ReadRide(r, s) ==
  /\ pipe[r][s].phase = "due"
  /\ \/ /\ ride[r].state \in SearchingStates
        /\ Attempt(r, s, "match", None)
     \/ /\ ride[r].state \notin SearchingStates
        /\ Settle(r, s, NoPipe)
  /\ UNCHANGED <<ride, driver, call, faults>>

\* The driver query.  The timer of the next round is outside the promise.
FindDriver(r, s) ==
  /\ pipe[r][s].phase = "match"
  /\ \/ \E d \in Drivers : Eligible(d) /\ Attempt(r, s, "reserve", d)
     \/ /\ \A d \in Drivers : ~Eligible(d)
        /\ pipe[r][s].round < MaxRounds
        /\ Settle(r, s, Pipeline("due", pipe[r][s].round + 1, None, FALSE))
     \/ /\ \A d \in Drivers : ~Eligible(d)
        /\ pipe[r][s].round >= MaxRounds
        /\ Attempt(r, s, "giveup", None)
  /\ UNCHANGED <<ride, driver, call, faults>>

\* The two guarded updates of the reservation.
CanReserve(r, d) ==
  /\ driver[d].approved /\ driver[d].available
  /\ ride[r].state \in SearchingStates /\ ride[r].driver = None

\* The transaction claims the driver and the ride together or not at all; a
\* claim that fails ends the pipeline (`return`, or the throw caught below).
Reserve(r, s) ==
  LET d == pipe[r][s].driver IN
  /\ pipe[r][s].phase = "reserve"
  /\ \/ /\ CanReserve(r, d)
        /\ SetAvailable(d, FALSE)
        /\ WriteRide(r, "RESERVED", d, OfferOf(d, pipe[r][s].round))
        /\ Attempt(r, s, "offer", d)
     \/ /\ ~CanReserve(r, d)
        /\ Settle(r, s, NoPipe)
        /\ UNCHANGED <<ride, driver>>
  /\ UNCHANGED <<call, faults>>

\* The passenger is read, the offer is sent, the offer timer is set.
SendOffer(r, s) ==
  /\ pipe[r][s].phase = "offer"
  /\ Settle(r, s, Pipeline("armed", pipe[r][s].round, pipe[r][s].driver, FALSE))
  /\ UNCHANGED <<ride, driver, call, faults>>

\* No driver in the last round: FAILED, whatever the ride is by now.
GiveUp(r, s) ==
  /\ pipe[r][s].phase = "giveup"
  /\ WriteRide(r, "FAILED", ride[r].driver, ride[r].offer)
  /\ Attempt(r, s, "report", None)
  /\ UNCHANGED <<driver, call, faults>>

\* The passenger's notification is enqueued and the attempt returns.
ReportFailure(r, s) ==
  /\ pipe[r][s].phase = "report"
  /\ Settle(r, s, NoPipe)
  /\ UNCHANGED <<ride, driver, call, faults>>

-----------------------------------------------------------------------------
(* DispatchService.scheduleOfferTimeout.                                   *)

\* The offer timer fires and the handler reads the ride.
OfferTimeout(r, s) ==
  /\ pipe[r][s].phase = "armed"
  /\ \/ /\ OfferStands(r, s)
        /\ pipe[r][s].round < RoundCap
        /\ Attempt(r, s, "expire", pipe[r][s].driver)
     \/ /\ ~OfferStands(r, s)
        /\ Settle(r, s, NoPipe)
  /\ UNCHANGED <<ride, driver, call, faults>>

\* The release transaction.  When it finds another offer it returns from the
\* transaction only: the handler goes on all the same.
ExpireOffer(r, s) ==
  LET d == pipe[r][s].driver IN
  /\ pipe[r][s].phase = "expire"
  /\ \/ /\ OfferStands(r, s)
        /\ WriteRide(r, "MATCHING", None, NoOffer)
        /\ SetAvailable(d, driver[d].available \/ driver[d].approved)
     \/ /\ ~OfferStands(r, s)
        /\ UNCHANGED <<ride, driver>>
  /\ Attempt(r, s, "requeue", None)
  /\ UNCHANGED <<call, faults>>

\* The handler marks the ride active, whoever else works on it, and sets the
\* timer of the next round.
Requeue(r, s) ==
  /\ pipe[r][s].phase = "requeue"
  /\ PipeGoes(r, s, Pipeline("due", pipe[r][s].round + 1, None, TRUE))
  /\ active' = active \cup {r}
  /\ UNCHANGED <<ride, driver, call, faults>>

\* An await throws; the catch block logs and the pipeline is gone.
PipeFails(r, s) ==
  /\ pipe[r][s].phase # "idle"
  /\ faults < MaxFaults
  /\ Settle(r, s, NoPipe)
  /\ faults' = faults + 1
  /\ UNCHANGED <<ride, driver, call>>

PipeStep(r, s) ==
  \/ ReadRide(r, s) \/ FindDriver(r, s) \/ Reserve(r, s) \/ SendOffer(r, s)
  \/ GiveUp(r, s) \/ ReportFailure(r, s)
  \/ OfferTimeout(r, s) \/ ExpireOffer(r, s) \/ Requeue(r, s)

-----------------------------------------------------------------------------
(* RidesService, the passenger's endpoints.                                *)

\* requestRide looks for an active ride of the passenger; it goes on if none.
RequestCheck(c, u) ==
  /\ Begins(c, "request")
  /\ \A r \in Rides :
       ~(ride[r].passenger = u /\ ride[r].state \in ActiveRideStates)
  /\ CallGoes(c, Handler("request", "commit", u, None, NoOffer, "ABSENT", {}))
  /\ UNCHANGED <<ride, driver, active, pipe, faults>>

RequestCreate(c) ==
  /\ At(c, "request", "commit")
  /\ \E r \in Rides :
       /\ ride[r] = NoRide
       /\ ride' = [ride EXCEPT ![r] =
                     [state |-> "REQUESTED", passenger |-> call[c].who,
                      driver |-> None, offer |-> NoOffer]]
       /\ CallGoes(c, Starting({r}))
  /\ UNCHANGED <<driver, active, pipe, faults>>

CancelRead(c, r) ==
  /\ Begins(c, "cancel")
  /\ CanTransition(ride[r].state, "CANCELLED")
  /\ CallGoes(c, Handler("cancel", "commit", ride[r].passenger, r, NoOffer,
                         "ABSENT", {}))
  /\ UNCHANGED <<ride, driver, active, pipe, faults>>

\* The update is guarded by the active states, not the cancellable ones; the
\* ride keeps its driver and offer.
CancelCommit(c) ==
  LET r == call[c].ride IN
  /\ At(c, "cancel", "commit")
  /\ \/ /\ ride[r].state \in ActiveRideStates
        /\ WriteRide(r, "CANCELLED", ride[r].driver, ride[r].offer)
     \/ /\ ride[r].state \notin ActiveRideStates
        /\ UNCHANGED ride
  /\ CallGoes(c, NoCall)
  /\ UNCHANGED <<driver, active, pipe, faults>>

-----------------------------------------------------------------------------
(* RidesService, the driver's endpoints.                                   *)

\* JwtAuthGuard refuses suspended users, assertDriverCanOperate the others.
MayOperate(d) == driver[d].approved /\ ~driver[d].suspended

\* A driver answers the offer it has been shown.
AnswerOffer(c, kind, r) ==
  /\ Begins(c, kind)
  /\ ride[r].state = "RESERVED"
  /\ MayOperate(ride[r].driver)
  /\ CallGoes(c, Handler(kind, "commit", ride[r].driver, r, ride[r].offer,
                         "ABSENT", {}))
  /\ UNCHANGED <<ride, driver, active, pipe, faults>>

\* The guard of both answers: id, driverId, RESERVED and offerId.
AnswerHolds(c) ==
  LET r == call[c].ride IN
  /\ ride[r].driver = call[c].who
  /\ ride[r].state = "RESERVED"
  /\ ride[r].offer = call[c].offer

AcceptCommit(c) ==
  LET r == call[c].ride IN
  /\ At(c, "accept", "commit")
  /\ \/ /\ AnswerHolds(c)
        /\ WriteRide(r, "OFFERED", ride[r].driver, ride[r].offer)
     \/ /\ ~AnswerHolds(c)
        /\ UNCHANGED ride
  /\ CallGoes(c, NoCall)
  /\ UNCHANGED <<driver, active, pipe, faults>>

RejectCommit(c) ==
  LET r == call[c].ride IN
  /\ At(c, "reject", "commit")
  /\ \/ /\ AnswerHolds(c)
        /\ WriteRide(r, "MATCHING", None, NoOffer)
        /\ SetAvailable(call[c].who, TRUE)
        /\ CallGoes(c, Starting({r}))
     \/ /\ ~AnswerHolds(c)
        /\ CallGoes(c, NoCall)
        /\ UNCHANGED <<ride, driver>>
  /\ UNCHANGED <<active, pipe, faults>>

\* setDriverAvailability(true): two reads, then an unguarded update.
OnlineBegin(c, d) ==
  /\ Begins(c, "online")
  /\ MayOperate(d)
  /\ CallGoes(c, Handler("online", "check", d, None, NoOffer, "ABSENT", {}))
  /\ UNCHANGED <<ride, driver, active, pipe, faults>>

OnlineCheck(c) ==
  LET d == call[c].who IN
  /\ At(c, "online", "check")
  /\ \/ /\ ~Busy(d)
        /\ CallGoes(c, Handler("online", "commit", d, None, NoOffer, "ABSENT", {}))
     \/ /\ Busy(d)
        /\ CallGoes(c, NoCall)
  /\ UNCHANGED <<ride, driver, active, pipe, faults>>

OnlineCommit(c) ==
  /\ At(c, "online", "commit")
  /\ SetAvailable(call[c].who, TRUE)
  /\ CallGoes(c, NoCall)
  /\ UNCHANGED <<ride, active, pipe, faults>>

\* setDriverAvailability(false) also releases every offer of the driver.
OfflineBegin(c, d) ==
  /\ Begins(c, "offline")
  /\ MayOperate(d)
  /\ CallGoes(c, Handler("offline", "commit", d, None, NoOffer, "ABSENT", {}))
  /\ UNCHANGED <<ride, driver, active, pipe, faults>>

OfflineCommit(c) ==
  LET d == call[c].who
      released == {r \in Rides : ride[r].driver = d /\ ride[r].state = "RESERVED"}
  IN
  /\ At(c, "offline", "commit")
  /\ SetAvailable(d, FALSE)
  /\ ride' = [r \in Rides |->
                IF r \in released
                  THEN [state |-> "MATCHING", passenger |-> ride[r].passenger,
                        driver |-> None, offer |-> NoOffer]
                  ELSE ride[r]]
  /\ \/ released = {} /\ CallGoes(c, NoCall)
     \/ released # {} /\ CallGoes(c, Starting(released))
  /\ UNCHANGED <<active, pipe, faults>>

\* updateState reads the ride; the transition asked for is checked on that read.
AdvanceRead(c, r, next) ==
  /\ Begins(c, "advance")
  /\ ride[r].driver # None
  /\ ~driver[ride[r].driver].suspended
  /\ IsDriverForwardTransition(ride[r].state, next)
  /\ CallGoes(c, Handler("advance", "check", ride[r].driver, r, NoOffer, next, {}))
  /\ UNCHANGED <<ride, driver, active, pipe, faults>>

AdvanceCheck(c) ==
  LET d == call[c].who IN
  /\ At(c, "advance", "check")
  /\ \/ /\ driver[d].approved
        /\ CallGoes(c, Handler("advance", "commit", d, call[c].ride, NoOffer,
                               call[c].next, {}))
     \/ /\ ~driver[d].approved
        /\ CallGoes(c, NoCall)
  /\ UNCHANGED <<ride, driver, active, pipe, faults>>

\* The write names the ride only by its id.
AdvanceCommit(c) ==
  LET r == call[c].ride IN
  /\ At(c, "advance", "commit")
  /\ WriteRide(r, call[c].next, ride[r].driver, ride[r].offer)
  /\ CallGoes(c, NoCall)
  /\ UNCHANGED <<driver, active, pipe, faults>>

\* The transaction has returned: the handler calls dispatch.start.
StartDispatch(c) ==
  /\ call[c].phase = "start"
  /\ StartAll(call[c].todo)
  /\ CallGoes(c, NoCall)
  /\ UNCHANGED <<ride, driver, faults>>

\* An await throws (or a transaction conflicts four times): the client gets an
\* error and what was still to do is not done.
CallFails(c) ==
  /\ call[c] # NoCall
  /\ faults < MaxFaults
  /\ CallGoes(c, NoCall)
  /\ faults' = faults + 1
  /\ UNCHANGED <<ride, driver, active, pipe>>

CallStep(c) ==
  \/ RequestCreate(c) \/ CancelCommit(c) \/ AcceptCommit(c) \/ RejectCommit(c)
  \/ OnlineCheck(c) \/ OnlineCommit(c) \/ OfflineCommit(c)
  \/ AdvanceCheck(c) \/ AdvanceCommit(c) \/ StartDispatch(c)

PassengerBegins(c) ==
  \/ \E u \in Passengers : RequestCheck(c, u)
  \/ \E r \in Rides : CancelRead(c, r)

DriverBegins(c) ==
  \/ \E kind \in {"accept", "reject"}, r \in Rides : AnswerOffer(c, kind, r)
  \/ \E d \in Drivers : OnlineBegin(c, d) \/ OfflineBegin(c, d)
  \/ \E r \in Rides, next \in RideStatus : AdvanceRead(c, r, next)

-----------------------------------------------------------------------------
(* AdminService, and the process itself.                                   *)

\* approveDriver and rejectDriver.
SetApproved(d, b) ==
  /\ "admin" \in Workload
  /\ driver' = [driver EXCEPT ![d].approved = b]
  /\ UNCHANGED <<ride, active, pipe, call, faults>>

\* setUserStatus.
SetSuspended(d, b) ==
  /\ "admin" \in Workload
  /\ driver' = [driver EXCEPT ![d].suspended = b]
  /\ UNCHANGED <<ride, active, pipe, call, faults>>

Admin ==
  \E d \in Drivers, b \in BOOLEAN : SetApproved(d, b) \/ SetSuspended(d, b)

\* The process restarts: timers, requests and activeRides are in memory only.
Crash ==
  /\ faults < MaxFaults
  /\ faults' = faults + 1
  /\ active' = {}
  /\ pipe' = [r \in Rides |-> [s \in Slots |-> NoPipe]]
  /\ call' = [c \in Calls |-> NoCall]
  /\ UNCHANGED <<ride, driver>>

Next ==
  \/ \E r \in Rides, s \in Slots : PipeStep(r, s) \/ PipeFails(r, s)
  \/ \E c \in Calls :
       PassengerBegins(c) \/ DriverBegins(c) \/ CallStep(c) \/ CallFails(c)
  \/ Admin
  \/ Crash

Spec == Init /\ [][Next]_vars

\* Timers fire and promises settle; clients promise nothing.
Fairness ==
  /\ \A r \in Rides, s \in Slots : WF_vars(PipeStep(r, s))
  /\ \A c \in Calls : WF_vars(CallStep(c))

FairSpec == Spec /\ Fairness
=============================================================================
