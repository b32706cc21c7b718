--------------------------- MODULE DispatchProofs ---------------------------
(***************************************************************************)
(* Proofs about Dispatch, for every set of rides, drivers, passengers,     *)
(* pipelines and requests, every workload and every bound.                 *)
(***************************************************************************)
EXTENDS DispatchProperties, TLAPS

-----------------------------------------------------------------------------
(* Types.                                                                  *)

\* A pipeline record built from typed parts is typed.
LEMMA PipelineType ==
  ASSUME NEW phase \in PipePhases, NEW n \in 0 .. RoundCap,
         NEW d \in Drivers \cup {None}, NEW b \in BOOLEAN
  PROVE  Pipeline(phase, n, d, b) \in PipeRecord
BY DEF Pipeline, PipeRecord

LEMMA NoPipeType == NoPipe \in PipeRecord
BY RoundsAssumption DEF NoPipe, Pipeline, PipeRecord, PipePhases

\* The fields of a pipeline, a ride and a handler have their types.
LEMMA PipeFieldType ==
  ASSUME Types, NEW r \in Rides, NEW s \in Slots
  PROVE  /\ pipe[r][s].phase \in PipePhases
         /\ pipe[r][s].round \in 0 .. RoundCap
         /\ pipe[r][s].driver \in Drivers \cup {None}
         /\ pipe[r][s].holds \in BOOLEAN
<1>1. pipe[r][s] \in PipeRecord
  BY DEF Types
<1>2. QED
  BY <1>1 DEF PipeRecord

LEMMA RideFieldType ==
  ASSUME Types, NEW r \in Rides
  PROVE  /\ ride[r].state \in Statuses
         /\ ride[r].passenger \in Passengers \cup {None}
         /\ ride[r].driver \in Drivers \cup {None}
         /\ ride[r].offer \in Offers \cup {NoOffer}
<1>1. ride[r] \in RideRecord
  BY DEF Types
<1>2. QED
  BY <1>1 DEF RideRecord

LEMMA CallFieldType ==
  ASSUME Types, NEW c \in Calls
  PROVE  /\ call[c].who \in Drivers \cup Passengers \cup {None}
         /\ call[c].ride \in Rides \cup {None}
         /\ call[c].offer \in Offers \cup {NoOffer}
         /\ call[c].next \in Statuses
         /\ call[c].todo \in SUBSET Rides
<1>1. call[c] \in CallRecord
  BY DEF Types
<1>2. QED
  BY <1>1 DEF CallRecord

\* Replacing a pipeline by a typed record keeps the types.
LEMMA SettleType ==
  ASSUME Types, NEW r \in Rides, NEW s \in Slots, NEW next \in PipeRecord,
         Settle(r, s, next)
  PROVE  pipe' \in [Rides -> [Slots -> PipeRecord]] /\ active' \subseteq Rides
BY DEF Types, Settle, PipeGoes

LEMMA AttemptType ==
  ASSUME Types, NEW r \in Rides, NEW s \in Slots,
         NEW phase \in PipePhases, NEW d \in Drivers \cup {None},
         Attempt(r, s, phase, d)
  PROVE  pipe' \in [Rides -> [Slots -> PipeRecord]] /\ active' \subseteq Rides
<1>1. pipe[r][s].round \in 0 .. RoundCap /\ pipe[r][s].holds \in BOOLEAN
  BY PipeFieldType
<1>2. Pipeline(phase, pipe[r][s].round, d, pipe[r][s].holds) \in PipeRecord
  BY <1>1, PipelineType
<1>3. QED
  BY <1>2 DEF Types, Attempt, PipeGoes

LEMMA WriteRideType ==
  ASSUME Types, NEW r \in Rides, NEW st \in Statuses,
         NEW d \in Drivers \cup {None}, NEW o \in Offers \cup {NoOffer},
         WriteRide(r, st, d, o)
  PROVE  ride' \in [Rides -> RideRecord]
BY DEF Types, WriteRide, RideRecord

LEMMA SetAvailableType ==
  ASSUME Types, NEW d \in Drivers, NEW b \in BOOLEAN, SetAvailable(d, b)
  PROVE  driver' \in [Drivers -> DriverRecord]
BY DEF Types, SetAvailable, DriverRecord

LEMMA HandlerType ==
  ASSUME NEW kind \in Endpoints \cup {"none"}, NEW phase \in CallPhases,
         NEW who \in Drivers \cup Passengers \cup {None},
         NEW r \in Rides \cup {None}, NEW o \in Offers \cup {NoOffer},
         NEW next \in Statuses, NEW todo \in SUBSET Rides
  PROVE  Handler(kind, phase, who, r, o, next, todo) \in CallRecord
BY DEF Handler, CallRecord

LEMMA NoCallType ==
  /\ NoCall \in CallRecord
  /\ \A todo \in SUBSET Rides : Starting(todo) \in CallRecord
BY DEF NoCall, Starting, Handler, CallRecord, CallPhases, Statuses

LEMMA CallGoesType ==
  ASSUME Types, NEW c \in Calls, NEW next \in CallRecord, CallGoes(c, next)
  PROVE  call' \in [Calls -> CallRecord]
BY DEF Types, CallGoes

LEMMA StartAllType ==
  ASSUME Types, NEW todo \in SUBSET Rides, StartAll(todo)
  PROVE  pipe' \in [Rides -> [Slots -> PipeRecord]] /\ active' \subseteq Rides
<1>1. Pipeline("due", 1, None, TRUE) \in PipeRecord
  BY RoundsAssumption DEF Pipeline, PipeRecord, PipePhases
<1>2. QED
  BY <1>1 DEF Types, StartAll

-----------------------------------------------------------------------------
(* How a step may change one ride.                                         *)

\* The inductive invariant: types, and the two facts about rides that keep
\* each other true.  An update by id is harmless because the ride it names is
\* still that driver's, and the ride is that driver's because no update takes
\* a settled ride away.
Inv == TypeOK /\ AssignmentConsistent /\ StaleAdvanceIsOwn

Created(r) ==
  /\ ride[r].state = "ABSENT" /\ ride[r].driver = None /\ ride[r].offer = NoOffer
  /\ ride'[r].state = "REQUESTED"
  /\ ride'[r].driver = None /\ ride'[r].offer = NoOffer

Reserved(r) ==
  /\ ride[r].state \in SearchingStates /\ ride[r].driver = None
  /\ ride'[r].state = "RESERVED" /\ ride'[r].driver \in Drivers
  /\ ride'[r].offer.driver = ride'[r].driver
  /\ ride'[r].passenger = ride[r].passenger

Released(r) ==
  /\ ride[r].state = "RESERVED"
  /\ ride'[r].state = "MATCHING"
  /\ ride'[r].driver = None /\ ride'[r].offer = NoOffer
  /\ ride'[r].passenger = ride[r].passenger

Settled(r) ==
  /\ ride[r].state # "ABSENT"
  /\ ride'[r].state \in SettledStates
  /\ ride'[r].state \in AssignedActiveStates => ride[r].driver # None
  /\ ride'[r].driver = ride[r].driver /\ ride'[r].offer = ride[r].offer
  /\ ride'[r].passenger = ride[r].passenger

RideMoves(r) ==
  \/ ride'[r] = ride[r]
  \/ Created(r) \/ Reserved(r) \/ Released(r) \/ Settled(r)

\* Writing one ride leaves the others alone.
LEMMA WriteRideEffect ==
  ASSUME Types, NEW q \in Rides, NEW st, NEW d, NEW o, WriteRide(q, st, d, o),
         NEW r \in Rides
  PROVE  /\ r # q => ride'[r] = ride[r]
         /\ ride'[q].state = st /\ ride'[q].driver = d /\ ride'[q].offer = o
         /\ ride'[q].passenger = ride[q].passenger
BY DEF Types, WriteRide

\* A step of a pipeline moves its ride in one of these ways, if at all.
LEMMA PipeStepMovesRide ==
  ASSUME Inv, NEW q \in Rides, NEW s \in Slots, PipeStep(q, s), NEW r \in Rides
  PROVE  RideMoves(r)
<1> USE DEF RideMoves
<1>0. Types /\ PipeWellFormed(q, s)
  BY DEF Inv, TypeOK
<1>1. CASE Reserve(q, s)
  <2>1. ASSUME CanReserve(q, pipe[q][s].driver)
        PROVE  RideMoves(r)
    <3>1. pipe[q][s].driver \in Drivers
      BY <1>0, <1>1 DEF Reserve, PipeWellFormed
    <3>2. WriteRide(q, "RESERVED", pipe[q][s].driver,
                    OfferOf(pipe[q][s].driver, pipe[q][s].round))
      BY <1>1, <2>1 DEF Reserve
    <3>3. r = q => Reserved(r)
      BY <1>0, <2>1, <3>1, <3>2, WriteRideEffect DEF CanReserve, Reserved, OfferOf
    <3>4. QED
      BY <1>0, <3>2, <3>3, WriteRideEffect
  <2>2. CASE ~CanReserve(q, pipe[q][s].driver)
    BY <1>1, <2>2 DEF Reserve
  <2>3. QED
    BY <2>1, <2>2
<1>2. CASE GiveUp(q, s)
  <2>1. WriteRide(q, "FAILED", ride[q].driver, ride[q].offer)
    BY <1>2 DEF GiveUp
  <2>2. ride[q].state # "ABSENT"
    BY <1>0, <1>2 DEF GiveUp, PipeWellFormed
  <2>3. r = q => Settled(r)
    BY <1>0, <2>1, <2>2, WriteRideEffect DEF Settled, SettledStates, RideStatus,
       TerminalStates, AssignedActiveStates
  <2>4. QED
    BY <1>0, <2>1, <2>3, WriteRideEffect
<1>3. CASE ExpireOffer(q, s)
  <2>1. CASE OfferStands(q, s)
    <3>1. WriteRide(q, "MATCHING", None, NoOffer)
      BY <1>3, <2>1 DEF ExpireOffer
    <3>2. r = q => Released(r)
      BY <1>0, <2>1, <3>1, WriteRideEffect DEF Released, OfferStands
    <3>3. QED
      BY <1>0, <3>1, <3>2, WriteRideEffect
  <2>2. CASE ~OfferStands(q, s)
    BY <1>3, <2>2 DEF ExpireOffer
  <2>3. QED
    BY <2>1, <2>2
<1>4. CASE UNCHANGED ride
  BY <1>4
<1>5. QED
  BY <1>1, <1>2, <1>3, <1>4 DEF PipeStep, ReadRide, FindDriver, SendOffer,
     ReportFailure, OfferTimeout, Requeue

\* So does a step of a request: its writes are guarded by the ride's status, or
\* (updateState) covered by StaleAdvanceIsOwn.
LEMMA CallStepMovesRide ==
  ASSUME Inv, NEW c \in Calls, CallStep(c), NEW r \in Rides
  PROVE  RideMoves(r)
<1> USE DEF RideMoves
<1> DEFINE q == call[c].ride
<1>0. Types /\ CallWellFormed(c)
  BY DEF Inv, TypeOK
<1>1. CASE RequestCreate(c)
  <2>1. PICK n \in Rides :
          /\ ride[n] = NoRide
          /\ ride' = [ride EXCEPT ![n] =
                        [state |-> "REQUESTED", passenger |-> call[c].who,
                         driver |-> None, offer |-> NoOffer]]
    BY <1>1 DEF RequestCreate
  <2>2. r = n => Created(r)
    BY <1>0, <2>1 DEF Types, Created, NoRide
  <2>3. QED
    BY <1>0, <2>1, <2>2 DEF Types
<1>2. CASE CancelCommit(c)
  <2>1. q \in Rides
    BY <1>0, <1>2 DEF CancelCommit, At, CallWellFormed
  <2>2. ASSUME WriteRide(q, "CANCELLED", ride[q].driver, ride[q].offer),
               ride[q].state \in ActiveRideStates
        PROVE  RideMoves(r)
    <3>1. r = q => Settled(r)
      BY <1>0, <2>1, <2>2, WriteRideEffect DEF Settled, SettledStates, RideStatus,
         TerminalStates, ActiveRideStates, SearchingStates, AssignedActiveStates
    <3>2. QED
      BY <1>0, <2>1, <2>2, <3>1, WriteRideEffect
  <2>3. QED
    BY <1>2, <2>2 DEF CancelCommit
<1>3. CASE AcceptCommit(c)
  <2>1. q \in Rides /\ call[c].who \in Drivers
    BY <1>0, <1>3 DEF AcceptCommit, At, CallWellFormed
  <2>2. ASSUME WriteRide(q, "OFFERED", ride[q].driver, ride[q].offer), AnswerHolds(c)
        PROVE  RideMoves(r)
    <3>1. ride[q].driver # None /\ ride[q].state = "RESERVED"
      BY <2>1, <2>2, NoneAssumption DEF AnswerHolds
    <3>2. r = q => Settled(r)
      BY <1>0, <2>1, <2>2, <3>1, WriteRideEffect DEF Settled, SettledStates,
         RideStatus, ActiveRideStates, AssignedActiveStates
    <3>3. QED
      BY <1>0, <2>1, <2>2, <3>2, WriteRideEffect
  <2>3. QED
    BY <1>3, <2>2 DEF AcceptCommit
<1>4. CASE RejectCommit(c)
  <2>1. q \in Rides
    BY <1>0, <1>4 DEF RejectCommit, At, CallWellFormed
  <2>2. ASSUME WriteRide(q, "MATCHING", None, NoOffer), AnswerHolds(c)
        PROVE  RideMoves(r)
    <3>1. r = q => Released(r)
      BY <1>0, <2>1, <2>2, WriteRideEffect DEF Released, AnswerHolds
    <3>2. QED
      BY <1>0, <2>1, <2>2, <3>1, WriteRideEffect
  <2>3. QED
    BY <1>4, <2>2 DEF RejectCommit
<1>5. CASE OfflineCommit(c)
  <2> DEFINE R == {x \in Rides : ride[x].driver = call[c].who
                                  /\ ride[x].state = "RESERVED"}
  <2>1. ride' = [x \in Rides |->
                   IF x \in R
                     THEN [state |-> "MATCHING", passenger |-> ride[x].passenger,
                           driver |-> None, offer |-> NoOffer]
                     ELSE ride[x]]
    BY <1>5 DEF OfflineCommit
  <2>2. r \in R => Released(r)
    BY <2>1 DEF Released
  <2>3. QED
    BY <2>1, <2>2
<1>6. CASE AdvanceCommit(c)
  <2>1. q \in Rides /\ call[c].next \in SettledStates /\ call[c].kind = "advance"
    BY <1>0, <1>6 DEF AdvanceCommit, At, CallWellFormed
  <2>2. ride[q].driver # None /\ ride[q].state # "ABSENT"
    BY <2>1 DEF Inv, StaleAdvanceIsOwn, SettledStates, RideStatus, TerminalStates,
       ActiveRideStates, SearchingStates, AssignedActiveStates
  <2>3. WriteRide(q, call[c].next, ride[q].driver, ride[q].offer)
    BY <1>6 DEF AdvanceCommit
  <2>4. r = q => Settled(r)
    BY <1>0, <2>1, <2>2, <2>3, WriteRideEffect DEF Settled
  <2>5. QED
    BY <1>0, <2>1, <2>3, <2>4, WriteRideEffect
<1>7. CASE UNCHANGED ride
  BY <1>7
<1>8. QED
  BY <1>1, <1>2, <1>3, <1>4, <1>5, <1>6, <1>7 DEF CallStep, OnlineCheck,
     OnlineCommit, AdvanceCheck, StartDispatch

LEMMA StepMovesRide ==
  ASSUME Inv, [Next]_vars, NEW r \in Rides
  PROVE  RideMoves(r)
<1>1. CASE \E q \in Rides, s \in Slots : PipeStep(q, s)
  BY <1>1, PipeStepMovesRide
<1>2. CASE \E c \in Calls : CallStep(c)
  BY <1>2, CallStepMovesRide
<1>3. CASE UNCHANGED ride
  BY <1>3 DEF RideMoves
<1>4. QED
  BY <1>1, <1>2, <1>3 DEF Next, vars, PipeFails, PassengerBegins, RequestCheck,
     CancelRead, DriverBegins, AnswerOffer, OnlineBegin, OfflineBegin, AdvanceRead,
     CallFails, Admin, SetApproved, SetSuspended, Crash

\* A ride that exists goes on existing, and a settled ride stays settled with
\* its driver.
LEMMA RideStays ==
  ASSUME Inv, [Next]_vars, NEW r \in Rides
  PROVE  /\ ride[r].state # "ABSENT" => ride'[r].state # "ABSENT"
         /\ ride[r].state \in SettledStates =>
              /\ ride'[r].state \in SettledStates
              /\ ride'[r].driver = ride[r].driver
              /\ ride'[r].passenger = ride[r].passenger
BY StepMovesRide DEF RideMoves, Created, Reserved, Released, Settled, SettledStates,
   RideStatus, ActiveRideStates, SearchingStates, AssignedActiveStates, TerminalStates

LEMMA ConsistencyStep ==
  ASSUME Inv, [Next]_vars
  PROVE  AssignmentConsistent'
<1> SUFFICES ASSUME NEW r \in Rides
             PROVE  (/\ ride[r].state \in SearchingStates => ride[r].driver = None
                     /\ ride[r].state \in AssignedActiveStates => ride[r].driver # None
                     /\ ride[r].offer.driver = ride[r].driver)'
  BY DEF AssignmentConsistent
<1>1. /\ ride[r].state \in SearchingStates => ride[r].driver = None
      /\ ride[r].state \in AssignedActiveStates => ride[r].driver # None
      /\ ride[r].offer.driver = ride[r].driver
  BY DEF Inv, AssignmentConsistent
<1>2. CASE ride'[r] = ride[r]
  BY <1>1, <1>2
<1>3. CASE Created(r)
  BY <1>3 DEF Created, NoOffer, SearchingStates, AssignedActiveStates
<1>4. CASE Reserved(r)
  BY <1>4, NoneAssumption DEF Reserved, SearchingStates
<1>5. CASE Released(r)
  BY <1>5 DEF Released, NoOffer, SearchingStates, AssignedActiveStates
<1>6. CASE Settled(r)
  BY <1>1, <1>6 DEF Settled, SettledStates, SearchingStates
<1>7. QED
  BY StepMovesRide, <1>2, <1>3, <1>4, <1>5, <1>6 DEF RideMoves

-----------------------------------------------------------------------------
(* How a step may change one request.                                      *)

\* A handler changes its own request only.
LEMMA CallGoesEffect ==
  ASSUME Types, NEW c \in Calls, NEW next, CallGoes(c, next), NEW b \in Calls
  PROVE  call'[b] = IF b = c THEN next ELSE call[b]
BY DEF Types, CallGoes

\* The new value of a request is well formed, or the request is unchanged; an
\* "advance" request names a ride that was the driver's when it was read.
FreshCall(c) ==
  /\ CallWellFormed(c)'
  /\ call'[c].kind = "advance" =>
       /\ ride' = ride
       /\ ride[call'[c].ride].driver = call'[c].who
       /\ ride[call'[c].ride].driver # None
       /\ ride[call'[c].ride].state \in SettledStates

LEMMA NoCallIsFresh ==
  ASSUME Types, NEW c \in Calls, CallGoes(c, NoCall)
  PROVE  FreshCall(c)
BY CallGoesEffect DEF FreshCall, CallWellFormed, NoCall, Handler

LEMMA StartingIsFresh ==
  ASSUME Types, NEW c \in Calls, NEW todo, CallGoes(c, Starting(todo)),
         \A r \in todo : ride'[r].state # "ABSENT"
  PROVE  FreshCall(c)
BY CallGoesEffect DEF FreshCall, CallWellFormed, Starting, Handler

LEMMA BeginIsFresh ==
  ASSUME Inv, NEW c \in Calls, PassengerBegins(c) \/ DriverBegins(c)
  PROVE  FreshCall(c)
<1>0. Types
  BY DEF Inv, TypeOK
<1>1. CASE \E u \in Passengers : RequestCheck(c, u)
  BY <1>0, <1>1, CallGoesEffect DEF RequestCheck, FreshCall, CallWellFormed, Handler
<1>2. CASE \E r \in Rides : CancelRead(c, r)
  BY <1>0, <1>2, CallGoesEffect DEF CancelRead, FreshCall, CallWellFormed, Handler
<1>3. CASE \E kind \in {"accept", "reject"}, r \in Rides : AnswerOffer(c, kind, r)
  <2>1. PICK kind \in {"accept", "reject"}, r \in Rides : AnswerOffer(c, kind, r)
    BY <1>3
  <2>2. ride[r].driver \in Drivers
    BY <1>0, <2>1, RideFieldType DEF AnswerOffer, Inv, AssignmentConsistent,
       AssignedActiveStates
  <2>3. QED
    BY <1>0, <2>1, <2>2, CallGoesEffect DEF AnswerOffer, FreshCall, CallWellFormed,
       Handler
<1>4. CASE \E d \in Drivers : OnlineBegin(c, d) \/ OfflineBegin(c, d)
  BY <1>0, <1>4, CallGoesEffect DEF OnlineBegin, OfflineBegin, FreshCall,
     CallWellFormed, Handler
<1>5. CASE \E r \in Rides, next \in RideStatus : AdvanceRead(c, r, next)
  <2>1. PICK r \in Rides, next \in RideStatus : AdvanceRead(c, r, next)
    BY <1>5
  <2>2. ride[r].driver \in Drivers /\ ride[r].driver # None
    BY <1>0, <2>1, RideFieldType DEF AdvanceRead
  <2>3. ride[r].state \in SettledStates /\ next \in SettledStates
    BY <2>1 DEF AdvanceRead, IsDriverForwardTransition, DriverForward, SettledStates,
       RideStatus, ActiveRideStates, AssignedActiveStates, TerminalStates
  <2>4. QED
    BY <1>0, <2>1, <2>2, <2>3, CallGoesEffect DEF AdvanceRead, FreshCall,
       CallWellFormed, Handler
<1>6. QED
  BY <1>1, <1>2, <1>3, <1>4, <1>5 DEF PassengerBegins, DriverBegins

LEMMA CallStepIsFresh ==
  ASSUME Inv, NEW c \in Calls, CallStep(c)
  PROVE  FreshCall(c)
<1>0. Types /\ CallWellFormed(c)
  BY DEF Inv, TypeOK
<1>1. CASE CallGoes(c, NoCall)
  BY <1>0, <1>1, NoCallIsFresh
<1>2. CASE RequestCreate(c)
  <2>1. PICK n \in Rides :
          /\ ride' = [ride EXCEPT ![n] =
                        [state |-> "REQUESTED", passenger |-> call[c].who,
                         driver |-> None, offer |-> NoOffer]]
          /\ CallGoes(c, Starting({n}))
    BY <1>2 DEF RequestCreate
  <2>2. ride'[n].state # "ABSENT"
    BY <1>0, <2>1 DEF Types
  <2>3. QED
    BY <1>0, <2>1, <2>2, StartingIsFresh
<1>3. CASE RejectCommit(c) /\ AnswerHolds(c)
  <2>1. call[c].ride \in Rides
    BY <1>0, <1>3 DEF RejectCommit, At, CallWellFormed
  <2>2. /\ WriteRide(call[c].ride, "MATCHING", None, NoOffer)
        /\ CallGoes(c, Starting({call[c].ride}))
    BY <1>3 DEF RejectCommit
  <2>3. ride'[call[c].ride].state # "ABSENT"
    BY <1>0, <2>1, <2>2, WriteRideEffect
  <2>4. QED
    BY <1>0, <2>2, <2>3, StartingIsFresh
<1>4. CASE OfflineCommit(c)
  <2> DEFINE R == {x \in Rides : ride[x].driver = call[c].who
                                  /\ ride[x].state = "RESERVED"}
  <2>1. \A x \in R : ride'[x].state # "ABSENT"
    BY <1>4 DEF OfflineCommit
  <2>2. CallGoes(c, NoCall) \/ CallGoes(c, Starting(R))
    BY <1>4 DEF OfflineCommit
  <2> HIDE DEF R
  <2>3. QED
    BY <1>0, <1>1, <2>1, <2>2, StartingIsFresh
<1>5. CASE OnlineCheck(c)
  BY <1>0, <1>1, <1>5, CallGoesEffect DEF OnlineCheck, FreshCall, CallWellFormed,
     Handler, At
<1>6. CASE AdvanceCheck(c) /\ ~CallGoes(c, NoCall)
  <2>1. call[c].kind = "advance" /\ ride' = ride
    BY <1>6 DEF AdvanceCheck, At
  <2>2. CallGoes(c, Handler("advance", "commit", call[c].who, call[c].ride, NoOffer,
                            call[c].next, {}))
    BY <1>6 DEF AdvanceCheck
  <2>3. call'[c] = Handler("advance", "commit", call[c].who, call[c].ride, NoOffer,
                           call[c].next, {})
    BY <1>0, <2>2, CallGoesEffect
  <2>4. /\ call[c].ride \in Rides /\ call[c].who \in Drivers
        /\ call[c].next \in SettledStates
    BY <1>0, <2>1 DEF CallWellFormed
  <2>5. CallWellFormed(c)'
    BY <2>3, <2>4 DEF CallWellFormed, Handler
  <2>6. QED
    BY <2>1, <2>3, <2>5 DEF FreshCall, Handler, Inv, StaleAdvanceIsOwn
<1>7. QED
  BY <1>1, <1>2, <1>3, <1>4, <1>5, <1>6 DEF CallStep, CancelCommit, AcceptCommit,
     RejectCommit, OnlineCommit, AdvanceCommit, StartDispatch

LEMMA StepMovesCall ==
  ASSUME Inv, [Next]_vars, NEW c \in Calls
  PROVE  call'[c] = call[c] \/ FreshCall(c)
<1>0. Types
  BY DEF Inv, TypeOK
<1>1. CASE \E b \in Calls : PassengerBegins(b) \/ DriverBegins(b) \/ CallStep(b)
  <2>1. PICK b \in Calls : PassengerBegins(b) \/ DriverBegins(b) \/ CallStep(b)
    BY <1>1
  <2>2. \E next : CallGoes(b, next)
    BY <2>1 DEF PassengerBegins, RequestCheck, CancelRead, DriverBegins, AnswerOffer,
       OnlineBegin, OfflineBegin, AdvanceRead, CallStep, RequestCreate, CancelCommit,
       AcceptCommit, RejectCommit, OnlineCheck, OnlineCommit, OfflineCommit,
       AdvanceCheck, AdvanceCommit, StartDispatch
  <2>3. b # c => call'[c] = call[c]
    BY <1>0, <2>2, CallGoesEffect
  <2>4. FreshCall(b)
    BY <2>1, BeginIsFresh, CallStepIsFresh
  <2>5. QED
    BY <2>3, <2>4
<1>2. CASE \E b \in Calls : CallFails(b)
  BY <1>0, <1>2, NoCallIsFresh, CallGoesEffect DEF CallFails
<1>3. CASE Crash
  BY <1>3 DEF Crash, FreshCall, CallWellFormed, NoCall, Handler
<1>4. CASE UNCHANGED call
  BY <1>4
<1>5. ASSUME NEW r \in Rides, NEW s \in Slots, PipeStep(r, s) \/ PipeFails(r, s)
      PROVE  UNCHANGED call
  BY <1>5 DEF PipeStep, ReadRide, FindDriver, Reserve, SendOffer, GiveUp,
     ReportFailure, OfferTimeout, ExpireOffer, Requeue, PipeFails
<1>6. Admin => UNCHANGED call
  BY DEF Admin, SetApproved, SetSuspended
<1>7. QED
  BY <1>1, <1>2, <1>3, <1>4, <1>5, <1>6 DEF Next, vars

LEMMA CallWellFormedStep ==
  ASSUME Inv, [Next]_vars, NEW c \in Calls
  PROVE  CallWellFormed(c)'
<1>1. CASE FreshCall(c)
  BY <1>1 DEF FreshCall
<1>2. CASE call'[c] = call[c]
  <2>1. CallWellFormed(c) /\ call[c].todo \subseteq Rides
    BY CallFieldType DEF Inv, TypeOK
  <2>2. \A r \in call[c].todo : ride'[r].state # "ABSENT"
    BY <2>1, RideStays DEF CallWellFormed
  <2>3. QED
    BY <1>2, <2>1, <2>2 DEF CallWellFormed
<1>3. QED
  BY <1>1, <1>2, StepMovesCall

LEMMA StaleAdvanceStep ==
  ASSUME Inv, [Next]_vars
  PROVE  StaleAdvanceIsOwn'
<1> SUFFICES ASSUME NEW c \in Calls, call'[c].kind = "advance"
             PROVE  /\ ride'[call'[c].ride].driver = call'[c].who
                    /\ ride'[call'[c].ride].driver # None
                    /\ ride'[call'[c].ride].state \in SettledStates
  BY DEF StaleAdvanceIsOwn
<1>1. CASE FreshCall(c)
  BY <1>1 DEF FreshCall
<1>2. CASE call'[c] = call[c]
  <2>1. call[c].ride \in Rides
    BY <1>2 DEF Inv, TypeOK, CallWellFormed
  <2>2. QED
    BY <1>2, <2>1, RideStays DEF Inv, StaleAdvanceIsOwn
<1>3. QED
  BY <1>1, <1>2, StepMovesCall

-----------------------------------------------------------------------------
(* How a step may change one pipeline.                                     *)

LEMMA PipeGoesEffect ==
  ASSUME Types, NEW q \in Rides, NEW t \in Slots, NEW next, PipeGoes(q, t, next),
         NEW r \in Rides, NEW s \in Slots
  PROVE  pipe'[r][s] = IF r = q /\ s = t THEN next ELSE pipe[r][s]
BY DEF Types, PipeGoes

\* An attempt that goes on is well formed if its new phase has what it needs.
LEMMA AttemptWellFormed ==
  ASSUME Inv, [Next]_vars, NEW r \in Rides, NEW s \in Slots, NEW phase, NEW d,
         Attempt(r, s, phase, d), pipe[r][s].phase # "idle",
         phase \in {"reserve", "offer", "armed", "expire"} => d \in Drivers,
         phase \in {"expire", "requeue"} => pipe[r][s].round < RoundCap
  PROVE  PipeWellFormed(r, s)'
<1>1. Types /\ PipeWellFormed(r, s)
  BY DEF Inv, TypeOK
<1>2. pipe'[r][s] = Pipeline(phase, pipe[r][s].round, d, pipe[r][s].holds)
  BY <1>1, PipeGoesEffect DEF Attempt
<1>3. ride'[r].state # "ABSENT"
  BY <1>1, RideStays DEF PipeWellFormed
<1>4. QED
  BY <1>1, <1>2, <1>3 DEF PipeWellFormed, Pipeline

\* So is what an attempt leaves behind when it returns.
LEMMA LeftWellFormed ==
  ASSUME Inv, [Next]_vars, NEW r \in Rides, NEW s \in Slots, NEW next,
         PipeGoes(r, s, next), pipe[r][s].phase # "idle",
         next.phase \in {"idle", "due", "armed"},
         next.phase # "idle" => next.round >= 1,
         next.phase = "armed" => next.driver \in Drivers
  PROVE  PipeWellFormed(r, s)'
<1>1. Types /\ PipeWellFormed(r, s)
  BY DEF Inv, TypeOK
<1>2. pipe'[r][s] = next
  BY <1>1, PipeGoesEffect
<1>3. ride'[r].state # "ABSENT"
  BY <1>1, RideStays DEF PipeWellFormed
<1>4. QED
  BY <1>2, <1>3 DEF PipeWellFormed

LEMMA PipeStepWellFormed ==
  ASSUME Inv, [Next]_vars, NEW r \in Rides, NEW s \in Slots,
         PipeStep(r, s) \/ PipeFails(r, s)
  PROVE  PipeWellFormed(r, s)'
<1>0. /\ Types /\ PipeWellFormed(r, s)
      /\ pipe[r][s].round \in 0 .. RoundCap
  BY PipeFieldType DEF Inv, TypeOK
<1>1. ASSUME pipe[r][s].phase # "idle", Settle(r, s, NoPipe)
      PROVE  PipeWellFormed(r, s)'
  <2>1. PipeGoes(r, s, NoPipe) /\ NoPipe.phase = "idle"
    BY <1>1 DEF Settle, NoPipe, Pipeline
  <2>2. QED
    BY <1>1, <2>1, LeftWellFormed
<1>2. CASE ReadRide(r, s)
  BY <1>1, <1>2, AttemptWellFormed DEF ReadRide
<1>3. CASE FindDriver(r, s)
  <2>1. CASE \E d \in Drivers : Attempt(r, s, "reserve", d)
    BY <1>3, <2>1, AttemptWellFormed DEF FindDriver
  <2>2. CASE Settle(r, s, Pipeline("due", pipe[r][s].round + 1, None, FALSE))
    <3> DEFINE next == Pipeline("due", pipe[r][s].round + 1, None, FALSE)
    <3>1. PipeGoes(r, s, next) /\ next.phase = "due" /\ next.round >= 1
      BY <1>0, <2>2, RoundsAssumption DEF Settle, Pipeline
    <3> HIDE DEF next
    <3>2. QED
      BY <1>3, <3>1, LeftWellFormed DEF FindDriver
  <2>3. CASE Attempt(r, s, "giveup", None)
    BY <1>3, <2>3, AttemptWellFormed DEF FindDriver
  <2>4. QED
    BY <1>3, <2>1, <2>2, <2>3 DEF FindDriver
<1>4. CASE Reserve(r, s)
  BY <1>0, <1>1, <1>4, AttemptWellFormed DEF Reserve, PipeWellFormed
<1>5. CASE SendOffer(r, s)
  <2> DEFINE next == Pipeline("armed", pipe[r][s].round, pipe[r][s].driver, FALSE)
  <2>1. /\ PipeGoes(r, s, next) /\ next.phase = "armed" /\ next.round >= 1
        /\ next.driver \in Drivers
    BY <1>0, <1>5 DEF SendOffer, Settle, PipeWellFormed, Pipeline
  <2> HIDE DEF next
  <2>2. QED
    BY <1>5, <2>1, LeftWellFormed DEF SendOffer
<1>6. CASE GiveUp(r, s)
  BY <1>6, AttemptWellFormed DEF GiveUp
<1>7. CASE ReportFailure(r, s)
  BY <1>1, <1>7 DEF ReportFailure
<1>8. CASE OfferTimeout(r, s)
  BY <1>0, <1>1, <1>8, AttemptWellFormed DEF OfferTimeout, PipeWellFormed
<1>9. CASE ExpireOffer(r, s)
  BY <1>0, <1>9, AttemptWellFormed DEF ExpireOffer, PipeWellFormed
<1>10. CASE Requeue(r, s)
  <2> DEFINE next == Pipeline("due", pipe[r][s].round + 1, None, TRUE)
  <2>1. PipeGoes(r, s, next) /\ next.phase = "due" /\ next.round >= 1
    BY <1>0, <1>10, RoundsAssumption DEF Requeue, Pipeline
  <2> HIDE DEF next
  <2>2. QED
    BY <1>10, <2>1, LeftWellFormed DEF Requeue
<1>11. CASE PipeFails(r, s)
  BY <1>1, <1>11 DEF PipeFails
<1>12. QED
  BY <1>2, <1>3, <1>4, <1>5, <1>6, <1>7, <1>8, <1>9, <1>10, <1>11 DEF PipeStep

LEMMA PipeWellFormedStep ==
  ASSUME Inv, [Next]_vars, NEW r \in Rides, NEW s \in Slots
  PROVE  PipeWellFormed(r, s)'
<1>0. Types /\ PipeWellFormed(r, s)
  BY DEF Inv, TypeOK
<1>1. CASE pipe'[r][s] = pipe[r][s]
  BY <1>0, <1>1, RideStays DEF PipeWellFormed
<1>2. ASSUME NEW q \in Rides, NEW t \in Slots, PipeStep(q, t) \/ PipeFails(q, t)
      PROVE  PipeWellFormed(r, s)'
  <2>1. CASE q = r /\ t = s
    BY <1>2, <2>1, PipeStepWellFormed
  <2>2. CASE ~(q = r /\ t = s)
    <3>1. \E next : PipeGoes(q, t, next)
      BY <1>2 DEF PipeStep, ReadRide, FindDriver, Reserve, SendOffer, GiveUp,
         ReportFailure, OfferTimeout, ExpireOffer, Requeue, PipeFails, Settle, Attempt
    <3>2. pipe'[r][s] = pipe[r][s]
      BY <1>0, <2>2, <3>1, PipeGoesEffect
    <3>3. QED
      BY <1>1, <3>2
  <2>3. QED
    BY <2>1, <2>2
<1>3. ASSUME NEW c \in Calls, StartDispatch(c)
      PROVE  PipeWellFormed(r, s)'
  <2>1. CASE r \in call[c].todo
    <3>1. ride'[r].state # "ABSENT"
      BY <2>1, RideStays DEF Inv, TypeOK, CallWellFormed
    <3>2. pipe'[r][s] = pipe[r][s] \/ pipe'[r][s] = Pipeline("due", 1, None, TRUE)
      BY <1>0, <1>3 DEF StartDispatch, StartAll, Types
    <3>3. QED
      BY <1>1, <3>1, <3>2 DEF PipeWellFormed, Pipeline
  <2>2. CASE r \notin call[c].todo
    BY <1>1, <1>3, <2>2 DEF StartDispatch, StartAll
  <2>3. QED
    BY <2>1, <2>2
<1>4. CASE Crash
  BY <1>4 DEF Crash, PipeWellFormed, NoPipe, Pipeline
<1>5. ASSUME NEW c \in Calls, PassengerBegins(c) \/ DriverBegins(c) \/ CallFails(c)
      PROVE  UNCHANGED pipe
  BY <1>5 DEF PassengerBegins, RequestCheck, CancelRead, DriverBegins, AnswerOffer,
     OnlineBegin, OfflineBegin, AdvanceRead, CallFails
<1>6. ASSUME NEW c \in Calls, CallStep(c)
      PROVE  StartDispatch(c) \/ UNCHANGED pipe
  BY <1>6 DEF CallStep, RequestCreate, CancelCommit, AcceptCommit, RejectCommit,
     OnlineCheck, OnlineCommit, OfflineCommit, AdvanceCheck, AdvanceCommit
<1>7. Admin => UNCHANGED pipe
  BY DEF Admin, SetApproved, SetSuspended
<1>8. QED
  BY <1>1, <1>2, <1>3, <1>4, <1>5, <1>6, <1>7 DEF Next, vars

-----------------------------------------------------------------------------
(* Types are preserved.                                                    *)

LEMMA PipeStepTypes ==
  ASSUME Inv, NEW r \in Rides, NEW s \in Slots, PipeStep(r, s) \/ PipeFails(r, s)
  PROVE  Types'
<1>0. /\ Types /\ PipeWellFormed(r, s)
      /\ pipe[r][s].round \in 0 .. RoundCap
      /\ pipe[r][s].driver \in Drivers \cup {None}
      /\ RoundCap \in Nat /\ MaxRounds \in Nat /\ MaxRounds <= RoundCap
  BY PipeFieldType, RoundsAssumption DEF Inv, TypeOK
<1>1. /\ ride[r].driver \in Drivers \cup {None}
      /\ ride[r].offer \in Offers \cup {NoOffer}
  BY <1>0, RideFieldType
<1> DEFINE Moves == pipe' \in [Rides -> [Slots -> PipeRecord]] /\ active' \subseteq Rides
           Stays == UNCHANGED <<ride, driver, call, faults>>
<1>2. Stays /\ Moves => Types'
  BY <1>0 DEF Types
<1>3. Settle(r, s, NoPipe) => Moves
  BY <1>0, NoPipeType, SettleType
<1>4. ASSUME NEW phase \in PipePhases, NEW d \in Drivers \cup {None},
             Attempt(r, s, phase, d)
      PROVE  Moves
  BY <1>0, <1>4, AttemptType
<1>5. {"match", "reserve", "offer", "giveup", "report", "expire", "requeue"}
        \subseteq PipePhases
  BY DEF PipePhases
<1> HIDE DEF Moves
<1>6. CASE ReadRide(r, s)
  BY <1>2, <1>3, <1>4, <1>5, <1>6 DEF ReadRide
<1>7. CASE FindDriver(r, s)
  <2>1. CASE Settle(r, s, Pipeline("due", pipe[r][s].round + 1, None, FALSE))
             /\ pipe[r][s].round < MaxRounds
    <3>1. pipe[r][s].round + 1 \in 0 .. RoundCap
      BY <1>0, <2>1
    <3>2. Pipeline("due", pipe[r][s].round + 1, None, FALSE) \in PipeRecord
      BY <3>1, PipelineType DEF PipePhases
    <3>3. Moves
      BY <1>0, <2>1, <3>2, SettleType DEF Moves
    <3>4. QED
      BY <1>2, <1>7, <3>3 DEF FindDriver
  <2>2. QED
    BY <1>2, <1>4, <1>5, <1>7, <2>1 DEF FindDriver
<1>8. CASE Reserve(r, s)
  <2> DEFINE d == pipe[r][s].driver
  <2>1. d \in Drivers /\ OfferOf(d, pipe[r][s].round) \in Offers
    BY <1>0, <1>8 DEF Reserve, PipeWellFormed, OfferOf, Offers
  <2>2. Moves
    BY <1>3, <1>4, <1>5, <1>8, <2>1 DEF Reserve
  <2>3. CASE /\ SetAvailable(d, FALSE)
             /\ WriteRide(r, "RESERVED", d, OfferOf(d, pipe[r][s].round))
    <3>1. "RESERVED" \in Statuses
      BY DEF Statuses, RideStatus, ActiveRideStates, SearchingStates,
         AssignedActiveStates, TerminalStates
    <3>2. ride' \in [Rides -> RideRecord] /\ driver' \in [Drivers -> DriverRecord]
      BY <1>0, <2>1, <2>3, <3>1, WriteRideType, SetAvailableType
    <3>3. QED
      BY <1>0, <1>8, <2>2, <3>2 DEF Reserve, Types, Moves
  <2>4. QED
    BY <1>2, <1>8, <2>2, <2>3 DEF Reserve
<1>9. CASE SendOffer(r, s)
  <2>1. Pipeline("armed", pipe[r][s].round, pipe[r][s].driver, FALSE) \in PipeRecord
    BY <1>0, PipelineType DEF PipePhases
  <2>2. Moves
    BY <1>0, <1>9, <2>1, SettleType DEF SendOffer, Moves
  <2>3. QED
    BY <1>2, <1>9, <2>2 DEF SendOffer
<1>10. CASE GiveUp(r, s)
  <2>1. "FAILED" \in Statuses
    BY DEF Statuses, RideStatus, TerminalStates
  <2>2. Moves /\ ride' \in [Rides -> RideRecord]
    BY <1>0, <1>1, <1>4, <1>5, <1>10, <2>1, WriteRideType DEF GiveUp
  <2>3. QED
    BY <1>0, <1>10, <2>2 DEF GiveUp, Types, Moves
<1>11. CASE ReportFailure(r, s)
  BY <1>2, <1>3, <1>11 DEF ReportFailure
<1>12. CASE OfferTimeout(r, s)
  BY <1>0, <1>2, <1>3, <1>4, <1>5, <1>12 DEF OfferTimeout
<1>13. CASE ExpireOffer(r, s)
  <2> DEFINE d == pipe[r][s].driver
  <2>1. Moves
    BY <1>4, <1>5, <1>13 DEF ExpireOffer
  <2>2. CASE /\ WriteRide(r, "MATCHING", None, NoOffer)
             /\ SetAvailable(d, driver[d].available \/ driver[d].approved)
    <3>1. "MATCHING" \in Statuses
      BY DEF Statuses, RideStatus, ActiveRideStates, SearchingStates,
         AssignedActiveStates
    <3>2. d \in Drivers
      BY <1>0, <1>13 DEF ExpireOffer, PipeWellFormed
    <3>3. (driver[d].available \/ driver[d].approved) \in BOOLEAN
      BY <1>0, <3>2 DEF Types, DriverRecord
    <3>4. ride' \in [Rides -> RideRecord]
      BY <1>0, <2>2, <3>1, WriteRideType
    <3>5. driver' \in [Drivers -> DriverRecord]
      BY <1>0, <2>2, <3>2, <3>3, SetAvailableType
    <3>6. QED
      BY <1>0, <1>13, <2>1, <3>4, <3>5 DEF ExpireOffer, Types, Moves
  <2>3. QED
    BY <1>2, <1>13, <2>1, <2>2 DEF ExpireOffer
<1>14. CASE Requeue(r, s)
  <2>1. pipe[r][s].round + 1 \in 0 .. RoundCap
    BY <1>0, <1>14 DEF Requeue, PipeWellFormed
  <2>2. Pipeline("due", pipe[r][s].round + 1, None, TRUE) \in PipeRecord
    BY <2>1, PipelineType DEF PipePhases
  <2>3. Moves
    BY <1>0, <1>14, <2>2 DEF Requeue, PipeGoes, Types, Moves
  <2>4. QED
    BY <1>2, <1>14, <2>3 DEF Requeue
<1>15. CASE PipeFails(r, s)
  BY <1>0, <1>3, <1>15, FaultsAssumption DEF PipeFails, Types, Moves
<1>16. QED
  BY <1>6, <1>7, <1>8, <1>9, <1>10, <1>11, <1>12, <1>13, <1>14, <1>15 DEF PipeStep

LEMMA BeginTypes ==
  ASSUME Inv, NEW c \in Calls, PassengerBegins(c) \/ DriverBegins(c)
  PROVE  Types'
<1>0. Types
  BY DEF Inv, TypeOK
<1>1. ASSUME call' \in [Calls -> CallRecord], UNCHANGED <<ride, driver, active, pipe, faults>>
      PROVE  Types'
  BY <1>0, <1>1 DEF Types
<1>2. ASSUME NEW kind \in Endpoints, NEW phase \in {"check", "commit"},
             NEW who \in Drivers \cup Passengers \cup {None},
             NEW r \in Rides \cup {None}, NEW o \in Offers \cup {NoOffer},
             NEW next \in Statuses,
             CallGoes(c, Handler(kind, phase, who, r, o, next, {}))
      PROVE  call' \in [Calls -> CallRecord]
  <2>1. Handler(kind, phase, who, r, o, next, {}) \in CallRecord
    BY HandlerType DEF CallPhases
  <2>2. QED
    BY <1>0, <1>2, <2>1, CallGoesType
<1>3. "ABSENT" \in Statuses /\ RideStatus \subseteq Statuses
  BY DEF Statuses
<1>4. {"request", "cancel", "accept", "reject", "online", "offline", "advance"}
        \subseteq Endpoints
  BY DEF Endpoints
<1>5. \A r \in Rides : /\ ride[r].passenger \in Passengers \cup {None}
                       /\ ride[r].driver \in Drivers \cup {None}
                       /\ ride[r].offer \in Offers \cup {NoOffer}
  BY <1>0, RideFieldType
<1>6. CASE \E u \in Passengers : RequestCheck(c, u)
  BY <1>1, <1>2, <1>3, <1>4, <1>6 DEF RequestCheck
<1>7. CASE \E r \in Rides : CancelRead(c, r)
  BY <1>1, <1>2, <1>3, <1>4, <1>5, <1>7 DEF CancelRead
<1>8. CASE \E kind \in {"accept", "reject"}, r \in Rides : AnswerOffer(c, kind, r)
  BY <1>1, <1>2, <1>3, <1>4, <1>5, <1>8 DEF AnswerOffer
<1>9. CASE \E d \in Drivers : OnlineBegin(c, d) \/ OfflineBegin(c, d)
  BY <1>1, <1>2, <1>3, <1>4, <1>9 DEF OnlineBegin, OfflineBegin
<1>10. CASE \E r \in Rides, next \in RideStatus : AdvanceRead(c, r, next)
  BY <1>1, <1>2, <1>3, <1>4, <1>5, <1>10 DEF AdvanceRead
<1>11. QED
  BY <1>6, <1>7, <1>8, <1>9, <1>10 DEF PassengerBegins, DriverBegins

LEMMA CallStepTypes ==
  ASSUME Inv, NEW c \in Calls, CallStep(c) \/ CallFails(c)
  PROVE  Types'
<1>0. Types /\ CallWellFormed(c)
  BY DEF Inv, TypeOK
<1>1. /\ call[c].who \in Drivers \cup Passengers \cup {None}
      /\ call[c].ride \in Rides \cup {None}
      /\ call[c].next \in Statuses
      /\ call[c].todo \in SUBSET Rides
  BY <1>0, CallFieldType
<1>2. \A r \in Rides : /\ ride[r].passenger \in Passengers \cup {None}
                       /\ ride[r].driver \in Drivers \cup {None}
                       /\ ride[r].offer \in Offers \cup {NoOffer}
  BY <1>0, RideFieldType
<1> DEFINE Moves == call' \in [Calls -> CallRecord]
<1>3. CallGoes(c, NoCall) => Moves
  BY <1>0, NoCallType, CallGoesType
<1>4. ASSUME NEW todo \in SUBSET Rides, CallGoes(c, Starting(todo))
      PROVE  Moves
  BY <1>0, <1>4, NoCallType, CallGoesType
<1>5. {"CANCELLED", "OFFERED", "MATCHING", "REQUESTED", "ABSENT"} \subseteq Statuses
  BY DEF Statuses, RideStatus, ActiveRideStates, SearchingStates,
     AssignedActiveStates, TerminalStates
<1> HIDE DEF Moves
<1>6. ASSUME NEW r \in Rides, NEW st \in Statuses, NEW d \in Drivers \cup {None},
             NEW o \in Offers \cup {NoOffer}, WriteRide(r, st, d, o)
      PROVE  ride' \in [Rides -> RideRecord]
  BY <1>0, <1>6, WriteRideType
<1>7. CASE RequestCreate(c)
  <2>1. PICK r \in Rides :
          /\ ride' = [ride EXCEPT ![r] =
                        [state |-> "REQUESTED", passenger |-> call[c].who,
                         driver |-> None, offer |-> NoOffer]]
          /\ CallGoes(c, Starting({r}))
    BY <1>7 DEF RequestCreate
  <2>2. call[c].who \in Passengers
    BY <1>0, <1>7 DEF RequestCreate, At, CallWellFormed
  <2>3. ride' \in [Rides -> RideRecord]
    BY <1>0, <1>5, <2>1, <2>2 DEF Types, RideRecord
  <2>4. Moves
    BY <1>4, <2>1
  <2>5. QED
    BY <1>0, <1>7, <2>3, <2>4 DEF RequestCreate, Types, Moves
<1>8. CASE CancelCommit(c) \/ AcceptCommit(c) \/ AdvanceCommit(c)
  <2>1. call[c].ride \in Rides
    BY <1>0, <1>8 DEF CancelCommit, AcceptCommit, AdvanceCommit, At, CallWellFormed
  <2>2. ride' \in [Rides -> RideRecord]
    <3>1. CASE UNCHANGED ride
      BY <1>0, <3>1 DEF Types
    <3>2. QED
      BY <1>1, <1>2, <1>5, <1>6, <1>8, <2>1, <3>1
      DEF CancelCommit, AcceptCommit, AdvanceCommit
  <2>3. Moves
    BY <1>3, <1>8 DEF CancelCommit, AcceptCommit, AdvanceCommit
  <2>4. QED
    BY <1>0, <1>8, <2>2, <2>3 DEF CancelCommit, AcceptCommit, AdvanceCommit, Types, Moves
<1>9. CASE RejectCommit(c)
  <2>1. call[c].ride \in Rides /\ call[c].who \in Drivers
    BY <1>0, <1>9 DEF RejectCommit, At, CallWellFormed
  <2>2. Moves
    BY <1>3, <1>4, <1>9, <2>1 DEF RejectCommit
  <2>3. ride' \in [Rides -> RideRecord] /\ driver' \in [Drivers -> DriverRecord]
    <3>1. CASE UNCHANGED <<ride, driver>>
      BY <1>0, <3>1 DEF Types
    <3>2. CASE /\ WriteRide(call[c].ride, "MATCHING", None, NoOffer)
               /\ SetAvailable(call[c].who, TRUE)
      BY <1>0, <1>5, <1>6, <2>1, <3>2, SetAvailableType
    <3>3. QED
      BY <1>9, <3>1, <3>2 DEF RejectCommit
  <2>4. QED
    BY <1>0, <1>9, <2>2, <2>3 DEF RejectCommit, Types, Moves
<1>10. CASE OnlineCheck(c) \/ AdvanceCheck(c)
  <2>1. ASSUME NEW kind \in Endpoints, NEW r \in Rides \cup {None},
               CallGoes(c, Handler(kind, "commit", call[c].who, r, NoOffer,
                                   call[c].next, {}))
                \/ CallGoes(c, Handler(kind, "commit", call[c].who, r, NoOffer,
                                       "ABSENT", {}))
        PROVE  Moves
    <3>1. \A next \in Statuses :
            Handler(kind, "commit", call[c].who, r, NoOffer, next, {}) \in CallRecord
      BY <1>1, HandlerType DEF CallPhases
    <3>2. QED
      BY <1>0, <1>1, <1>5, <2>1, <3>1, CallGoesType DEF Moves
  <2>2. Moves
    BY <1>1, <1>3, <1>10, <2>1 DEF OnlineCheck, AdvanceCheck, Endpoints
  <2>3. QED
    BY <1>0, <1>10, <2>2 DEF OnlineCheck, AdvanceCheck, Types, Moves
<1>11. CASE OnlineCommit(c)
  <2>1. driver' \in [Drivers -> DriverRecord]
    BY <1>0, <1>11, SetAvailableType DEF OnlineCommit, At, CallWellFormed
  <2>2. QED
    BY <1>0, <1>3, <1>11, <2>1 DEF OnlineCommit, Types, Moves
<1>12. CASE OfflineCommit(c)
  <2>1. driver' \in [Drivers -> DriverRecord]
    BY <1>0, <1>12, SetAvailableType DEF OfflineCommit, At, CallWellFormed
  <2>2. ride' \in [Rides -> RideRecord]
    BY <1>0, <1>2, <1>5, <1>12 DEF OfflineCommit, Types, RideRecord
  <2>3. Moves
    <3> DEFINE R == {r \in Rides : ride[r].driver = call[c].who
                                    /\ ride[r].state = "RESERVED"}
    <3>1. CallGoes(c, NoCall) \/ CallGoes(c, Starting(R))
      BY <1>12 DEF OfflineCommit
    <3>2. R \in SUBSET Rides
      OBVIOUS
    <3> HIDE DEF R
    <3>3. QED
      BY <1>3, <1>4, <3>1, <3>2
  <2>4. QED
    BY <1>0, <1>12, <2>1, <2>2, <2>3 DEF OfflineCommit, Types, Moves
<1>13. CASE StartDispatch(c)
  BY <1>0, <1>1, <1>3, <1>13, StartAllType DEF StartDispatch, Types, Moves
<1>14. CASE CallFails(c)
  BY <1>0, <1>3, <1>14, FaultsAssumption DEF CallFails, Types, Moves
<1>15. QED
  BY <1>7, <1>8, <1>9, <1>10, <1>11, <1>12, <1>13, <1>14 DEF CallStep

LEMMA TypesStep ==
  ASSUME Inv, [Next]_vars
  PROVE  Types'
<1>0. Types
  BY DEF Inv, TypeOK
<1>1. CASE Admin
  BY <1>0, <1>1 DEF Admin, SetApproved, SetSuspended, Types, DriverRecord
<1>2. CASE Crash
  BY <1>0, <1>2, NoPipeType, NoCallType, FaultsAssumption DEF Crash, Types
<1>3. CASE UNCHANGED vars
  BY <1>0, <1>3 DEF Types, vars
<1>4. QED
  BY <1>1, <1>2, <1>3, PipeStepTypes, BeginTypes, CallStepTypes DEF Next

-----------------------------------------------------------------------------
(* The theorems.                                                           *)

LEMMA InitInv == Init => Inv
<1> SUFFICES ASSUME Init PROVE Inv
  OBVIOUS
<1>1. \A r \in Rides : ride[r] = NoRide
  BY DEF Init
<1>2. \A r \in Rides, s \in Slots : pipe[r][s] = NoPipe
  BY DEF Init
<1>3. \A c \in Calls : call[c] = NoCall
  BY DEF Init
<1>4. NoRide \in RideRecord
  BY DEF NoRide, RideRecord, Statuses
<1>5. driver \in [Drivers -> DriverRecord]
  BY InputsAssumption DEF Init
<1>6. Types
  BY <1>4, <1>5, NoPipeType, NoCallType, FaultsAssumption DEF Init, Types
<1>7. \A r \in Rides, s \in Slots : PipeWellFormed(r, s)
  BY <1>2 DEF PipeWellFormed, NoPipe, Pipeline
<1>8. \A c \in Calls : CallWellFormed(c)
  BY <1>3 DEF CallWellFormed, NoCall, Handler
<1>9. AssignmentConsistent
  BY <1>1 DEF AssignmentConsistent, NoRide, NoOffer, SearchingStates,
     AssignedActiveStates
<1>10. StaleAdvanceIsOwn
  BY <1>3 DEF StaleAdvanceIsOwn, NoCall, Handler
<1>11. QED
  BY <1>6, <1>7, <1>8, <1>9, <1>10 DEF Inv, TypeOK

LEMMA StepInv == Inv /\ [Next]_vars => Inv'
<1> SUFFICES ASSUME Inv, [Next]_vars PROVE Inv'
  OBVIOUS
<1>1. TypeOK'
  BY TypesStep, PipeWellFormedStep, CallWellFormedStep DEF TypeOK
<1>2. QED
  BY <1>1, ConsistencyStep, StaleAdvanceStep DEF Inv

\* Inv is an invariant of dispatch.
THEOREM Invariance == Spec => []Inv
<1>1. QED
  BY InitInv, StepInv, PTL DEF Spec

\* The types hold in every instance: no pipeline runs past the bound on rounds
\* or works with a driver it has not found, no request goes on with a ride or
\* a driver it has not read.
THEOREM TypeCorrect == Spec => []TypeOK
<1>1. Inv => TypeOK
  BY DEF Inv
<1>2. QED
  BY <1>1, Invariance, PTL

\* In every instance the driver and the offer of a ride fit its state, whatever
\* pipelines, answers, cancellations, crashes and stale updates interleave.
THEOREM Consistency == Spec => []AssignmentConsistent
<1>1. Inv => AssignmentConsistent
  BY DEF Inv
<1>2. QED
  BY <1>1, Invariance, PTL

\* In every instance the unguarded write of updateState (rides.service.ts:443)
\* reaches a ride that is still the requesting driver's.
THEOREM StaleAdvance == Spec => []StaleAdvanceIsOwn
<1>1. Inv => StaleAdvanceIsOwn
  BY DEF Inv
<1>2. QED
  BY <1>1, Invariance, PTL

\* In every instance a ride that a driver has accepted, or that is over, never
\* goes back to dispatch and keeps its driver and passenger.
THEOREM FinalAssignment == Spec => NeverRedispatched
<1> DEFINE Kept(r) == ride[r].state \in SettledStates =>
                        /\ ride'[r].state \in SettledStates
                        /\ ride'[r].driver = ride[r].driver
                        /\ ride'[r].passenger = ride[r].passenger
<1>1. Inv /\ [Next]_vars => [\A r \in Rides : Kept(r)]_vars
  BY RideStays
<1>2. QED
  BY <1>1, Invariance, PTL DEF Spec, NeverRedispatched

-----------------------------------------------------------------------------
(* Dispatch implements the assignment protocol.                            *)

\* A step changes one ride, or releases several.
LEMMA OneRideOrReleases ==
  ASSUME Inv, [Next]_vars
  PROVE  \/ \E q \in Rides : \A r \in Rides : r # q => ride'[r] = ride[r]
         \/ \A r \in Rides : ride'[r] = ride[r] \/ Released(r)
<1> DEFINE One == \E q \in Rides : \A r \in Rides : r # q => ride'[r] = ride[r]
           Some == \A r \in Rides : ride'[r] = ride[r] \/ Released(r)
<1>0. Types
  BY DEF Inv, TypeOK
<1>1. ASSUME NEW q \in Rides, NEW st, NEW d, NEW o, WriteRide(q, st, d, o)
      PROVE  One
  BY <1>0, <1>1, WriteRideEffect
<1>2. ASSUME UNCHANGED ride
      PROVE  Some
  BY <1>2
<1> HIDE DEF One, Some
<1>3. ASSUME NEW q \in Rides, NEW s \in Slots, PipeStep(q, s)
      PROVE  One \/ Some
  BY <1>1, <1>2, <1>3 DEF PipeStep, ReadRide, FindDriver, Reserve, SendOffer, GiveUp,
     ReportFailure, OfferTimeout, ExpireOffer, Requeue
<1>4. ASSUME NEW c \in Calls, CallStep(c)
      PROVE  One \/ Some
  <2>0. CallWellFormed(c)
    BY DEF Inv, TypeOK
  <2>1. CASE RequestCreate(c)
    BY <1>0, <2>1 DEF RequestCreate, Types, One
  <2>2. CASE OfflineCommit(c)
    BY <2>2 DEF OfflineCommit, Some, Released
  <2>3. CASE CancelCommit(c) \/ AcceptCommit(c) \/ RejectCommit(c) \/ AdvanceCommit(c)
    <3>1. call[c].ride \in Rides
      BY <2>0, <2>3 DEF CancelCommit, AcceptCommit, RejectCommit, AdvanceCommit, At,
         CallWellFormed
    <3>2. QED
      BY <1>1, <1>2, <2>3, <3>1
      DEF CancelCommit, AcceptCommit, RejectCommit, AdvanceCommit
  <2>4. CASE UNCHANGED ride
    BY <1>2, <2>4
  <2>5. QED
    BY <1>4, <2>1, <2>2, <2>3, <2>4 DEF CallStep, OnlineCheck, OnlineCommit,
       AdvanceCheck, StartDispatch
<1>5. UNCHANGED ride => One \/ Some
  BY <1>2
<1>6. \/ \E q \in Rides, s \in Slots : PipeStep(q, s)
      \/ \E c \in Calls : CallStep(c)
      \/ UNCHANGED ride
  BY DEF Next, vars, PipeFails, PassengerBegins, RequestCheck,
     CancelRead, DriverBegins, AnswerOffer, OnlineBegin, OfflineBegin, AdvanceRead,
     CallFails, Admin, SetApproved, SetSuspended, Crash
<1>7. One \/ Some
  BY <1>3, <1>4, <1>5, <1>6
<1>8. QED
  BY <1>7 DEF One, Some

\* How the phase of a ride moves with the ride.
LEMMA PhaseMoves ==
  ASSUME NEW r \in Rides
  PROVE  /\ Created(r) => /\ AssignmentPhase(ride[r].state) = "none"
                          /\ AssignmentPhase(ride'[r].state) = "searching"
                          /\ ride'[r].driver = ride[r].driver
         /\ Reserved(r) => /\ AssignmentPhase(ride[r].state) = "searching"
                           /\ AssignmentPhase(ride'[r].state) = "offered"
                           /\ ride'[r].driver \in Drivers
         /\ Released(r) => /\ AssignmentPhase(ride[r].state) = "offered"
                           /\ AssignmentPhase(ride'[r].state) = "searching"
                           /\ ride'[r].driver = None
         /\ Settled(r) => /\ AssignmentPhase(ride[r].state) # "none"
                          /\ AssignmentPhase(ride'[r].state) = "settled"
                          /\ ride'[r].driver = ride[r].driver
         /\ AssignmentPhase(ride[r].state) \in {"none", "searching", "offered", "settled"}
BY DEF Created, Reserved, Released, Settled, AssignmentPhase, SearchingStates,
   SettledStates, RideStatus, ActiveRideStates, AssignedActiveStates, TerminalStates

\* Every step of dispatch is a step of the assignment protocol, or none.
LEMMA RefinementStep ==
  ASSUME Inv, [Next]_vars
  PROVE  [Assignment!Next]_(Assignment!vars)
<1> DEFINE phase == [r \in Rides |-> AssignmentPhase(ride[r].state)]
           holder == [r \in Rides |-> ride[r].driver]
<1>1. CASE \A r \in Rides : ride'[r] = ride[r] \/ Released(r)
  <2>0. PICK R \in SUBSET Rides : R = {r \in Rides : ride'[r] # ride[r]}
    OBVIOUS
  <2>1. \A r \in R : Released(r)
    BY <1>1, <2>0
  <2>2. \A r \in Rides : r \notin R => ride'[r] = ride[r]
    BY <2>0
  <2>3. CASE R = {}
    BY <2>2, <2>3 DEF Assignment!vars
  <2>4. CASE R # {}
    <3>1. \A r \in R : phase[r] = "offered"
      BY <2>1, PhaseMoves
    <3>2. phase' = [r \in Rides |-> IF r \in R THEN "searching" ELSE phase[r]]
      BY <2>1, <2>2, PhaseMoves
    <3>3. holder' = [r \in Rides |-> IF r \in R THEN None ELSE holder[r]]
      BY <2>1, <2>2, PhaseMoves
    <3>4. Assignment!Withdraw(R)
      BY <2>4, <3>1, <3>2, <3>3 DEF Assignment!Withdraw
    <3>5. QED
      BY <3>4 DEF Assignment!Next
  <2>5. QED
    BY <2>3, <2>4
<1>2. ASSUME NEW q \in Rides, \A r \in Rides : r # q => ride'[r] = ride[r]
      PROVE  [Assignment!Next]_(Assignment!vars)
  <2>1. /\ phase' = [phase EXCEPT ![q] = AssignmentPhase(ride'[q].state)]
        /\ holder' = [holder EXCEPT ![q] = ride'[q].driver]
    BY <1>2
  <2>2. CASE ride'[q] = ride[q]
    BY <1>2, <2>2 DEF Assignment!vars
  <2>3. CASE Created(q)
    <3>1. phase[q] = "none" /\ phase' = [phase EXCEPT ![q] = "searching"]
      BY <2>1, <2>3, PhaseMoves
    <3>0. holder' = holder
      BY <2>1, <2>3, PhaseMoves
    <3>2. Assignment!Create(q)
      BY <3>0, <3>1 DEF Assignment!Create
    <3>3. QED
      BY <3>2 DEF Assignment!Next
  <2>4. CASE Reserved(q)
    <3>1. /\ phase[q] = "searching" /\ phase' = [phase EXCEPT ![q] = "offered"]
          /\ ride'[q].driver \in Drivers
      BY <2>1, <2>4, PhaseMoves
    <3>2. PICK d \in Drivers : d = ride'[q].driver
      BY <3>1
    <3>3. Assignment!Offer(q, d)
      BY <2>1, <3>1, <3>2 DEF Assignment!Offer
    <3>4. QED
      BY <3>3 DEF Assignment!Next
  <2>5. CASE Released(q)
    BY <1>1, <1>2, <2>5
  <2>6. CASE Settled(q)
    <3>1. /\ phase[q] \in {"searching", "offered", "settled"}
          /\ phase' = [phase EXCEPT ![q] = "settled"]
          /\ holder' = holder
      BY <1>2, <2>1, <2>6, PhaseMoves
    <3>2. CASE phase[q] = "settled"
      BY <3>1, <3>2 DEF Assignment!vars
    <3>3. CASE phase[q] \in {"searching", "offered"}
      <4>1. Assignment!Settle(q)
        BY <3>1, <3>3 DEF Assignment!Settle
      <4>2. QED
        BY <4>1 DEF Assignment!Next
    <3>4. QED
      BY <3>1, <3>2, <3>3
  <2>7. QED
    BY StepMovesRide, <2>2, <2>3, <2>4, <2>5, <2>6 DEF RideMoves
<1>3. QED
  BY OneRideOrReleases, <1>1, <1>2

\* In every instance, with any faults, dispatch implements the assignment
\* protocol: one driver at a time is offered a ride, offers are withdrawn as a
\* whole, and what is settled stays settled with its driver.
THEOREM Refinement == Spec => ImplementsAssignment
<1>1. Init => Assignment!Init
  BY DEF Init, Assignment!Init, NoRide, AssignmentPhase
<1>2. Inv /\ [Next]_vars => [Assignment!Next]_(Assignment!vars)
  BY RefinementStep
<1>3. QED
  BY <1>1, <1>2, Invariance, PTL DEF Spec, ImplementsAssignment, Assignment!Spec
=============================================================================
