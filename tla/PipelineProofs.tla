--------------------------- MODULE PipelineProofs ---------------------------
(***************************************************************************)
(* Proofs about the marks, the timers and the claims of dispatch: that a   *)
(* mark in activeRides is never left behind, that every outstanding offer  *)
(* has a timer, and that the claim of the driver excludes other rides.     *)
(***************************************************************************)
EXTENDS DispatchProofs

-----------------------------------------------------------------------------
(* The marks.                                                              *)

\* A step of a pipeline settles its promise, keeps it, or is Requeue.
LEMMA PipeStepKinds ==
  ASSUME NEW q \in Rides, NEW t \in Slots, PipeStep(q, t) \/ PipeFails(q, t)
  PROVE  \/ \E next : Settle(q, t, next)
         \/ \E phase, d : Attempt(q, t, phase, d)
         \/ Requeue(q, t)
BY DEF PipeStep, ReadRide, FindDriver, Reserve, SendOffer, GiveUp, ReportFailure,
   OfferTimeout, ExpireOffer, PipeFails

\* Starting a ride leaves the busy slots alone and fills one of each new ride.
LEMMA StartAllEffect ==
  ASSUME Types, NEW todo \in SUBSET Rides, StartAll(todo), NEW r \in Rides
  PROVE  /\ \A s \in Slots : pipe[r][s] # NoPipe => pipe'[r][s] = pipe[r][s]
         /\ r \notin todo \ active => pipe'[r] = pipe[r]
         /\ r \in todo \ active => \E s \in Slots : pipe'[r][s].holds
<1> DEFINE fresh == todo \ active
           next == Pipeline("due", 1, None, TRUE)
<1>1. pipe' = [x \in Rides |->
                 IF x \in fresh THEN [pipe[x] EXCEPT ![FreeSlot(x)] = next]
                                ELSE pipe[x]]
  BY DEF StartAll
<1>2. pipe[r] \in [Slots -> PipeRecord]
  BY DEF Types
<1>3. CASE r \in fresh
  <2>1. FreeSlot(r) \in Slots /\ pipe[r][FreeSlot(r)] = NoPipe
    BY <1>3 DEF StartAll, FreeSlot
  <2>2. pipe'[r] = [pipe[r] EXCEPT ![FreeSlot(r)] = next]
    BY <1>1, <1>3
  <2>3. pipe'[r][FreeSlot(r)] = next /\ next.holds = TRUE
    BY <1>2, <2>1, <2>2 DEF Pipeline
  <2>4. \A s \in Slots : s # FreeSlot(r) => pipe'[r][s] = pipe[r][s]
    BY <1>2, <2>2
  <2>5. QED
    BY <1>3, <2>1, <2>3, <2>4
<1>4. CASE r \notin fresh
  BY <1>1, <1>4
<1>5. QED
  BY <1>3, <1>4

LEMMA ActiveStep ==
  ASSUME Inv, ActiveIsHeld, [Next]_vars
  PROVE  ActiveIsHeld'
<1>0. Types
  BY DEF Inv, TypeOK
<1> SUFFICES ASSUME NEW r \in active' PROVE \E s \in Slots : pipe'[r][s].holds
  BY DEF ActiveIsHeld
<1>1. ASSUME r \in active PROVE r \in Rides /\ \E s \in Slots : pipe[r][s].holds
  BY <1>0, <1>1 DEF ActiveIsHeld, Types
<1>2. ASSUME NEW q \in Rides, NEW t \in Slots, PipeStep(q, t) \/ PipeFails(q, t)
      PROVE  \E s \in Slots : pipe'[r][s].holds
  <2>1. CASE \E next : Settle(q, t, next)
    <3>1. PICK next : Settle(q, t, next)
      BY <2>1
    <3>2. r \in active /\ (r = q => ~pipe[q][t].holds)
      BY <3>1 DEF Settle
    <3>3. PICK s \in Slots : pipe[r][s].holds
      BY <1>1, <3>2
    <3>4. pipe'[r][s] = pipe[r][s]
      BY <1>0, <1>1, <3>1, <3>2, <3>3, PipeGoesEffect DEF Settle
    <3>5. QED
      BY <3>3, <3>4
  <2>2. CASE \E phase, d : Attempt(q, t, phase, d)
    <3>1. PICK phase, d : Attempt(q, t, phase, d)
      BY <2>2
    <3>2. r \in active
      BY <3>1 DEF Attempt
    <3>3. PICK s \in Slots : pipe[r][s].holds
      BY <1>1, <3>2
    <3>4. pipe'[r][s].holds = pipe[r][s].holds
      BY <1>0, <1>1, <3>1, <3>2, PipeGoesEffect DEF Attempt, Pipeline
    <3>5. QED
      BY <3>3, <3>4
  <2>3. CASE Requeue(q, t)
    <3>0. PICK next : PipeGoes(q, t, next) /\ next.holds
      <4>1. Pipeline("due", pipe[q][t].round + 1, None, TRUE).holds
        BY DEF Pipeline
      <4>2. QED
        BY <2>3, <4>1 DEF Requeue
    <3>1. CASE r = q
      BY <1>0, <3>0, <3>1, PipeGoesEffect
    <3>2. CASE r # q
      <4>1. r \in active
        BY <2>3, <3>2 DEF Requeue
      <4>2. PICK s \in Slots : pipe[r][s].holds
        BY <1>1, <4>1
      <4>3. pipe'[r][s] = pipe[r][s]
        BY <1>0, <1>1, <3>0, <3>2, <4>1, PipeGoesEffect
      <4>4. QED
        BY <4>2, <4>3
    <3>3. QED
      BY <3>1, <3>2
  <2>4. QED
    BY <1>2, <2>1, <2>2, <2>3, PipeStepKinds
<1>3. ASSUME NEW c \in Calls, StartDispatch(c)
      PROVE  \E s \in Slots : pipe'[r][s].holds
  <2>1. StartAll(call[c].todo) /\ call[c].todo \in SUBSET Rides
    BY <1>0, <1>3, CallFieldType DEF StartDispatch
  <2>2. r \in active \/ r \in call[c].todo \ active
    BY <2>1 DEF StartAll
  <2>3. CASE r \in active
    BY <1>0, <1>1, <2>1, <2>3, StartAllEffect
  <2>4. CASE r \in call[c].todo \ active
    BY <1>0, <2>1, <2>4, StartAllEffect
  <2>5. QED
    BY <2>2, <2>3, <2>4
<1>4. CASE UNCHANGED <<active, pipe>>
  BY <1>1, <1>4
<1>5. Crash => active' = {}
  BY DEF Crash
<1>6. ASSUME NEW c \in Calls, PassengerBegins(c) \/ DriverBegins(c) \/ CallFails(c)
      PROVE  UNCHANGED <<active, pipe>>
  BY <1>6 DEF PassengerBegins, RequestCheck, CancelRead, DriverBegins, AnswerOffer,
     OnlineBegin, OfflineBegin, AdvanceRead, CallFails
<1>7. ASSUME NEW c \in Calls, CallStep(c)
      PROVE  StartDispatch(c) \/ UNCHANGED <<active, pipe>>
  BY <1>7 DEF CallStep, RequestCreate, CancelCommit, AcceptCommit, RejectCommit,
     OnlineCheck, OnlineCommit, OfflineCommit, AdvanceCheck, AdvanceCommit
<1>8. Admin => UNCHANGED <<active, pipe>>
  BY DEF Admin, SetApproved, SetSuspended
<1>9. QED
  BY <1>2, <1>3, <1>4, <1>5, <1>6, <1>7, <1>8 DEF Next, vars

\* In every instance, with any number of exceptions and crashes, a ride that
\* activeRides marks has a pipeline that will clear the mark: start() is never
\* refused for good.
THEOREM MarksAreHeld == Spec => []ActiveIsHeld
<1>1. Init => ActiveIsHeld
  BY DEF Init, ActiveIsHeld
<1>2. Inv /\ ActiveIsHeld /\ [Next]_vars => ActiveIsHeld'
  BY ActiveStep
<1>3. QED
  BY <1>1, <1>2, Invariance, PTL DEF Spec

-----------------------------------------------------------------------------
(* The offer timers.                                                       *)

Timed(r, s) ==
  /\ pipe[r][s].phase \in {"offer", "armed", "expire"}
  /\ OfferStands(r, s)

\* Only the reservation transaction makes an offer.
LEMMA ReservedByReserve ==
  ASSUME Inv, [Next]_vars, NEW r \in Rides, Reserved(r)
  PROVE  \E s \in Slots : Reserve(r, s) /\ CanReserve(r, pipe[r][s].driver)
<1>0. /\ Types /\ ride[r].state \in SearchingStates
      /\ ride'[r].state = "RESERVED" /\ ride'[r] # ride[r]
  BY DEF Inv, TypeOK, Reserved, SearchingStates
<1>1. ASSUME NEW q \in Rides, NEW st, NEW d, NEW o, WriteRide(q, st, d, o)
      PROVE  r = q /\ st = "RESERVED"
  BY <1>0, <1>1, WriteRideEffect
<1>2. ASSUME NEW q \in Rides, NEW s \in Slots, PipeStep(q, s)
      PROVE  r = q /\ Reserve(q, s) /\ CanReserve(q, pipe[q][s].driver)
  <2>1. ~GiveUp(q, s) /\ ~ExpireOffer(q, s)
    BY <1>0, <1>1 DEF GiveUp, ExpireOffer
  <2>2. Reserve(q, s)
    BY <1>0, <1>2, <2>1 DEF PipeStep, ReadRide, FindDriver, SendOffer, ReportFailure,
       OfferTimeout, Requeue
  <2>3. CanReserve(q, pipe[q][s].driver)
    BY <1>0, <2>2 DEF Reserve
  <2>4. r = q
    BY <1>1, <2>2, <2>3 DEF Reserve
  <2>5. QED
    BY <2>2, <2>3, <2>4
<1>3. ASSUME NEW c \in Calls, CallStep(c)
      PROVE  FALSE
  <2>0. CallWellFormed(c)
    BY DEF Inv, TypeOK
  <2>1. ASSUME RequestCreate(c)
        PROVE  FALSE
    <3>1. PICK n \in Rides :
            ride' = [ride EXCEPT ![n] =
                       [state |-> "REQUESTED", passenger |-> call[c].who,
                        driver |-> None, offer |-> NoOffer]]
      BY <2>1 DEF RequestCreate
    <3>2. ride'[r] = ride[r] \/ ride'[r].state = "REQUESTED"
      BY <1>0, <3>1 DEF Types
    <3>3. QED
      BY <1>0, <3>2
  <2>2. ASSUME OfflineCommit(c)
        PROVE  FALSE
    <3>1. ride'[r] = ride[r] \/ ride'[r].state = "MATCHING"
      BY <2>2 DEF OfflineCommit
    <3>2. QED
      BY <1>0, <3>1
  <2>3. ASSUME CancelCommit(c) \/ AcceptCommit(c) \/ RejectCommit(c) \/ AdvanceCommit(c)
        PROVE  FALSE
    <3>1. /\ call[c].ride \in Rides
          /\ AdvanceCommit(c) => call[c].next # "RESERVED"
      BY <2>0, <2>3 DEF CancelCommit, AcceptCommit, RejectCommit, AdvanceCommit, At,
         CallWellFormed, SettledStates
    <3>2. ~CancelCommit(c)
      BY <1>0, <1>1, <3>1 DEF CancelCommit
    <3>3. ~AcceptCommit(c)
      BY <1>0, <1>1, <3>1 DEF AcceptCommit
    <3>4. ~RejectCommit(c)
      <4>1. RejectCommit(c) => \/ WriteRide(call[c].ride, "MATCHING", None, NoOffer)
                               \/ ride' = ride
        BY DEF RejectCommit
      <4>2. QED
        BY <1>0, <1>1, <3>1, <4>1
    <3>5. ~AdvanceCommit(c)
      BY <1>1, <3>1 DEF AdvanceCommit
    <3>6. QED
      BY <2>3, <3>2, <3>3, <3>4, <3>5
  <2>4. QED
    BY <1>0, <1>3, <2>1, <2>2, <2>3 DEF CallStep, OnlineCheck, OnlineCommit,
       AdvanceCheck, StartDispatch
<1>4. \/ \E q \in Rides, s \in Slots : PipeStep(q, s)
      \/ \E c \in Calls : CallStep(c)
      \/ UNCHANGED ride
  BY DEF Next, vars, PipeFails, PassengerBegins, RequestCheck, CancelRead,
     DriverBegins, AnswerOffer, OnlineBegin, OfflineBegin, AdvanceRead, CallFails,
     Admin, SetApproved, SetSuspended, Crash
<1>5. QED
  BY <1>0, <1>2, <1>3, <1>4

\* The pipeline of an offer goes on timing it as long as the ride is unchanged.
LEMMA OwnStepTimes ==
  ASSUME Inv, NEW r \in Rides, NEW s \in Slots, Timed(r, s), PipeStep(r, s),
         ride'[r] = ride[r]
  PROVE  Timed(r, s)'
<1>0. Types /\ pipe[r][s].phase \in {"offer", "armed", "expire"} /\ OfferStands(r, s)
  BY DEF Inv, TypeOK, Timed
<1>1. ASSUME NEW next, PipeGoes(r, s, next),
             next.phase \in {"offer", "armed", "expire"},
             next.driver = pipe[r][s].driver, next.round = pipe[r][s].round
      PROVE  Timed(r, s)'
  <2>1. pipe'[r][s] = next
    BY <1>0, <1>1, PipeGoesEffect
  <2>2. QED
    BY <1>0, <1>1, <2>1 DEF Timed, OfferStands
<1>2. CASE SendOffer(r, s)
  <2> DEFINE next == Pipeline("armed", pipe[r][s].round, pipe[r][s].driver, FALSE)
  <2>1. PipeGoes(r, s, next)
    BY <1>2 DEF SendOffer, Settle
  <2>2. /\ next.phase = "armed" /\ next.driver = pipe[r][s].driver
        /\ next.round = pipe[r][s].round
    BY DEF Pipeline
  <2> HIDE DEF next
  <2>3. QED
    BY <1>1, <2>1, <2>2
<1>3. CASE OfferTimeout(r, s)
  <2> DEFINE next == Pipeline("expire", pipe[r][s].round, pipe[r][s].driver,
                              pipe[r][s].holds)
  <2>1. PipeGoes(r, s, next)
    BY <1>0, <1>3 DEF OfferTimeout, Attempt
  <2>2. /\ next.phase = "expire" /\ next.driver = pipe[r][s].driver
        /\ next.round = pipe[r][s].round
    BY DEF Pipeline
  <2> HIDE DEF next
  <2>3. QED
    BY <1>1, <2>1, <2>2
<1>4. CASE ExpireOffer(r, s)
  <2>1. WriteRide(r, "MATCHING", None, NoOffer)
    BY <1>0, <1>4 DEF ExpireOffer
  <2>2. ride'[r].state = "MATCHING" /\ ride[r].state = "RESERVED"
    BY <1>0, <2>1, WriteRideEffect DEF OfferStands
  <2>3. QED
    BY <2>2
<1>5. QED
  BY <1>0, <1>2, <1>3, <1>4 DEF PipeStep, ReadRide, FindDriver, Reserve, GiveUp,
     ReportFailure, Requeue

LEMMA TimedStep ==
  ASSUME Inv, OfferIsTimed, [Next]_vars
  PROVE  OfferIsTimed'
<1>0. Types /\ faults \in Nat
  BY FaultsAssumption DEF Inv, TypeOK, Types
<1> SUFFICES ASSUME faults' = 0, NEW r \in Rides, ride'[r].state = "RESERVED"
             PROVE  \E s \in Slots : Timed(r, s)'
  BY DEF OfferIsTimed, Timed
<1>1. /\ faults = 0
      /\ ~Crash
      /\ \A q \in Rides, t \in Slots : ~PipeFails(q, t)
      /\ \A c \in Calls : ~CallFails(c)
  <2>1. ~Crash /\ (\A q \in Rides, t \in Slots : ~PipeFails(q, t))
        /\ \A c \in Calls : ~CallFails(c)
    BY <1>0 DEF Crash, PipeFails, CallFails
  <2>2. ASSUME NEW q \in Rides, NEW t \in Slots, PipeStep(q, t)
        PROVE  faults' = faults
    BY <2>2 DEF PipeStep, ReadRide, FindDriver, Reserve, SendOffer, GiveUp,
       ReportFailure, OfferTimeout, ExpireOffer, Requeue
  <2>3. ASSUME NEW c \in Calls, PassengerBegins(c) \/ DriverBegins(c)
        PROVE  faults' = faults
    BY <2>3 DEF PassengerBegins, RequestCheck, CancelRead, DriverBegins, AnswerOffer,
       OnlineBegin, OfflineBegin, AdvanceRead
  <2>4. ASSUME NEW c \in Calls, CallStep(c)
        PROVE  faults' = faults
    BY <2>4 DEF CallStep, RequestCreate, CancelCommit, AcceptCommit, RejectCommit,
       OnlineCheck, OnlineCommit, OfflineCommit, AdvanceCheck, AdvanceCommit,
       StartDispatch
  <2>5. Admin => faults' = faults
    BY DEF Admin, SetApproved, SetSuspended
  <2>6. faults' = faults
    BY <2>1, <2>2, <2>3, <2>4, <2>5 DEF Next, vars
  <2>7. QED
    BY <2>1, <2>6
<1>2. CASE ride'[r] = ride[r]
  <2>1. PICK s \in Slots : Timed(r, s)
    BY <1>1, <1>2 DEF OfferIsTimed, Timed
  <2>2. ASSUME pipe'[r][s] = pipe[r][s]
        PROVE  Timed(r, s)'
    BY <1>2, <2>1, <2>2 DEF Timed, OfferStands
  <2>3. ASSUME NEW q \in Rides, NEW t \in Slots, PipeStep(q, t)
        PROVE  Timed(r, s)'
    <3>1. CASE q = r /\ t = s
      BY <1>2, <2>1, <2>3, <3>1, OwnStepTimes
    <3>2. CASE ~(q = r /\ t = s)
      <4>1. PICK next : PipeGoes(q, t, next)
        BY <2>3, PipeStepKinds DEF Settle, Attempt, Requeue
      <4>2. QED
        BY <1>0, <2>2, <3>2, <4>1, PipeGoesEffect
    <3>3. QED
      BY <3>1, <3>2
  <2>4. ASSUME NEW c \in Calls, StartDispatch(c)
        PROVE  Timed(r, s)'
    <3>1. StartAll(call[c].todo) /\ call[c].todo \in SUBSET Rides
      BY <1>0, <2>4, CallFieldType DEF StartDispatch
    <3>2. pipe[r][s] # NoPipe
      BY <2>1 DEF Timed, NoPipe, Pipeline
    <3>3. QED
      BY <1>0, <2>2, <3>1, <3>2, StartAllEffect
  <2>5. ASSUME NEW c \in Calls, PassengerBegins(c) \/ DriverBegins(c)
        PROVE  UNCHANGED pipe
    BY <2>5 DEF PassengerBegins, RequestCheck, CancelRead, DriverBegins, AnswerOffer,
       OnlineBegin, OfflineBegin, AdvanceRead
  <2>6. ASSUME NEW c \in Calls, CallStep(c)
        PROVE  StartDispatch(c) \/ UNCHANGED pipe
    BY <2>6 DEF CallStep, RequestCreate, CancelCommit, AcceptCommit, RejectCommit,
       OnlineCheck, OnlineCommit, OfflineCommit, AdvanceCheck, AdvanceCommit
  <2>7. Admin => UNCHANGED pipe
    BY DEF Admin, SetApproved, SetSuspended
  <2>8. UNCHANGED vars => UNCHANGED pipe
    BY DEF vars
  <2>9. QED
    BY <1>1, <2>2, <2>3, <2>4, <2>5, <2>6, <2>7, <2>8 DEF Next
<1>3. CASE Reserved(r)
  <2>1. PICK s \in Slots : Reserve(r, s) /\ CanReserve(r, pipe[r][s].driver)
    BY <1>3, ReservedByReserve
  <2> DEFINE d == pipe[r][s].driver
             next == Pipeline("offer", pipe[r][s].round, d, pipe[r][s].holds)
  <2>2. PipeGoes(r, s, next) /\ WriteRide(r, "RESERVED", d, OfferOf(d, pipe[r][s].round))
    BY <2>1 DEF Reserve, Attempt
  <2>3. /\ next.phase = "offer" /\ next.driver = d /\ next.round = pipe[r][s].round
    BY DEF Pipeline
  <2> HIDE DEF next
  <2>4. pipe'[r][s] = next
    BY <1>0, <2>2, PipeGoesEffect
  <2>5. ride'[r].offer = OfferOf(d, pipe[r][s].round)
    BY <1>0, <2>2, WriteRideEffect
  <2>6. Timed(r, s)'
    BY <2>3, <2>4, <2>5 DEF Timed, OfferStands
  <2>7. QED
    BY <2>6
<1>4. QED
  BY <1>2, <1>3, StepMovesRide DEF RideMoves, Created, Released, Settled, SettledStates

\* In every instance, until something throws, each outstanding offer has a
\* pipeline that will send it or time it out, whoever releases, repeats and
\* answers offers meanwhile.
THEOREM OffersAreTimed == Spec => []OfferIsTimed
<1>1. Init => OfferIsTimed
  BY DEF Init, OfferIsTimed, NoRide
<1>2. Inv /\ OfferIsTimed /\ [Next]_vars => OfferIsTimed'
  BY TimedStep
<1>3. QED
  BY <1>1, <1>2, Invariance, PTL DEF Spec

-----------------------------------------------------------------------------
(* The claim of the driver.                                                *)

\* Without the driver's own word about availability, an available driver has
\* never kept a ride, and no two rides have the same driver, in any status: a
\* stale status update may bring a cancelled ride back, so its driver counts.
Claimed ==
  /\ \A c \in Calls : call[c].kind # "online"
  /\ \A d \in Drivers, r \in Rides : driver[d].available => ride[r].driver # d
  /\ \A q, r \in Rides : ride[q].driver = ride[r].driver /\ q # r =>
                           ride[q].driver = None

LEMMA ClaimedIsExclusive == Inv /\ Claimed => DriverExclusive
<1> SUFFICES ASSUME Inv, Claimed PROVE DriverExclusive
  OBVIOUS
<1>1. \A r \in Rides : ride[r].state \in AssignedActiveStates => ride[r].driver # None
  BY DEF Inv, AssignmentConsistent
<1>2. NoDoubleBooking
  BY <1>1 DEF NoDoubleBooking, Claimed
<1>3. QED
  BY <1>2 DEF DriverExclusive, Busy, Claimed

\* No step begins a request to go online.
LEMMA NobodyGoesOnline ==
  ASSUME "online" \notin Workload, Inv, Claimed, [Next]_vars, NEW c \in Calls
  PROVE  call'[c].kind # "online"
<1>0. Types /\ (\A b \in Calls : call[b].kind # "online")
  BY DEF Inv, TypeOK, Claimed
<1>1. ASSUME NEW b \in Calls, NEW next, CallGoes(b, next), next.kind # "online"
      PROVE  call'[c].kind # "online"
  BY <1>0, <1>1, CallGoesEffect
<1>2. NoCall.kind # "online" /\ \A todo : Starting(todo).kind # "online"
  BY DEF NoCall, Starting, Handler
<1>3. \A phase, who, r, o, next, todo :
        /\ Handler("request", phase, who, r, o, next, todo).kind # "online"
        /\ Handler("cancel", phase, who, r, o, next, todo).kind # "online"
        /\ Handler("accept", phase, who, r, o, next, todo).kind # "online"
        /\ Handler("reject", phase, who, r, o, next, todo).kind # "online"
        /\ Handler("offline", phase, who, r, o, next, todo).kind # "online"
        /\ Handler("advance", phase, who, r, o, next, todo).kind # "online"
  BY DEF Handler
<1>4. ASSUME NEW b \in Calls, PassengerBegins(b) \/ DriverBegins(b)
      PROVE  call'[c].kind # "online"
  <2>1. CASE \E u \in Passengers : RequestCheck(b, u)
    BY <1>1, <1>3, <2>1 DEF RequestCheck
  <2>2. CASE \E r \in Rides : CancelRead(b, r)
    BY <1>1, <1>3, <2>2 DEF CancelRead
  <2>3. CASE \E kind \in {"accept", "reject"}, r \in Rides : AnswerOffer(b, kind, r)
    BY <1>1, <1>3, <2>3 DEF AnswerOffer
  <2>4. CASE \E d \in Drivers : OnlineBegin(b, d) \/ OfflineBegin(b, d)
    BY <1>1, <1>3, <2>4 DEF OnlineBegin, OfflineBegin, Begins
  <2>5. CASE \E r \in Rides, next \in RideStatus : AdvanceRead(b, r, next)
    BY <1>1, <1>3, <2>5 DEF AdvanceRead
  <2>6. QED
    BY <1>4, <2>1, <2>2, <2>3, <2>4, <2>5 DEF PassengerBegins, DriverBegins
<1>5. ASSUME NEW b \in Calls, CallStep(b) \/ CallFails(b)
      PROVE  call'[c].kind # "online"
  <2>1. ~OnlineCheck(b) /\ ~OnlineCommit(b)
    BY <1>0 DEF OnlineCheck, OnlineCommit, At
  <2>2. CASE \/ CallGoes(b, NoCall)
             \/ \E todo : CallGoes(b, Starting(todo))
             \/ \E who, r, next :
                  CallGoes(b, Handler("advance", "commit", who, r, NoOffer, next, {}))
    BY <1>1, <1>2, <1>3, <2>2
  <2>3. QED
    BY <1>5, <2>1, <2>2 DEF CallStep, RequestCreate, CancelCommit, AcceptCommit,
       RejectCommit, OfflineCommit, AdvanceCheck, AdvanceCommit, StartDispatch,
       CallFails
<1>6. Crash => call'[c] = NoCall
  BY DEF Crash
<1>7. ASSUME NEW q \in Rides, NEW s \in Slots, PipeStep(q, s) \/ PipeFails(q, s)
      PROVE  UNCHANGED call
  BY <1>7 DEF PipeStep, ReadRide, FindDriver, Reserve, SendOffer, GiveUp,
     ReportFailure, OfferTimeout, ExpireOffer, Requeue, PipeFails
<1>8. Admin => UNCHANGED call
  BY DEF Admin, SetApproved, SetSuspended
<1>9. QED
  BY <1>0, <1>2, <1>4, <1>5, <1>6, <1>7, <1>8 DEF Next, vars

\* What the other two conjuncts say after a step that keeps the drivers of the
\* rides and makes nobody available,
LEMMA ClaimKept ==
  ASSUME Inv, Claimed, [Next]_vars,
         \A r \in Rides : ride'[r].driver = ride[r].driver \/ Released(r),
         \A d \in Drivers : driver'[d].available => driver[d].available
  PROVE  /\ \A d \in Drivers, r \in Rides : driver'[d].available => ride'[r].driver # d
         /\ \A q, r \in Rides : ride'[q].driver = ride'[r].driver /\ q # r =>
                                  ride'[q].driver = None
BY NoneAssumption DEF Claimed, Released

\* and after one that releases ride q from driver d.
LEMMA ClaimReleased ==
  ASSUME Inv, Claimed, NEW q \in Rides, NEW d \in Drivers, NEW b \in BOOLEAN,
         ride[q].driver = d, WriteRide(q, "MATCHING", None, NoOffer), SetAvailable(d, b)
  PROVE  /\ \A e \in Drivers, r \in Rides : driver'[e].available => ride'[r].driver # e
         /\ \A p, r \in Rides : ride'[p].driver = ride'[r].driver /\ p # r =>
                                  ride'[p].driver = None
<1>0. Types
  BY DEF Inv, TypeOK
<1>1. \A r \in Rides : r # q => ride'[r].driver = ride[r].driver /\ ride[r].driver # d
  BY <1>0, WriteRideEffect, NoneAssumption DEF Claimed
<1>2. ride'[q].driver = None
  BY <1>0, WriteRideEffect
<1>3. \A e \in Drivers : e # d => driver'[e].available = driver[e].available
  BY <1>0 DEF SetAvailable, Types
<1>4. QED
  BY <1>1, <1>2, <1>3, NoneAssumption DEF Claimed

LEMMA ClaimMade ==
  ASSUME Inv, Claimed, NEW q \in Rides, NEW d \in Drivers, NEW st, NEW o,
         driver[d].available, WriteRide(q, st, d, o), SetAvailable(d, FALSE)
  PROVE  /\ \A e \in Drivers, r \in Rides : driver'[e].available => ride'[r].driver # e
         /\ \A p, r \in Rides : ride'[p].driver = ride'[r].driver /\ p # r =>
                                  ride'[p].driver = None
<1>0. Types
  BY DEF Inv, TypeOK
<1>1. \A r \in Rides : r # q => ride'[r].driver = ride[r].driver /\ ride[r].driver # d
  BY <1>0, WriteRideEffect DEF Claimed
<1>2. ride'[q].driver = d
  BY <1>0, WriteRideEffect
<1>3. /\ \A e \in Drivers : e # d => driver'[e].available = driver[e].available
      /\ driver'[d].available = FALSE
  BY <1>0 DEF SetAvailable, Types, DriverRecord
<1>4. QED
  BY <1>1, <1>2, <1>3 DEF Claimed

\* A step makes a driver available only by releasing his ride.
LEMMA WhoBecomesAvailable ==
  ASSUME Inv, Claimed, [Next]_vars
  PROVE  \/ \A d \in Drivers : driver'[d].available => driver[d].available
         \/ \E q \in Rides, d \in Drivers, b \in BOOLEAN :
              /\ ride[q].driver = d
              /\ WriteRide(q, "MATCHING", None, NoOffer) /\ SetAvailable(d, b)
<1> DEFINE NoRise == \A d \in Drivers : driver'[d].available => driver[d].available
           Release == \E q \in Rides, d \in Drivers, b \in BOOLEAN :
                        /\ ride[q].driver = d
                        /\ WriteRide(q, "MATCHING", None, NoOffer)
                        /\ SetAvailable(d, b)
<1>0. Types
  BY DEF Inv, TypeOK
<1>1. UNCHANGED driver => NoRise
  OBVIOUS
<1>2. ASSUME NEW d \in Drivers, SetAvailable(d, FALSE)
      PROVE  NoRise
  BY <1>0, <1>2 DEF SetAvailable, Types, DriverRecord
<1>3. Admin => NoRise
  BY <1>0 DEF Admin, SetApproved, SetSuspended, Types, DriverRecord
<1>4. ASSUME NEW q \in Rides, NEW s \in Slots, PipeStep(q, s)
      PROVE  NoRise \/ Release
  <2>0. PipeWellFormed(q, s)
    BY DEF Inv, TypeOK
  <2>1. CASE Reserve(q, s)
    BY <1>1, <1>2, <2>0, <2>1 DEF Reserve, PipeWellFormed
  <2>2. CASE ExpireOffer(q, s) /\ OfferStands(q, s)
    <3> DEFINE d == pipe[q][s].driver
    <3>1. d \in Drivers
      BY <2>0, <2>2 DEF ExpireOffer, PipeWellFormed
    <3>2. ride[q].driver = d
      BY <2>2 DEF OfferStands, OfferOf, Inv, AssignmentConsistent
    <3>3. (driver[d].available \/ driver[d].approved) \in BOOLEAN
      BY <1>0, <3>1 DEF Types, DriverRecord
    <3>4. /\ WriteRide(q, "MATCHING", None, NoOffer)
          /\ SetAvailable(d, driver[d].available \/ driver[d].approved)
      BY <2>2 DEF ExpireOffer
    <3>5. Release
      BY <3>1, <3>2, <3>3, <3>4
    <3>6. QED
      BY <3>5
  <2>3. CASE UNCHANGED driver
    BY <1>1, <2>3
  <2>4. QED
    BY <1>4, <2>1, <2>2, <2>3 DEF PipeStep, ReadRide, FindDriver, SendOffer, GiveUp,
       ReportFailure, OfferTimeout, ExpireOffer, Requeue
<1>5. ASSUME NEW c \in Calls, CallStep(c)
      PROVE  NoRise \/ Release
  <2>0. CallWellFormed(c) /\ call[c].kind # "online"
    BY DEF Inv, TypeOK, Claimed
  <2>1. CASE RejectCommit(c) /\ AnswerHolds(c)
    <3>1. /\ call[c].ride \in Rides /\ call[c].who \in Drivers
          /\ ride[call[c].ride].driver = call[c].who
      BY <2>0, <2>1 DEF RejectCommit, At, CallWellFormed, AnswerHolds
    <3>2. WriteRide(call[c].ride, "MATCHING", None, NoOffer)
          /\ SetAvailable(call[c].who, TRUE)
      BY <2>1 DEF RejectCommit
    <3>3. Release
      BY <3>1, <3>2
    <3>4. QED
      BY <3>3
  <2>2. CASE OfflineCommit(c)
    BY <1>2, <2>0, <2>2 DEF OfflineCommit, At, CallWellFormed
  <2>3. CASE UNCHANGED driver
    BY <1>1, <2>3
  <2>4. QED
    BY <1>5, <2>0, <2>1, <2>2, <2>3 DEF CallStep, RequestCreate, CancelCommit,
       AcceptCommit, RejectCommit, OnlineCheck, OnlineCommit, AdvanceCheck,
       AdvanceCommit, StartDispatch, At
<1> HIDE DEF NoRise, Release
<1>6. \/ \E q \in Rides, s \in Slots : PipeStep(q, s)
      \/ \E c \in Calls : CallStep(c)
      \/ Admin
      \/ UNCHANGED driver
  BY DEF Next, vars, PipeFails, PassengerBegins, RequestCheck, CancelRead,
     DriverBegins, AnswerOffer, OnlineBegin, OfflineBegin, AdvanceRead, CallFails,
     Crash
<1>7. NoRise \/ Release
  BY <1>1, <1>3, <1>4, <1>5, <1>6
<1>8. QED
  BY <1>7 DEF NoRise, Release

LEMMA ClaimedStep ==
  ASSUME "online" \notin Workload, Inv, Claimed, [Next]_vars
  PROVE  Claimed'
<1>1. \A c \in Calls : call'[c].kind # "online"
  BY NobodyGoesOnline
<1> DEFINE Rest ==
      /\ \A d \in Drivers, r \in Rides : driver'[d].available => ride'[r].driver # d
      /\ \A q, r \in Rides : ride'[q].driver = ride'[r].driver /\ q # r =>
                               ride'[q].driver = None
<1>2. CASE \E r \in Rides : Reserved(r)
  <2>1. PICK r \in Rides : Reserved(r)
    BY <1>2
  <2>2. PICK s \in Slots : Reserve(r, s) /\ CanReserve(r, pipe[r][s].driver)
    BY <2>1, ReservedByReserve
  <2>3. pipe[r][s].driver \in Drivers
    BY <2>2 DEF Reserve, Inv, TypeOK, PipeWellFormed
  <2>4. /\ driver[pipe[r][s].driver].available
        /\ WriteRide(r, "RESERVED", pipe[r][s].driver,
                     OfferOf(pipe[r][s].driver, pipe[r][s].round))
        /\ SetAvailable(pipe[r][s].driver, FALSE)
    BY <2>2 DEF Reserve, CanReserve
  <2>5. Rest
    BY <2>3, <2>4, ClaimMade
  <2>6. QED
    BY <1>1, <2>5 DEF Claimed
<1>3. CASE \A r \in Rides : ~Reserved(r)
  <2>1. \A r \in Rides : ride'[r].driver = ride[r].driver \/ Released(r)
    BY <1>3, StepMovesRide DEF RideMoves, Created, Settled
  <2>2. CASE \A d \in Drivers : driver'[d].available => driver[d].available
    BY <1>1, <2>1, <2>2, ClaimKept DEF Claimed
  <2>3. ASSUME NEW q \in Rides, NEW d \in Drivers, NEW b \in BOOLEAN,
               ride[q].driver = d,
               WriteRide(q, "MATCHING", None, NoOffer), SetAvailable(d, b)
        PROVE  Claimed'
    BY <1>1, <2>3, ClaimReleased DEF Claimed
  <2>4. QED
    BY <2>2, <2>3, WhoBecomesAvailable
<1>4. QED
  BY <1>2, <1>3

\* As long as no driver declares himself available, the claim of the driver in
\* the reservation (dispatch.service.ts:62-74) keeps his rides apart, with any
\* number of rides, pipelines, answers, rejections and faults: he has at most
\* one assigned ride, and none while he is available.
THEOREM ClaimExcludes ==
  ASSUME "online" \notin Workload
  PROVE  Spec => []DriverExclusive
<1>1. Init => Claimed
  BY NoneAssumption DEF Init, Claimed, NoRide, NoCall, Handler
<1>2. Inv /\ Claimed /\ [Next]_vars => Claimed'
  BY ClaimedStep
<1>3. Inv /\ Claimed => DriverExclusive
  BY ClaimedIsExclusive
<1>4. QED
  BY <1>1, <1>2, <1>3, Invariance, PTL DEF Spec
=============================================================================
