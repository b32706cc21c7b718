------------------------------ MODULE Payments ------------------------------
(***************************************************************************)
(* The end of a ride and its payment: updateState of the driver            *)
(* (src/src/modules/rides/rides.service.ts), PaymentsService               *)
(* (modules/payments/payments.service.ts) and the administrator's refund   *)
(* (modules/admin/admin.service.ts), composed with the outbox they write.  *)
(*                                                                         *)
(* Payment.rideId is unique in the database, so payments are kept by ride  *)
(* and a second create of one ride throws.  A job is an HTTP request, or   *)
(* the auto-confirmation that the timer of a ride's payment runs; it keeps *)
(* what its handler has read.  One action is one database access with the  *)
(* code up to the next await; reads that decide nothing are left out, and  *)
(* a request that its first read refuses is not begun.                     *)
(***************************************************************************)
EXTENDS Outbox, RideStates

CONSTANTS
  Calls,     \* slots for HTTP requests in progress
  Sandbox,   \* NODE_ENV is not production
  None       \* null

ASSUME PaymentsAssumption ==
  /\ Sandbox \in BOOLEAN
  /\ Calls \cap Rides = {}
  /\ None \notin Rides

VARIABLES
  ride,      \* Ride.state
  payment,   \* Payment.status of each ride, or "ABSENT"
  timers,    \* rides with a pending auto-confirm timer
  job        \* handlers in progress: requests, and one timer per ride

vars == <<ride, payment, timers, job, outbox, worker, faults>>

Jobs == Calls \cup Rides

\* The statuses the code writes.
PaymentStatuses == {"ABSENT", "PROCESSING", "SUCCESS", "REFUNDED"}

\* What a handler does next.
JobPhases == {"idle", "complete", "pay", "tellCompleted", "tellPaid", "find",
              "create", "schedule", "confirm", "refund"}

Job(phase, r) == [phase |-> phase, ride |-> r]
Idle == Job("idle", None)

JobGoes(j, phase) == job' = [job EXCEPT ![j].phase = phase]
JobBegins(c, phase, r) ==
  /\ job[c] = Idle
  /\ job' = [job EXCEPT ![c] = Job(phase, r)]
JobEnds(j) == job' = [job EXCEPT ![j] = Idle]
SetPayment(r, status) == payment' = [payment EXCEPT ![r] = status]

\* Rides on their last leg; a row of their offer may still be undelivered.
Init ==
  /\ OutboxInit
  /\ ride = [r \in Rides |-> "EN_ROUTE_TO_DROPOFF"]
  /\ payment = [r \in Rides |-> "ABSENT"]
  /\ timers = {}
  /\ job = [j \in Jobs |-> Idle]

-----------------------------------------------------------------------------
(* updateState(COMPLETED): the transition, then the payment and the rows.  *)
(* The driver's other transitions are in Dispatch.                         *)

CompleteRead(c, r) ==
  /\ IsDriverForwardTransition(ride[r], "COMPLETED")
  /\ JobBegins(c, "complete", r)
  /\ UNCHANGED <<ride, payment, timers, outboxVars>>

\* The write names the ride only by its id.
CompleteCommit(c) ==
  /\ job[c].phase = "complete"
  /\ ride' = [ride EXCEPT ![job[c].ride] = "COMPLETED"]
  /\ JobGoes(c, "pay")
  /\ UNCHANGED <<payment, timers, outboxVars>>

\* Wrong on purpose: the payment is left for later.
CreatePaidLater(c) ==
  /\ job[c].phase = "pay"
  /\ JobGoes(c, "tellCompleted")
  /\ UNCHANGED <<ride, payment, timers, outboxVars>>

\* Wrong on purpose: created like a payment that is still to be confirmed.
CreateUnpaid(c) ==
  /\ job[c].phase = "pay"
  /\ payment[job[c].ride] = "ABSENT"
  /\ SetPayment(job[c].ride, "PROCESSING")
  /\ JobGoes(c, "tellCompleted")
  /\ UNCHANGED <<ride, timers, outboxVars>>

\* A payment that exists already makes create throw, and the request end.
CreatePaid(c) ==
  /\ job[c].phase = "pay"
  /\ \/ /\ payment[job[c].ride] = "ABSENT"
        /\ SetPayment(job[c].ride, "SUCCESS")
        /\ JobGoes(c, "tellCompleted")
     \/ /\ payment[job[c].ride] # "ABSENT"
        /\ JobEnds(c)
        /\ UNCHANGED payment
  /\ UNCHANGED <<ride, timers, outboxVars>>

\* Wrong on purpose: the second row is forgotten.
TellCompletedOnly(c) ==
  /\ job[c].phase = "tellCompleted"
  /\ Add("ride.completed", job[c].ride)
  /\ JobEnds(c)
  /\ UNCHANGED <<ride, payment, timers, worker, faults>>

TellCompleted(c) ==
  /\ job[c].phase = "tellCompleted"
  /\ Add("ride.completed", job[c].ride)
  /\ JobGoes(c, "tellPaid")
  /\ UNCHANGED <<ride, payment, timers, worker, faults>>

\* The last row of a completed ride, and of a confirmation.
TellPaid(j) ==
  /\ job[j].phase = "tellPaid"
  /\ Add("payment.confirmed", job[j].ride)
  /\ JobEnds(j)
  /\ UNCHANGED <<ride, payment, timers, worker, faults>>

-----------------------------------------------------------------------------
(* PaymentsService.                                                        *)

\* initiateForRide reads the ride, then the payment, then creates it.
InitiateRead(c, r) ==
  /\ ride[r] = "COMPLETED"
  /\ JobBegins(c, "find", r)
  /\ UNCHANGED <<ride, payment, timers, outboxVars>>

InitiateFind(c) ==
  /\ job[c].phase = "find"
  /\ \/ payment[job[c].ride] = "ABSENT" /\ JobGoes(c, "create")
     \/ payment[job[c].ride] # "ABSENT" /\ JobEnds(c)
  /\ UNCHANGED <<ride, payment, timers, outboxVars>>

InitiateCreate(c) ==
  /\ job[c].phase = "create"
  /\ \/ /\ payment[job[c].ride] = "ABSENT"
        /\ SetPayment(job[c].ride, "PROCESSING")
        /\ JobGoes(c, "schedule")
     \/ /\ payment[job[c].ride] # "ABSENT"
        /\ JobEnds(c)
        /\ UNCHANGED payment
  /\ UNCHANGED <<ride, timers, outboxVars>>

\* Wrong on purpose: no timer.
ScheduleNothing(c) ==
  /\ job[c].phase = "schedule"
  /\ JobEnds(c)
  /\ UNCHANGED <<ride, payment, timers, outboxVars>>

\* The audit row is written (it never throws); then scheduleAutoConfirm.
ScheduleAutoConfirm(c) ==
  /\ job[c].phase = "schedule"
  /\ timers' = IF Sandbox THEN timers \cup {job[c].ride} ELSE timers
  /\ JobEnds(c)
  /\ UNCHANGED <<ride, payment, outboxVars>>

\* confirm() goes on only from what it read; SUCCESS is returned, the rest thrown.
AutoConfirm(r) ==
  /\ r \in timers
  /\ timers' = timers \ {r}
  /\ \/ payment[r] = "PROCESSING" /\ JobBegins(r, "confirm", r)
     \/ payment[r] # "PROCESSING" /\ UNCHANGED job
  /\ UNCHANGED <<ride, payment, outboxVars>>

\* simulateSuccess and webhookSandbox.
ConfirmRead(c, r) ==
  /\ Sandbox
  /\ payment[r] = "PROCESSING"
  /\ JobBegins(c, "confirm", r)
  /\ UNCHANGED <<ride, payment, timers, outboxVars>>

\* The update names the payment only by its id.
ConfirmCommit(j) ==
  /\ job[j].phase = "confirm"
  /\ SetPayment(job[j].ride, "SUCCESS")
  /\ JobGoes(j, "tellPaid")
  /\ UNCHANGED <<ride, timers, outboxVars>>

\* Wrong on purpose: any payment that is not refunded yet.
RefundReadAny(c, r) ==
  /\ payment[r] \in {"PROCESSING", "SUCCESS"}
  /\ JobBegins(c, "refund", r)
  /\ UNCHANGED <<ride, payment, timers, outboxVars>>

\* The passenger's refund and the administrator's.
RefundRead(c, r) ==
  /\ payment[r] = "SUCCESS"
  /\ JobBegins(c, "refund", r)
  /\ UNCHANGED <<ride, payment, timers, outboxVars>>

RefundCommit(c) ==
  /\ job[c].phase = "refund"
  /\ SetPayment(job[c].ride, "REFUNDED")
  /\ JobEnds(c)
  /\ UNCHANGED <<ride, timers, outboxVars>>

-----------------------------------------------------------------------------
(* Failures.                                                               *)

\* An await throws: the rest of the handler is not run.
JobFails(j) ==
  /\ job[j] # Idle
  /\ faults < MaxFaults
  /\ JobEnds(j)
  /\ faults' = faults + 1
  /\ UNCHANGED <<ride, payment, timers, outbox, worker>>

\* The process restarts: requests, timers and the batch of the worker are gone.
Crash ==
  /\ faults < MaxFaults
  /\ job' = [j \in Jobs |-> Idle]
  /\ timers' = {}
  /\ worker' = Waiting
  /\ faults' = faults + 1
  /\ UNCHANGED <<ride, payment, outbox>>

-----------------------------------------------------------------------------

CallBegins(c) ==
  \E r \in Rides :
    CompleteRead(c, r) \/ InitiateRead(c, r) \/ ConfirmRead(c, r) \/ RefundRead(c, r)

JobStep(j) ==
  \/ CompleteCommit(j) \/ CreatePaid(j) \/ TellCompleted(j) \/ TellPaid(j)
  \/ InitiateFind(j) \/ InitiateCreate(j) \/ ScheduleAutoConfirm(j)
  \/ ConfirmCommit(j) \/ RefundCommit(j)

WorkerNext == (WorkerStep \/ WorkerFails) /\ UNCHANGED <<ride, payment, timers, job>>

Next ==
  \/ \E c \in Calls : CallBegins(c)
  \/ \E j \in Jobs : JobStep(j) \/ JobFails(j)
  \/ \E r \in Rides : AutoConfirm(r)
  \/ WorkerNext
  \/ Crash

Spec == Init /\ [][Next]_vars

\* Handlers finish, timers fire, and the worker keeps polling; clients need
\* not send anything and nothing need fail.
Fairness ==
  /\ \A j \in Jobs : WF_vars(JobStep(j))
  /\ \A r \in Rides : WF_vars(AutoConfirm(r))
  /\ WF_vars(WorkerStep /\ UNCHANGED <<ride, payment, timers, job>>)

FairSpec == Spec /\ Fairness
=============================================================================
