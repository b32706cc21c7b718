------------------------- MODULE PaymentsProperties -------------------------
(***************************************************************************)
(* What payments and the outbox guarantee together.                        *)
(***************************************************************************)
EXTENDS Payments

-----------------------------------------------------------------------------
(* Types.                                                                  *)

RowRecord == [event : Events, ride : Rides, attempts : Nat,
              delivered : BOOLEAN, told : Nat]

WorkerRecord == [phase : WorkerPhases, row : Nat, batch : SUBSET Nat]

JobRecord == [phase : JobPhases, ride : Rides \cup {None}]

OutboxTypes ==
  /\ outbox \in Seq(RowRecord)
  /\ worker \in WorkerRecord
  /\ faults \in 0 .. MaxFaults

PaymentTypes ==
  /\ ride \in [Rides -> RideStatus]
  /\ payment \in [Rides -> PaymentStatuses]
  /\ timers \subseteq Rides
  /\ job \in [Jobs -> JobRecord]

\* The worker is at a row that exists and is not delivered yet; the rows of its
\* batch come after it.
WorkerWellFormed ==
  /\ worker.phase = "wait" => worker.batch = {}
  /\ worker.phase # "wait" => worker.row \in Undelivered
  /\ worker.batch \subseteq Undelivered
  /\ \A i \in worker.batch : worker.row < i

\* A handler has a ride; one about a payment, other than its creation, finds it.
JobWellFormed(j) ==
  /\ job[j].phase # "idle" => job[j].ride \in Rides
  /\ job[j].phase = "idle" => job[j] = Idle
  /\ job[j].phase \in {"tellCompleted", "tellPaid", "schedule", "confirm", "refund"}
       => payment[job[j].ride] # "ABSENT"

\* What a handler or a timer will update is there.
NothingMissing ==
  /\ \A j \in Jobs : JobWellFormed(j)
  /\ \A r \in timers : payment[r] # "ABSENT"

\* Every variable has its type, the worker works on an undelivered row, and a
\* timer or a handler that will update a payment finds one.
TypeOK ==
  /\ OutboxTypes /\ WorkerWellFormed
  /\ PaymentTypes /\ NothingMissing

-----------------------------------------------------------------------------
(* Payments.                                                               *)

\* A refund that is decided on an earlier read never hits a payment that is
\* not paid: whatever happened since, the payment was SUCCESS once and is
\* SUCCESS or REFUNDED now.
RefundIsOfPaid ==
  \A j \in Jobs :
    job[j].phase = "refund" => payment[job[j].ride] \in {"SUCCESS", "REFUNDED"}

\* A handler is between the completion of r and its payment.
Paying(r) == \E j \in Jobs : job[j].phase = "pay" /\ job[j].ride = r

\* Unless something throws or the process restarts, a completed ride has a
\* payment as soon as updateState has tried to create one, although the two
\* are written separately and initiateForRide may come between them.
CompletedIsPaid ==
  faults = 0 =>
    \A r \in Rides :
      ride[r] = "COMPLETED" /\ ~Paying(r) => payment[r] # "ABSENT"

\* In the sandbox a payment in progress has a timer, or a handler that will
\* set it or confirm the payment: the timer is set only after the audit row,
\* and forgets the payment when it fires.
ProcessingIsTimed ==
  Sandbox /\ faults = 0 =>
    \A r \in Rides :
      payment[r] = "PROCESSING" =>
        \/ r \in timers
        \/ \E j \in Jobs : job[j].phase \in {"schedule", "confirm"} /\ job[j].ride = r

Receipts(r) ==
  {i \in DOMAIN outbox : outbox[i].event = "payment.confirmed" /\ outbox[i].ride = r}

\* A handler will still write the receipt of r.
Telling(r) ==
  \E j \in Jobs : job[j].phase \in {"tellCompleted", "tellPaid"} /\ job[j].ride = r

\* Unless something throws, every payment that went through has a receipt in
\* the outbox or a handler that will write one.  Payment and receipt are two
\* writes, and three handlers may make them.
PaidHasReceipt ==
  faults = 0 =>
    \A r \in Rides :
      payment[r] \in {"SUCCESS", "REFUNDED"} => Receipts(r) # {} \/ Telling(r)

\* A receipt is written only for a payment that went through.
ReceiptIsOfPaid ==
  \A r \in Rides :
    Receipts(r) # {} \/ Telling(r) => payment[r] \in {"SUCCESS", "REFUNDED"}

\* A payment is never undone, neither by a create that lost its race nor by a
\* confirmation or refund decided on an old read: it only goes from PROCESSING
\* to SUCCESS, and between SUCCESS and REFUNDED.
Forward(from, to) ==
  \/ from = to
  \/ from = "ABSENT" /\ to \in {"PROCESSING", "SUCCESS"}
  \/ from = "PROCESSING" /\ to = "SUCCESS"
  \/ from \in {"SUCCESS", "REFUNDED"} /\ to \in {"SUCCESS", "REFUNDED"}

PaymentsMoveForward == [][\A r \in Rides : Forward(payment[r], payment'[r])]_vars

\* A payment is settled once: a confirmation read before a refund does not pay
\* it again.  docs/PHASE_3_DATABASE_DESIGN.md:469 asks of payment callbacks to
\* "mark a transaction settled only once"; confirm() updates by id only.
SettledOnce ==
  [][\A r \in Rides : payment[r] = "REFUNDED" => payment'[r] # "SUCCESS"]_vars

-----------------------------------------------------------------------------
(* The outbox.                                                             *)

\* A row that asks for a notification is not closed without one, unless the
\* worker has failed more than GiveUp times on it: neither a crash between
\* notification and mark, nor a poll that breaks off, loses it.
NothingLost ==
  \A i \in DOMAIN outbox :
    outbox[i].delivered /\ outbox[i].event \in Announced =>
      outbox[i].told > 0 \/ outbox[i].attempts > GiveUp

\* A passenger is told again of the same row only after a failure: there is one
\* notification, and at most one more for everything that has failed so far.
FewDuplicates == \A i \in DOMAIN outbox : outbox[i].told <= faults + 1

\* The worker is done with row i, or has failed on it.
Tried(i) == outbox[i].delivered \/ outbox[i].attempts > 0

\* Notifications arrive in the order of their rows unless one fails: no row is
\* told of, failed on or closed before the rows written before it were closed or
\* had failed, whichever poll breaks off or restarts (outbox.service.ts:106).
InOrder ==
  \A i, j \in DOMAIN outbox :
    i < j /\ (outbox[j].told > 0 \/ Tried(j)) => Tried(i)

\* The outbox implements the promise of AtLeastOnce.
Promise ==
  INSTANCE AtLeastOnce WITH
    Subjects <- Rides, Silent <- Events \ Announced, log <- outbox, mishaps <- faults

\* Every behaviour of the handlers and the worker is one of AtLeastOnce: rows are
\* only appended, an open row is told of before it is closed or has failed more
\* than GiveUp times, and a row fails, or is told of again, at most once for
\* everything that goes wrong (outbox.service.ts:94).
ImplementsAtLeastOnce == Promise!Spec

-----------------------------------------------------------------------------
(* Liveness.                                                               *)

\* Without faults, every payment in progress goes through in the sandbox.
PaymentSettles ==
  \A r \in Rides :
    Sandbox /\ payment[r] = "PROCESSING" ~>
      payment[r] \in {"SUCCESS", "REFUNDED"} \/ faults > 0

\* Without faults, the passenger is told of every payment that goes through.
PassengerIsTold ==
  \A r \in Rides :
    payment[r] = "SUCCESS" ~>
      faults > 0 \/ \E i \in Receipts(r) : outbox[i].told > 0

\* The worker closes every row that is written: those that fail do not keep it
\* from those that come after them in the batch, whatever fails or restarts.
RowsAreClosed == []<>(Undelivered = {})
=============================================================================
