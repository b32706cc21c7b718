--------------------------- MODULE PaymentsProofs ---------------------------
(***************************************************************************)
(* Proofs about Payments and the outbox, for every set of rides and        *)
(* requests, every batch size and every bound.                             *)
(***************************************************************************)
EXTENDS PaymentsProperties, SequenceTheorems, FiniteSetTheorems, TLAPS

-----------------------------------------------------------------------------
(* Rides, payments, timers and handlers.                                   *)

\* What the handlers preserve together: a handler never meets a payment it
\* does not expect, because payments are never undone.
PaymentInv ==
  /\ PaymentTypes /\ NothingMissing
  /\ RefundIsOfPaid /\ CompletedIsPaid /\ ProcessingIsTimed

LEMMA InitPaymentInv == Init => PaymentInv
BY PaymentsAssumption
DEF Init, PaymentInv, PaymentTypes, NothingMissing, JobWellFormed, RefundIsOfPaid,
    CompletedIsPaid, ProcessingIsTimed, JobRecord, JobPhases, PaymentStatuses, Idle, Job,
    RideStatus, ActiveRideStates, AssignedActiveStates, Jobs

\* The statuses and the transitions that are used here.
LEMMA Completion ==
  /\ "COMPLETED" \in RideStatus
  /\ \A from \in RideStatus : IsDriverForwardTransition(from, "COMPLETED") =>
       from = "EN_ROUTE_TO_DROPOFF"
BY DEF RideStatus, TerminalStates, IsDriverForwardTransition, DriverForward

\* Replacing a handler by a typed record keeps the types.
LEMMA JobGoesType ==
  ASSUME PaymentTypes, NEW j \in Jobs, NEW phase \in JobPhases, JobGoes(j, phase)
  PROVE  job' \in [Jobs -> JobRecord]
BY DEF PaymentTypes, JobGoes, JobRecord

LEMMA JobGoesEffect ==
  ASSUME PaymentTypes, NEW j \in Jobs, NEW phase \in JobPhases, JobGoes(j, phase)
  PROVE  /\ job'[j].phase = phase /\ job'[j].ride = job[j].ride
         /\ \A k \in Jobs \ {j} : job'[k] = job[k]
BY DEF PaymentTypes, JobGoes, JobRecord

LEMMA JobBeginsType ==
  ASSUME PaymentTypes, NEW j \in Jobs, NEW phase \in JobPhases, NEW r \in Rides,
         JobBegins(j, phase, r)
  PROVE  job' \in [Jobs -> JobRecord]
BY DEF PaymentTypes, JobBegins, Job, JobRecord

LEMMA JobEndsType ==
  ASSUME PaymentTypes, NEW j \in Jobs, JobEnds(j)
  PROVE  job' \in [Jobs -> JobRecord]
BY DEF PaymentTypes, JobEnds, Idle, Job, JobRecord, JobPhases

\* A handler begins: nothing else changes.
LEMMA BeginKeeps ==
  ASSUME PaymentInv, NEW c \in Calls, CallBegins(c)
  PROVE  PaymentInv'
<1>0. c \in Jobs
  BY DEF Jobs
<1>1. PICK r \in Rides : CompleteRead(c, r) \/ InitiateRead(c, r) \/ ConfirmRead(c, r)
                           \/ RefundRead(c, r)
  BY DEF CallBegins
<1>2. /\ \E phase \in {"complete", "find", "confirm", "refund"} :
            /\ JobBegins(c, phase, r)
            /\ phase \in {"confirm", "refund"} => payment[r] # "ABSENT"
            /\ phase = "refund" => payment[r] = "SUCCESS"
      /\ UNCHANGED <<ride, payment, timers, faults>>
  BY <1>1 DEF CompleteRead, InitiateRead, ConfirmRead, RefundRead, outboxVars
<1>3. PaymentTypes'
  <2>1. job' \in [Jobs -> JobRecord]
    BY <1>0, <1>2, JobBeginsType DEF PaymentInv, JobPhases
  <2>2. QED
    BY <1>2, <2>1 DEF PaymentInv, PaymentTypes
<1>4. QED
  BY <1>0, <1>2, <1>3
  DEF PaymentInv, PaymentTypes, NothingMissing, JobWellFormed, RefundIsOfPaid,
      CompletedIsPaid, Paying, ProcessingIsTimed, JobBegins, Job, Idle

\* A handler goes on.  What a create, a confirmation or a refund writes is what
\* the invariant allows, because a payment is never taken back.
LEMMA JobStepKeeps ==
  ASSUME PaymentInv, NEW j \in Jobs, JobStep(j)
  PROVE  PaymentInv'
<1> DEFINE r == job[j].ride
<1>0. r \in Rides /\ UNCHANGED faults
  BY DEF PaymentInv, NothingMissing, JobWellFormed, JobStep, CompleteCommit, CreatePaid,
     TellCompleted, TellPaid, InitiateFind, InitiateCreate, ScheduleAutoConfirm,
     ConfirmCommit, RefundCommit, outboxVars
<1>1. job' \in [Jobs -> JobRecord]
  <2>1. JobEnds(j) \/ \E phase \in JobPhases : JobGoes(j, phase)
    BY DEF JobStep, CompleteCommit, CreatePaid, TellCompleted, TellPaid, InitiateFind,
       InitiateCreate, ScheduleAutoConfirm, ConfirmCommit, RefundCommit, JobPhases
  <2>2. QED
    BY <2>1, JobEndsType, JobGoesType DEF PaymentInv
<1>2. PaymentTypes'
  BY <1>0, <1>1, Completion
  DEF PaymentInv, PaymentTypes, PaymentStatuses, SetPayment, JobStep, CompleteCommit,
      CreatePaid, TellCompleted, TellPaid, InitiateFind, InitiateCreate,
      ScheduleAutoConfirm, ConfirmCommit, RefundCommit
<1> USE DEF PaymentInv, PaymentTypes, NothingMissing, JobWellFormed, RefundIsOfPaid,
            CompletedIsPaid, Paying, ProcessingIsTimed, JobEnds, JobGoes, SetPayment, Job, Idle
<1>3. CASE CompleteCommit(j)
  BY <1>0, <1>2, <1>3 DEF CompleteCommit
<1>4. CASE CreatePaid(j)
  <2>1. CASE payment[r] = "ABSENT"
    <3>1. /\ job[j].phase = "pay"
          /\ job'[j].phase = "tellCompleted" /\ job'[j].ride = r
          /\ \A k \in Jobs \ {j} : job'[k] = job[k]
      BY <1>4, <2>1, JobGoesEffect DEF CreatePaid, JobPhases
    <3>2. payment' = [payment EXCEPT ![r] = "SUCCESS"] /\ UNCHANGED <<ride, timers>>
      BY <1>4, <2>1 DEF CreatePaid
    <3> HIDE DEF JobGoes, JobEnds
    <3>3. QED
      BY <1>0, <1>2, <2>1, <3>1, <3>2
  <2>2. CASE payment[r] # "ABSENT"
    BY <1>0, <1>2, <1>4, <2>2 DEF CreatePaid
  <2>3. QED
    BY <2>1, <2>2
<1>5. CASE TellCompleted(j)
  BY <1>0, <1>2, <1>5 DEF TellCompleted
<1>6. CASE TellPaid(j)
  BY <1>0, <1>2, <1>6 DEF TellPaid
<1>7. CASE InitiateFind(j)
  <2>1. CASE payment[r] = "ABSENT"
    <3>1. /\ job[j].phase = "find"
          /\ job'[j].phase = "create" /\ job'[j].ride = r
          /\ \A k \in Jobs \ {j} : job'[k] = job[k]
      BY <1>7, <2>1, JobGoesEffect DEF InitiateFind, JobPhases
    <3>2. UNCHANGED payment /\ UNCHANGED <<ride, timers>>
      BY <1>7, <2>1 DEF InitiateFind
    <3> HIDE DEF JobGoes, JobEnds
    <3>3. QED
      BY <1>0, <1>2, <2>1, <3>1, <3>2
  <2>2. CASE payment[r] # "ABSENT"
    BY <1>0, <1>2, <1>7, <2>2 DEF InitiateFind
  <2>3. QED
    BY <2>1, <2>2
<1>8. CASE InitiateCreate(j)
  <2>1. CASE payment[r] = "ABSENT"
    <3>1. /\ job[j].phase = "create"
          /\ job'[j].phase = "schedule" /\ job'[j].ride = r
          /\ \A k \in Jobs \ {j} : job'[k] = job[k]
      BY <1>8, <2>1, JobGoesEffect DEF InitiateCreate, JobPhases
    <3>2. payment' = [payment EXCEPT ![r] = "PROCESSING"] /\ UNCHANGED <<ride, timers>>
      BY <1>8, <2>1 DEF InitiateCreate
    <3> HIDE DEF JobGoes, JobEnds
    <3>3. QED
      BY <1>0, <1>2, <2>1, <3>1, <3>2
  <2>2. CASE payment[r] # "ABSENT"
    BY <1>0, <1>2, <1>8, <2>2 DEF InitiateCreate
  <2>3. QED
    BY <2>1, <2>2
<1>9. CASE ScheduleAutoConfirm(j)
  BY <1>0, <1>2, <1>9 DEF ScheduleAutoConfirm
<1>10. CASE ConfirmCommit(j)
  BY <1>0, <1>2, <1>10 DEF ConfirmCommit
<1>11. CASE RefundCommit(j)
  BY <1>0, <1>2, <1>11 DEF RefundCommit
<1>12. QED
  BY <1>3, <1>4, <1>5, <1>6, <1>7, <1>8, <1>9, <1>10, <1>11, JobStep(j) DEF JobStep

\* A timer fires: its payment, if it is still in progress, gets a handler.
LEMMA AutoConfirmKeeps ==
  ASSUME PaymentInv, NEW r \in Rides, AutoConfirm(r)
  PROVE  PaymentInv'
<1>0. r \in Jobs /\ UNCHANGED <<ride, payment, faults>> /\ timers' = timers \ {r}
  BY DEF Jobs, AutoConfirm, outboxVars
<1>1. PaymentTypes'
  <2>1. job' \in [Jobs -> JobRecord]
    BY <1>0, JobBeginsType DEF PaymentInv, PaymentTypes, AutoConfirm, JobPhases
  <2>2. QED
    BY <1>0, <2>1 DEF PaymentInv, PaymentTypes
<1>2. QED
  BY <1>0, <1>1
  DEF PaymentInv, PaymentTypes, NothingMissing, JobWellFormed, RefundIsOfPaid,
      CompletedIsPaid, Paying, ProcessingIsTimed, JobBegins, Job, Idle, AutoConfirm

\* After a fault the conditions on faults say nothing any more.
LEMMA FaultKeeps ==
  ASSUME PaymentInv, OutboxTypes, Crash \/ \E j \in Jobs : JobFails(j)
  PROVE  PaymentInv'
<1>1. /\ UNCHANGED <<ride, payment>> /\ timers' \subseteq timers
      /\ faults' = faults + 1
      /\ \A j \in Jobs : job'[j] = job[j] \/ job'[j] = Idle
      /\ DOMAIN job' = Jobs
      /\ job' = [j \in Jobs |-> job'[j]]
  BY DEF PaymentInv, PaymentTypes, Crash, JobFails, JobEnds
<1>2. faults' # 0
  BY <1>1 DEF OutboxTypes
<1>3. PaymentTypes'
  <2>1. Idle \in JobRecord
    BY DEF Idle, Job, JobRecord, JobPhases
  <2>2. \A j \in Jobs : job'[j] \in JobRecord
    BY <1>1, <2>1 DEF PaymentInv, PaymentTypes
  <2>3. QED
    BY <1>1, <2>2 DEF PaymentInv, PaymentTypes
<1>4. QED
  BY <1>1, <1>2, <1>3
  DEF PaymentInv, NothingMissing, JobWellFormed, RefundIsOfPaid, CompletedIsPaid,
      ProcessingIsTimed, Idle, Job

\* A step of the worker, or none.
LEMMA WorkerKeepsPayments ==
  ASSUME PaymentInv, OutboxTypes, UNCHANGED <<ride, payment, timers, job>>, faults' \in Nat,
         faults' = 0 => faults = 0
  PROVE  PaymentInv'
BY DEF PaymentInv, PaymentTypes, NothingMissing, JobWellFormed, RefundIsOfPaid,
   CompletedIsPaid, Paying, ProcessingIsTimed

LEMMA PaymentInvStep ==
  ASSUME PaymentInv, OutboxTypes, [Next]_vars
  PROVE  PaymentInv'
<1>1. CASE WorkerNext \/ UNCHANGED vars
  <2>1. UNCHANGED <<ride, payment, timers, job>>
    BY <1>1 DEF WorkerNext, vars
  <2>2. faults' = faults \/ faults' = faults + 1
    BY <1>1 DEF WorkerNext, WorkerStep, WorkerFails, Poll, Notify, Mark, Count, GiveUpRow,
       ProcessFails, PollFails, vars
  <2>3. QED
    BY <2>1, <2>2, WorkerKeepsPayments, OutboxAssumption DEF OutboxTypes
<1>2. QED
  BY <1>1, BeginKeeps, JobStepKeeps, AutoConfirmKeeps, FaultKeeps DEF Next

-----------------------------------------------------------------------------
(* The outbox.                                                             *)

\* What the worker knows about its row, from the steps it has taken with it.
WorkerKnows ==
  /\ worker.phase = "mark" /\ Here.event \in Announced => Here.told > 0
  /\ worker.phase = "giveup" => Here.attempts > GiveUp

\* A row that will be announced again has been told of at most once per fault.
ToldSoFar ==
  \A i \in Undelivered :
    outbox[i].told <= faults \/ (worker.phase = "mark" /\ worker.row = i)

OutboxInv ==
  /\ OutboxTypes /\ WorkerWellFormed
  /\ NothingLost /\ FewDuplicates
  /\ WorkerKnows /\ ToldSoFar

LEMMA RowType ==
  ASSUME NEW event \in Events, NEW r \in Rides
  PROVE  Row(event, r) \in RowRecord
BY DEF Row, RowRecord

LEMMA WaitingType == Waiting \in WorkerRecord
BY DEF Waiting, Working, WorkerRecord, WorkerPhases

LEMMA InitOutboxInv == OutboxInit => OutboxInv
<1> SUFFICES ASSUME OutboxInit PROVE OutboxInv
  OBVIOUS
<1>1. /\ outbox \in Seq(RowRecord) /\ DOMAIN outbox \subseteq Nat
      /\ \A i \in DOMAIN outbox : outbox[i].told = 0 /\ ~outbox[i].delivered
  <2>1. CASE outbox = <<>>
    BY <2>1
  <2>2. CASE \E r \in Rides : outbox = <<Row("ride.offer_reserved", r)>>
    BY <2>2, RowType DEF Row, Events
  <2>3. QED
    BY <2>1, <2>2 DEF OutboxInit
<1>2. QED
  BY <1>1, WaitingType, OutboxAssumption
  DEF OutboxInit, OutboxInv, OutboxTypes, WorkerWellFormed, NothingLost, FewDuplicates,
      WorkerKnows, ToldSoFar, Undelivered, Waiting, Working

\* Rows are numbered from 1, and the worker's row is one of them.
LEMMA RowsAreNumbered ==
  ASSUME OutboxInv
  PROVE  /\ Undelivered \subseteq DOMAIN outbox
         /\ DOMAIN outbox = 1 .. Len(outbox)
         /\ Len(outbox) \in Nat
         /\ \A i \in DOMAIN outbox : outbox[i] \in RowRecord
         /\ worker.phase # "wait" => worker.row \in DOMAIN outbox
BY LenProperties DEF OutboxInv, OutboxTypes, WorkerWellFormed, Undelivered

\* Writing one row leaves the others.
LEMMA SetRowEffect ==
  ASSUME OutboxInv, worker.phase # "wait", NEW e \in RowRecord, SetRow(e)
  PROVE  /\ outbox' \in Seq(RowRecord)
         /\ DOMAIN outbox' = DOMAIN outbox
         /\ outbox'[worker.row] = e
         /\ \A i \in DOMAIN outbox : i # worker.row => outbox'[i] = outbox[i]
<1>1. worker.row \in 1 .. Len(outbox) /\ outbox \in Seq(RowRecord)
  BY RowsAreNumbered DEF OutboxInv, OutboxTypes
<1>2. outbox' = [outbox EXCEPT ![worker.row] = e]
  BY DEF SetRow
<1>3. outbox' \in Seq(RowRecord) /\ Len(outbox') = Len(outbox)
  BY <1>1, <1>2, ExceptSeq
<1>4. DOMAIN outbox' = DOMAIN outbox
  BY <1>2
<1>5. QED
  BY <1>1, <1>2, <1>3, <1>4, RowsAreNumbered

\* A new row comes last and leaves the others.
LEMMA AddEffect ==
  ASSUME OutboxInv, NEW event \in Events, NEW r \in Rides, Add(event, r)
  PROVE  /\ outbox' \in Seq(RowRecord)
         /\ DOMAIN outbox' = DOMAIN outbox \cup {Len(outbox) + 1}
         /\ outbox'[Len(outbox) + 1] = Row(event, r)
         /\ \A i \in DOMAIN outbox : outbox'[i] = outbox[i]
<1>1. outbox \in Seq(RowRecord) /\ Row(event, r) \in RowRecord
  BY RowType DEF OutboxInv, OutboxTypes
<1>2. /\ outbox' \in Seq(RowRecord) /\ Len(outbox') = Len(outbox) + 1
      /\ \A i \in 1 .. Len(outbox) : outbox'[i] = outbox[i]
      /\ outbox'[Len(outbox) + 1] = Row(event, r)
  BY <1>1, AppendProperties DEF Add
<1>3. /\ DOMAIN outbox' = 1 .. Len(outbox) + 1 /\ DOMAIN outbox = 1 .. Len(outbox)
      /\ Len(outbox) \in Nat
  BY <1>1, <1>2, LenProperties
<1>4. QED
  BY <1>2, <1>3

\* The worker goes to the oldest row of the batch, or to its timer.
LEMMA TakeNextEffect ==
  ASSUME NEW batch \in SUBSET Nat, TakeNext(batch)
  PROVE  /\ worker' \in WorkerRecord
         /\ \/ worker' = Waiting
            \/ /\ worker'.phase \in {"notify", "mark"}
               /\ worker'.row \in batch
               /\ worker'.batch \subseteq batch
               /\ \A i \in worker'.batch : worker'.row < i
               /\ worker'.phase = "mark" => outbox[worker'.row].event \notin Announced
<1>1. CASE worker' = Waiting
  BY <1>1, WaitingType
<1>2. CASE worker' # Waiting
  <2>1. PICK i \in batch :
          /\ \A j \in batch : i <= j
          /\ worker' = Working(IF outbox[i].event \in Announced THEN "notify" ELSE "mark",
                               i, batch \ {i})
    BY <1>2 DEF TakeNext
  <2>2. /\ worker'.row = i /\ worker'.batch = batch \ {i}
        /\ worker'.phase = IF outbox[i].event \in Announced THEN "notify" ELSE "mark"
    BY <2>1 DEF Working
  <2>3. worker' \in WorkerRecord
    BY <2>1 DEF Working, WorkerRecord, WorkerPhases
  <2>4. \A j \in batch \ {i} : i < j
    <3>1. \A j \in batch : i \in Nat /\ j \in Nat /\ i <= j
      BY <2>1
    <3>2. QED
      BY <3>1
  <2>5. worker'.phase = "mark" => outbox[worker'.row].event \notin Announced
    BY <2>2
  <2>6. worker'.phase \in {"notify", "mark"}
    BY <2>2
  <2>7. QED
    BY <2>1, <2>2, <2>3, <2>4, <2>5, <2>6
<1>3. QED
  BY <1>1, <1>2

\* The worker leaves its row, having closed it or not, for a later one.
LEMMA LeaveRow ==
  ASSUME OutboxInv, worker.phase # "wait", UNCHANGED faults, TakeNext(worker.batch),
         NEW e \in RowRecord, SetRow(e),
         e.event = Here.event, e.told = Here.told, e.told <= faults + 1,
         e.delivered \/ e.told <= faults,
         e.delivered /\ e.event \in Announced => e.told > 0 \/ e.attempts > GiveUp
  PROVE  OutboxInv'
<1>1. worker.batch \in SUBSET Nat
  BY DEF OutboxInv, OutboxTypes, WorkerRecord
<1>2. /\ worker.row \in Undelivered /\ worker.batch \subseteq Undelivered
      /\ worker.row \notin worker.batch /\ worker.row \in Nat
  BY DEF OutboxInv, WorkerWellFormed, OutboxTypes, WorkerRecord
<1>3. OutboxTypes'
  BY <1>1, TakeNextEffect, SetRowEffect DEF OutboxInv, OutboxTypes
<1>4. worker.batch \subseteq Undelivered'
  BY <1>2, SetRowEffect DEF Undelivered
<1>5. \A i \in worker.batch : outbox'[i] = outbox[i] /\ outbox[i].told <= faults
  BY <1>2, SetRowEffect DEF Undelivered, OutboxInv, ToldSoFar
<1>6. WorkerWellFormed'
  BY <1>1, <1>4, TakeNextEffect DEF WorkerWellFormed, Waiting, Working
<1>7. WorkerKnows'
  BY <1>1, <1>5, TakeNextEffect DEF WorkerKnows, Waiting, Working, Here
<1>8. NothingLost' /\ FewDuplicates'
  BY <1>2, SetRowEffect DEF OutboxInv, NothingLost, FewDuplicates, Undelivered
<1>9. ToldSoFar'
  BY <1>2, SetRowEffect DEF OutboxInv, ToldSoFar, Undelivered
<1>10. QED
  BY <1>3, <1>6, <1>7, <1>8, <1>9 DEF OutboxInv

\* A poll begins with the oldest rows that are not delivered.
LEMMA PollKeeps ==
  ASSUME OutboxInv, Poll
  PROVE  OutboxInv'
<1>1. /\ FirstUndelivered \subseteq Undelivered /\ FirstUndelivered \in SUBSET Nat
      /\ UNCHANGED <<outbox, faults>> /\ TakeNext(FirstUndelivered)
      /\ worker.phase = "wait"
  BY RowsAreNumbered DEF FirstUndelivered, Poll
<1>2. OutboxTypes'
  BY <1>1, TakeNextEffect DEF OutboxInv, OutboxTypes
<1>3. WorkerWellFormed'
  <2>1. Undelivered' = Undelivered
    BY <1>1 DEF Undelivered
  <2>2. \/ worker' = Waiting
        \/ /\ worker'.phase \in {"notify", "mark"}
           /\ worker'.row \in FirstUndelivered
           /\ worker'.batch \subseteq FirstUndelivered
           /\ \A i \in worker'.batch : worker'.row < i
    BY <1>1, TakeNextEffect
  <2>3. CASE worker' = Waiting
    BY <2>3 DEF WorkerWellFormed, Waiting, Working
  <2>4. QED
    BY <1>1, <2>1, <2>2, <2>3 DEF WorkerWellFormed
<1>4. WorkerKnows'
  BY <1>1, TakeNextEffect DEF WorkerKnows, Waiting, Working, Here
<1>5. QED
  BY <1>1, <1>2, <1>3, <1>4
  DEF OutboxInv, NothingLost, FewDuplicates, ToldSoFar, Undelivered

\* One more notification for the row at hand, which had none since the last fault.
LEMMA NotifyKeeps ==
  ASSUME OutboxInv, Notify
  PROVE  OutboxInv'
<1> DEFINE e == [Here EXCEPT !.told = @ + 1]
<1>1. /\ worker.phase = "notify" /\ SetRow(e) /\ UNCHANGED faults
      /\ worker' = [worker EXCEPT !.phase = "mark"]
  BY DEF Notify
<1>2. Here \in RowRecord /\ worker.row \in Undelivered /\ faults \in Nat
  BY <1>1, RowsAreNumbered, OutboxAssumption
  DEF OutboxInv, WorkerWellFormed, OutboxTypes, Here
<1>3. /\ e \in RowRecord /\ e.told = Here.told + 1 /\ e.delivered = Here.delivered
      /\ e.event = Here.event /\ Here.told \in Nat
  BY <1>2 DEF RowRecord
<1>4. Here.told <= faults /\ ~Here.delivered
  BY <1>1, <1>2 DEF OutboxInv, ToldSoFar, Here, Undelivered
<1> HIDE DEF e
<1>5. /\ outbox' \in Seq(RowRecord) /\ DOMAIN outbox' = DOMAIN outbox
      /\ outbox'[worker.row] = e
      /\ \A i \in DOMAIN outbox : i # worker.row => outbox'[i] = outbox[i]
  BY <1>1, <1>3, SetRowEffect
<1>6. /\ worker' \in WorkerRecord /\ worker'.phase = "mark"
      /\ worker'.row = worker.row /\ worker'.batch = worker.batch
  BY <1>1 DEF OutboxInv, OutboxTypes, WorkerRecord, WorkerPhases
<1>7. Undelivered' = Undelivered
  BY <1>2, <1>3, <1>4, <1>5 DEF Undelivered
<1>8. OutboxTypes' /\ WorkerWellFormed'
  BY <1>1, <1>5, <1>6, <1>7 DEF OutboxInv, OutboxTypes, WorkerWellFormed
<1>9. WorkerKnows'
  BY <1>3, <1>5, <1>6 DEF WorkerKnows, Here
<1>10. NothingLost' /\ ToldSoFar'
  BY <1>1, <1>2, <1>3, <1>4, <1>5, <1>6, <1>7
  DEF OutboxInv, NothingLost, ToldSoFar, Undelivered
<1>11. FewDuplicates'
  <2>1. e.told <= faults' + 1
    BY <1>1, <1>2, <1>3, <1>4
  <2>2. QED
    BY <1>1, <1>5, <2>1 DEF OutboxInv, FewDuplicates
<1>12. QED
  BY <1>8, <1>9, <1>10, <1>11 DEF OutboxInv

\* The row at hand, before the worker leaves it.
LEMMA RowAtHand ==
  ASSUME OutboxInv, worker.phase # "wait"
  PROVE  /\ Here \in RowRecord /\ faults \in Nat /\ Here.told <= faults + 1
         /\ worker.phase # "mark" => Here.told <= faults
BY RowsAreNumbered, OutboxAssumption
DEF OutboxInv, WorkerWellFormed, OutboxTypes, Here, FewDuplicates, ToldSoFar

\* The row is closed, with a notification if it asks for one.
LEMMA MarkKeeps ==
  ASSUME OutboxInv, Mark
  PROVE  OutboxInv'
<1> DEFINE e == [Here EXCEPT !.delivered = TRUE]
<1>1. /\ worker.phase = "mark" /\ SetRow(e) /\ UNCHANGED faults
      /\ TakeNext(worker.batch)
  BY DEF Mark
<1>2. /\ e \in RowRecord /\ e.event = Here.event /\ e.told = Here.told /\ e.delivered
      /\ e.attempts = Here.attempts
  BY <1>1, RowAtHand DEF RowRecord
<1>3. e.event \in Announced => e.told > 0
  BY <1>1, <1>2 DEF OutboxInv, WorkerKnows
<1> HIDE DEF e
<1>4. QED
  BY <1>1, <1>2, <1>3, RowAtHand, LeaveRow

\* The failure is counted; the last one leads to the row being given up.
LEMMA CountKeeps ==
  ASSUME OutboxInv, Count
  PROVE  OutboxInv'
<1> DEFINE e == [Here EXCEPT !.attempts = @ + 1]
<1>1. worker.phase = "count" /\ SetRow(e) /\ UNCHANGED faults
  BY DEF Count
<1>2. /\ e \in RowRecord /\ e.event = Here.event /\ e.told = Here.told
      /\ e.delivered = Here.delivered /\ e.attempts = Here.attempts + 1
      /\ Here.attempts \in Nat
  BY <1>1, RowAtHand DEF RowRecord
<1>3. ~Here.delivered /\ worker.row \in Undelivered
  BY <1>1 DEF OutboxInv, WorkerWellFormed, Undelivered, Here
<1> HIDE DEF e
<1>4. CASE Here.attempts < GiveUp /\ TakeNext(worker.batch)
  BY <1>1, <1>2, <1>3, <1>4, RowAtHand, LeaveRow
<1>5. CASE Here.attempts >= GiveUp /\ worker' = [worker EXCEPT !.phase = "giveup"]
  <2>1. /\ outbox' \in Seq(RowRecord) /\ DOMAIN outbox' = DOMAIN outbox
        /\ outbox'[worker.row] = e
        /\ \A i \in DOMAIN outbox : i # worker.row => outbox'[i] = outbox[i]
    BY <1>1, <1>2, SetRowEffect
  <2>2. /\ worker' \in WorkerRecord /\ worker'.phase = "giveup"
        /\ worker'.row = worker.row /\ worker'.batch = worker.batch
    BY <1>5 DEF OutboxInv, OutboxTypes, WorkerRecord, WorkerPhases
  <2>3. Undelivered' = Undelivered
    BY <1>2, <1>3, <2>1 DEF Undelivered, Here
  <2>4. OutboxTypes' /\ WorkerWellFormed'
    BY <1>1, <2>1, <2>2, <2>3 DEF OutboxInv, OutboxTypes, WorkerWellFormed
  <2>5. WorkerKnows'
    <3>1. e.attempts > GiveUp
      BY <1>2, <1>5, OutboxAssumption
    <3>2. QED
      BY <2>1, <2>2, <3>1 DEF WorkerKnows, Here
  <2>6. NothingLost' /\ FewDuplicates' /\ ToldSoFar'
    BY <1>1, <1>2, <1>3, <2>1, <2>2, <2>3, RowAtHand
    DEF OutboxInv, NothingLost, FewDuplicates, ToldSoFar, Undelivered, Here
  <2>7. QED
    BY <2>4, <2>5, <2>6 DEF OutboxInv
<1>6. QED
  BY <1>4, <1>5 DEF Count

\* A row that is given up has failed more than GiveUp times.
LEMMA GiveUpKeeps ==
  ASSUME OutboxInv, GiveUpRow
  PROVE  OutboxInv'
<1> DEFINE e == [Here EXCEPT !.delivered = TRUE]
<1>1. /\ worker.phase = "giveup" /\ SetRow(e) /\ UNCHANGED faults
      /\ TakeNext(worker.batch)
  BY DEF GiveUpRow
<1>2. /\ e \in RowRecord /\ e.event = Here.event /\ e.told = Here.told /\ e.delivered
      /\ e.attempts = Here.attempts
  BY <1>1, RowAtHand DEF RowRecord
<1>3. e.attempts > GiveUp
  BY <1>1, <1>2 DEF OutboxInv, WorkerKnows
<1> HIDE DEF e
<1>4. QED
  BY <1>1, <1>2, <1>3, RowAtHand, LeaveRow

\* Something throws, or the process restarts: no row changes, and one more
\* fault allows for one more notification of the row at hand.
LEMMA WorkerFaultKeeps ==
  ASSUME OutboxInv, UNCHANGED outbox, faults < MaxFaults, faults' = faults + 1,
         \/ worker' = Waiting
         \/ worker.phase # "wait" /\ worker' = [worker EXCEPT !.phase = "count"]
  PROVE  OutboxInv'
<1>0. faults \in Nat /\ faults' \in 0 .. MaxFaults /\ Undelivered' = Undelivered
  BY OutboxAssumption DEF OutboxInv, OutboxTypes, Undelivered
<1>1. /\ worker' \in WorkerRecord /\ worker'.phase \in {"wait", "count"}
      /\ worker'.phase = "wait" => worker'.batch = {}
      /\ worker'.phase = "count" =>
           /\ worker.phase # "wait"
           /\ worker'.row = worker.row /\ worker'.batch = worker.batch
  BY WaitingType
  DEF OutboxInv, OutboxTypes, WorkerRecord, WorkerPhases, Waiting, Working
<1>2. OutboxTypes' /\ WorkerWellFormed' /\ WorkerKnows'
  BY <1>0, <1>1 DEF OutboxInv, OutboxTypes, WorkerWellFormed, WorkerKnows
<1>3. NothingLost'
  BY DEF OutboxInv, NothingLost
<1>4. \A i \in DOMAIN outbox : outbox[i].told \in Nat /\ outbox[i].told <= faults'
  BY <1>0, RowsAreNumbered DEF OutboxInv, FewDuplicates, RowRecord
<1>5. FewDuplicates' /\ ToldSoFar'
  BY <1>0, <1>4 DEF FewDuplicates, ToldSoFar, Undelivered
<1>6. QED
  BY <1>2, <1>3, <1>5 DEF OutboxInv

\* Something else throws, which leaves the worker alone.
LEMMA OtherFaultKeeps ==
  ASSUME OutboxInv, UNCHANGED <<outbox, worker>>, faults < MaxFaults, faults' = faults + 1
  PROVE  OutboxInv'
<1>0. faults \in Nat /\ faults' \in 0 .. MaxFaults
  BY OutboxAssumption DEF OutboxInv, OutboxTypes
<1>1. OutboxTypes' /\ WorkerWellFormed' /\ WorkerKnows' /\ NothingLost'
  BY <1>0
  DEF OutboxInv, OutboxTypes, WorkerWellFormed, WorkerKnows, NothingLost, Undelivered, Here
<1>2. \A i \in DOMAIN outbox : outbox[i].told \in Nat /\ outbox[i].told <= faults'
  BY <1>0, RowsAreNumbered DEF OutboxInv, FewDuplicates, RowRecord
<1>3. FewDuplicates' /\ ToldSoFar'
  BY <1>0, <1>2 DEF FewDuplicates, ToldSoFar, Undelivered
<1>4. QED
  BY <1>1, <1>3 DEF OutboxInv

\* A handler writes a row.
LEMMA AddKeeps ==
  ASSUME OutboxInv, NEW event \in Events, NEW r \in Rides, Add(event, r),
         UNCHANGED <<worker, faults>>
  PROVE  OutboxInv'
<1> DEFINE n == Len(outbox) + 1
<1>1. /\ outbox' \in Seq(RowRecord) /\ DOMAIN outbox' = DOMAIN outbox \cup {n}
      /\ outbox'[n].told = 0 /\ ~outbox'[n].delivered
      /\ \A i \in DOMAIN outbox : outbox'[i] = outbox[i]
  <2>1. /\ outbox' \in Seq(RowRecord) /\ DOMAIN outbox' = DOMAIN outbox \cup {n}
        /\ outbox'[n] = Row(event, r)
        /\ \A i \in DOMAIN outbox : outbox'[i] = outbox[i]
    BY AddEffect
  <2>2. Row(event, r).told = 0 /\ ~Row(event, r).delivered
    BY DEF Row
  <2>3. QED
    BY <2>1, <2>2
<1> HIDE DEF n
<1>2. Undelivered \subseteq Undelivered' /\ Undelivered' \subseteq Undelivered \cup {n}
  BY <1>1 DEF Undelivered
<1>3. OutboxTypes' /\ WorkerWellFormed'
  BY <1>1, <1>2 DEF OutboxInv, OutboxTypes, WorkerWellFormed
<1>4. WorkerKnows'
  BY <1>1, RowsAreNumbered DEF OutboxInv, WorkerKnows, Here
<1>5. faults \in Nat
  BY OutboxAssumption DEF OutboxInv, OutboxTypes
<1>6. NothingLost' /\ FewDuplicates' /\ ToldSoFar'
  BY <1>1, <1>2, <1>5, RowsAreNumbered
  DEF OutboxInv, NothingLost, FewDuplicates, ToldSoFar, Undelivered
<1>7. QED
  BY <1>3, <1>4, <1>6 DEF OutboxInv

LEMMA OutboxInvUnchanged ==
  ASSUME OutboxInv, UNCHANGED outboxVars
  PROVE  OutboxInv'
BY DEF OutboxInv, OutboxTypes, WorkerWellFormed, NothingLost, FewDuplicates, WorkerKnows,
   ToldSoFar, Undelivered, Here, outboxVars

LEMMA OutboxInvStep ==
  ASSUME PaymentInv, OutboxInv, [Next]_vars
  PROVE  OutboxInv'
<1>1. CASE UNCHANGED vars
  BY <1>1, OutboxInvUnchanged DEF vars, outboxVars
<1>2. CASE \E c \in Calls : CallBegins(c)
  BY <1>2, OutboxInvUnchanged
  DEF CallBegins, CompleteRead, InitiateRead, ConfirmRead, RefundRead
<1>3. ASSUME NEW j \in Jobs, JobStep(j) PROVE OutboxInv'
  <2>1. job[j].phase # "idle" => job[j].ride \in Rides
    BY DEF PaymentInv, NothingMissing, JobWellFormed
  <2>2. CASE TellCompleted(j)
    BY <2>1, <2>2, AddKeeps DEF TellCompleted, Events, Announced
  <2>3. CASE TellPaid(j)
    BY <2>1, <2>3, AddKeeps DEF TellPaid, Events, Announced
  <2>4. QED
    BY <1>3, <2>2, <2>3, OutboxInvUnchanged
    DEF JobStep, CompleteCommit, CreatePaid, InitiateFind, InitiateCreate,
        ScheduleAutoConfirm, ConfirmCommit, RefundCommit
<1>4. CASE \E r \in Rides : AutoConfirm(r)
  BY <1>4, OutboxInvUnchanged DEF AutoConfirm
<1>5. ASSUME NEW j \in Jobs, JobFails(j) PROVE OutboxInv'
  <2>1. UNCHANGED <<outbox, worker>> /\ faults < MaxFaults /\ faults' = faults + 1
    BY <1>5 DEF JobFails
  <2>2. QED
    BY <2>1, OtherFaultKeeps
<1>6. CASE WorkerNext
  BY <1>6, PollKeeps, NotifyKeeps, MarkKeeps, CountKeeps, GiveUpKeeps, WorkerFaultKeeps
  DEF WorkerNext, WorkerStep, WorkerFails, ProcessFails, PollFails
<1>7. CASE Crash
  BY <1>7, WorkerFaultKeeps DEF Crash
<1>8. QED
  BY <1>1, <1>2, <1>3, <1>4, <1>5, <1>6, <1>7 DEF Next
-----------------------------------------------------------------------------
(* Receipts.                                                               *)

\* A payment and its receipt, from both sides.
ReceiptInv == PaidHasReceipt /\ ReceiptIsOfPaid

\* Rows stay, with their event and their ride; a row that is written is new.
LEMMA RowsStay ==
  ASSUME PaymentInv, OutboxInv, [Next]_vars
  PROVE  \/ /\ DOMAIN outbox' = DOMAIN outbox
            /\ \A i \in DOMAIN outbox :
                 outbox'[i].event = outbox[i].event /\ outbox'[i].ride = outbox[i].ride
         \/ \E j \in Jobs : TellCompleted(j) \/ TellPaid(j)
<1> DEFINE Same == /\ DOMAIN outbox' = DOMAIN outbox
                   /\ \A i \in DOMAIN outbox : /\ outbox'[i].event = outbox[i].event
                                               /\ outbox'[i].ride = outbox[i].ride
<1>1. ASSUME NEW e \in RowRecord, worker.phase # "wait", SetRow(e),
             e.event = Here.event, e.ride = Here.ride
      PROVE  Same
  BY <1>1, SetRowEffect DEF Here
<1>2. CASE WorkerNext
  <2>1. ASSUME worker.phase # "wait", NEW e,
               \/ e = [Here EXCEPT !.told = @ + 1]
               \/ e = [Here EXCEPT !.attempts = @ + 1]
               \/ e = [Here EXCEPT !.delivered = TRUE]
        PROVE  e \in RowRecord /\ e.event = Here.event /\ e.ride = Here.ride
    <3>1. Here \in RowRecord
      BY <2>1, RowAtHand
    <3>2. CASE e = [Here EXCEPT !.told = @ + 1]
      BY <3>1, <3>2 DEF RowRecord
    <3>3. CASE e = [Here EXCEPT !.attempts = @ + 1]
      BY <3>1, <3>3 DEF RowRecord
    <3>4. CASE e = [Here EXCEPT !.delivered = TRUE]
      BY <3>1, <3>4 DEF RowRecord
    <3>5. QED
      BY <2>1, <3>2, <3>3, <3>4
  <2>2. CASE Notify
    BY <1>1, <2>1, <2>2 DEF Notify
  <2>3. CASE Mark \/ GiveUpRow
    BY <1>1, <2>1, <2>3 DEF Mark, GiveUpRow
  <2>4. CASE Count
    BY <1>1, <2>1, <2>4 DEF Count
  <2>5. CASE Poll \/ WorkerFails
    BY <2>5 DEF Poll, WorkerFails, ProcessFails, PollFails
  <2>6. QED
    BY <1>2, <2>2, <2>3, <2>4, <2>5 DEF WorkerNext, WorkerStep
<1>3. CASE ~WorkerNext
  BY <1>3
  DEF Next, CallBegins, JobStep, CompleteRead, InitiateRead, ConfirmRead, RefundRead,
      CompleteCommit, CreatePaid, InitiateFind, InitiateCreate, ScheduleAutoConfirm,
      ConfirmCommit, RefundCommit, JobFails, AutoConfirm, Crash, outboxVars, vars
<1>4. QED
  BY <1>2, <1>3

\* A step that writes no row leaves the receipts as they are.
LEMMA ReceiptsStay ==
  ASSUME PaymentInv, OutboxInv, [Next]_vars, NEW r \in Rides,
         ~\E j \in Jobs : TellCompleted(j) \/ TellPaid(j)
  PROVE  Receipts(r)' = Receipts(r)
BY RowsStay DEF Receipts

\* A handler that writes a row writes a receipt in its last step.
LEMMA TellKeepsReceipts ==
  ASSUME PaymentInv, OutboxInv, ReceiptInv, NEW j \in Jobs,
         TellCompleted(j) \/ TellPaid(j)
  PROVE  ReceiptInv'
<1>q. PICK q : q = job[j].ride
  OBVIOUS
<1>0. /\ job[j].phase \in {"tellCompleted", "tellPaid"} /\ q \in Rides
      /\ UNCHANGED <<payment, faults>>
  BY <1>q DEF TellCompleted, TellPaid, PaymentInv, NothingMissing, JobWellFormed
<1>1. /\ \A i \in DOMAIN outbox : i \in DOMAIN outbox' /\ outbox'[i] = outbox[i]
      /\ \A i \in DOMAIN outbox' : i \in DOMAIN outbox \/ outbox'[i].ride = q
  <2>1. PICK event \in Events : Add(event, q)
    BY <1>q DEF TellCompleted, TellPaid, Events, Announced
  <2>2. /\ DOMAIN outbox' = DOMAIN outbox \cup {Len(outbox) + 1}
        /\ outbox'[Len(outbox) + 1] = Row(event, q)
        /\ \A i \in DOMAIN outbox : outbox'[i] = outbox[i]
    BY <1>0, <2>1, AddEffect
  <2>3. Row(event, q).ride = q
    BY DEF Row
  <2>4. QED
    BY <2>2, <2>3
<1>2. /\ \A r \in Rides : Receipts(r) \subseteq Receipts(r)'
      /\ \A r \in Rides : r # q => Receipts(r)' = Receipts(r)
  BY <1>1 DEF Receipts
<1>3. CASE TellCompleted(j)
  <2>1. /\ job'[j].phase = "tellPaid" /\ job'[j].ride = q
        /\ job[j].phase = "tellCompleted"
        /\ \A k \in Jobs \ {j} : job'[k] = job[k]
    BY <1>q, <1>3, JobGoesEffect DEF TellCompleted, PaymentInv, JobPhases
  <2>2. \A r \in Rides : Telling(r)' <=> Telling(r)
    BY <1>q, <2>1 DEF Telling
  <2>3. Telling(q)
    BY <1>q, <1>0 DEF Telling
  <2>4. QED
    BY <1>0, <1>2, <2>2, <2>3 DEF ReceiptInv, PaidHasReceipt, ReceiptIsOfPaid
<1>4. CASE TellPaid(j)
  <2>1. Receipts(q)' # {}
    <3>1. /\ Len(outbox) + 1 \in DOMAIN outbox'
          /\ outbox'[Len(outbox) + 1] = Row("payment.confirmed", q)
      BY <1>q, <1>0, <1>4, AddEffect DEF TellPaid, Events, Announced
    <3>2. /\ Row("payment.confirmed", q).event = "payment.confirmed"
          /\ Row("payment.confirmed", q).ride = q
      BY DEF Row
    <3>3. QED
      BY <3>1, <3>2 DEF Receipts
  <2>2. /\ job'[j].phase = "idle"
        /\ \A k \in Jobs \ {j} : job'[k] = job[k]
    BY <1>4 DEF TellPaid, JobEnds, Idle, Job, PaymentInv, PaymentTypes
  <2>3. /\ \A r \in Rides : Telling(r)' => Telling(r)
        /\ \A r \in Rides : r # q /\ Telling(r) => Telling(r)'
    BY <1>q, <2>2 DEF Telling
  <2>4. Telling(q)
    BY <1>q, <1>0 DEF Telling
  <2>5. QED
    BY <1>0, <1>2, <2>1, <2>3, <2>4 DEF ReceiptInv, PaidHasReceipt, ReceiptIsOfPaid
<1>5. QED
  BY <1>3, <1>4

LEMMA ReceiptInvStep ==
  ASSUME PaymentInv, OutboxInv, ReceiptInv, [Next]_vars
  PROVE  ReceiptInv'
<1>1. CASE \E j \in Jobs : TellCompleted(j) \/ TellPaid(j)
  BY <1>1, TellKeepsReceipts
<1>2. CASE ~\E j \in Jobs : TellCompleted(j) \/ TellPaid(j)
  <2>0. /\ \A r \in Rides : Receipts(r)' = Receipts(r)
        /\ faults \in Nat
    BY <1>2, ReceiptsStay, OutboxAssumption DEF OutboxInv, OutboxTypes
  <2>1. CASE WorkerNext \/ UNCHANGED vars
    <3>1. UNCHANGED <<payment, job>> /\ (faults' = faults \/ faults' = faults + 1)
      BY <2>1 DEF WorkerNext, WorkerStep, WorkerFails, Poll, Notify, Mark, Count,
         GiveUpRow, ProcessFails, PollFails, vars
    <3>2. QED
      BY <2>0, <3>1 DEF ReceiptInv, PaidHasReceipt, ReceiptIsOfPaid, Telling
  <2>2. CASE (\E c \in Calls : CallBegins(c)) \/ \E r \in Rides : AutoConfirm(r)
    <3>1. UNCHANGED <<payment, faults>>
      BY <2>2 DEF CallBegins, CompleteRead, InitiateRead, ConfirmRead, RefundRead,
         AutoConfirm, outboxVars
    <3>2. \/ UNCHANGED job
          \/ \E j \in Jobs, r \in Rides, phase \in {"complete", "find", "confirm", "refund"} :
               JobBegins(j, phase, r)
      BY <2>2 DEF CallBegins, CompleteRead, InitiateRead, ConfirmRead, RefundRead,
         AutoConfirm, Jobs
    <3>3. \A r \in Rides : Telling(r)' <=> Telling(r)
      BY <3>2 DEF Telling, JobBegins, Job, Idle, PaymentInv, PaymentTypes
    <3>4. QED
      BY <2>0, <3>1, <3>3 DEF ReceiptInv, PaidHasReceipt, ReceiptIsOfPaid
  <2>3. CASE Crash \/ \E j \in Jobs : JobFails(j)
    <3>1. /\ UNCHANGED payment /\ faults' = faults + 1
          /\ \A j \in Jobs : job'[j] = job[j] \/ job'[j] = Idle
      BY <2>3 DEF Crash, JobFails, JobEnds, PaymentInv, PaymentTypes
    <3>2. \A r \in Rides : Telling(r)' => Telling(r)
      BY <3>1 DEF Telling, Idle, Job
    <3>3. QED
      BY <2>0, <3>1, <3>2 DEF ReceiptInv, PaidHasReceipt, ReceiptIsOfPaid
  <2>4. ASSUME NEW j \in Jobs, JobStep(j) PROVE ReceiptInv'
    <3>q. PICK q : q = job[j].ride
      OBVIOUS
    <3>0. /\ q \in Rides /\ UNCHANGED faults /\ job \in [Jobs -> JobRecord]
          /\ payment \in [Rides -> PaymentStatuses]
      BY <2>4, <3>q
      DEF PaymentInv, PaymentTypes, NothingMissing, JobWellFormed, JobStep,
         CompleteCommit, CreatePaid, TellCompleted, TellPaid, InitiateFind, InitiateCreate,
         ScheduleAutoConfirm, ConfirmCommit, RefundCommit, outboxVars
    <3>1. CASE \/ CompleteCommit(j) \/ InitiateFind(j) \/ ScheduleAutoConfirm(j)
               \/ InitiateCreate(j) \/ RefundCommit(j)
               \/ CreatePaid(j) /\ payment[q] # "ABSENT"
      <4>1. /\ \A k \in Jobs \ {j} : job'[k] = job[k]
            /\ job[j].phase \notin {"tellCompleted", "tellPaid"}
            /\ job'[j].phase \notin {"tellCompleted", "tellPaid"}
        BY <3>q, <3>0, <3>1 DEF CompleteCommit, InitiateFind, ScheduleAutoConfirm, InitiateCreate,
           RefundCommit, CreatePaid, JobGoes, JobEnds, Idle, Job, JobRecord
      <4>2. \A r \in Rides : Telling(r)' <=> Telling(r)
        BY <4>1 DEF Telling
      <4>3. \A r \in Rides : payment'[r] \in {"SUCCESS", "REFUNDED"}
                             <=> payment[r] \in {"SUCCESS", "REFUNDED"}
        BY <3>q, <3>0, <3>1 DEF CompleteCommit, InitiateFind, ScheduleAutoConfirm, InitiateCreate,
           RefundCommit, CreatePaid, SetPayment, PaymentInv, RefundIsOfPaid
      <4>4. QED
        BY <2>0, <3>0, <4>2, <4>3 DEF ReceiptInv, PaidHasReceipt, ReceiptIsOfPaid
    <3>2. CASE \/ ConfirmCommit(j)
               \/ CreatePaid(j) /\ payment[q] = "ABSENT"
      <4>1. PICK phase \in {"tellCompleted", "tellPaid"} : JobGoes(j, phase)
        BY <3>q, <3>2 DEF ConfirmCommit, CreatePaid
      <4>2. /\ job'[j].phase \in {"tellCompleted", "tellPaid"} /\ job'[j].ride = q
            /\ \A k \in Jobs \ {j} : job'[k] = job[k]
            /\ job[j].phase \notin {"tellCompleted", "tellPaid"}
        BY <3>q, <3>2, <4>1, JobGoesEffect DEF PaymentInv, JobPhases, ConfirmCommit, CreatePaid
      <4>3. /\ Telling(q)'
            /\ \A r \in Rides : r # q => (Telling(r)' <=> Telling(r))
        BY <4>2 DEF Telling
      <4>4. /\ payment'[q] = "SUCCESS"
            /\ \A r \in Rides : r # q => payment'[r] = payment[r]
        BY <3>q, <3>0, <3>2 DEF ConfirmCommit, CreatePaid, SetPayment
      <4>5. QED
        BY <2>0, <3>0, <4>3, <4>4 DEF ReceiptInv, PaidHasReceipt, ReceiptIsOfPaid
    <3>3. ~TellCompleted(j) /\ ~TellPaid(j)
      BY <1>2
    <3>4. QED
      BY <2>4, <3>1, <3>2, <3>3 DEF JobStep
  <2>5. QED
    BY <2>1, <2>2, <2>3, <2>4 DEF Next
<1>3. QED
  BY <1>1, <1>2

-----------------------------------------------------------------------------
(* The theorems.                                                           *)

PaymentsInv == PaymentInv /\ OutboxInv /\ ReceiptInv

LEMMA InitPaymentsInv == Init => PaymentsInv
<1> SUFFICES ASSUME Init PROVE PaymentsInv
  OBVIOUS
<1>1. PaymentInv /\ OutboxInv
  BY InitPaymentInv, InitOutboxInv DEF Init
<1>2. \A r \in Rides : ~Telling(r)
  BY DEF Init, Telling, Idle, Job
<1>3. \A r \in Rides : Receipts(r) = {}
  <2>1. CASE outbox = <<>>
    BY <2>1 DEF Receipts
  <2>2. CASE \E r \in Rides : outbox = <<Row("ride.offer_reserved", r)>>
    BY <2>2 DEF Receipts, Row
  <2>3. QED
    BY <2>1, <2>2 DEF Init, OutboxInit
<1>4. ReceiptInv
  BY <1>2, <1>3 DEF Init, ReceiptInv, PaidHasReceipt, ReceiptIsOfPaid
<1>5. QED
  BY <1>1, <1>4 DEF PaymentsInv

LEMMA PaymentsInvStep == PaymentsInv /\ [Next]_vars => PaymentsInv'
BY PaymentInvStep, OutboxInvStep, ReceiptInvStep DEF PaymentsInv, OutboxInv

\* With any rides, requests, batch size and faults, the inductive invariant holds.
THEOREM PaymentsInvariance == Spec => []PaymentsInv
BY InitPaymentsInv, PaymentsInvStep, PTL DEF Spec

\* Every variable keeps its type, the worker is at an undelivered row, and what
\* a timer or a handler will update is there.
THEOREM PaymentsTypeCorrect == Spec => []TypeOK
<1>1. PaymentsInv => TypeOK
  BY DEF PaymentsInv, PaymentInv, OutboxInv, TypeOK
<1>2. QED
  BY <1>1, PaymentsInvariance, PTL

\* While nothing has failed, a completed ride has a payment once updateState
\* has tried to create it, however it meets initiateForRide.
THEOREM CompletedRidesArePaid == Spec => []CompletedIsPaid
<1>1. PaymentsInv => CompletedIsPaid
  BY DEF PaymentsInv, PaymentInv
<1>2. QED
  BY <1>1, PaymentsInvariance, PTL

\* While nothing has failed, a payment in progress in the sandbox has a timer or
\* a handler that will set it or confirm the payment.
THEOREM ProcessingPaymentsAreTimed == Spec => []ProcessingIsTimed
<1>1. PaymentsInv => ProcessingIsTimed
  BY DEF PaymentsInv, PaymentInv
<1>2. QED
  BY <1>1, PaymentsInvariance, PTL

\* While nothing has failed, whoever made a payment go through has written, or
\* will write, its receipt.
THEOREM PaidPaymentsHaveReceipts == Spec => []PaidHasReceipt
<1>1. PaymentsInv => PaidHasReceipt
  BY DEF PaymentsInv, ReceiptInv
<1>2. QED
  BY <1>1, PaymentsInvariance, PTL

\* Whatever fails, a receipt is only ever written for a payment that went through.
THEOREM ReceiptsAreOfPaidPayments == Spec => []ReceiptIsOfPaid
<1>1. PaymentsInv => ReceiptIsOfPaid
  BY DEF PaymentsInv, ReceiptInv
<1>2. QED
  BY <1>1, PaymentsInvariance, PTL

\* Whatever fails or restarts, the worker closes no row unannounced, unless it
\* has failed on it more than GiveUp times.
THEOREM NoRowIsLost == Spec => []NothingLost
<1>1. PaymentsInv => NothingLost
  BY DEF PaymentsInv, OutboxInv
<1>2. QED
  BY <1>1, PaymentsInvariance, PTL

\* A passenger gets at most one notification of a row, and one more per fault.
THEOREM DuplicatesAreFaults == Spec => []FewDuplicates
<1>1. PaymentsInv => FewDuplicates
  BY DEF PaymentsInv, OutboxInv
<1>2. QED
  BY <1>1, PaymentsInvariance, PTL

\* No payment is ever taken back, by a lost create or by a stale confirmation or
\* refund.
THEOREM PaymentsAdvance == Spec => PaymentsMoveForward
<1>1. PaymentsInv /\ [Next]_vars => \A r \in Rides : Forward(payment[r], payment'[r])
  <2> SUFFICES ASSUME PaymentsInv, [Next]_vars, NEW r \in Rides
               PROVE  Forward(payment[r], payment'[r])
    OBVIOUS
  <2>1. PaymentInv /\ payment \in [Rides -> PaymentStatuses]
    BY DEF PaymentsInv, PaymentInv, PaymentTypes
  <2>2. ASSUME NEW j \in Jobs, JobStep(j) PROVE Forward(payment[r], payment'[r])
    BY <2>1, <2>2
    DEF PaymentInv, NothingMissing, JobWellFormed, RefundIsOfPaid, Forward, PaymentStatuses,
        SetPayment, JobStep, CompleteCommit, CreatePaid, TellCompleted, TellPaid,
        InitiateFind, InitiateCreate, ScheduleAutoConfirm, ConfirmCommit, RefundCommit
  <2>3. CASE UNCHANGED payment
    BY <2>3 DEF Forward
  <2>4. QED
    BY <2>2, <2>3
    DEF Next, CallBegins, CompleteRead, InitiateRead, ConfirmRead, RefundRead, JobFails,
        AutoConfirm, WorkerNext, Crash, vars
<1>2. QED
  BY <1>1, PaymentsInvariance, PTL DEF Spec, PaymentsMoveForward

-----------------------------------------------------------------------------
(* The order of notifications, and the promise of the outbox.              *)

\* The rows before the worker's were closed or had failed.
Reached ==
  worker.phase # "wait" => \A i \in DOMAIN outbox : i < worker.row => Tried(i)

\* The batch leaves out no open row before its last one.
NoneSkipped ==
  \A j \in worker.batch : \A i \in DOMAIN outbox :
    i < j => Tried(i) \/ i = worker.row \/ i \in worker.batch

\* A row has failed at most once per fault, and the one that is about to be
\* counted has a fault of its own.
Counted ==
  /\ \A i \in DOMAIN outbox : outbox[i].attempts <= faults
  /\ worker.phase = "count" => Here.attempts < faults

\* The worker announces only what somebody is told of.
AnnouncesOnly == worker.phase = "notify" => Here.event \in Announced

OrderInv == InOrder /\ Reached /\ NoneSkipped /\ Counted /\ AnnouncesOnly

LEMMA InitOrderInv == OutboxInit => OrderInv
<1> SUFFICES ASSUME OutboxInit PROVE OrderInv
  OBVIOUS
<1>1. \A i \in DOMAIN outbox : /\ outbox[i].told = 0 /\ ~outbox[i].delivered
                               /\ outbox[i].attempts = 0
  BY DEF OutboxInit, Row
<1>2. worker.phase = "wait" /\ worker.batch = {} /\ faults = 0
  BY DEF OutboxInit, Waiting, Working
<1>3. QED
  BY <1>1, <1>2 DEF OrderInv, InOrder, Reached, NoneSkipped, Counted, AnnouncesOnly, Tried

\* The worker takes the oldest row of the batch, and keeps the others.
LEMMA TakeOldest ==
  ASSUME NEW batch \in SUBSET Nat, TakeNext(batch)
  PROVE  \/ worker'.phase = "wait" /\ worker'.batch = {}
         \/ /\ worker'.phase \in {"notify", "mark"}
            /\ worker'.row \in batch /\ worker'.batch = batch \ {worker'.row}
            /\ \A i \in batch : worker'.row <= i
            /\ worker'.phase = "notify" => outbox[worker'.row].event \in Announced
BY DEF TakeNext, Waiting, Working

\* The worker writes its row and undoes nothing of it.
LEMMA RowInOrder ==
  ASSUME OutboxInv, OrderInv, worker.phase # "wait", NEW e \in RowRecord, SetRow(e),
         e.attempts >= Here.attempts
  PROVE  /\ InOrder'
         /\ \A i \in DOMAIN outbox : Tried(i) => Tried(i)'
<1>1. /\ DOMAIN outbox' = DOMAIN outbox /\ outbox'[worker.row] = e
      /\ \A i \in DOMAIN outbox : i # worker.row => outbox'[i] = outbox[i]
  BY SetRowEffect
<1>2. /\ worker.row \in DOMAIN outbox /\ ~outbox[worker.row].delivered
      /\ DOMAIN outbox \subseteq Nat /\ Here \in RowRecord
  BY RowsAreNumbered, RowAtHand DEF OutboxInv, WorkerWellFormed, Undelivered
<1>3. \A i \in DOMAIN outbox : Tried(i) => Tried(i)'
  <2>1. PICK w \in DOMAIN outbox : w = worker.row
    BY <1>2
  <2>2. Tried(w) => Tried(w)'
    BY <1>1, <1>2, <2>1 DEF Tried, Here, RowRecord
  <2>3. QED
    BY <1>1, <2>1, <2>2 DEF Tried
<1>4. ASSUME NEW i \in DOMAIN outbox', NEW j \in DOMAIN outbox', i < j,
             outbox'[j].told > 0 \/ Tried(j)'
      PROVE  Tried(i)'
  <2>1. CASE j = worker.row
    BY <1>1, <1>3, <1>4, <2>1 DEF OrderInv, Reached
  <2>2. CASE j # worker.row
    BY <1>1, <1>3, <1>4, <2>2 DEF OrderInv, InOrder, Tried
  <2>3. QED
    BY <2>1, <2>2
<1>5. QED
  BY <1>3, <1>4 DEF InOrder

\* The worker leaves a row that is closed, or that has failed, for the next one.
LEMMA LeaveInOrder ==
  ASSUME OutboxInv, OrderInv, worker.phase # "wait", NEW e \in RowRecord, SetRow(e),
         e.attempts >= Here.attempts, e.delivered \/ e.attempts > 0, e.attempts <= faults,
         UNCHANGED faults, TakeNext(worker.batch)
  PROVE  OrderInv'
<1>1. /\ DOMAIN outbox' = DOMAIN outbox /\ outbox'[worker.row] = e
      /\ \A i \in DOMAIN outbox : i # worker.row => outbox'[i] = outbox[i]
  BY SetRowEffect
<1>2. /\ worker.batch \in SUBSET Nat /\ DOMAIN outbox \subseteq Nat
      /\ worker.row \in DOMAIN outbox /\ worker.batch \subseteq DOMAIN outbox
  BY RowsAreNumbered DEF OutboxInv, OutboxTypes, WorkerRecord, WorkerWellFormed
<1>3. \A i \in DOMAIN outbox : Tried(i) \/ i = worker.row => Tried(i)'
  BY <1>1, RowInOrder DEF Tried
<1>4. Counted'
  <2>1. \A i \in DOMAIN outbox' : outbox'[i].attempts <= faults'
    BY <1>1 DEF OrderInv, Counted
  <2>2. worker'.phase # "count"
    BY <1>2, TakeOldest
  <2>3. QED
    BY <2>1, <2>2 DEF Counted
<1>5. CASE worker'.phase = "wait" /\ worker'.batch = {}
  BY <1>4, <1>5, RowInOrder DEF OrderInv, Reached, NoneSkipped, AnnouncesOnly
<1>6. CASE /\ worker'.row \in worker.batch
           /\ worker'.batch = worker.batch \ {worker'.row}
           /\ \A i \in worker.batch : worker'.row <= i
           /\ worker'.phase = "notify" => outbox[worker'.row].event \in Announced
  <2>1. Reached'
    <3>1. ASSUME NEW i \in DOMAIN outbox, i < worker'.row
          PROVE  Tried(i)'
      <4>1. i \notin worker.batch
        BY <1>2, <1>6, <3>1
      <4>2. QED
        BY <1>3, <1>6, <3>1, <4>1 DEF OrderInv, NoneSkipped
    <3>2. QED
      BY <1>1, <3>1 DEF Reached
  <2>2. NoneSkipped'
    BY <1>1, <1>3, <1>6 DEF OrderInv, NoneSkipped
  <2>3. AnnouncesOnly'
    <3>1. worker'.row # worker.row /\ worker'.row \in DOMAIN outbox
      BY <1>2, <1>6 DEF OutboxInv, WorkerWellFormed
    <3>2. QED
      BY <1>1, <1>6, <3>1 DEF AnnouncesOnly, Here
  <2>4. QED
    BY <1>4, <2>1, <2>2, <2>3, RowInOrder DEF OrderInv
<1>7. QED
  BY <1>2, <1>5, <1>6, TakeOldest

\* A poll reads the open rows from the oldest on, and skips none.
LEMMA FirstAreOldest ==
  ASSUME OutboxInv, NEW j \in FirstUndelivered, NEW i \in Undelivered, i < j
  PROVE  i \in FirstUndelivered
<1> DEFINE Before(k) == {x \in Undelivered : x < k}
<1>1. /\ Undelivered \subseteq 1 .. Len(outbox) /\ Len(outbox) \in Nat
      /\ j \in Undelivered /\ i \in Nat /\ j \in Nat
  BY RowsAreNumbered DEF FirstUndelivered
<1>2. IsFiniteSet(Before(j))
  <2>1. IsFiniteSet(1 .. Len(outbox))
    BY <1>1, FS_Interval
  <2>2. Before(j) \in SUBSET (1 .. Len(outbox))
    BY <1>1
  <2>3. QED
    BY <2>1, <2>2, FS_Subset
<1>3. Before(i) \in SUBSET Before(j)
  <2>1. \A x \in Undelivered : x < i => x < j
    BY <1>1
  <2>2. QED
    BY <2>1
<1>4. Cardinality(Before(i)) <= Cardinality(Before(j)) /\ IsFiniteSet(Before(i))
  BY <1>2, <1>3, FS_Subset
<1>5. Cardinality(Before(i)) \in Nat /\ Cardinality(Before(j)) \in Nat
  BY <1>2, <1>4, FS_CardinalityType
<1>6. Cardinality(Before(j)) < BatchSize
  BY DEF FirstUndelivered
<1> HIDE DEF Before
<1>7. Cardinality(Before(i)) < BatchSize
  BY <1>4, <1>5, <1>6, OutboxAssumption
<1>8. QED
  BY <1>7 DEF FirstUndelivered, Before

LEMMA PollInOrder ==
  ASSUME OutboxInv, OrderInv, Poll
  PROVE  OrderInv'
<1>1. /\ FirstUndelivered \subseteq Undelivered /\ FirstUndelivered \in SUBSET Nat
      /\ UNCHANGED <<outbox, faults>> /\ TakeNext(FirstUndelivered)
      /\ Undelivered \subseteq DOMAIN outbox /\ DOMAIN outbox \subseteq Nat
  BY RowsAreNumbered DEF FirstUndelivered, Poll
<1>2. InOrder' /\ Counted' /\ \A i \in DOMAIN outbox : Tried(i)' <=> Tried(i)
  <2>1. worker'.phase # "count"
    BY <1>1, TakeOldest
  <2>2. QED
    BY <1>1, <2>1 DEF OrderInv, InOrder, Counted, Tried
<1>3. CASE worker'.phase = "wait" /\ worker'.batch = {}
  BY <1>2, <1>3 DEF OrderInv, Reached, NoneSkipped, AnnouncesOnly
<1>4. CASE /\ worker'.row \in FirstUndelivered
           /\ worker'.batch = FirstUndelivered \ {worker'.row}
           /\ \A i \in FirstUndelivered : worker'.row <= i
           /\ worker'.phase = "notify" => outbox[worker'.row].event \in Announced
  <2>1. \A j \in FirstUndelivered, i \in DOMAIN outbox :
          i < j => Tried(i) \/ i \in FirstUndelivered
    BY FirstAreOldest DEF Tried, Undelivered
  <2>2. Reached'
    <3>1. ASSUME NEW i \in DOMAIN outbox, i < worker'.row
          PROVE  Tried(i)
      <4>1. i \notin FirstUndelivered
        <5>1. PICK w : w = worker'.row
          OBVIOUS
        <5>2. i \in Nat /\ w \in Nat /\ i < w
          BY <1>1, <1>4, <3>1, <5>1
        <5>3. i \in FirstUndelivered => w <= i
          BY <1>4, <5>1
        <5>4. QED
          BY <5>2, <5>3
      <4>2. \E j \in FirstUndelivered : i < j
        BY <1>4, <3>1
      <4>3. QED
        BY <2>1, <4>1, <4>2
    <3>2. QED
      BY <1>1, <1>2, <3>1 DEF Reached
  <2>3. NoneSkipped'
    BY <1>1, <1>2, <1>4, <2>1 DEF NoneSkipped
  <2>4. AnnouncesOnly'
    BY <1>1, <1>4 DEF AnnouncesOnly, Here
  <2>5. QED
    BY <1>2, <2>2, <2>3, <2>4 DEF OrderInv
<1>5. QED
  BY <1>1, <1>3, <1>4, TakeOldest

\* The worker goes on with its row.
LEMMA StayInOrder ==
  ASSUME OutboxInv, OrderInv, worker.phase # "wait", NEW e \in RowRecord, SetRow(e),
         e.attempts >= Here.attempts, e.attempts <= faults, UNCHANGED faults,
         NEW phase \in {"mark", "giveup"}, worker' = [worker EXCEPT !.phase = phase]
  PROVE  OrderInv'
<1>1. /\ DOMAIN outbox' = DOMAIN outbox /\ outbox'[worker.row] = e
      /\ \A i \in DOMAIN outbox : i # worker.row => outbox'[i] = outbox[i]
  BY SetRowEffect
<1>2. /\ worker'.row = worker.row /\ worker'.batch = worker.batch /\ worker'.phase = phase
      /\ worker.batch \subseteq DOMAIN outbox
  BY RowsAreNumbered DEF OutboxInv, OutboxTypes, WorkerRecord, WorkerWellFormed
<1>3. InOrder' /\ \A i \in DOMAIN outbox : Tried(i) => Tried(i)'
  BY RowInOrder
<1>4. Reached' /\ NoneSkipped'
  BY <1>1, <1>2, <1>3 DEF OrderInv, Reached, NoneSkipped
<1>5. Counted'
  BY <1>1, <1>2 DEF OrderInv, Counted
<1>6. QED
  BY <1>2, <1>3, <1>4, <1>5 DEF OrderInv, AnnouncesOnly

\* What each of its steps writes into the worker's row.
LEMMA RowChanges ==
  ASSUME OutboxInv, worker.phase # "wait", NEW e
  PROVE  /\ e = [Here EXCEPT !.told = @ + 1] =>
              e \in RowRecord /\ e.attempts = Here.attempts
         /\ e = [Here EXCEPT !.attempts = @ + 1] =>
              e \in RowRecord /\ e.attempts = Here.attempts + 1
         /\ e = [Here EXCEPT !.delivered = TRUE] =>
              e \in RowRecord /\ e.attempts = Here.attempts /\ e.delivered
         /\ Here.attempts \in Nat /\ faults \in Nat
         /\ Here = outbox[worker.row] /\ worker.row \in DOMAIN outbox
<1>1. Here \in RowRecord /\ faults \in Nat
  BY RowAtHand
<1>2. e = [Here EXCEPT !.told = @ + 1] => e \in RowRecord /\ e.attempts = Here.attempts
  BY <1>1 DEF RowRecord
<1>3. e = [Here EXCEPT !.attempts = @ + 1] =>
        e \in RowRecord /\ e.attempts = Here.attempts + 1
  BY <1>1 DEF RowRecord
<1>4. e = [Here EXCEPT !.delivered = TRUE] =>
        e \in RowRecord /\ e.attempts = Here.attempts /\ e.delivered
  BY <1>1 DEF RowRecord
<1>5. Here.attempts \in Nat
  BY <1>1 DEF RowRecord
<1>6. QED
  BY <1>1, <1>2, <1>3, <1>4, <1>5, RowsAreNumbered DEF Here

LEMMA WorkerInOrder ==
  ASSUME OutboxInv, OrderInv, WorkerStep
  PROVE  OrderInv'
<1>1. ASSUME worker.phase # "wait"
      PROVE  Here.attempts <= faults
  BY <1>1, RowChanges DEF OrderInv, Counted
<1>2. CASE Notify
  <2> DEFINE e == [Here EXCEPT !.told = @ + 1]
  <2>1. /\ worker.phase = "notify" /\ SetRow(e) /\ UNCHANGED faults
        /\ worker' = [worker EXCEPT !.phase = "mark"]
    BY <1>2 DEF Notify
  <2>2. e \in RowRecord /\ e.attempts = Here.attempts /\ Here.attempts \in Nat
    BY <2>1, RowChanges
  <2> HIDE DEF e
  <2>3. e.attempts >= Here.attempts /\ e.attempts <= faults
    BY <1>1, <2>1, <2>2
  <2>4. QED
    BY <2>1, <2>2, <2>3, StayInOrder
<1>3. CASE Mark \/ GiveUpRow
  <2> DEFINE e == [Here EXCEPT !.delivered = TRUE]
  <2>1. /\ worker.phase # "wait" /\ SetRow(e) /\ UNCHANGED faults
        /\ TakeNext(worker.batch)
    BY <1>3 DEF Mark, GiveUpRow
  <2>2. /\ e \in RowRecord /\ e.attempts = Here.attempts /\ e.delivered
        /\ Here.attempts \in Nat
    BY <2>1, RowChanges
  <2> HIDE DEF e
  <2>3. e.attempts >= Here.attempts /\ e.attempts <= faults
    BY <1>1, <2>1, <2>2
  <2>4. QED
    BY <2>1, <2>2, <2>3, LeaveInOrder
<1>4. CASE Count
  <2> DEFINE e == [Here EXCEPT !.attempts = @ + 1]
  <2>1. /\ worker.phase = "count" /\ SetRow(e) /\ UNCHANGED faults
        /\ TakeNext(worker.batch) \/ worker' = [worker EXCEPT !.phase = "giveup"]
    BY <1>4 DEF Count
  <2>2. /\ e \in RowRecord /\ e.attempts = Here.attempts + 1
        /\ Here.attempts \in Nat /\ faults \in Nat
    BY <2>1, RowChanges
  <2> HIDE DEF e
  <2>3. Here.attempts < faults
    BY <2>1 DEF OrderInv, Counted
  <2>4. e.attempts >= Here.attempts /\ e.attempts <= faults /\ e.attempts > 0
    BY <2>2, <2>3
  <2>5. QED
    BY <2>1, <2>2, <2>4, StayInOrder, LeaveInOrder
<1>5. QED
  BY <1>2, <1>3, <1>4, PollInOrder DEF WorkerStep

\* Something throws, or the process restarts: the worker is where it was, at
\* the failure of its row, or at its timer.
LEMMA FaultInOrder ==
  ASSUME OutboxInv, OrderInv, UNCHANGED outbox, faults' = faults + 1,
         \/ worker' = Waiting
         \/ worker' = worker
         \/ worker.phase # "wait" /\ worker' = [worker EXCEPT !.phase = "count"]
  PROVE  OrderInv'
<1>1. /\ faults \in Nat /\ worker \in WorkerRecord
      /\ \A i \in DOMAIN outbox : outbox[i].attempts \in Nat
      /\ worker.phase # "wait" => worker.row \in DOMAIN outbox
  BY RowsAreNumbered, OutboxAssumption DEF OutboxInv, OutboxTypes, RowRecord
<1>2. InOrder' /\ \A i \in DOMAIN outbox : Tried(i)' <=> Tried(i)
  BY DEF OrderInv, InOrder, Tried
<1>3. \/ worker'.phase = "wait" /\ worker'.batch = {}
      \/ /\ worker'.row = worker.row /\ worker'.batch = worker.batch
         /\ worker.phase # "wait" \/ worker' = worker
  BY <1>1 DEF Waiting, Working, WorkerRecord
<1>4. Reached' /\ NoneSkipped'
  BY <1>2, <1>3 DEF OrderInv, Reached, NoneSkipped
<1>5. Counted'
  <2>1. \A i \in DOMAIN outbox : outbox[i].attempts <= faults /\ outbox[i].attempts < faults'
    BY <1>1 DEF OrderInv, Counted
  <2>2. worker'.phase = "count" => worker'.row \in DOMAIN outbox
    BY <1>1, <1>3 DEF Waiting, Working
  <2>3. \A i \in DOMAIN outbox : outbox[i].attempts <= faults'
    BY <1>1, <2>1
  <2>4. QED
    BY <2>1, <2>2, <2>3 DEF Counted, Here
<1>6. AnnouncesOnly'
  <2>1. worker'.phase = "notify" => worker' = worker
    BY <1>1 DEF Waiting, Working, WorkerRecord
  <2>2. QED
    BY <2>1 DEF OrderInv, AnnouncesOnly, Here
<1>7. QED
  BY <1>2, <1>4, <1>5, <1>6 DEF OrderInv

\* A row that is written has not been tried and comes last.
LEMMA AddInOrder ==
  ASSUME OutboxInv, OrderInv, NEW event \in Events, NEW r \in Rides, Add(event, r),
         UNCHANGED <<worker, faults>>
  PROVE  OrderInv'
<1> DEFINE n == Len(outbox) + 1
<1>1. /\ DOMAIN outbox' = DOMAIN outbox \cup {n}
      /\ outbox'[n] = Row(event, r)
      /\ \A i \in DOMAIN outbox : outbox'[i] = outbox[i]
  BY AddEffect
<1>2. outbox'[n].told = 0 /\ ~outbox'[n].delivered /\ outbox'[n].attempts = 0
  BY <1>1 DEF Row
<1>3. /\ \A i \in DOMAIN outbox : i \in Nat /\ i < n
      /\ faults \in Nat
      /\ worker.phase # "wait" => worker.row \in DOMAIN outbox
      /\ worker.batch \subseteq DOMAIN outbox
  BY RowsAreNumbered, OutboxAssumption
  DEF OutboxInv, OutboxTypes, WorkerWellFormed
<1>4. n \in Nat
  BY RowsAreNumbered
<1> HIDE DEF n
<1>5. \A i \in DOMAIN outbox : Tried(i)' <=> Tried(i)
  BY <1>1 DEF Tried
<1>6. InOrder'
  BY <1>1, <1>2, <1>3, <1>4, <1>5 DEF OrderInv, InOrder, Tried
<1>7. Reached'
  BY <1>1, <1>3, <1>4, <1>5 DEF OrderInv, Reached
<1>8. NoneSkipped'
  BY <1>1, <1>3, <1>4, <1>5 DEF OrderInv, NoneSkipped
<1>9. Counted'
  BY <1>1, <1>2, <1>3 DEF OrderInv, Counted, Here
<1>10. AnnouncesOnly'
  BY <1>1, <1>3 DEF OrderInv, AnnouncesOnly, Here
<1>11. QED
  BY <1>6, <1>7, <1>8, <1>9, <1>10 DEF OrderInv

\* What a step is for the outbox.
LEMMA OutboxCases ==
  ASSUME PaymentInv, [Next]_vars
  PROVE  \/ WorkerStep
         \/ /\ UNCHANGED outbox /\ faults' = faults + 1
            /\ \/ worker' = Waiting
               \/ worker' = worker
               \/ worker.phase # "wait" /\ worker' = [worker EXCEPT !.phase = "count"]
         \/ /\ \E event \in Events, r \in Rides : Add(event, r)
            /\ UNCHANGED <<worker, faults>>
         \/ UNCHANGED outboxVars
<1>1. ASSUME NEW j \in Jobs, TellCompleted(j) \/ TellPaid(j)
      PROVE  /\ \E event \in Events, r \in Rides : Add(event, r)
             /\ UNCHANGED <<worker, faults>>
  <2>1. job[j].ride \in Rides
    BY <1>1 DEF TellCompleted, TellPaid, PaymentInv, NothingMissing, JobWellFormed
  <2>2. QED
    BY <1>1, <2>1 DEF TellCompleted, TellPaid, Events, Announced
<1>2. ASSUME NEW j \in Jobs, JobStep(j), ~TellCompleted(j), ~TellPaid(j)
      PROVE  UNCHANGED outboxVars
  BY <1>2 DEF JobStep, CompleteCommit, CreatePaid, InitiateFind, InitiateCreate,
     ScheduleAutoConfirm, ConfirmCommit, RefundCommit
<1>3. ASSUME NEW c \in Calls, CallBegins(c)
      PROVE  UNCHANGED outboxVars
  BY <1>3 DEF CallBegins, CompleteRead, InitiateRead, ConfirmRead, RefundRead
<1>4. QED
  BY <1>1, <1>2, <1>3
  DEF Next, WorkerNext, WorkerFails, ProcessFails, PollFails, AutoConfirm, JobFails, Crash,
      outboxVars, vars

LEMMA OrderInvStep ==
  ASSUME PaymentInv, OutboxInv, OrderInv, [Next]_vars
  PROVE  OrderInv'
<1>1. CASE UNCHANGED outboxVars
  BY <1>1 DEF outboxVars, OrderInv, InOrder, Reached, NoneSkipped, Counted, AnnouncesOnly,
      Tried, Here
<1>2. QED
  BY <1>1, OutboxCases, WorkerInOrder, FaultInOrder, AddInOrder

THEOREM OrderInvariance == Spec => []OrderInv
<1>1. Init => OrderInv
  BY InitOrderInv DEF Init
<1>2. PaymentsInv /\ OrderInv /\ [Next]_vars => OrderInv'
  BY OrderInvStep DEF PaymentsInv
<1>3. QED
  BY <1>1, <1>2, PaymentsInvariance, PTL DEF Spec

\* Whatever fails or restarts, a passenger is told of rows in their order,
\* except of those that have failed.
THEOREM NotificationsInOrder == Spec => []InOrder
<1>1. OrderInv => InOrder
  BY DEF OrderInv
<1>2. QED
  BY <1>1, OrderInvariance, PTL

-----------------------------------------------------------------------------
(* Every step is a step of AtLeastOnce, or none.                           *)

LEMMA PromiseInit == OutboxInit => Promise!Init
BY DEF OutboxInit, Promise!Init, Promise!Rows, Promise!Row, Row, Events, Announced

\* The worker's row is its turn.
LEMMA PromiseTurn ==
  ASSUME OutboxInv, OrderInv, worker.phase # "wait"
  PROVE  /\ worker.row \in DOMAIN outbox /\ Promise!Turn(worker.row)
         /\ ~outbox[worker.row].delivered
<1>1. /\ worker.row \in DOMAIN outbox /\ DOMAIN outbox = 1 .. Len(outbox)
      /\ Len(outbox) \in Nat /\ ~outbox[worker.row].delivered
  BY RowsAreNumbered DEF OutboxInv, WorkerWellFormed, Undelivered
<1>2. \A i \in 1 .. worker.row - 1 : i \in DOMAIN outbox /\ i < worker.row
  BY <1>1
<1>3. QED
  BY <1>1, <1>2 DEF OrderInv, Reached, Tried, Promise!Turn

LEMMA PromiseWorker ==
  ASSUME OutboxInv, OrderInv, WorkerStep
  PROVE  [Promise!Next]_(Promise!vars)
<1>1. CASE Poll
  BY <1>1 DEF Poll, Promise!vars
<1>2. ASSUME worker.phase # "wait"
      PROVE  Here = outbox[worker.row] /\ Here \in RowRecord
  BY <1>2, RowAtHand DEF Here
<1>3. CASE Notify
  <2>1. worker.phase = "notify" /\ UNCHANGED faults
    BY <1>3 DEF Notify
  <2>2. Here.told <= faults
    BY <2>1, RowAtHand
  <2>3. outbox[worker.row].event \in Announced
    BY <2>1 DEF OrderInv, AnnouncesOnly, Here
  <2>4. outbox' = [outbox EXCEPT ![worker.row].told = @ + 1]
    BY <1>3 DEF Notify, SetRow, Here
  <2>5. Promise!Tell(worker.row)
    BY <2>1, <2>2, <2>3, <2>4, PromiseTurn DEF Promise!Tell, Here
  <2>6. QED
    BY <2>1, <2>5, PromiseTurn DEF Promise!Next
<1>4. CASE Count
  <2>1. worker.phase = "count" /\ UNCHANGED faults
    BY <1>4 DEF Count
  <2>2. outbox' = [outbox EXCEPT ![worker.row].attempts = @ + 1]
    BY <1>4 DEF Count, SetRow, Here
  <2>3. Here.attempts < faults
    BY <2>1 DEF OrderInv, Counted
  <2>4. Promise!Fail(worker.row)
    BY <2>1, <2>2, <2>3, PromiseTurn DEF Promise!Fail, Here
  <2>5. QED
    BY <2>1, <2>4, PromiseTurn DEF Promise!Next
<1>5. CASE Mark \/ GiveUpRow
  <2>1. worker.phase \in {"mark", "giveup"} /\ UNCHANGED faults
    BY <1>5 DEF Mark, GiveUpRow
  <2>2. outbox' = [outbox EXCEPT ![worker.row].delivered = TRUE]
    BY <1>5 DEF Mark, GiveUpRow, SetRow, Here
  <2>3. \/ Here.event \in Events \ Announced \/ Here.told > 0 \/ Here.attempts > GiveUp
    BY <1>2, <2>1 DEF OutboxInv, WorkerKnows, RowRecord
  <2>4. Promise!Close(worker.row)
    BY <2>1, <2>2, <2>3, PromiseTurn DEF Promise!Close, Here
  <2>5. QED
    BY <2>1, <2>4, PromiseTurn DEF Promise!Next
<1>6. QED
  BY <1>1, <1>3, <1>4, <1>5 DEF WorkerStep

LEMMA PromiseStep ==
  ASSUME PaymentInv, OutboxInv, OrderInv, [Next]_vars
  PROVE  [Promise!Next]_(Promise!vars)
<1>1. CASE UNCHANGED outboxVars
  BY <1>1 DEF outboxVars, Promise!vars
<1>2. CASE UNCHANGED outbox /\ faults' = faults + 1
  BY <1>2 DEF Promise!Next, Promise!Mishap
<1>3. ASSUME NEW event \in Events, NEW r \in Rides, Add(event, r), UNCHANGED faults
      PROVE  Promise!Next
  <2>1. event \in Announced \cup (Events \ Announced)
    OBVIOUS
  <2>2. Row(event, r) = Promise!Row(event, r)
    BY DEF Promise!Row, Row
  <2>3. Row(event, r) \in Promise!Rows
    BY <2>1, <2>2 DEF Promise!Rows
  <2>4. QED
    BY <1>3, <2>3 DEF Add, Promise!Next, Promise!Write
<1>4. QED
  BY <1>1, <1>2, <1>3, OutboxCases, PromiseWorker

\* The handlers and the worker implement the promise of AtLeastOnce, whatever
\* fails or restarts.
THEOREM OutboxImplementsAtLeastOnce == Spec => ImplementsAtLeastOnce
<1>1. Init => Promise!Init
  BY PromiseInit DEF Init
<1>2. PaymentsInv /\ OrderInv /\ [Next]_vars => [Promise!Next]_(Promise!vars)
  BY PromiseStep DEF PaymentsInv
<1>3. QED
  BY <1>1, <1>2, PaymentsInvariance, OrderInvariance, PTL
  DEF Spec, ImplementsAtLeastOnce, Promise!Spec
=============================================================================
