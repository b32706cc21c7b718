------------------------------- MODULE Outbox -------------------------------
(***************************************************************************)
(* The outbox: rows that the services write and one worker turns into      *)
(* notifications (src/src/modules/outbox/outbox.service.ts, with           *)
(* NotificationService.enqueueFromEvent as its only effect).               *)
(*                                                                         *)
(* A module that writes rows EXTENDS this one, takes `Add` into its        *)
(* handlers, and `WorkerStep` and `WorkerFails` into its next-state        *)
(* relation.  One action is one database access together with the code up  *)
(* to the next await; the delays of the polling timer and of its back-off  *)
(* are left open.                                                          *)
(***************************************************************************)
EXTENDS Naturals, Sequences, FiniteSets

CONSTANTS
  Rides,       \* the aggregates rows are about
  BatchSize,   \* rows read by one poll, 50 in the code
  GiveUp,      \* failures after which the next one is the last, 4 in the code
  MaxFaults    \* bound on exceptions and crashes

ASSUME OutboxAssumption ==
  /\ BatchSize \in Nat \ {0}
  /\ GiveUp \in Nat
  /\ MaxFaults \in Nat

VARIABLES
  outbox,   \* collection Outbox in the order of createdAt
  worker,   \* OutboxService: its timer, or the row it is processing
  faults    \* exceptions and crashes so far

outboxVars == <<outbox, worker, faults>>

-----------------------------------------------------------------------------

\* Event types that process() turns into a notification, of those written here.
Announced == {"ride.completed", "payment.confirmed"}

Events == Announced \cup {"ride.offer_reserved"}

\* told counts the Notification documents created for the row.
Row(event, r) ==
  [event |-> event, ride |-> r, attempts |-> 0, delivered |-> FALSE, told |-> 0]

Add(event, r) == outbox' = Append(outbox, Row(event, r))

\* What the worker does next; "wait" is the pending timer of schedule().
WorkerPhases == {"wait", "notify", "mark", "count", "giveup"}

\* batch: the rows of this poll that are still to come after `row`.
Working(phase, i, batch) == [phase |-> phase, row |-> i, batch |-> batch]
Waiting == Working("wait", 0, {})

OutboxInit ==
  /\ outbox \in {<<>>} \cup {<<Row("ride.offer_reserved", r)>> : r \in Rides}
  /\ worker = Waiting
  /\ faults = 0

-----------------------------------------------------------------------------

Undelivered == {i \in DOMAIN outbox : ~outbox[i].delivered}

\* Wrong on purpose: rows that are delivered come back (see the README).
FirstOfAll ==
  {i \in DOMAIN outbox : Cardinality({j \in DOMAIN outbox : j < i}) < BatchSize}

\* findMany: undelivered, oldest first, at most BatchSize.
FirstUndelivered ==
  {i \in Undelivered : Cardinality({j \in Undelivered : j < i}) < BatchSize}

\* The row being processed.
Here == outbox[worker.row]
SetRow(row) == outbox' = [outbox EXCEPT ![worker.row] = row]

\* Wrong on purpose: the newest row of the batch comes first.
TakeNewest(batch) ==
  \/ batch = {} /\ worker' = Waiting
  \/ \E i \in batch :
       /\ \A j \in batch : j <= i
       /\ worker' = Working(IF outbox[i].event \in Announced THEN "notify"
                                                             ELSE "mark",
                            i, batch \ {i})

\* The loop of poll(): the next row of the batch, or the next timer.
TakeNext(batch) ==
  \/ batch = {} /\ worker' = Waiting
  \/ \E i \in batch :
       /\ \A j \in batch : i <= j
       /\ worker' = Working(IF outbox[i].event \in Announced THEN "notify"
                                                             ELSE "mark",
                            i, batch \ {i})

\* Wrong on purpose: rows that have failed are never read again.
PollUntried ==
  /\ worker.phase = "wait"
  /\ Undelivered # {}
  /\ TakeNext({i \in FirstUndelivered : outbox[i].attempts = 0})
  /\ UNCHANGED <<outbox, faults>>

Poll ==
  /\ worker.phase = "wait"
  /\ Undelivered # {}
  /\ TakeNext(FirstUndelivered)
  /\ UNCHANGED <<outbox, faults>>

\* Wrong on purpose: the notification is not stored.
NotifyNothing ==
  /\ worker.phase = "notify"
  /\ worker' = [worker EXCEPT !.phase = "mark"]
  /\ UNCHANGED <<outbox, faults>>

Notify ==
  /\ worker.phase = "notify"
  /\ SetRow([Here EXCEPT !.told = @ + 1])
  /\ worker' = [worker EXCEPT !.phase = "mark"]
  /\ UNCHANGED faults

\* Wrong on purpose: the row is not marked.
MarkNothing ==
  /\ worker.phase = "mark"
  /\ TakeNext(worker.batch)
  /\ UNCHANGED <<outbox, faults>>

Mark ==
  /\ worker.phase = "mark"
  /\ SetRow([Here EXCEPT !.delivered = TRUE])
  /\ TakeNext(worker.batch)
  /\ UNCHANGED faults

\* Creating the notification, or marking the row, throws: the catch of poll().
ProcessFails ==
  /\ worker.phase \in {"notify", "mark"}
  /\ faults < MaxFaults
  /\ worker' = [worker EXCEPT !.phase = "count"]
  /\ faults' = faults + 1
  /\ UNCHANGED outbox

\* Wrong on purpose: the first failure is the last.
CountOnce ==
  /\ worker.phase = "count"
  /\ SetRow([Here EXCEPT !.attempts = @ + 1])
  /\ worker' = [worker EXCEPT !.phase = "giveup"]
  /\ UNCHANGED faults

\* attempts is compared as it was read, before this failure.
Count ==
  /\ worker.phase = "count"
  /\ SetRow([Here EXCEPT !.attempts = @ + 1])
  /\ \/ /\ Here.attempts >= GiveUp
        /\ worker' = [worker EXCEPT !.phase = "giveup"]
     \/ /\ Here.attempts < GiveUp
        /\ TakeNext(worker.batch)
  /\ UNCHANGED faults

GiveUpRow ==
  /\ worker.phase = "giveup"
  /\ SetRow([Here EXCEPT !.delivered = TRUE])
  /\ TakeNext(worker.batch)
  /\ UNCHANGED faults

\* The catch of poll() throws itself: tick() schedules the next poll, later.
PollFails ==
  /\ worker.phase \in {"count", "giveup"}
  /\ faults < MaxFaults
  /\ worker' = Waiting
  /\ faults' = faults + 1
  /\ UNCHANGED outbox

WorkerStep == Poll \/ Notify \/ Mark \/ Count \/ GiveUpRow
WorkerFails == ProcessFails \/ PollFails
=============================================================================
