----------------------------- MODULE AtLeastOnce -----------------------------
(***************************************************************************)
(* What the outbox promises, without a worker, batches or crashes: rows    *)
(* are written once and stay in order; the passenger is told of a row      *)
(* before it is closed, unless it has failed more often than GiveUp, and   *)
(* is told again only because something went wrong; a row is passed over   *)
(* only after it has failed; and a closed row is done with.                *)
(***************************************************************************)
EXTENDS Naturals, Sequences

CONSTANTS
  Subjects,    \* what rows are about
  Announced,   \* the events that somebody is told of
  Silent,      \* the events that nobody is told of
  GiveUp

VARIABLES
  log,       \* the rows in the order in which they were written
  mishaps    \* how often something went wrong

vars == <<log, mishaps>>

Row(event, r) ==
  [event |-> event, ride |-> r, attempts |-> 0, delivered |-> FALSE, told |-> 0]

Rows == {Row(event, r) : event \in Announced \cup Silent, r \in Subjects}

Init ==
  /\ log \in {<<>>} \cup {<<row>> : row \in Rows}
  /\ mishaps = 0

\* The rows before i are closed or have failed.
Turn(i) == \A j \in 1 .. i - 1 : log[j].delivered \/ log[j].attempts > 0

Write == \E row \in Rows : log' = Append(log, row) /\ UNCHANGED mishaps

Tell(i) ==
  /\ log[i].event \in Announced
  /\ ~log[i].delivered /\ Turn(i)
  /\ log[i].told <= mishaps
  /\ log' = [log EXCEPT ![i].told = @ + 1]
  /\ UNCHANGED mishaps

Fail(i) ==
  /\ ~log[i].delivered /\ Turn(i)
  /\ log[i].attempts < mishaps
  /\ log' = [log EXCEPT ![i].attempts = @ + 1]
  /\ UNCHANGED mishaps

Close(i) ==
  /\ ~log[i].delivered /\ Turn(i)
  /\ \/ log[i].event \in Silent
     \/ log[i].told > 0
     \/ log[i].attempts > GiveUp
  /\ log' = [log EXCEPT ![i].delivered = TRUE]
  /\ UNCHANGED mishaps

Mishap == mishaps' = mishaps + 1 /\ UNCHANGED log

Next ==
  \/ Write
  \/ \E i \in DOMAIN log : Tell(i) \/ Fail(i) \/ Close(i)
  \/ Mishap

Spec == Init /\ [][Next]_vars
=============================================================================
