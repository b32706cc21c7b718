--------------------------- MODULE RideAssignment ---------------------------
(***************************************************************************)
(* What ride dispatch promises, without pipelines, timers or requests: a   *)
(* ride is searched for, offered to one driver at a time, and once it is   *)
(* settled (accepted, cancelled or failed) it is never offered again and   *)
(* the driver it is assigned to never changes.                             *)
(***************************************************************************)
CONSTANTS Rides, Drivers, None

VARIABLES
  phase,    \* the phase of each ride
  holder    \* the driver each ride is offered or assigned to

vars == <<phase, holder>>

Phases == {"none", "searching", "offered", "settled"}

Init ==
  /\ phase = [r \in Rides |-> "none"]
  /\ holder = [r \in Rides |-> None]

Create(r) ==
  /\ phase[r] = "none"
  /\ phase' = [phase EXCEPT ![r] = "searching"]
  /\ UNCHANGED holder

Offer(r, d) ==
  /\ phase[r] = "searching"
  /\ phase' = [phase EXCEPT ![r] = "offered"]
  /\ holder' = [holder EXCEPT ![r] = d]

\* Offers are withdrawn together when their driver leaves.
Withdraw(R) ==
  /\ R # {}
  /\ \A r \in R : phase[r] = "offered"
  /\ phase' = [r \in Rides |-> IF r \in R THEN "searching" ELSE phase[r]]
  /\ holder' = [r \in Rides |-> IF r \in R THEN None ELSE holder[r]]

Settle(r) ==
  /\ phase[r] \in {"searching", "offered"}
  /\ phase' = [phase EXCEPT ![r] = "settled"]
  /\ UNCHANGED holder

Next ==
  \/ \E r \in Rides : Create(r) \/ Settle(r)
  \/ \E r \in Rides, d \in Drivers : Offer(r, d)
  \/ \E R \in SUBSET Rides : Withdraw(R)

Spec == Init /\ [][Next]_vars
=============================================================================
