----------------------------- MODULE MCDispatch -----------------------------
(***************************************************************************)
(* Instances of Dispatch for TLC.                                          *)
(***************************************************************************)
EXTENDS DispatchProperties, TLC

\* A driver who is approved and has gone online.
Ready == [approved |-> TRUE, suspended |-> FALSE, available |-> TRUE]

\* A driver who is approved and offline.
OffDuty == [approved |-> TRUE, suspended |-> FALSE, available |-> FALSE]

\* A driver who has signed up and waits for approval.
Pending == [approved |-> FALSE, suspended |-> FALSE, available |-> FALSE]

AllReady == {Ready}
AllOffDuty == {OffDuty}
SomeReady == {Ready, OffDuty}
AnyDriver == {Ready, Pending}

\* Rides, drivers and passengers are interchangeable; slots are chosen in order.
Symmetry ==
  Permutations(Rides) \cup Permutations(Drivers) \cup Permutations(Passengers)
    \cup Permutations(Calls)
=============================================================================
