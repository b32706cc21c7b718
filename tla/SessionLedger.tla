---------------------------- MODULE SessionLedger ----------------------------
(***************************************************************************)
(* What the sessions of accounts promise, without requests, versions or    *)
(* clocks: a refresh token is granted once, to one account, and opens a    *)
(* session until it is closed for good.  An account has one session at a   *)
(* time, unless two grants of one account were divided since its sessions  *)
(* were last closed together; what closes a session closes it alone or     *)
(* with every session of its account and with no other; and ending the     *)
(* sessions of an account leaves none.                                     *)
(***************************************************************************)
EXTENDS Naturals

CONSTANTS Accounts, Tokens, None

VARIABLES
  owner,     \* the account each token was granted to
  open,      \* the tokens that open a session
  ends,      \* how many times the sessions of each account were ended
  divided    \* accounts two of whose grants were divided since then

vars == <<owner, open, ends, divided>>

OpenOf(a) == {t \in open : owner[t] = a}

Init ==
  /\ owner = [t \in Tokens |-> None]
  /\ open = {}
  /\ ends = [a \in Accounts |-> 0]
  /\ divided = {}

Grant(a, t) ==
  /\ owner[t] = None
  /\ divided' \in {divided, divided \cup {a}}
  /\ a \in divided' \/ OpenOf(a) = {}
  /\ owner' = [owner EXCEPT ![t] = a]
  /\ open' = open \cup {t}
  /\ UNCHANGED ends

\* A token is rotated or lapses.
Drop(t) ==
  /\ t \in open
  /\ open' = open \ {t}
  /\ UNCHANGED <<owner, ends, divided>>

\* A login takes the place of the sessions of its account.
Replace(a) ==
  /\ open' = open \ OpenOf(a)
  /\ divided' = divided \ {a}
  /\ UNCHANGED <<owner, ends>>

\* A logout, or the end of a password reset.
End(a) ==
  /\ open' = open \ OpenOf(a)
  /\ ends' = [ends EXCEPT ![a] = @ + 1]
  /\ divided' = divided \ {a}
  /\ UNCHANGED owner

Next ==
  \/ \E a \in Accounts, t \in Tokens : Grant(a, t)
  \/ \E t \in Tokens : Drop(t)
  \/ \E a \in Accounts : Replace(a) \/ End(a)

Spec == Init /\ [][Next]_vars
=============================================================================
