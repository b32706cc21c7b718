----------------------------- MODULE MCAccounts -----------------------------
(***************************************************************************)
(* Instances of Accounts for TLC: the scenarios.  Identifiers, addresses,  *)
(* numbers and slots are few; each scenario offers the endpoints whose     *)
(* interleavings it is about.                                              *)
(***************************************************************************)
EXTENDS AccountsProperties

CONSTANTS u1, u2, m1, m2, m3, p1

\* An account that signed up with m1.
Rider ==
  [NoAccount EXCEPT !.status = "ACTIVE", !.mail = m1, !.phone = p1, !.password = 1]

\* Nobody, or one account.
Nobody == [u \in Ids |-> NoAccount]
Somebody == [Nobody EXCEPT ![u1] = Rider]

\* Nothing given out yet, or one secret for the account.
NothingGiven == [s \in Secrets |-> NoSecret]
GivenOne(kind, address) ==
  [NothingGiven EXCEPT ![1] = [NoSecret EXCEPT !.kind = kind, !.address = address,
                                              !.given = TRUE]]

Scenario(endpoints, accounts, secrets) ==
  [endpoints |-> endpoints, addresses |-> {m1, p1}, accounts |-> accounts, secrets |-> secrets,
   passes |-> {}, faults |-> 0, crash |-> FALSE, backings |-> {"redis"}]

\* Logins, rotations and logouts of one account, one write of which may fail.
SessionsScenario ==
  [Scenario({"login", "rotate", "logout"}, Somebody, NothingGiven)
     EXCEPT !.passes = {"token"}, !.faults = 1]

\* A password reset among logins and rotations.
ResetScenario ==
  [Scenario({"login", "rotate", "reset"}, Somebody, GivenOne("reset", m1))
     EXCEPT !.passes = {"secret"}]

\* Reset links that are asked for again, and an account that is suspended.
LinkScenario ==
  [Scenario({"askReset", "reset", "suspend"}, Somebody, GivenOne("reset", m1))
     EXCEPT !.passes = {"secret"}, !.faults = 1]

\* Right and wrong guesses at a code that is asked for again.
MailScenario ==
  [Scenario({"askMail", "proveMail"}, Nobody, GivenOne("mail", m1))
     EXCEPT !.passes = {"secret"}]

SmsScenario ==
  [Scenario({"proveSms"}, Nobody, GivenOne("sms", p1)) EXCEPT !.passes = {"secret"}]

FirstSmsScenario == Scenario({"askSms", "proveSms"}, Nobody, NothingGiven)

\* Guesses at the code of an account while its e-mail is under way, sent or failed.
FirstMailScenario ==
  [Scenario({"askMail", "proveMail"}, Somebody, NothingGiven) EXCEPT !.faults = 1]

\* Requests against the limits, with counters that expire.
LimitsScenario ==
  [Scenario({"askMail"}, Somebody, NothingGiven)
     EXCEPT !.passes = {"window"}, !.faults = 1, !.crash = TRUE,
            !.backings = {"redis", "memory"}]

\* Accounts that are created side by side.
SignupScenario ==
  [Scenario({"signup"}, Nobody, NothingGiven) EXCEPT !.addresses = {m1, m2, p1}]

\* An account that is used before its signup is through, and cleaned up.
CleanupScenario ==
  [Scenario({"signup", "login", "rotate", "logout"}, Nobody, NothingGiven)
     EXCEPT !.addresses = {m1}, !.faults = 1]

\* A code that is given back while the address changes.
ProfileScenario ==
  [Scenario({"proveMail", "profile"}, Somebody, GivenOne("mail", m1))
     EXCEPT !.addresses = {m1, m2}]

\* The default driver is seeded, over nobody or over an account that has its number
\* and may have proven its address.
SeedScenario(accounts, secrets) ==
  [Scenario({"seed", "login", "proveMail"}, accounts, secrets)
     EXCEPT !.faults = 1, !.crash = TRUE]

AllScenarios ==
  {SessionsScenario, ResetScenario, LinkScenario, MailScenario, SmsScenario,
   FirstSmsScenario, FirstMailScenario, LimitsScenario, SignupScenario, CleanupScenario,
   ProfileScenario, SeedScenario(Nobody, NothingGiven),
   SeedScenario(Somebody, GivenOne("mail", m1))}

\* Requests for a code with the store in memory.
MemoryScenario ==
  [Scenario({"askMail"}, Somebody, NothingGiven)
     EXCEPT !.passes = {"window"}, !.backings = {"memory"}]

OnlyMemory == {MemoryScenario}

AllKeys == SecretKeys \cup WindowKeys
=============================================================================
