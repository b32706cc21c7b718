------------------------------ MODULE Accounts ------------------------------
(***************************************************************************)
(* Accounts, and the endpoints of AuthController over them: signup,        *)
(* verification of an e-mail address or a phone number, login, refresh,    *)
(* logout and password reset (src/src/modules/auth/), the change of a      *)
(* profile (users/users.service.ts), the administrator's suspension and    *)
(* the seeding of default accounts at start.                               *)
(*                                                                         *)
(* Sessions and OneTimeCodes give the steps over the database and over the *)
(* store; this module gives the rest of the handlers, exceptions, crashes, *)
(* and the whole.  E-mail addresses are unique in the database and phone   *)
(* numbers are not.  Usernames are left out: they are a second unique name *)
(* that behaves like an e-mail address.                                    *)
(***************************************************************************)
EXTENDS OneTimeCodes

CONSTANTS
  Scenarios,   \* what an instance examines: see ScenarioType
  SeedMail,    \* the e-mail address of the default driver
  SeedPhone    \* the phone number of the default driver

VARIABLES
  scenario,   \* the scenario of this behaviour
  faults,     \* exceptions so far
  crashed     \* history: the process has crashed

vars == <<account, token, access, past, store, backing, secret, passed, call,
          scenario, faults, crashed>>

Endpoints == {"signup", "login", "rotate", "logout", "askMail", "askSms", "askReset",
              "proveMail", "proveSms", "reset", "profile", "suspend", "seed"}

AccountType ==
  [status : {"ABSENT", "ACTIVE", "SUSPENDED", "DELETED"}, mail : Mails \cup {None},
   phone : Phones \cup {None}, role : {"PASSENGER", "DRIVER"}, password : Nat,
   version : Nat, verified : BOOLEAN, profile : BOOLEAN]

SecretType ==
  [kind : {"none", "mail", "sms", "reset"}, address : Mails \cup Phones \cup {None},
   given : BOOLEAN, aged : BOOLEAN, accepted : Nat, wrong : Nat, shared : BOOLEAN,
   contested : BOOLEAN]

\* endpoints and addresses: what clients use; accounts and secrets: what exists
\* at first; passes: what time passes over; faults: how many exceptions; crash: whether
\* the process may die; backings: the stores that may be configured.
ScenarioType ==
  [endpoints : SUBSET Endpoints, addresses : SUBSET (Mails \cup Phones),
   accounts : [Ids -> AccountType],
   secrets : [Secrets -> SecretType], passes : SUBSET {"secret", "window", "token"},
   faults : Nat, crash : BOOLEAN, backings : SUBSET {"redis", "memory"}]

\* Accounts as signup and seeding leave them, with codes that were given out.
Plausible(sc) ==
  /\ \A u \in Ids :
       \/ sc.accounts[u] = NoAccount
       \/ /\ sc.accounts[u].status = "ACTIVE" /\ ~sc.accounts[u].verified
          /\ sc.accounts[u].profile = (sc.accounts[u].role = "DRIVER")
          /\ \A v \in Ids \ {u} : sc.accounts[v].status = "ACTIVE" =>
               /\ sc.accounts[u].phone # sc.accounts[v].phone
               /\ sc.accounts[u].mail = sc.accounts[v].mail => sc.accounts[u].mail = None
  /\ \A s \in Secrets :
       \/ sc.secrets[s] = NoSecret
       \/ \E kind \in {"mail", "sms", "reset"}, m \in Mails, p \in Phones :
            LET address == IF kind = "sms" THEN p ELSE m IN
            /\ sc.secrets[s] = [NoSecret EXCEPT !.kind = kind, !.address = address,
                                                !.given = TRUE]
            /\ \A x \in Secrets \ {s} : sc.secrets[x].kind = kind =>
                 kind = "reset" \/ sc.secrets[x].address # address
            /\ \A x \in Secrets : x < s => sc.secrets[x] # NoSecret

ASSUME ScenariosAssumption ==
  /\ \A sc \in Scenarios : sc \in ScenarioType /\ Plausible(sc)
  /\ SeedMail \in Mails /\ SeedPhone \in Phones

Init ==
  /\ scenario \in Scenarios
  /\ backing \in scenario.backings
  /\ account = scenario.accounts
  /\ secret = scenario.secrets
  /\ store = [k \in Keys |->
       IF \E s \in Secrets : Made(s) /\ KeyOf(s) = k
         THEN [number |-> CHOOSE s \in Secrets : Made(s) /\ KeyOf(s) = k,
               tries |-> 0, ttl |-> TRUE]
         ELSE Absent]
  /\ passed = [k \in WindowKeys |-> 0]
  /\ token = [t \in Tokens |-> NoToken]
  /\ access = {}
  /\ past = [u \in Ids |-> NoPast]
  /\ call = [c \in Calls |-> Idle]
  /\ faults = 0
  /\ crashed = FALSE

Present == {u \in Ids : Exists(u)}
MailTaken(m, u) == m # None /\ \E v \in Present \ {u} : account[v].mail = m
PhoneTaken(p) == p # None /\ \E v \in Present : account[v].phone = p

-----------------------------------------------------------------------------
(* Creating an account: signup, verifyOtp of an unknown number, seeding.   *)

Signup(c, m, p, role) ==
  /\ TokensLeft
  /\ ~MailTaken(m, None) /\ ~PhoneTaken(p)
  /\ Begins(c, [Idle EXCEPT !.op = "signup", !.at = "create", !.mail = m, !.phone = p,
                            !.role = role])
  /\ UNCHANGED <<codeVars, sessionVars>>

\* seedDefaultUser finds nobody with the number, or somebody else's address.
SeedFind(c) ==
  /\ \/ /\ ~PhoneTaken(SeedPhone)
        /\ Begins(c, [Idle EXCEPT !.op = "seed", !.at = "create", !.mail = SeedMail,
                                  !.phone = SeedPhone, !.role = "DRIVER"])
     \/ \E u \in Present :
          /\ account[u].phone = SeedPhone /\ account[u].mail # SeedMail
          /\ Begins(c, [Idle EXCEPT !.op = "seed", !.at = "reseed", !.id = u,
                                    !.mail = SeedMail])
  /\ UNCHANGED <<codeVars, sessionVars>>

\* A request that has its account: a session comes next, except for a seed.
Proceeds(c, u, driver) ==
  \/ driver /\ call' = [call EXCEPT ![c].at = "addProfile", ![c].id = u]
  \/ ~driver /\ call[c].op = "seed" /\ Ends(c)
  \/ ~driver /\ call[c].op # "seed" /\ call' = [call EXCEPT ![c].at = "bump", ![c].id = u]

\* The create throws when the address is taken; numbers are not compared.
Create(c) ==
  /\ call[c].at = "create"
  /\ \/ /\ MailTaken(call[c].mail, None)
        /\ Ends(c)
        /\ UNCHANGED <<account, past>>
     \/ /\ ~MailTaken(call[c].mail, None)
        /\ \E u \in Ids :
             /\ account[u].status = "ABSENT"
             /\ SetAccount(u, [NoAccount EXCEPT !.status = "ACTIVE",
                  !.mail = call[c].mail, !.phone = call[c].phone, !.role = call[c].role,
                  !.password = IF call[c].op = "proveSms" THEN 0 ELSE 1])
             /\ SetPast(u, [NoPast EXCEPT !.signedUp = call[c].op = "signup",
                  !.proven = IF call[c].op = "proveSms" THEN {call[c].phone} ELSE {}])
             /\ Proceeds(c, u, call[c].role = "DRIVER")
  /\ UNCHANGED <<token, access, codeVars>>

\* ensureDriverProfile
AddProfile(c) ==
  /\ call[c].at = "addProfile"
  /\ SetAccount(call[c].id, [account[call[c].id] EXCEPT !.profile = TRUE])
  /\ Proceeds(c, call[c].id, FALSE)
  /\ UNCHANGED <<token, access, past, codeVars>>

\* The catch block of signup: the profile, then the account, which stays when a
\* session refers to it.
UndoProfile(c) ==
  /\ call[c].at = "undoProfile"
  /\ SetAccount(call[c].id, [account[call[c].id] EXCEPT !.profile = FALSE])
  /\ Goes(c, "undoUser")
  /\ UNCHANGED <<token, access, past, codeVars>>

UndoUser(c) ==
  /\ call[c].at = "undoUser"
  /\ IF \E t \in Tokens : token[t].owner = call[c].id
       THEN UNCHANGED account
       ELSE SetAccount(call[c].id, [account[call[c].id] EXCEPT !.status = "DELETED"])
  /\ Ends(c)
  /\ UNCHANGED <<token, access, past, codeVars>>

-----------------------------------------------------------------------------
(* What a secret is good for: verifyEmailOtp, verifyOtp, resetPassword.    *)

LookupMail(c) ==
  /\ call[c].at = "lookup" /\ call[c].op = "proveMail"
  /\ \/ \E u \in Ids :
          /\ account[u].status = "ACTIVE" /\ account[u].mail = call[c].mail
          /\ call' = [call EXCEPT ![c].at = "mark", ![c].id = u]
     \/ /\ \A u \in Ids : account[u].status = "ACTIVE" => account[u].mail # call[c].mail
        /\ Ends(c)
  /\ UNCHANGED <<codeVars, sessionVars>>

LookupOwner(c) ==
  /\ call[c].at = "lookup" /\ call[c].op = "reset"
  /\ \/ \E u \in Ids :
          /\ account[u].status = "ACTIVE" /\ account[u].mail = call[c].mail
          /\ call' = [call EXCEPT ![c].at = "setPassword", ![c].id = u]
     \/ /\ \A u \in Ids : account[u].status = "ACTIVE" => account[u].mail # call[c].mail
        /\ Ends(c)
  /\ UNCHANGED <<codeVars, sessionVars>>

\* Wrong on purpose: an unknown number is taken for a known one.
LookupAnyPhone(c) ==
  /\ call[c].at = "lookup" /\ call[c].op = "proveSms"
  /\ call' = [call EXCEPT ![c].at = "mark"]
  /\ UNCHANGED <<codeVars, sessionVars>>

\* findFirst: any account with the number, or a new one.
LookupPhone(c) ==
  /\ call[c].at = "lookup" /\ call[c].op = "proveSms"
  /\ \/ \E u \in Present :
          /\ account[u].phone = call[c].phone
          /\ call' = [call EXCEPT ![c].at = "mark", ![c].id = u]
     \/ /\ ~PhoneTaken(call[c].phone)
        /\ Goes(c, "create")
  /\ UNCHANGED <<codeVars, sessionVars>>

\* The address of the code is proven, whatever the account's address is by now.
MarkMail(c) ==
  /\ call[c].at = "mark" /\ call[c].op = "proveMail"
  /\ LET u == call[c].id IN
     \/ /\ Exists(u)
        /\ SetAccount(u, [account[u] EXCEPT !.verified = TRUE])
        /\ SetPast(u, [past[u] EXCEPT !.proven = @ \cup {call[c].mail}])
        /\ call' = [call EXCEPT ![c].at = "bump", ![c].password = account[u].password]
     \/ ~Exists(u) /\ Ends(c) /\ UNCHANGED <<account, past>>
  /\ UNCHANGED <<token, access, codeVars>>

\* The update of verifyOtp returns the account, and a suspended one is refused.
MarkPhone(c) ==
  /\ call[c].at = "mark" /\ call[c].op = "proveSms"
  /\ LET u == call[c].id IN
     /\ IF Exists(u)
          THEN SetPast(u, [past[u] EXCEPT !.proven = @ \cup {call[c].phone}])
          ELSE UNCHANGED past
     /\ IF account[u].status = "ACTIVE"
          THEN call' = [call EXCEPT ![c].at = "bump", ![c].password = account[u].password]
          ELSE Ends(c)
  /\ UNCHANGED <<account, token, access, codeVars>>

-----------------------------------------------------------------------------
(* Changing an account: its owner, the administrator, seeding.             *)

ProfileRead(c, u, m) ==
  /\ \E a \in access : a.owner = u /\ Accepts(a)
  /\ ~MailTaken(m, u)
  /\ Begins(c, [Idle EXCEPT !.op = "profile", !.at = "save", !.id = u, !.mail = m,
                            !.was = account[u].mail])
  /\ UNCHANGED <<codeVars, sessionVars>>

\* Request d still holds the address of account u for another than m: it is about
\* to mark that one as verified, or found that it need not change it.
Outdated(d, u, m) ==
  /\ call[d].id = u /\ call[d].mail # m
  /\ \/ call[d].op = "proveMail" /\ call[d].at = "mark"
     \/ call[d].at = "save" /\ call[d].mail = call[d].was

\* Wrong on purpose: the address stays verified.
SaveVerified(c) ==
  /\ call[c].at = "save"
  /\ SetAccount(call[c].id, [account[call[c].id] EXCEPT !.mail = call[c].mail])
  /\ Ends(c)
  /\ UNCHANGED <<token, access, past, codeVars>>

\* Whether the address changes was decided by the read.
Save(c) ==
  /\ call[c].at = "save"
  /\ LET u == call[c].id IN
     \/ /\ Exists(u) /\ ~MailTaken(call[c].mail, u)
        /\ SetAccount(u, [account[u] EXCEPT !.mail = call[c].mail,
                            !.verified = @ /\ call[c].mail = call[c].was])
        /\ SetPast(u, [past[u] EXCEPT
             !.overtaken = \/ @ /\ call[c].mail = call[c].was
                           \/ \E d \in Calls \ {c} : Outdated(d, u, call[c].mail)])
     \/ (~Exists(u) \/ MailTaken(call[c].mail, u)) /\ UNCHANGED <<account, past>>
  /\ Ends(c)
  /\ UNCHANGED <<token, access, codeVars>>

\* seedDefaultUser changes an address and leaves it as verified as it was.
Reseed(c) ==
  /\ call[c].at = "reseed"
  /\ LET u == call[c].id IN
     \/ /\ Exists(u) /\ ~MailTaken(SeedMail, u)
        /\ SetAccount(u, [account[u] EXCEPT !.mail = SeedMail])
     \/ (~Exists(u) \/ MailTaken(SeedMail, u)) /\ UNCHANGED account
  /\ Ends(c)
  /\ UNCHANGED <<token, access, past, codeVars>>

\* setUserStatus
SetStatus(u) ==
  /\ Exists(u)
  /\ SetAccount(u, [account[u] EXCEPT !.status =
                      IF @ = "ACTIVE" THEN "SUSPENDED" ELSE "ACTIVE"])
  /\ UNCHANGED <<token, access, past, call, codeVars>>

-----------------------------------------------------------------------------
(* Exceptions and crashes.                                                 *)

\* Wrong on purpose: signup cleans up after the session only.
RecoversLess(record) ==
  CASE record.op = "signup" /\ record.at \in {"bump", "revoke", "grant"} ->
         [record EXCEPT !.at = "undoProfile"]
    [] record.at = "undoProfile" -> [record EXCEPT !.at = "undoUser"]
    [] record.at = "send" -> [record EXCEPT !.at = "unsend"]
    [] OTHER -> Idle

\* What a handler does after an exception: its catch block, or nothing.
Recovers(record) ==
  CASE record.op = "signup" /\ record.at \in {"addProfile", "bump", "revoke", "grant"} ->
         [record EXCEPT !.at = "undoProfile"]
    [] record.at = "undoProfile" -> [record EXCEPT !.at = "undoUser"]
    [] record.at = "send" -> [record EXCEPT !.at = "unsend"]
    [] OTHER -> Idle

Fails(c) ==
  /\ call[c] # Idle
  /\ faults < scenario.faults
  /\ faults' = faults + 1
  /\ call' = [call EXCEPT ![c] = Recovers(@)]
  /\ UNCHANGED <<codeVars, sessionVars, scenario, crashed>>

\* Requests in progress are lost, and what MemoryCache held.
Crash ==
  /\ scenario.crash /\ ~crashed
  /\ crashed' = TRUE
  /\ call' = [c \in Calls |-> Idle]
  /\ Restarts
  /\ passed' = [k \in WindowKeys |-> IF backing = "memory" THEN 0 ELSE passed[k]]
  /\ UNCHANGED <<backing, secret, sessionVars, scenario, faults>>

-----------------------------------------------------------------------------
(* The whole.                                                              *)

\* What clients use in a scenario.
Offers(op) == op \in scenario.endpoints
SomeMails == Mails \cap scenario.addresses
SomePhones == Phones \cap scenario.addresses

\* The routes about a code: it is asked for, or given back right or wrong.
CodeRoutes(c) ==
  \/ \E p \in SomePhones :
       \/ Offers("askSms") /\ AskSms(c, p)
       \/ \E role \in {"PASSENGER", "DRIVER"}, right \in BOOLEAN :
            Offers("proveSms") /\ ProveSms(c, p, role, right)
  \/ \E m \in SomeMails :
       \/ Offers("askMail") /\ AskMail(c, m)
       \/ \E right \in BOOLEAN : Offers("proveMail") /\ ProveMail(c, m, right)

\* The routes about an account: sign-up, sessions and the password.
AccountRoutes(c) ==
  \/ \E m \in SomeMails, p \in SomePhones \cup {None}, role \in {"PASSENGER", "DRIVER"} :
       Offers("signup") /\ Signup(c, m, p, role)
  \/ \E u \in Ids : Offers("login") /\ LoginFind(c, u) /\ UNCHANGED codeVars
  \/ \E t \in Tokens :
       \/ Offers("rotate") /\ RotateRead(c, t) /\ UNCHANGED codeVars
       \/ Offers("logout") /\ LogoutRead(c, t) /\ UNCHANGED codeVars
  \/ \E m \in SomeMails : Offers("askReset") /\ AskReset(c, m)
  \/ \E s \in Secrets : Offers("reset") /\ UseReset(c, s)

\* A client sends a request, to an endpoint of the scenario.
Arrives(c) ==
  \/ CodeRoutes(c) \/ AccountRoutes(c)
  \/ \E u \in Ids, m \in SomeMails : Offers("profile") /\ ProfileRead(c, u, m)

\* onModuleInit: the process starts, and serves nobody until it is done.
Starts(c) ==
  /\ "seed" \in scenario.endpoints
  /\ \A d \in Calls : call[d] = Idle
  /\ SeedFind(c)

Starting == \E d \in Calls : call[d].op = "seed"

\* A request in progress goes on.
OpensSession(c) == Bump(c) \/ Revoke(c) \/ Grant(c)
Rotates(c) == Retire(c) \/ Regrant(c) \/ Reread(c)
EndsSessions(c) == Close(c) \/ SetPassword(c) \/ RevokeAll(c)
MakesSecret(c) ==
  Count(c) \/ SetWindow(c) \/ AskOwner(c) \/ Store(c) \/ Send(c) \/ Unsend(c)
UsesSecret(c) ==
  Lapse(c) \/ Reject(c) \/ Accept(c) \/ LookupMail(c) \/ LookupOwner(c)
    \/ LookupPhone(c) \/ MarkMail(c) \/ MarkPhone(c)
CreatesAccount(c) == Create(c) \/ AddProfile(c) \/ UndoProfile(c) \/ UndoUser(c)
ChangesAccount(c) == Save(c) \/ Reseed(c)

GoesOn(c) ==
  \/ (OpensSession(c) \/ Rotates(c) \/ EndsSessions(c)) /\ UNCHANGED codeVars
  \/ MakesSecret(c) \/ UsesSecret(c)
  \/ CreatesAccount(c) \/ ChangesAccount(c)

Suspends == \E u \in Ids : "suspend" \in scenario.endpoints /\ SetStatus(u)

TimePasses ==
  \/ \E s \in Secrets : "secret" \in scenario.passes /\ Ages(s)
  \/ \E k \in SecretKeys : "secret" \in scenario.passes /\ RecordEnds(k)
  \/ \E k \in WindowKeys : "window" \in scenario.passes /\ WindowEnds(k)
  \/ \E t \in Tokens : "token" \in scenario.passes /\ Lapses(t) /\ UNCHANGED codeVars

Calm == UNCHANGED <<scenario, faults, crashed>>

Next ==
  \/ \E c \in Calls : ~Starting /\ Arrives(c) /\ Calm
  \/ \E c \in Calls : (Starts(c) \/ GoesOn(c)) /\ Calm
  \/ Suspends /\ Calm
  \/ TimePasses /\ Calm
  \/ \E c \in Calls : Fails(c)
  \/ Crash

Spec == Init /\ [][Next]_vars

\* Handlers go on and counters expire; clients promise nothing.
Fairness ==
  /\ \A c \in Calls : WF_vars(GoesOn(c) /\ Calm)
  /\ \A k \in WindowKeys :
       WF_vars("window" \in scenario.passes /\ WindowEnds(k) /\ Calm)

FairSpec == Spec /\ Fairness
=============================================================================
