------------------------------ MODULE Sessions ------------------------------
(***************************************************************************)
(* Sessions: createSession and logout of AuthService, TokenService and the *)
(* end of a password reset (src/src/modules/auth/auth.service.ts,          *)
(* token.service.ts, password-reset.service.ts), with the JwtAuthGuard     *)
(* that they are for.                                                      *)
(*                                                                         *)
(* One action is one access to the database with the code up to the next   *)
(* await.  A call is an HTTP request in progress and keeps what it has     *)
(* read; one that its first read refuses is not begun.  `past` is history, *)
(* read by the properties only.                                            *)
(***************************************************************************)
EXTENDS Naturals, FiniteSets

CONSTANTS
  Ids,         \* identifiers of accounts, each used once
  Mails,       \* e-mail addresses
  Phones,      \* phone numbers
  Calls,       \* slots for requests in progress
  Tokens,      \* refresh tokens, numbered as they are created
  VersionCap,  \* bound on tokenVersion
  None         \* null

ASSUME NumbersAssumption == Tokens \subseteq Nat \ {0} /\ VersionCap \in Nat
ASSUME NoneAssumption == None \notin Ids \cup Mails \cup Phones

VARIABLES
  account,   \* collection User, with the Driver that belongs to it
  token,     \* collection RefreshToken
  access,    \* the access tokens that were signed
  call,      \* requests in progress
  past       \* history of each account

-----------------------------------------------------------------------------
(* The state.                                                              *)

\* password numbers the passwords of an account, 0 for none; profile says
\* that its Driver exists; verified is isEmailVerified.
NoAccount ==
  [status |-> "ABSENT", mail |-> None, phone |-> None, role |-> "PASSENGER",
   password |-> 0, version |-> 0, verified |-> FALSE, profile |-> FALSE]

Exists(u) == account[u].status \in {"ACTIVE", "SUSPENDED"}

\* owner and state of a refresh token; password and granted are history: the
\* password of the account when its session was opened, and how many times
\* the sessions of the account had been ended when it was created.
NoToken == [owner |-> None, state |-> "ABSENT", password |-> 0, granted |-> 0]

Live(t) == token[t].state = "LIVE"
LiveOf(u) == {t \in Tokens : Live(t) /\ token[t].owner = u}
RevokeOf(u) ==
  [t \in Tokens |-> IF t \in LiveOf(u) THEN [token[t] EXCEPT !.state = "REVOKED"]
                                       ELSE token[t]]

\* JwtAuthGuard: the account of the token, its status and its version.
Accepts(a) ==
  /\ account[a.owner].status = "ACTIVE"
  /\ account[a.owner].version = a.version

\* ended: the times the sessions of the account were ended by a logout or a
\* completed reset; opened: its version was last raised to open a session;
\* split: since its sessions were last revoked together, one was granted beside a
\* request that could still grant another; proven: the addresses and numbers that
\* codes given back were for; overtaken: its address was changed while a request
\* still held it for another; signedUp: signup() created it.
NoPast ==
  [ended |-> 0, opened |-> FALSE, split |-> FALSE, proven |-> {}, overtaken |-> FALSE,
   signedUp |-> FALSE]

\* op is the endpoint, at what the handler does next, the rest what it has read;
\* right is history: the request presented the secret that it was asked for.
Idle ==
  [op |-> "none", at |-> "idle", id |-> None, mail |-> None, phone |-> None,
   role |-> "PASSENGER", was |-> None, number |-> 0, tries |-> 0, version |-> 0,
   password |-> 0, token |-> 0, window |-> "none", right |-> FALSE]

Begins(c, record) == call[c] = Idle /\ call' = [call EXCEPT ![c] = record]
Goes(c, at) == call' = [call EXCEPT ![c].at = at]
Ends(c) == call' = [call EXCEPT ![c] = Idle]

SetAccount(u, record) == account' = [account EXCEPT ![u] = record]
SetPast(u, record) == past' = [past EXCEPT ![u] = record]

-----------------------------------------------------------------------------
(* createSession, the end of signup, login and both verifications.         *)

\* A request that will create a token and has nothing more to revoke: it has
\* revoked already, or is a rotation whose token is no longer live.
PastRevoking(d) ==
  \/ call[d].at \in {"grant", "regrant"}
  \/ call[d].at = "retire" /\ ~Live(call[d].token)

\* Requests in progress that may still create a refresh token.
Granters == {c \in Calls : call[c].op \in {"signup", "login", "proveMail",
                                           "proveSms", "rotate"}}
TokensLeft ==
  Cardinality(Granters) < Cardinality({t \in Tokens : token[t].state = "ABSENT"})

\* login: one read finds the account and decides.
LoginFind(c, u) ==
  /\ TokensLeft
  /\ account[u].status = "ACTIVE"
  /\ account[u].password # 0
  /\ account[u].version < VersionCap
  /\ Begins(c, [Idle EXCEPT !.op = "login", !.at = "bump", !.id = u,
                            !.password = account[u].password,
                            !.version = account[u].version])
  /\ UNCHANGED <<account, token, access, past>>

\* Wrong on purpose: the version read earlier is raised and written back.
BumpAsRead(c) ==
  /\ call[c].at = "bump"
  /\ SetAccount(call[c].id, [account[call[c].id] EXCEPT !.version = call[c].version + 1])
  /\ SetPast(call[c].id, [past[call[c].id] EXCEPT !.opened = TRUE])
  /\ call' = [call EXCEPT ![c].at = "revoke", ![c].version = @ + 1]
  /\ UNCHANGED <<token, access>>

\* The update throws when the account is gone.
Bump(c) ==
  /\ call[c].at = "bump"
  /\ LET u == call[c].id IN
     \/ /\ Exists(u)
        /\ SetAccount(u, [account[u] EXCEPT !.version = @ + 1])
        /\ SetPast(u, [past[u] EXCEPT !.opened = TRUE])
        /\ call' = [call EXCEPT ![c].at = "revoke",
                                ![c].version = account[u].version + 1]
     \/ /\ ~Exists(u)
        /\ Ends(c)
        /\ UNCHANGED <<account, past>>
  /\ UNCHANGED <<token, access>>

\* Wrong on purpose: the sessions of every account are closed.
RevokeEverybody(c) ==
  /\ call[c].at = "revoke"
  /\ token' = [t \in Tokens |-> IF Live(t) THEN [token[t] EXCEPT !.state = "REVOKED"]
                                          ELSE token[t]]
  /\ SetPast(call[c].id, [past[call[c].id] EXCEPT !.split = FALSE])
  /\ Goes(c, "grant")
  /\ UNCHANGED <<account, access>>

Revoke(c) ==
  /\ call[c].at = "revoke"
  /\ token' = RevokeOf(call[c].id)
  /\ SetPast(call[c].id, [past[call[c].id] EXCEPT !.split = FALSE])
  /\ Goes(c, "grant")
  /\ UNCHANGED <<account, access>>

\* A fresh token of the account of call c, and what history says of it.
Grants(c) ==
  LET u == call[c].id IN
  /\ \E t \in Tokens :
       /\ token[t].state = "ABSENT"
       /\ \A s \in Tokens : s < t => token[s].state # "ABSENT"
       /\ token' = [token EXCEPT ![t] =
            [owner |-> u, state |-> "LIVE", password |-> call[c].password,
             granted |-> past[u].ended]]
  /\ SetPast(u, [past[u] EXCEPT !.split = @ \/ \E d \in Calls \ {c} :
       call[d].id = u /\ PastRevoking(d)])

Signs(c, version) ==
  access' = access \cup {[owner |-> call[c].id, version |-> version]}

\* Wrong on purpose: the access token carries the version that login read.
GrantAsRead(c) ==
  /\ call[c].at = "grant"
  /\ Grants(c)
  /\ Signs(c, call[c].version - 1)
  /\ Ends(c)
  /\ UNCHANGED account

\* The access token carries the version that this call wrote.
Grant(c) ==
  /\ call[c].at = "grant"
  /\ Grants(c)
  /\ Signs(c, call[c].version)
  /\ Ends(c)
  /\ UNCHANGED account

-----------------------------------------------------------------------------
(* rotateRefreshToken.                                                     *)

RotateRead(c, t) ==
  /\ TokensLeft
  /\ Live(t)
  /\ Begins(c, [Idle EXCEPT !.op = "rotate", !.at = "retire", !.token = t,
                            !.id = token[t].owner, !.password = token[t].password])
  /\ UNCHANGED <<account, token, access, past>>

\* Wrong on purpose: the old token stays.
RetireNothing(c) ==
  /\ call[c].at = "retire"
  /\ Goes(c, "regrant")
  /\ UNCHANGED <<account, token, access, past>>

\* The write names the token only by its id.
Retire(c) ==
  /\ call[c].at = "retire"
  /\ token' = [token EXCEPT ![call[c].token].state = "REVOKED"]
  /\ Goes(c, "regrant")
  /\ UNCHANGED <<account, access, past>>

Regrant(c) ==
  /\ call[c].at = "regrant"
  /\ Grants(c)
  /\ Goes(c, "reread")
  /\ UNCHANGED <<account, access>>

\* The access token carries the version of this moment.
Reread(c) ==
  /\ call[c].at = "reread"
  /\ IF Exists(call[c].id) THEN Signs(c, account[call[c].id].version)
                           ELSE UNCHANGED access
  /\ Ends(c)
  /\ UNCHANGED <<account, token, past>>

\* A refresh token passes its expiresAt.
Lapses(t) ==
  /\ Live(t)
  /\ token' = [token EXCEPT ![t].state = "LAPSED"]
  /\ UNCHANGED <<account, access, call, past>>

-----------------------------------------------------------------------------
(* Ending sessions: logout, and the last writes of resetPassword.          *)

\* Any token of the account will do, revoked or not.
LogoutRead(c, t) ==
  /\ token[t].state # "ABSENT"
  /\ account[token[t].owner].version < VersionCap
  /\ Begins(c, [Idle EXCEPT !.op = "logout", !.at = "close", !.id = token[t].owner,
                            !.token = t])
  /\ UNCHANGED <<account, token, access, past>>

\* Wrong on purpose: only the token presented is revoked.
CloseOne(c) ==
  /\ call[c].at = "close"
  /\ token' = [token EXCEPT ![call[c].token].state = "REVOKED"]
  /\ SetAccount(call[c].id, [account[call[c].id] EXCEPT !.version = @ + 1])
  /\ SetPast(call[c].id, [past[call[c].id] EXCEPT !.opened = FALSE, !.ended = @ + 1,
                                                  !.split = FALSE])
  /\ Ends(c)
  /\ UNCHANGED access

\* One transaction; it fails when the account is gone.
Close(c) ==
  /\ call[c].at = "close"
  /\ LET u == call[c].id IN
     \/ /\ Exists(u)
        /\ token' = RevokeOf(u)
        /\ SetAccount(u, [account[u] EXCEPT !.version = @ + 1])
        /\ SetPast(u, [past[u] EXCEPT !.opened = FALSE, !.ended = @ + 1, !.split = FALSE])
     \/ ~Exists(u) /\ UNCHANGED <<token, account, past>>
  /\ Ends(c)
  /\ UNCHANGED access

SetPassword(c) ==
  /\ call[c].at = "setPassword"
  /\ LET u == call[c].id IN
     \/ /\ Exists(u)
        /\ SetAccount(u, [account[u] EXCEPT !.password = @ + 1, !.version = @ + 1])
        /\ SetPast(u, [past[u] EXCEPT !.opened = FALSE])
        /\ Goes(c, "revokeAll")
     \/ ~Exists(u) /\ Ends(c) /\ UNCHANGED <<account, past>>
  /\ UNCHANGED <<token, access>>

RevokeAll(c) ==
  /\ call[c].at = "revokeAll"
  /\ token' = RevokeOf(call[c].id)
  /\ SetPast(call[c].id, [past[call[c].id] EXCEPT !.ended = @ + 1, !.split = FALSE])
  /\ Ends(c)
  /\ UNCHANGED <<account, access>>
=============================================================================
