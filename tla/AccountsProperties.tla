------------------------- MODULE AccountsProperties -------------------------
(***************************************************************************)
(* What the accounts, sessions and one-time codes of the service promise.  *)
(***************************************************************************)
EXTENDS Accounts

-----------------------------------------------------------------------------
(* Types.                                                                  *)

TokenType ==
  [owner : Ids \cup {None}, state : {"ABSENT", "LIVE", "REVOKED", "LAPSED"},
   password : Nat, granted : Nat]

PastType ==
  [ended : Nat, opened : BOOLEAN, split : BOOLEAN,
   proven : SUBSET (Mails \cup Phones \cup {None}), overtaken : BOOLEAN,
   signedUp : BOOLEAN]

Steps ==
  {"idle", "bump", "revoke", "grant", "retire", "regrant", "reread", "close",
   "setPassword", "revokeAll", "count", "expire", "owner", "store", "send", "unsend",
   "lapse", "reject", "accept", "lookup", "mark", "create", "addProfile",
   "undoProfile", "undoUser", "save", "reseed"}

\* The steps at which a request has found the account it works on.
WithAccount ==
  {"bump", "revoke", "grant", "retire", "regrant", "reread", "close", "setPassword",
   "revokeAll", "mark", "addProfile", "undoProfile", "undoUser", "save", "reseed"}

CallType ==
  [op : Endpoints \cup {"none"}, at : Steps, id : Ids \cup {None},
   mail : Mails \cup {None}, phone : Phones \cup {None}, role : {"PASSENGER", "DRIVER"},
   was : Mails \cup {None}, number : Nat, tries : Nat, version : Nat, password : Nat,
   token : Nat, window : {"none", "per60s", "perHour", "perIp", "smsPerHour",
                          "resetPerHour", "resetPerIp"}, right : BOOLEAN]

SessionTypes ==
  /\ account \in [Ids -> AccountType]
  /\ token \in [Tokens -> TokenType]
  /\ access \subseteq [owner : Ids, version : Nat]
  /\ past \in [Ids -> PastType]

CodeTypes ==
  /\ store \in [Keys -> Entry]
  /\ backing \in {"redis", "memory"}
  /\ secret \in [Secrets -> SecretType]
  /\ passed \in [WindowKeys -> Nat]

RequestTypes ==
  /\ call \in [Calls -> CallType]
  /\ scenario \in Scenarios
  /\ faults \in Nat
  /\ crashed \in BOOLEAN

\* A request at a step about an account has found one, and one that asks for a
\* secret has an address, and a counter as long as it counts.
RecordOK(r) ==
  /\ r = Idle <=> r.at = "idle"
  /\ r.at \in WithAccount => r.id \in Ids
  /\ r.at \in {"count", "expire", "owner", "store"} =>
       \/ r.op \in {"askMail", "askReset"} /\ r.mail \in Mails
       \/ r.op = "askSms" /\ r.phone \in Phones
  /\ r.at \in {"count", "expire"} =>
       r.window \in CASE r.op = "askMail" -> {"per60s", "perHour", "perIp"}
                      [] r.op = "askReset" -> {"resetPerHour", "resetPerIp"}
                      [] OTHER -> {"smsPerHour"}

\* Every variable has its type: in particular no request works on an account or
\* a counter that it has not found, and every refresh token has an owner.
TypeOK ==
  /\ SessionTypes /\ CodeTypes /\ RequestTypes
  /\ \A c \in Calls : RecordOK(call[c])
  /\ \A t \in Tokens : token[t].state # "ABSENT" <=> token[t].owner \in Ids
  /\ \A c \in Calls : call[c].at = "retire" =>
       call[c].token \in Tokens /\ token[call[c].token].owner = call[c].id
  /\ \A s \in Secrets : secret[s].kind = "reset" => secret[s].address \in Mails

-----------------------------------------------------------------------------
(* Sessions.                                                               *)

\* No live refresh token is older than the last logout or completed password
\* reset of its account: logout (auth.service.ts:403) and the end of
\* resetPassword (password-reset.service.ts:226) leave none behind, whichever
\* token they were asked with and whatever was granted or rotated meanwhile.
EndedSessionsAreOver ==
  \A t \in Tokens : Live(t) => token[t].granted = past[token[t].owner].ended

\* An access token that JwtAuthGuard refuses for its version is refused for
\* good: two logins that read one version do not bring it back
\* (auth.service.ts:482).
RefusedForGood ==
  [][\A a \in access : a.version < account[a.owner].version =>
       a.version < account'[a.owner].version]_vars

\* A request in progress that works on account u.
BusyWith(u) == \E c \in Calls : call[c].id = u

\* Once every request about an account has ended, the logins that divided each
\* other's writes have left somebody logged in: a refresh token of this epoch is
\* live, and an access token has the version of the account.
LoginSurvives ==
  \A u \in Ids :
    faults = 0 /\ ~crashed /\ Exists(u) /\ ~BusyWith(u) =>
      LET Current == {t \in Tokens :
                        token[t].owner = u /\ token[t].granted = past[u].ended} IN
      /\ Current # {} /\ (\A t \in Current : token[t].state # "LAPSED") =>
           LiveOf(u) # {}
      /\ past[u].opened =>
           \E a \in access : a.owner = u /\ a.version = account[u].version

\* An account has one session: createSession and rotation revoke what was there
\* (auth.service.ts:493, token.service.ts:84).  It may have two only from when one was
\* granted beside another request that had nothing more to revoke and was still to
\* grant its own (a login or a rotation past its revocation, or a rotation whose token
\* is live no longer), and only until the next login, logout or reset.
OneSession ==
  \A t, v \in Tokens :
    /\ Live(t) /\ Live(v)
    /\ token[t].owner = token[v].owner
    /\ ~past[token[t].owner].split
    => t = v

\* Sessions implement the ledger of SessionLedger.
Ledger ==
  INSTANCE SessionLedger WITH
    Accounts <- Ids,
    owner <- [t \in Tokens |-> token[t].owner],
    open <- {t \in Tokens : Live(t)},
    ends <- [u \in Ids |-> past[u].ended],
    divided <- {u \in Ids : past[u].split}

\* Every behaviour of the endpoints is one of the ledger: no refresh token is
\* granted twice, changes hands or comes back, no account's login, rotation or
\* logout (auth.service.ts:482, token.service.ts:73) closes a session of another,
\* and an end of sessions leaves none, whatever is interleaved, fails or crashes.
ImplementsLedger == Ledger!Spec

-----------------------------------------------------------------------------
(* One-time codes and rate limits.                                         *)

\* Stored after s under the same key.
Newer(x, s) == Made(x) /\ KeyOf(x) = KeyOf(s) /\ s < x

Held(s) == store[KeyOf(s)].number = s

\* As long as no two requests have a secret in hand at once, it is used at most
\* once, takes no more wrong guesses than MaxAttempts and counts each of them,
\* whatever requests with older or newer ones of the same address do to its record.
CodesHold ==
  \A s \in Secrets :
    Made(s) /\ ~secret[s].shared =>
      /\ secret[s].accepted <= 1
      /\ secret[s].wrong <= MaxAttempts
      /\ Held(s) => /\ secret[s].accepted = 0
                    /\ store[KeyOf(s)].tries = secret[s].wrong

\* What no race on a record can do (email-otp.service.ts:125, otp.service.ts:78,
\* password-reset.service.ts:170).  A reset link that was used lets no later request
\* in, and a code that was used is back only by a wrong guess, with that guess
\* counted; nobody is charged for more wrong guesses than were made; and what was
\* given out stays good until it is used, aged, replaced or guessed at MaxAttempts
\* times, however many requests have it in hand, unless one with an older code of the
\* address was still at work when it was stored, or the memory store crashed.
RacesAreContained ==
  \A s \in Secrets :
    Made(s) =>
      /\ Held(s) /\ secret[s].accepted > 0 =>
           secret[s].kind # "reset" /\ store[KeyOf(s)].tries > 0
      /\ Held(s) => store[KeyOf(s)].tries <= secret[s].wrong
      /\ /\ secret[s].given /\ ~secret[s].aged /\ secret[s].accepted = 0
         /\ secret[s].wrong < MaxAttempts
         /\ ~secret[s].contested /\ (crashed => backing = "redis")
         /\ \A x \in Secrets : ~Newer(x, s)
         => Held(s)

\* In the life of a counter no more requests pass it than its limit, however
\* they are interleaved and whether or not its expiry was ever set.
WindowBound == \A k \in WindowKeys : passed[k] <= Limit(k.kind)

\* A counter that refuses requests has an expiry, or the request that will give
\* it one is on its way: with Redis, and unless something throws or crashes
\* between incr and expire, nobody is refused for good.
CounterIsTimed ==
  \A k \in WindowKeys :
    Holds(k) /\ backing = "redis" /\ faults = 0 /\ ~crashed =>
      \/ store[k].ttl
      \/ \E c \in Calls : call[c].at = "expire" /\ CallWindow(c) = k

-----------------------------------------------------------------------------
(* Accounts.                                                               *)

\* isEmailVerified is about the present address: a code for it was given back, or it
\* is the one that seeding sets without asking (auth-seed.service.ts:94).  Excepted
\* is an account whose address was changed (users.service.ts:33) while another
\* request still held the old one for its address, until a change resets the mark.
\* Even such an account has proven something.
VerifiedMeansProven ==
  \A u \in Ids :
    account[u].verified =>
      /\ past[u].proven # {}
      /\ account[u].mail \in past[u].proven \cup {SeedMail} \/ past[u].overtaken

\* Request c presented the secret it names, which was made for the address and had
\* been given out.
Presented(c, kind, address) ==
  /\ call[c].right
  /\ secret[call[c].number].kind = kind /\ secret[call[c].number].address = address
  /\ secret[call[c].number].given

\* Nothing between the reading of a code (email-otp.service.ts:125,
\* otp.service.ts:78, password-reset.service.ts:170) and the last write it is good for
\* lets a request through that did not present it.  An address is proven by a request
\* with a code mailed to it, a number by one with a code given out for it (to whoever
\* asked, and with AutoVerify to nobody: nothing is claimed); a password is changed
\* by one with a link mailed to an address; and an account without a password opens
\* sessions only after it has proven something.
AccessIsEarned ==
  [][\A u \in Ids :
       /\ \A x \in past'[u].proven \ past[u].proven :
            \E c \in Calls :
              \/ Presented(c, "mail", x)
              \/ /\ call[c].op = "proveSms" /\ call[c].phone = x
                 /\ AutoVerify \/ Presented(c, "sms", x)
       /\ Exists(u) /\ account'[u].password # account[u].password =>
            \E c \in Calls : call[c].id = u /\ Presented(c, "reset", call[c].mail)
       /\ \A t \in Tokens :
            /\ token'[t].owner = u /\ token[t].owner # u
            /\ account[u].password = 0
            => past[u].proven # {}]_vars

\* signup cleans up after itself (auth.service.ts:145): an account it created has
\* had a session, or signup is still at work on it.
NoHalfSignups ==
  \A u \in Ids :
    Exists(u) /\ past[u].signedUp /\ ~crashed /\ faults <= 1 =>
      \/ \E c \in Calls : call[c].op = "signup" /\ call[c].id = u
      \/ \E t \in Tokens : token[t].owner = u

-----------------------------------------------------------------------------
(* What the code says and does not do.                                     *)

\* "Too many requests. Please wait before requesting a new code."
\* (email-otp.service.ts:58): a counter comes to its end, with either store.
WaitingHelps == \A k \in WindowKeys : Holds(k) ~> ~Holds(k)
=============================================================================
