--------------------------- MODULE SessionProofs ---------------------------
(***************************************************************************)
(* Proofs about the sessions of Accounts: an ended session is over, an     *)
(* access token that is refused stays refused, and an account has one      *)
(* session, for every set of identifiers, requests and tokens.             *)
(***************************************************************************)
EXTENDS AccountsProofs

-----------------------------------------------------------------------------
(* What a request begins as.                                               *)

ArrivesAs(r) ==
  \/ r.op = "signup" /\ r.at = "create" /\ r.id = None
  \/ /\ r.op = "seed" /\ \A d \in Calls : call[d] = Idle
     /\ \/ r.at = "create" /\ r.id = None
        \/ r.at = "reseed" /\ r.id \in Ids /\ Exists(r.id)
  \/ /\ r.op \notin {"signup", "seed"}
     /\ \/ r.id = None /\ r.at \in {"count", "lapse", "accept", "reject"}
        \/ /\ r.op = "login" /\ r.at = "bump"
           /\ r.id \in Ids /\ account[r.id].status = "ACTIVE"
           /\ account[r.id].password # 0
        \/ /\ r.op = "rotate" /\ r.at = "retire"
           /\ r.token \in Tokens /\ Live(r.token) /\ token[r.token].owner = r.id
        \/ /\ r.op = "logout" /\ r.at = "close"
           /\ r.token \in Tokens /\ token[r.token].state # "ABSENT"
           /\ token[r.token].owner = r.id
        \/ /\ r.op = "profile" /\ r.at = "save" /\ r.was = account[r.id].mail
           /\ r.id \in Ids /\ Exists(r.id)

LEMMA UsesAs ==
  ASSUME TypeOK, NEW c \in Calls, NEW k, NEW right, NEW record \in CallType,
         UseRead(c, k, right, record), record.id = None,
         record.op \notin {"signup", "seed"}
  PROVE  ArrivesAs(call'[c])
<1> DEFINE read == [record EXCEPT !.number = store[k].number, !.tries = store[k].tries,
                                  !.right = right]
<1>1. /\ DOMAIN read = DOMAIN record /\ {"at", "id", "op"} \subseteq DOMAIN read
      /\ read.id = None /\ read.op \notin {"signup", "seed"}
  BY DEF CallType
<1>2. Begins(c, Judged(read, secret[store[k].number].aged))
  BY DEF UseRead
<1> HIDE DEF read
<1>3. PICK at \in {"lapse", "accept", "reject"} :
        Judged(read, secret[store[k].number].aged) = [read EXCEPT !.at = at]
  BY JudgedShape
<1>4. call'[c] = [read EXCEPT !.at = at]
  BY <1>2, <1>3 DEF Begins, TypeOK, RequestTypes
<1>5. QED
  BY <1>1, <1>4 DEF ArrivesAs

LEMMA ArrivingKinds ==
  ASSUME TypeOK, NEW c \in Calls, Arriving(c)
  PROVE  /\ call' = [call EXCEPT ![c] = call'[c]] /\ call[c] = Idle
         /\ ArrivesAs(call'[c])
<1>1. c \in DOMAIN call
  BY DEF TypeOK, RequestTypes
<1>2. ASSUME NEW r, Begins(c, r)
      PROVE  call'[c] = r /\ call' = [call EXCEPT ![c] = call'[c]]
  BY <1>1, <1>2 DEF Begins
<1>3. call' = [call EXCEPT ![c] = call'[c]] /\ call[c] = Idle
  BY <1>2, ArrivingShape
<1> SUFFICES ArrivesAs(call'[c])
  BY <1>3
<1>4. ASSUME NEW m, NEW p, NEW role, Signup(c, m, p, role)
      PROVE  ArrivesAs(call'[c])
  <2> DEFINE r == [Idle EXCEPT !.op = "signup", !.at = "create", !.mail = m, !.phone = p,
                           !.role = role]
  <2>1. call'[c] = r
    BY <1>2, <1>4 DEF Signup
  <2>2. r.op = "signup" /\ r.at = "create" /\ r.id = None
    BY DEF Idle
  <2> HIDE DEF r
  <2>3. QED
    BY <2>1, <2>2 DEF ArrivesAs
<1>5. ASSUME NEW u \in Ids, LoginFind(c, u)
      PROVE  ArrivesAs(call'[c])
  <2> DEFINE r == [Idle EXCEPT !.op = "login", !.at = "bump", !.id = u,
                            !.password = account[u].password,
                            !.version = account[u].version]
  <2>1. call'[c] = r /\ account[u].status = "ACTIVE" /\ account[u].password # 0
    BY <1>2, <1>5 DEF LoginFind
  <2>2. r.op = "login" /\ r.at = "bump" /\ r.id = u
    BY DEF Idle
  <2> HIDE DEF r
  <2>3. QED
    BY <2>1, <2>2 DEF ArrivesAs
<1>6. ASSUME NEW t \in Tokens, RotateRead(c, t)
      PROVE  ArrivesAs(call'[c])
  <2> DEFINE r == [Idle EXCEPT !.op = "rotate", !.at = "retire", !.token = t,
                            !.id = token[t].owner, !.password = token[t].password]
  <2>1. call'[c] = r /\ Live(t)
    BY <1>2, <1>6 DEF RotateRead
  <2>2. r.op = "rotate" /\ r.at = "retire" /\ r.id = token[t].owner
          /\ r.token = t
    BY DEF Idle
  <2> HIDE DEF r
  <2>3. QED
    BY <2>1, <2>2 DEF ArrivesAs
<1>7. ASSUME NEW t \in Tokens, LogoutRead(c, t)
       PROVE  ArrivesAs(call'[c])
  <2> DEFINE r == [Idle EXCEPT !.op = "logout", !.at = "close", !.id = token[t].owner,
                            !.token = t]
  <2>1. call'[c] = r /\ token[t].state # "ABSENT"
    BY <1>2, <1>7 DEF LogoutRead
  <2>2. r.op = "logout" /\ r.at = "close" /\ r.id = token[t].owner
          /\ r.token = t
    BY DEF Idle
  <2> HIDE DEF r
  <2>3. QED
    BY <2>1, <2>2 DEF ArrivesAs
<1>8. ASSUME NEW op \in {"askMail", "askSms", "askReset"}, NEW m, NEW p, AskBegins(c, op, m, p)
      PROVE  ArrivesAs(call'[c])
  <2> DEFINE r == [Idle EXCEPT !.op = op, !.at = "count", !.mail = m, !.phone = p,
                            !.window = FirstWindow[op]]
  <2>1. call'[c] = r
    BY <1>2, <1>8 DEF AskBegins
  <2>2. r.op = op /\ r.at = "count" /\ r.id = None
    BY DEF Idle
  <2> HIDE DEF r
  <2>3. QED
    BY <2>1, <2>2 DEF ArrivesAs
<1>9. ASSUME NEW u \in Ids, NEW m, ProfileRead(c, u, m)
      PROVE  ArrivesAs(call'[c])
  <2>1. Exists(u)
    BY <1>9 DEF ProfileRead, Accepts, Exists
  <2> DEFINE r == [Idle EXCEPT !.op = "profile", !.at = "save", !.id = u, !.mail = m,
                            !.was = account[u].mail]
  <2>2. call'[c] = r
    BY <1>2, <1>9 DEF ProfileRead
  <2>3. r.op = "profile" /\ r.at = "save" /\ r.id = u /\ r.was = account[u].mail
    BY DEF Idle
  <2> HIDE DEF r
  <2>4. QED
    BY <2>1, <2>2, <2>3 DEF ArrivesAs
<1>10. ASSUME Starts(c)
      PROVE  ArrivesAs(call'[c])
  <2>1. CASE \E u \in Present : Begins(c, [Idle EXCEPT !.op = "seed", !.at = "reseed",
                                             !.id = u, !.mail = SeedMail])
    <3>1. PICK u \in Present : Begins(c, [Idle EXCEPT !.op = "seed", !.at = "reseed",
                                             !.id = u, !.mail = SeedMail])
      BY <2>1
    <3> DEFINE r == [Idle EXCEPT !.op = "seed", !.at = "reseed", !.id = u, !.mail = SeedMail]
    <3>2. call'[c] = r
      BY <1>2, <3>1
    <3>3. r.op = "seed" /\ r.at = "reseed" /\ r.id = u
      BY DEF Idle
    <3> HIDE DEF r
    <3>4. QED
      BY <1>10, <3>2, <3>3 DEF ArrivesAs, Present, Starts
  <2>2. CASE Begins(c, [Idle EXCEPT !.op = "seed", !.at = "create", !.mail = SeedMail,
                              !.phone = SeedPhone, !.role = "DRIVER"])
    <3> DEFINE r == [Idle EXCEPT !.op = "seed", !.at = "create", !.mail = SeedMail,
                              !.phone = SeedPhone, !.role = "DRIVER"]
    <3>1. call'[c] = r
      BY <1>2, <2>2
    <3>2. r.op = "seed" /\ r.at = "create" /\ r.id = None
      BY DEF Idle
    <3> HIDE DEF r
    <3>3. QED
      BY <1>10, <3>1, <3>2 DEF ArrivesAs, Starts
  <2>3. QED
    BY <1>10, <2>1, <2>2 DEF Starts, SeedFind
<1>11. ASSUME NEW m \in Mails, NEW right, ProveMail(c, m, right)
       PROVE  ArrivesAs(call'[c])
  <2> DEFINE r == [Idle EXCEPT !.op = "proveMail", !.mail = m]
  <2>1. r \in CallType /\ r.id = None /\ r.op \notin {"signup", "seed"}
    BY DEF Idle, CallType, Endpoints, Steps
  <2>2. UseRead(c, Key("mail", m), right, r)
    BY <1>11 DEF ProveMail
  <2> HIDE DEF r
  <2>3. QED
    BY <2>1, <2>2, UsesAs
<1>12. ASSUME NEW p \in Phones, NEW role \in {"PASSENGER", "DRIVER"}, NEW right,
              ProveSms(c, p, role, right)
       PROVE  ArrivesAs(call'[c])
  <2> DEFINE r == [Idle EXCEPT !.op = "proveSms", !.phone = p, !.role = role]
  <2>1. r \in CallType /\ r.id = None /\ r.op \notin {"signup", "seed"}
    BY DEF Idle, CallType, Endpoints, Steps
  <2>2. UseRead(c, Key("sms", p), right, r)
    BY <1>12 DEF ProveSms
  <2> HIDE DEF r
  <2>3. QED
    BY <2>1, <2>2, UsesAs
<1>13. ASSUME NEW s \in Secrets, UseReset(c, s)
       PROVE  ArrivesAs(call'[c])
  <2> DEFINE r == [Idle EXCEPT !.op = "reset", !.mail = secret[s].address]
  <2>1. r \in CallType /\ r.id = None /\ r.op \notin {"signup", "seed"}
    BY <1>13 DEF UseReset, TypeOK, Idle, CallType, Endpoints, Steps
  <2>2. UseRead(c, Key("reset", s), TRUE, r)
    BY <1>13 DEF UseReset
  <2> HIDE DEF r
  <2>3. QED
    BY <2>1, <2>2, UsesAs
<1>14. CASE Starts(c)
  BY <1>10, <1>14
<1>15. CASE Arrives(c)
  <2>1. \/ \E m, p, role : Signup(c, m, p, role)
        \/ \E u \in Ids : LoginFind(c, u)
        \/ \E t \in Tokens : RotateRead(c, t) \/ LogoutRead(c, t)
        \/ \E m : AskBegins(c, "askMail", m, None)
        \/ \E m : AskBegins(c, "askReset", m, None)
        \/ \E p : AskBegins(c, "askSms", None, p)
        \/ \E m \in Mails, right \in BOOLEAN : ProveMail(c, m, right)
        \/ \E m \in Mails, u \in Ids : ProfileRead(c, u, m)
        \/ \E p \in Phones, role \in {"PASSENGER", "DRIVER"}, right \in BOOLEAN :
              ProveSms(c, p, role, right)
        \/ \E s \in Secrets : UseReset(c, s)
    BY <1>15, Zenon
    DEF Arrives, CodeRoutes, AccountRoutes, SomeMails, SomePhones, AskMail, AskReset, AskSms
  <2>2. QED
    BY <1>4, <1>5, <1>6, <1>8, <1>9, <1>11, <1>12, <1>13, <1>7, <2>1
<1>16. QED
  BY <1>3, <1>14, <1>15 DEF Arriving

\* A request that goes on is for the same endpoint and the same addresses, knows
\* the secret it knew, undoes only what it was undoing, and changes an address only
\* if it began with that.
Keeps(d) ==
  \/ call'[d] = Idle
  \/ /\ call'[d].op = call[d].op /\ call'[d].mail = call[d].mail
     /\ call'[d].phone = call[d].phone /\ call'[d].tries = call[d].tries
     /\ call'[d].right = call[d].right
     /\ call'[d].number = call[d].number \/ Store(d)
     /\ call'[d].at \in {"undoProfile", "undoUser"} => call[d].at = "undoProfile"
     /\ call'[d].at \in Holding => Store(d)
     /\ call'[d].at = "mark" => LookupMail(d) \/ LookupPhone(d)
     /\ call'[d].at \notin {"save", "reseed"}

LEMMA GoesOnKeeps ==
  ASSUME TypeOK, NEW d \in Calls, GoesOn(d)
  PROVE  Keeps(d)
<1>1. call[d] \in CallType /\ d \in DOMAIN call
  BY DEF TypeOK, RequestTypes
<1>2. Ends(d) => Keeps(d)
  BY <1>1 DEF Ends, Keeps
<1>3. ASSUME NEW at, at \in {"undoProfile", "undoUser"} => call[d].at = "undoProfile",
             at \notin Holding \cup {"mark", "save", "reseed"}, Goes(d, at)
      PROVE  Keeps(d)
  BY <1>1, <1>3 DEF Goes, Keeps, CallType
<1>4. ASSUME NEW at, at \notin Holding \cup {"undoProfile", "undoUser", "save", "reseed"},
             at = "mark" => LookupMail(d) \/ LookupPhone(d), NEW u, NEW n,
             \/ call' = [call EXCEPT ![d].at = at, ![d].id = u]
             \/ call' = [call EXCEPT ![d].at = at, ![d].version = n]
             \/ call' = [call EXCEPT ![d].at = at, ![d].window = n]
             \/ call' = [call EXCEPT ![d].at = at, ![d].password = n]
      PROVE  Keeps(d)
  BY <1>1, <1>4 DEF Keeps, CallType
<1>5. CASE OpensSession(d)
  BY <1>2, <1>3, <1>4, <1>5 DEF OpensSession, Holding, Deciding, Bump, Revoke, Grant
<1>6. CASE Rotates(d) \/ EndsSessions(d)
  BY <1>2, <1>3, <1>6
  DEF Rotates, Holding, Deciding, EndsSessions, Retire, Regrant, Reread, Close, SetPassword, RevokeAll
<1>7. CASE MakesSecret(d)
  <2>1. ASSUME LetThrough(d) PROVE Keeps(d)
    <3>1. \E at \in {"count", "owner", "store"} : \E w :
            call' = [call EXCEPT ![d].at = at, ![d].window = w]
      BY <2>1 DEF LetThrough
    <3>2. QED
      BY <1>4, <3>1 DEF Holding, Deciding
  <2>2. CASE Store(d)
    <3>1. \/ Ends(d)
          \/ \E s : call' = [call EXCEPT ![d] = [call[d] EXCEPT !.at = "send", !.number = s]]
      BY <1>1, <2>2 DEF Store, Ends
    <3>2. ASSUME NEW s,
                 call' = [call EXCEPT ![d] = [call[d] EXCEPT !.at = "send", !.number = s]]
          PROVE  Keeps(d)
      BY <1>1, <2>2, <3>2 DEF Keeps, CallType
    <3>3. QED
      BY <1>2, <3>1, <3>2
  <2>3. QED
    BY <1>2, <1>3, <1>7, <2>1, <2>2
    DEF MakesSecret, Holding, Deciding, Count, SetWindow, Judge, AskOwner, Send, Unsend
<1>8. CASE UsesSecret(d)
  <2>1. CASE LookupMail(d) \/ LookupOwner(d)
    <3> DEFINE at == IF call[d].op = "reset" THEN "setPassword" ELSE "mark"
    <3>1. Ends(d) \/ \E u \in Ids : call' = [call EXCEPT ![d].at = at, ![d].id = u]
      BY <2>1 DEF LookupMail, LookupOwner
    <3>2. /\ at \notin Holding \cup {"undoProfile", "undoUser", "save", "reseed"}
          /\ at = "mark" => LookupMail(d)
      BY <2>1 DEF Holding, Deciding, LookupOwner
    <3> HIDE DEF at
    <3>3. QED
      BY <1>2, <1>4, <3>1, <3>2
  <2>2. QED
    BY <1>2, <1>3, <1>4, <1>8, <2>1
    DEF UsesSecret, Holding, Deciding, Lapse, Reject, Accept, LookupPhone, MarkMail, MarkPhone
<1>9. CASE CreatesAccount(d) \/ ChangesAccount(d)
  <2>1. ASSUME NEW u, NEW driver, Proceeds(d, u, driver) PROVE Keeps(d)
    BY <1>2, <1>4, <2>1 DEF Proceeds, Holding, Deciding
  <2>2. QED
    BY <1>2, <1>3, <1>9, <2>1
    DEF CreatesAccount, Holding, Deciding, ChangesAccount, Create, AddProfile, UndoProfile, UndoUser, Save, Reseed
<1>10. QED
  BY <1>5, <1>6, <1>7, <1>8, <1>9 DEF GoesOn

\* Only a request's own steps change its record, exceptions and crashes aside.
LEMMA OwnSteps ==
  ASSUME TypeOK, [Next]_vars, NEW d \in Calls
  PROVE  \/ call'[d] = call[d]
         \/ Arriving(d) /\ UNCHANGED faults
         \/ GoesOn(d) /\ UNCHANGED faults
         \/ Fails(d)
         \/ Crash /\ call'[d] = Idle /\ crashed'
<1>1. call \in [Calls -> CallType]
  BY DEF TypeOK, RequestTypes
<1>2. ASSUME NEW c \in Calls, Arriving(c), c # d
      PROVE  call'[d] = call[d]
  BY <1>1, <1>2, ArrivingShape DEF Begins
<1>3. ASSUME NEW c \in Calls, GoesOn(c), c # d
      PROVE  call'[d] = call[d]
  <2>1. Moves(c)
    BY <1>3, OpensSessionMoves, RotatesMoves, EndsSessionsMoves, MakesSecretMoves,
       UsesSecretMoves, AccountMoves, QuietMovesMoves DEF GoesOn
  <2>2. QED
    BY <1>1, <1>3, <2>1 DEF Moves
<1>4. ASSUME NEW c \in Calls, Fails(c), c # d
      PROVE  call'[d] = call[d]
  BY <1>1, <1>4 DEF Fails
<1>5. QED
  BY <1>2, <1>3, <1>4, StepCases
  DEF vars, Suspends, SetStatus, TimePasses, Ages, RecordEnds, WindowEnds, Lapses, Calm, Crash

-----------------------------------------------------------------------------
(* What a step writes.                                                     *)

\* The steps of a request that write accounts, tokens or their history.
SessionSteps(c) == OpensSession(c) \/ Rotates(c) \/ EndsSessions(c)

LEMMA WritesCases ==
  ASSUME [Next]_vars
  PROVE  \/ UNCHANGED sessionVars
         \/ \E c \in Calls : SessionSteps(c) \/ AccountSteps(c)
         \/ \E u \in Ids : SetStatus(u)
         \/ \E t \in Tokens : Lapses(t)
<1>1. CASE UNCHANGED vars
  BY <1>1 DEF vars, sessionVars
<1>2. ASSUME NEW c \in Calls, Arrives(c) \/ Starts(c)
      PROVE  UNCHANGED sessionVars
  <2>1. /\ \A m, p, role : Signup(c, m, p, role) => UNCHANGED sessionVars
        /\ \A op, m, p : AskBegins(c, op, m, p) => UNCHANGED sessionVars
        /\ \A k, right, r : UseRead(c, k, right, r) => UNCHANGED sessionVars
    BY DEF Signup, AskBegins, UseRead
  <2>2. CASE Starts(c)
    BY <2>2 DEF Starts, SeedFind
  <2>3. CASE Arrives(c)
    BY <2>1, <2>3
    DEF Arrives, CodeRoutes, AccountRoutes, LoginFind, RotateRead, LogoutRead, AskMail,
        AskSms, AskReset, ProveMail, ProveSms, UseReset, ProfileRead, sessionVars
  <2>4. QED
    BY <1>2, <2>2, <2>3
<1>3. ASSUME NEW c \in Calls, GoesOn(c)
      PROVE  UNCHANGED sessionVars \/ SessionSteps(c) \/ AccountSteps(c)
  <2>1. MakesSecret(c) => UNCHANGED sessionVars
    BY DEF MakesSecret, Count, SetWindow, AskOwner, Store, Send, Unsend
  <2>2. UsesSecret(c) => UNCHANGED sessionVars \/ MarkMail(c) \/ MarkPhone(c)
    BY DEF UsesSecret, Lapse, Reject, Accept, LookupMail, LookupOwner, LookupPhone, Then
  <2>3. QED
    BY <1>3, <2>1, <2>2
    DEF GoesOn, CreatesAccount, ChangesAccount, AccountSteps, SessionSteps
<1>4. CASE TimePasses
  BY <1>4 DEF TimePasses, Ages, RecordEnds, WindowEnds
<1>5. CASE Crash \/ \E c \in Calls : Fails(c)
  BY <1>5 DEF Crash, Fails
<1>6. QED
  BY <1>1, <1>2, <1>3, <1>4, <1>5 DEF Next, Suspends

\* An account that exists or existed is never taken for a new one, keeps its
\* number, stays deleted, and its version does not fall.
Kept(u) ==
  account[u].status # "ABSENT" =>
    /\ account'[u].status # "ABSENT"
    /\ account[u].status = "DELETED" => account'[u].status = "DELETED"
    /\ account'[u].phone = account[u].phone
    /\ account'[u].version >= account[u].version

LEMMA AccountsKept ==
  ASSUME TypeOK, [Next]_vars, NEW u \in Ids
  PROVE  Kept(u)
<1>1. account \in [Ids -> AccountType] /\ \A v \in Ids : account[v] \in AccountType
  BY DEF TypeOK, SessionTypes
<1>2. ASSUME NEW v \in Ids, NEW r, SetAccount(v, r),
             \/ account[v].status = "ABSENT"
             \/ /\ r.phone = account[v].phone
                /\ r.version \in {account[v].version, account[v].version + 1}
                /\ r.status \in {account[v].status, "DELETED"}
      PROVE  Kept(u)
  BY <1>1, <1>2 DEF SetAccount, Kept, AccountType
<1>3. CASE UNCHANGED account
  BY <1>1, <1>3 DEF Kept, AccountType
<1>4. ASSUME NEW c \in Calls, SessionSteps(c)
      PROVE  Kept(u)
  <2> DEFINE v == call[c].id
  <2>1. CASE Bump(c) /\ account' # account
    <3>1. v \in Ids /\ SetAccount(v, [account[v] EXCEPT !.version = @ + 1])
      BY <2>1 DEF Bump, TypeOK, RecordOK, WithAccount
    <3>2. QED
      BY <1>1, <1>2, <3>1 DEF AccountType
  <2>2. CASE Close(c) /\ account' # account
    <3>1. v \in Ids /\ SetAccount(v, [account[v] EXCEPT !.version = @ + 1])
      BY <2>2 DEF Close, TypeOK, RecordOK, WithAccount
    <3>2. QED
      BY <1>1, <1>2, <3>1 DEF AccountType
  <2>3. CASE SetPassword(c) /\ account' # account
    <3>1. v \in Ids
            /\ SetAccount(v, [account[v] EXCEPT !.password = @ + 1, !.version = @ + 1])
      BY <2>3 DEF SetPassword, TypeOK, RecordOK, WithAccount
    <3>2. QED
      BY <1>1, <1>2, <3>1 DEF AccountType
  <2>4. QED
    BY <1>3, <1>4, <2>1, <2>2, <2>3
    DEF SessionSteps, OpensSession, Rotates, EndsSessions, Revoke, Grant, Retire, Regrant,
        Reread, RevokeAll
<1>5. ASSUME NEW c \in Calls, AccountSteps(c)
      PROVE  Kept(u)
  <2> DEFINE v == call[c].id
  <2>1. CASE Create(c) /\ account' # account
    <3>1. PICK w \in Ids :
            /\ account[w].status = "ABSENT"
            /\ SetAccount(w, [NoAccount EXCEPT !.status = "ACTIVE",
                  !.mail = call[c].mail, !.phone = call[c].phone, !.role = call[c].role,
                  !.password = IF call[c].op = "proveSms" THEN 0 ELSE 1])
      BY <2>1 DEF Create
    <3>2. QED
      BY <1>2, <3>1
  <2>2. CASE ~Create(c) /\ account' # account
    <3>1. v \in Ids
      BY <1>5, <2>2 DEF AccountSteps, AddProfile, UndoProfile, UndoUser, MarkMail, MarkPhone,
                        Save, Reseed, TypeOK, RecordOK, WithAccount
    <3>2. account[v] \in AccountType
      BY <1>1, <3>1
    <3>3. CASE AddProfile(c) \/ UndoProfile(c)
      <4>1. PICK b \in BOOLEAN : SetAccount(v, [account[v] EXCEPT !.profile = b])
        BY <3>3 DEF AddProfile, UndoProfile
      <4>2. QED
        BY <1>2, <3>1, <3>2, <4>1 DEF AccountType
    <3>4. CASE UndoUser(c)
      <4>1. SetAccount(v, [account[v] EXCEPT !.status = "DELETED"])
        BY <2>2, <3>4 DEF UndoUser
      <4>2. QED
        BY <1>2, <3>1, <3>2, <4>1 DEF AccountType
    <3>5. CASE MarkMail(c)
      <4>1. SetAccount(v, [account[v] EXCEPT !.verified = TRUE])
        BY <2>2, <3>5 DEF MarkMail
      <4>2. QED
        BY <1>2, <3>1, <3>2, <4>1 DEF AccountType
    <3>6. CASE Save(c)
      <4>1. SetAccount(v, [account[v] EXCEPT !.mail = call[c].mail,
                            !.verified = @ /\ call[c].mail = call[c].was])
        BY <2>2, <3>6 DEF Save
      <4>2. QED
        BY <1>2, <3>1, <3>2, <4>1 DEF AccountType
    <3>7. CASE Reseed(c)
      <4>1. SetAccount(v, [account[v] EXCEPT !.mail = SeedMail])
        BY <2>2, <3>7 DEF Reseed
      <4>2. QED
        BY <1>2, <3>1, <3>2, <4>1 DEF AccountType
    <3>8. QED
      BY <1>5, <2>2, <3>3, <3>4, <3>5, <3>6, <3>7 DEF AccountSteps, MarkPhone
  <2>3. QED
    BY <1>3, <2>1, <2>2
<1>6. ASSUME NEW v \in Ids, SetStatus(v)
      PROVE  Kept(u)
  BY <1>1, <1>6 DEF SetStatus, SetAccount, Exists, AccountType, Kept
<1>7. ASSUME NEW t \in Tokens, Lapses(t)
      PROVE  Kept(u)
  BY <1>3, <1>7 DEF Lapses
<1>8. QED
  BY <1>3, <1>4, <1>5, <1>6, <1>7, WritesCases DEF sessionVars

-----------------------------------------------------------------------------
(* Nothing refers to an account that was not created yet.                  *)

Known ==
  \A u \in Ids : account[u].status = "ABSENT" =>
    /\ past[u] = NoPast
    /\ \A t \in Tokens : token[t].owner # u
    /\ \A a \in access : a.owner # u
    /\ \A c \in Calls : call[c].id # u

LEMMA TokensFound ==
  ASSUME TypeOK, [Next]_vars
  PROVE  /\ \A t \in Tokens : \/ token'[t].owner = token[t].owner
                             \/ \E c \in Calls : call[c].id = token'[t].owner
         /\ \A a \in access' : a \in access \/ \E c \in Calls : call[c].id = a.owner
<1> DEFINE Goal == /\ \A t \in Tokens : \/ token'[t].owner = token[t].owner
                                      \/ \E c \in Calls : call[c].id = token'[t].owner
                   /\ \A a \in access' : a \in access \/ \E c \in Calls : call[c].id = a.owner
<1>1. token \in [Tokens -> TokenType]
  BY DEF TypeOK, SessionTypes
<1>2. \A u : token' = RevokeOf(u) => \A t \in Tokens : token'[t].owner = token[t].owner
  BY <1>1 DEF RevokeOf, TokenType
<1>3. ASSUME NEW c \in Calls, Grants(c)
      PROVE  \A t \in Tokens : token'[t].owner \in {token[t].owner, call[c].id}
  BY <1>1, <1>3 DEF Grants
<1>4. \A c \in Calls : \A n : Signs(c, n) =>
        \A a \in access' : a \in access \/ a.owner = call[c].id
  BY DEF Signs
<1>5. CASE UNCHANGED <<token, access>>
  BY <1>5
<1>6. ASSUME NEW c \in Calls, SessionSteps(c)
      PROVE  Goal
  <2>1. CASE Bump(c) \/ SetPassword(c)
    BY <1>5, <2>1 DEF Bump, SetPassword
  <2>2. CASE Revoke(c) \/ RevokeAll(c) \/ Close(c)
    BY <1>2, <2>2 DEF Revoke, RevokeAll, Close
  <2>3. CASE Grant(c)
    BY <1>3, <1>4, <2>3 DEF Grant
  <2>4. CASE Regrant(c)
    BY <1>3, <2>4 DEF Regrant
  <2>5. CASE Retire(c)
    BY <1>1, <2>5 DEF Retire, TokenType
  <2>6. CASE Reread(c)
    BY <1>4, <2>6 DEF Reread
  <2>7. QED
    BY <1>6, <2>1, <2>2, <2>3, <2>4, <2>5, <2>6
    DEF SessionSteps, OpensSession, Rotates, EndsSessions, Goal
<1>7. ASSUME NEW c \in Calls, AccountSteps(c)
      PROVE  Goal
  BY <1>5, <1>7, AccountStepTypes
<1>8. ASSUME NEW t \in Tokens, Lapses(t)
      PROVE  Goal
  BY <1>1, <1>8 DEF Lapses, TokenType
<1>9. QED
  BY <1>5, <1>6, <1>7, <1>8, WritesCases DEF sessionVars, SetStatus

\* The history of an account changes by requests about it, and starts when it is
\* created; what was split is no more when no session is left.
LEMMA PastFound ==
  ASSUME TypeOK, [Next]_vars, NEW v \in Ids
  PROVE  \/ past'[v] = past[v]
         \/ /\ past'[v].signedUp = past[v].signedUp
            /\ \/ past[v].split => past'[v].split
               \/ \A t \in Tokens : Live(t)' => token'[t].owner # v
            /\ \E c \in Calls : call[c].id = v
         \/ account[v].status = "ABSENT" /\ account'[v].status = "ACTIVE"
<1> DEFINE Touched == /\ past'[v].signedUp = past[v].signedUp
                      /\ \/ past[v].split => past'[v].split
                         \/ \A t \in Tokens : Live(t)' => token'[t].owner # v
                      /\ \E c \in Calls : call[c].id = v
           Made0 == account[v].status = "ABSENT" /\ account'[v].status = "ACTIVE"
<1>1. /\ past \in [Ids -> PastType] /\ \A w \in Ids : past[w] \in PastType
      /\ account \in [Ids -> AccountType] /\ token \in [Tokens -> TokenType]
  BY DEF TypeOK, SessionTypes
<1>2. ASSUME NEW c \in Calls, NEW r, SetPast(call[c].id, r),
             r.signedUp = past[call[c].id].signedUp,
             \/ past[call[c].id].split => r.split
             \/ \A t \in Tokens : Live(t)' => token'[t].owner # call[c].id
      PROVE  past'[v] = past[v] \/ Touched
  BY <1>1, <1>2 DEF SetPast
<1>3. CASE UNCHANGED past
  BY <1>3
<1>4. ASSUME NEW c \in Calls, SessionSteps(c), past' # past
      PROVE  past'[v] = past[v] \/ Touched
  <2> DEFINE w == call[c].id
  <2>1. w \in Ids /\ past[w] \in PastType
    BY <1>1, <1>4
    DEF SessionSteps, OpensSession, Rotates, EndsSessions, Bump, Revoke, Grant, Retire,
        Regrant, Reread, Close, SetPassword, RevokeAll, TypeOK, RecordOK, WithAccount
  <2>2. CASE Bump(c) \/ SetPassword(c)
    <3>1. PICK b \in BOOLEAN : SetPast(w, [past[w] EXCEPT !.opened = b])
      BY <1>4, <2>2 DEF Bump, SetPassword
    <3>2. QED
      BY <1>2, <2>1, <3>1 DEF PastType
  <2>3. token' = RevokeOf(w) => \A t \in Tokens : Live(t)' => token'[t].owner # w
    BY <1>1 DEF RevokeOf, LiveOf, Live, TokenType
  <2>4. CASE Revoke(c) \/ RevokeAll(c) \/ Close(c)
    <3>1. token' = RevokeOf(w)
      BY <1>4, <2>4 DEF Revoke, RevokeAll, Close
    <3>2. \/ SetPast(w, [past[w] EXCEPT !.split = FALSE])
          \/ SetPast(w, [past[w] EXCEPT !.ended = @ + 1, !.split = FALSE])
          \/ SetPast(w, [past[w] EXCEPT !.opened = FALSE, !.ended = @ + 1, !.split = FALSE])
      BY <1>4, <2>4 DEF Revoke, RevokeAll, Close
    <3>3. /\ [past[w] EXCEPT !.split = FALSE].signedUp = past[w].signedUp
          /\ [past[w] EXCEPT !.ended = @ + 1, !.split = FALSE].signedUp = past[w].signedUp
          /\ [past[w] EXCEPT !.opened = FALSE, !.ended = @ + 1, !.split = FALSE].signedUp
               = past[w].signedUp
      BY <2>1 DEF PastType
    <3>4. QED
      BY <1>2, <2>3, <3>1, <3>2, <3>3
  <2>5. CASE Grants(c)
    <3>1. SetPast(w, [past[w] EXCEPT !.split = @ \/ \E d \in Calls \ {c} :
            call[d].id = w /\ PastRevoking(d)])
      BY <2>5 DEF Grants
    <3>2. QED
      BY <1>2, <2>1, <3>1 DEF PastType
  <2>6. QED
    BY <1>4, <2>2, <2>4, <2>5
    DEF SessionSteps, OpensSession, Rotates, EndsSessions, Grant, Retire, Regrant, Reread
<1>5. ASSUME NEW c \in Calls, AccountSteps(c), past' # past
      PROVE  past'[v] = past[v] \/ Touched \/ Made0
  <2> DEFINE w == call[c].id
  <2>1. CASE Create(c)
    <3>1. PICK x \in Ids :
            /\ account[x].status = "ABSENT"
            /\ SetAccount(x, [NoAccount EXCEPT !.status = "ACTIVE",
                  !.mail = call[c].mail, !.phone = call[c].phone, !.role = call[c].role,
                  !.password = IF call[c].op = "proveSms" THEN 0 ELSE 1])
            /\ \E r : SetPast(x, r)
      BY <1>5, <2>1 DEF Create
    <3>2. CASE x = v
      <4>1. account'[v].status = "ACTIVE"
        BY <1>1, <3>1, <3>2 DEF SetAccount, NoAccount
      <4>2. QED
        BY <3>1, <3>2, <4>1
    <3>3. CASE x # v
      BY <1>1, <3>1, <3>3 DEF SetPast
    <3>4. QED
      BY <3>2, <3>3
  <2>2. CASE MarkMail(c) \/ MarkPhone(c) \/ Save(c)
    <3>1. w \in Ids /\ past[w] \in PastType
      BY <1>1, <2>2 DEF MarkMail, MarkPhone, Save, TypeOK, RecordOK, WithAccount
    <3>2. \/ SetPast(w, [past[w] EXCEPT !.proven = @ \cup {call[c].mail}])
          \/ SetPast(w, [past[w] EXCEPT !.proven = @ \cup {call[c].phone}])
          \/ \E b \in BOOLEAN : SetPast(w, [past[w] EXCEPT !.overtaken = b])
      <4>1. Save(c) => SetPast(w, [past[w] EXCEPT
             !.overtaken = \/ @ /\ call[c].mail = call[c].was
                           \/ \E d \in Calls \ {c} : Outdated(d, w, call[c].mail)])
        BY <1>5 DEF Save
      <4>2. past[w].overtaken \in BOOLEAN
        BY <3>1 DEF PastType
      <4>3. QED
        BY <1>5, <2>2, <4>1, <4>2 DEF MarkMail, MarkPhone
    <3>3. QED
      BY <1>2, <3>1, <3>2 DEF PastType
  <2>3. QED
    BY <1>5, <2>1, <2>2 DEF AccountSteps, AddProfile, UndoProfile, UndoUser, Reseed
<1>6. QED
  BY <1>3, <1>4, <1>5, WritesCases DEF sessionVars, SetStatus, Lapses

\* The account that a request works on was found, or is its own creation.
Finds(d) ==
  \A u \in Ids :
    call'[d].id = u => \/ call[d].id = u
                       \/ account[u].status # "ABSENT" \/ account'[u].status # "ABSENT"
                       \/ \E t \in Tokens : token[t].owner = u

LEMMA CallsFound ==
  ASSUME TypeOK, [Next]_vars, NEW d \in Calls
  PROVE  Finds(d)
<1>1. /\ call \in [Calls -> CallType] /\ None \notin Ids
      /\ account \in [Ids -> AccountType]
  BY NoneAssumption DEF TypeOK, RequestTypes, SessionTypes
<1>2. call'[d] = call[d] => Finds(d)
  BY DEF Finds
<1>3. call'[d] = Idle => Finds(d)
  BY <1>1 DEF Finds, Idle
<1>4. ASSUME NEW c \in Calls, Arriving(c)
      PROVE  Finds(d)
  <2>1. call' = [call EXCEPT ![c] = call'[c]] /\ ArrivesAs(call'[c])
    BY <1>4, ArrivingKinds
  <2>2. CASE d = c
    <3>1. \/ call'[d].id = None
          \/ account[call'[d].id].status # "ABSENT"
          \/ \E t \in Tokens : token[t].owner = call'[d].id
      BY <2>1, <2>2 DEF ArrivesAs, Exists
    <3>2. QED
      BY <1>1, <3>1 DEF Finds
  <2>3. CASE d # c
    BY <1>1, <1>2, <2>1, <2>3
  <2>4. QED
    BY <2>2, <2>3
<1>5. ASSUME NEW c \in Calls, GoesOn(c) \/ Fails(c)
      PROVE  Finds(d)
  <2> DEFINE r == call[c]
  <2>1. r \in CallType /\ c \in DOMAIN call
    BY <1>1
  <2>2. ASSUME NEW at, Goes(c, at) PROVE Finds(d)
    BY <1>1, <2>1, <2>2 DEF Goes, Finds, CallType
  <2>3. ASSUME Ends(c) PROVE Finds(d)
    BY <1>1, <1>2, <1>3, <2>3 DEF Ends
  <2>4. CASE OpensSession(c)
    <3>1. ASSUME NEW n, call' = [call EXCEPT ![c].at = "revoke", ![c].version = n]
          PROVE  Finds(d)
      BY <1>1, <2>1, <3>1 DEF Finds, CallType
    <3>2. QED
      BY <2>2, <2>3, <2>4, <3>1 DEF OpensSession, Bump, Revoke, Grant
  <2>5. CASE Rotates(c) \/ EndsSessions(c)
    BY <2>2, <2>3, <2>5
    DEF Rotates, EndsSessions, Retire, Regrant, Reread, Close, SetPassword, RevokeAll
  <2>6. CASE MakesSecret(c)
    <3>1. ASSUME NEW at, NEW w, call' = [call EXCEPT ![c].at = at, ![c].window = w]
          PROVE  Finds(d)
      BY <1>1, <2>1, <3>1 DEF Finds, CallType
    <3>2. ASSUME LetThrough(c) PROVE Finds(d)
      <4>1. \E at, w : call' = [call EXCEPT ![c].at = at, ![c].window = w]
        BY <3>2 DEF LetThrough
      <4>2. QED
        BY <3>1, <4>1
    <3>3. ASSUME NEW s, call' = [call EXCEPT ![c] = [call[c] EXCEPT !.at = "send", !.number = s]]
          PROVE  Finds(d)
      BY <1>1, <2>1, <3>3 DEF Finds, CallType
    <3>4. CASE Store(c)
      <4>1. \/ Ends(c)
            \/ \E s : call' = [call EXCEPT ![c] = [call[c] EXCEPT !.at = "send", !.number = s]]
        BY <2>1, <3>4 DEF Store, Ends
      <4>2. QED
        BY <2>3, <3>3, <4>1
    <3>5. QED
      BY <2>2, <2>3, <2>6, <3>2, <3>4
      DEF MakesSecret, Count, SetWindow, Judge, AskOwner, Send, Unsend
  <2>7. ASSUME NEW at, NEW u \in Ids, account[u].status # "ABSENT" \/ account'[u].status # "ABSENT",
               call' = [call EXCEPT ![c].at = at, ![c].id = u]
        PROVE  Finds(d)
    BY <1>1, <2>1, <2>7 DEF Finds, CallType
  <2>8. CASE UsesSecret(c)
    <3>1. ASSUME NEW n, call' = [call EXCEPT ![c].at = "bump", ![c].password = n]
          PROVE  Finds(d)
      BY <1>1, <2>1, <3>1 DEF Finds, CallType
    <3>2. CASE LookupMail(c) \/ LookupOwner(c)
      <4>1. \/ Ends(c)
            \/ \E u \in Ids : \E at : /\ account[u].status # "ABSENT"
                                          /\ call' = [call EXCEPT ![c].at = at, ![c].id = u]
        BY <3>2 DEF LookupMail, LookupOwner
      <4>2. QED
        BY <2>3, <2>7, <4>1
    <3>3. CASE LookupPhone(c)
      <4>1. \/ Goes(c, "create")
            \/ \E u \in Ids : /\ account[u].status # "ABSENT"
                              /\ call' = [call EXCEPT ![c].at = "mark", ![c].id = u]
        BY <3>3 DEF LookupPhone, Present, Exists
      <4>2. QED
        BY <2>2, <2>7, <4>1
    <3>4. QED
      BY <2>2, <2>3, <2>8, <3>1, <3>2, <3>3
      DEF UsesSecret, Lapse, Reject, Accept, MarkMail, MarkPhone
  <2>9. CASE CreatesAccount(c) \/ ChangesAccount(c)
    <3>1. ASSUME NEW u \in Ids, NEW driver, Proceeds(c, u, driver),
                 account'[u].status # "ABSENT"
          PROVE  Finds(d)
      BY <2>3, <2>7, <3>1 DEF Proceeds
    <3>2. CASE Create(c) /\ ~Ends(c)
      <4>1. PICK x \in Ids :
            /\ SetAccount(x, [NoAccount EXCEPT !.status = "ACTIVE",
                  !.mail = call[c].mail, !.phone = call[c].phone, !.role = call[c].role,
                  !.password = IF call[c].op = "proveSms" THEN 0 ELSE 1])
            /\ Proceeds(c, x, call[c].role = "DRIVER")
        BY <3>2 DEF Create
      <4>2. account'[x].status # "ABSENT"
        BY <1>1, <4>1 DEF SetAccount, NoAccount
      <4>3. QED
        BY <3>1, <4>1, <4>2
    <3>3. ASSUME NEW at, call' = [call EXCEPT ![c].at = at, ![c].id = call[c].id]
          PROVE  Finds(d)
      BY <1>1, <2>1, <3>3 DEF Finds, CallType
    <3>4. CASE AddProfile(c)
      BY <2>3, <3>3, <3>4 DEF AddProfile, Proceeds
    <3>5. QED
      BY <2>2, <2>3, <2>9, <3>2, <3>4
      DEF CreatesAccount, ChangesAccount, UndoProfile, UndoUser, Save, Reseed
  <2>10. CASE Fails(c)
    <3>1. call' = [call EXCEPT ![c] = Recovers(call[c])]
      BY <2>1, <2>10 DEF Fails
    <3>2. \/ Recovers(call[c]) = Idle
          \/ \E at : Recovers(call[c]) = [call[c] EXCEPT !.at = at]
      BY DEF Recovers
    <3>3. QED
      BY <2>2, <2>3, <3>1, <3>2 DEF Goes, Ends
  <2>11. QED
    BY <1>5, <2>4, <2>5, <2>6, <2>8, <2>9, <2>10 DEF GoesOn
<1>6. CASE Crash
  BY <1>3, <1>6 DEF Crash
<1>7. CASE UNCHANGED call
  BY <1>2, <1>7
<1>8. QED
  BY <1>4, <1>5, <1>6, <1>7, StepCases
  DEF vars, Suspends, SetStatus, TimePasses, Ages, RecordEnds, WindowEnds, Lapses

LEMMA KnownInit == Init => Known
BY NoneAssumption DEF Init, Known, NoToken, Idle, NoPast

LEMMA KnownStep ==
  ASSUME TypeOK, Known, [Next]_vars
  PROVE  Known'
<1> SUFFICES ASSUME NEW u \in Ids, account'[u].status = "ABSENT"
             PROVE  /\ past'[u] = NoPast
                    /\ \A t \in Tokens : token'[t].owner # u
                    /\ \A a \in access' : a.owner # u
                    /\ \A c \in Calls : call'[c].id # u
  BY DEF Known
<1>1. account[u].status = "ABSENT"
  BY AccountsKept DEF Kept
<1>2. /\ past[u] = NoPast
      /\ \A t \in Tokens : token[t].owner # u
      /\ \A a \in access : a.owner # u
      /\ \A c \in Calls : call[c].id # u
  BY <1>1 DEF Known
<1>3. past'[u] = NoPast
  BY <1>2, PastFound
<1>4. /\ \A t \in Tokens : token'[t].owner # u
      /\ \A a \in access' : a.owner # u
  BY <1>2, TokensFound
<1>5. \A c \in Calls : call'[c].id # u
  BY <1>1, <1>2, CallsFound DEF Finds
<1>6. QED
  BY <1>3, <1>4, <1>5

\* Nothing refers to an account before it is created, and so a new account
\* starts without sessions, requests or history.
THEOREM AccountsKnown == Spec => []Known
<1>1. TypeOK /\ Known /\ [Next]_vars => Known'
  BY KnownStep
<1>2. QED
  BY <1>1, KnownInit, AccountsTypes, PTL DEF Spec

-----------------------------------------------------------------------------
(* A session that was ended is over.                                       *)

LEMMA EndedStep ==
  ASSUME TypeOK, Known, EndedSessionsAreOver, [Next]_vars
  PROVE  EndedSessionsAreOver'
<1>1. /\ token \in [Tokens -> TokenType] /\ past \in [Ids -> PastType]
      /\ \A t \in Tokens : Live(t) => token[t].owner \in Ids
      /\ \A u \in Ids : past[u] \in PastType
  BY DEF TypeOK, SessionTypes, Live
<1>2. ASSUME NEW u \in Ids, NEW r, SetPast(u, r), r.ended = past[u].ended
      PROVE  \A v \in Ids : past'[v].ended = past[v].ended
  BY <1>1, <1>2 DEF SetPast
<1>3. ASSUME \A t \in Tokens : token'[t].state = "LIVE" =>
               Live(t) /\ token'[t].owner = token[t].owner /\ token'[t].granted = token[t].granted,
             \A v \in Ids : past'[v].ended = past[v].ended
      PROVE  EndedSessionsAreOver'
  BY <1>1, <1>3 DEF EndedSessionsAreOver, Live
<1>4. ASSUME NEW u \in Ids, token' = RevokeOf(u),
             \A v \in Ids \ {u} : past'[v].ended = past[v].ended
      PROVE  EndedSessionsAreOver'
  BY <1>1, <1>4 DEF EndedSessionsAreOver, RevokeOf, LiveOf, Live, TokenType
<1>5. ASSUME NEW c \in Calls, Grants(c), call[c].id \in Ids
      PROVE  EndedSessionsAreOver'
  <2> DEFINE u == call[c].id
  <2>1. \A v \in Ids : past'[v].ended = past[v].ended
    <3>1. SetPast(u, [past[u] EXCEPT !.split = @ \/ \E d \in Calls \ {c} :
            call[d].id = u /\ PastRevoking(d)])
      BY <1>5 DEF Grants
    <3>2. QED
      BY <1>1, <1>2, <1>5, <3>1 DEF PastType
  <2>2. PICK t \in Tokens :
          token' = [token EXCEPT ![t] = [owner |-> u, state |-> "LIVE",
                      password |-> call[c].password, granted |-> past[u].ended]]
    BY <1>5 DEF Grants
  <2>3. QED
    BY <1>1, <1>5, <2>1, <2>2 DEF EndedSessionsAreOver, Live
<1>6. CASE UNCHANGED <<token, past>>
  BY <1>6 DEF EndedSessionsAreOver, Live
<1>7. ASSUME NEW c \in Calls, SessionSteps(c)
      PROVE  EndedSessionsAreOver'
  <2> DEFINE u == call[c].id
  <2>1. u \in Ids
    BY <1>7 DEF SessionSteps, OpensSession, Rotates, EndsSessions, Bump, Revoke, Grant, Retire,
        Regrant, Reread, Close, SetPassword, RevokeAll, TypeOK, RecordOK, WithAccount
  <2>2. CASE (Bump(c) \/ SetPassword(c)) /\ past' # past
    <3>1. PICK b \in BOOLEAN : SetPast(u, [past[u] EXCEPT !.opened = b])
      BY <2>2 DEF Bump, SetPassword
    <3>2. UNCHANGED token
      BY <2>2 DEF Bump, SetPassword
    <3>3. QED
      BY <1>1, <1>2, <1>3, <2>1, <3>1, <3>2 DEF PastType, Live
  <2>3. CASE Revoke(c)
    BY <1>1, <1>4, <2>1, <2>3 DEF Revoke, SetPast
  <2>4. CASE Close(c) /\ past' # past
    <3>1. token' = RevokeOf(u)
      BY <2>4 DEF Close
    <3>2. \E r : SetPast(u, r)
      BY <2>4 DEF Close
    <3>3. QED
      BY <1>1, <1>4, <2>1, <3>1, <3>2 DEF SetPast
  <2>5. CASE RevokeAll(c)
    <3>1. token' = RevokeOf(u) /\ \E r : SetPast(u, r)
      BY <2>5 DEF RevokeAll
    <3>2. QED
      BY <1>1, <1>4, <2>1, <3>1 DEF SetPast
  <2>6. CASE Grant(c) \/ Regrant(c)
    BY <1>5, <2>1, <2>6 DEF Grant, Regrant
  <2>7. CASE Retire(c)
    BY <1>1, <1>3, <2>7 DEF Retire, TokenType, Live
  <2>8. CASE UNCHANGED past /\ (Bump(c) \/ SetPassword(c) \/ Close(c) \/ Reread(c))
    <3>1. UNCHANGED token \/ token' = RevokeOf(u)
      BY <2>8 DEF Bump, SetPassword, Close, Reread
    <3>2. QED
      BY <1>4, <1>6, <2>1, <2>8, <3>1
  <2>9. CASE Reread(c)
    BY <1>6, <2>9 DEF Reread
  <2>10. QED
    BY <1>7, <2>2, <2>3, <2>4, <2>5, <2>6, <2>7, <2>8, <2>9
    DEF SessionSteps, OpensSession, Rotates, EndsSessions
<1>8. ASSUME NEW c \in Calls, AccountSteps(c)
      PROVE  EndedSessionsAreOver'
  <2> DEFINE u == call[c].id
  <2>1. UNCHANGED token
    BY <1>8, AccountStepTypes
  <2>2. CASE Create(c) /\ past' # past
    <3>1. PICK x \in Ids :
            /\ account[x].status = "ABSENT"
            /\ \E r : SetPast(x, r)
      BY <2>2 DEF Create
    <3>2. \A t \in Tokens : Live(t) => token[t].owner # x
      BY <3>1 DEF Known
    <3>3. QED
      BY <1>1, <2>1, <3>1, <3>2 DEF EndedSessionsAreOver, SetPast, Live
  <2>3. CASE (MarkMail(c) \/ MarkPhone(c) \/ Save(c)) /\ past' # past
    <3>1. u \in Ids /\ past[u] \in PastType
      BY <1>1, <2>3 DEF MarkMail, MarkPhone, Save, TypeOK, RecordOK, WithAccount
    <3>2. \/ \E q : SetPast(u, [past[u] EXCEPT !.proven = q])
          \/ \E b : SetPast(u, [past[u] EXCEPT !.overtaken = b])
      BY <2>3 DEF MarkMail, MarkPhone, Save
    <3>3. \A v \in Ids : past'[v].ended = past[v].ended
      BY <1>2, <3>1, <3>2 DEF PastType
    <3>4. QED
      BY <1>3, <2>1, <3>3 DEF Live
  <2>4. QED
    BY <1>6, <1>8, <2>1, <2>2, <2>3
    DEF AccountSteps, AddProfile, UndoProfile, UndoUser, Reseed
<1>9. ASSUME NEW t \in Tokens, Lapses(t)
      PROVE  EndedSessionsAreOver'
  BY <1>1, <1>3, <1>9 DEF Lapses, Live, TokenType
<1>10. QED
  BY <1>6, <1>7, <1>8, <1>9, WritesCases DEF sessionVars, SetStatus

\* No refresh token outlives the end of the sessions of its account.
THEOREM EndedOver == Spec => []EndedSessionsAreOver
<1>1. Init => EndedSessionsAreOver
  BY DEF Init, EndedSessionsAreOver, Live, NoToken
<1>2. TypeOK /\ Known /\ EndedSessionsAreOver /\ [Next]_vars => EndedSessionsAreOver'
  BY EndedStep
<1>3. QED
  BY <1>1, <1>2, AccountsTypes, AccountsKnown, PTL DEF Spec

\* What JwtAuthGuard refuses for its version it refuses for good.
THEOREM RefusedStays == Spec => RefusedForGood
<1>1. ASSUME TypeOK, Known, [Next]_vars, NEW a \in access,
             a.version < account[a.owner].version
      PROVE  a.version < account'[a.owner].version
  <2>1. a.owner \in Ids /\ a.version \in Nat /\ account[a.owner].version \in Nat
    <3>1. a \in [owner : Ids, version : Nat] /\ account \in [Ids -> AccountType]
      BY <1>1 DEF TypeOK, SessionTypes
    <3>2. a.owner \in Ids /\ a.version \in Nat
      BY <3>1
    <3>3. QED
      BY <3>1, <3>2 DEF AccountType
  <2>2. account[a.owner].status # "ABSENT"
    BY <1>1, <2>1 DEF Known
  <2>3. account'[a.owner].version >= account[a.owner].version
    BY <1>1, <2>1, <2>2, AccountsKept DEF Kept
  <2>4. account'[a.owner].version \in Nat
    BY <1>1, <2>1, TypeStep DEF TypeOK, SessionTypes, AccountType
  <2>5. QED
    BY <1>1, <2>1, <2>3, <2>4
<1>2. TypeOK /\ Known /\ [Next]_vars =>
        [\A a \in access : a.version < account[a.owner].version =>
           a.version < account'[a.owner].version]_vars
  BY <1>1
<1>3. QED
  BY <1>2, AccountsTypes, AccountsKnown, PTL DEF Spec, RefusedForGood

-----------------------------------------------------------------------------
(* An account has one session.                                             *)

\* Unless the account is split: a request about to grant has no session to
\* replace, and one about to retire a token replaces the only session.
Single ==
  \A u \in Ids : ~past[u].split =>
    /\ \A t, v \in Tokens : /\ Live(t) /\ token[t].owner = u
                           /\ Live(v) /\ token[v].owner = u => t = v
    /\ \A c \in Calls : call[c].id = u =>
         /\ call[c].at \in {"grant", "regrant"} =>
              \A t \in Tokens : Live(t) => token[t].owner # u
         /\ call[c].at = "retire" =>
              \A t \in Tokens : Live(t) /\ token[t].owner = u => t = call[c].token

LEMMA SplitStays ==
  ASSUME TypeOK, Known, [Next]_vars, NEW u \in Ids, ~past'[u].split
  PROVE  ~past[u].split \/ \A t \in Tokens : Live(t)' => token'[t].owner # u
<1>1. account[u].status = "ABSENT" => ~past[u].split
  BY DEF Known, NoPast
<1>2. QED
  BY <1>1, PastFound

\* The steps at which a request may still grant without revoking first.
GrantingPhases == {"grant", "retire", "regrant"}

\* No request comes to a granting phase.
Ungranting == \A c \in Calls : call'[c].at \in GrantingPhases => call'[c] = call[c]
Shrinks == \A t \in Tokens : Live(t)' => Live(t) /\ token'[t].owner = token[t].owner

LEMMA SingleStays ==
  ASSUME TypeOK, Known, [Next]_vars, Single, Ungranting, Shrinks
  PROVE  Single'
<1> SUFFICES ASSUME NEW u \in Ids, ~past'[u].split
             PROVE  /\ \A t, v \in Tokens : /\ Live(t)' /\ token'[t].owner = u
                                           /\ Live(v)' /\ token'[v].owner = u => t = v
                    /\ \A c \in Calls : call'[c].id = u =>
                         /\ call'[c].at \in {"grant", "regrant"} =>
                              \A t \in Tokens : Live(t)' => token'[t].owner # u
                         /\ call'[c].at = "retire" =>
                              \A t \in Tokens : Live(t)' /\ token'[t].owner = u =>
                                t = call'[c].token
  BY DEF Single, Live
<1>1. CASE ~past[u].split
  BY <1>1 DEF Single, Shrinks, Ungranting, GrantingPhases
<1>2. CASE \A t \in Tokens : Live(t)' => token'[t].owner # u
  BY <1>2
<1>3. QED
  BY <1>1, <1>2, SplitStays

LEMMA QuietUngranting ==
  ASSUME TypeOK, NEW c \in Calls, QuietMoves(c)
  PROVE  Ungranting
BY DEF QuietMoves, QuietSteps, Ungranting, GrantingPhases, TypeOK, RequestTypes

LEMMA StepsShrink ==
  ASSUME TypeOK, [Next]_vars
  PROVE  Shrinks \/ \E c \in Calls : Grant(c) \/ Regrant(c)
<1>1. token \in [Tokens -> TokenType]
  BY DEF TypeOK, SessionTypes
<1>2. \A u : token' = RevokeOf(u) => Shrinks
  BY <1>1 DEF RevokeOf, TokenType, Live, LiveOf, Shrinks
<1>3. UNCHANGED token => Shrinks
  BY DEF Shrinks, Live
<1>4. ASSUME NEW c \in Calls, Retire(c)
      PROVE  Shrinks
  BY <1>1, <1>4 DEF Retire, TokenType, Live, Shrinks
<1>5. ASSUME NEW t \in Tokens, Lapses(t)
      PROVE  Shrinks
  BY <1>1, <1>5 DEF Lapses, TokenType, Live, Shrinks
<1>6. ASSUME NEW c \in Calls, SessionSteps(c)
      PROVE  Shrinks \/ Grant(c) \/ Regrant(c)
  BY <1>2, <1>3, <1>4, <1>6
  DEF SessionSteps, OpensSession, Rotates, EndsSessions, Bump, Revoke, Reread, Close,
      SetPassword, RevokeAll
<1>7. ASSUME NEW c \in Calls, AccountSteps(c)
      PROVE  Shrinks
  BY <1>3, <1>7, AccountStepTypes
<1>8. QED
  BY <1>3, <1>5, <1>6, <1>7, WritesCases DEF sessionVars, SetStatus

LEMMA SingleStep ==
  ASSUME TypeOK, Known, Single, [Next]_vars
  PROVE  Single'
<1>1. /\ token \in [Tokens -> TokenType] /\ call \in [Calls -> CallType]
      /\ past \in [Ids -> PastType]
      /\ \A c \in Calls : RecordOK(call[c])
  BY DEF TypeOK, SessionTypes, RequestTypes
<1>2. ASSUME NEW c \in Calls, Arriving(c)
      PROVE  Single'
  <2>1. UNCHANGED <<token, past>>
    BY <1>2, ArrivingShape DEF sessionVars
  <2>2. call' = [call EXCEPT ![c] = call'[c]] /\ ArrivesAs(call'[c])
    BY <1>2, ArrivingKinds
  <2>3. CASE call'[c].at # "retire"
    <3>1. Ungranting /\ Shrinks
      BY <1>1, <2>1, <2>2, <2>3 DEF Ungranting, Shrinks, Live, GrantingPhases, ArrivesAs
    <3>2. QED
      BY <3>1, SingleStays
  <2>4. CASE call'[c].at = "retire"
    <3>1. /\ call'[c].token \in Tokens /\ Live(call'[c].token)
          /\ token[call'[c].token].owner = call'[c].id
      BY <2>2, <2>4 DEF ArrivesAs
    <3>2. \A d \in Calls \ {c} : call'[d] = call[d]
      BY <1>1, <2>2
    <3>3. QED
      BY <2>1, <2>4, <3>1, <3>2 DEF Single, Live
  <2>5. QED
    BY <2>3, <2>4
<1>3. ASSUME NEW c \in Calls, Bump(c)
      PROVE  Single'
  <2>1. Shrinks
    BY <1>3, StepsShrink DEF Bump, Shrinks, Live
  <2>2. Ungranting
    <3>1. call'[c].at \in {"revoke", "idle"} /\ \A d \in Calls \ {c} : call'[d] = call[d]
      BY <1>1, <1>3 DEF Bump, Ends, Idle, CallType
    <3>2. QED
      BY <3>1 DEF Ungranting, GrantingPhases
  <2>3. QED
    BY <2>1, <2>2, SingleStays
<1>4. ASSUME NEW c \in Calls, Revoke(c)
      PROVE  Single'
  <2> DEFINE u == call[c].id
  <2>1. /\ call'[c].at = "grant" /\ call'[c].id = u
        /\ \A d \in Calls \ {c} : call'[d] = call[d]
    BY <1>1, <1>4 DEF Revoke, Goes, CallType
  <2>2. \A t \in Tokens : Live(t)' => token'[t].owner # u /\ Live(t)
                                     /\ token'[t].owner = token[t].owner
    BY <1>1, <1>4 DEF Revoke, RevokeOf, LiveOf, Live, TokenType
  <2>3. \A w \in Ids \ {u} : past'[w] = past[w]
    BY <1>1, <1>4 DEF Revoke, SetPast
  <2>4. QED
    BY <2>1, <2>2, <2>3 DEF Single
<1>5. ASSUME NEW c \in Calls, Grant(c) \/ Regrant(c)
      PROVE  Single'
  <2> DEFINE u == call[c].id
             Others == \E d \in Calls \ {c} : call[d].id = u /\ PastRevoking(d)
  <2>1. u \in Ids /\ call[c].at \in {"grant", "regrant"} /\ Grants(c)
    BY <1>1, <1>5 DEF Grant, Regrant, RecordOK, WithAccount
  <2>2. /\ call'[c].at \in {"idle", "reread"} /\ \A d \in Calls \ {c} : call'[d] = call[d]
    BY <1>1, <1>5 DEF Grant, Regrant, Goes, Ends, Idle, CallType
  <2>3. PICK t \in Tokens :
          token' = [token EXCEPT ![t] = [owner |-> u, state |-> "LIVE",
                      password |-> call[c].password, granted |-> past[u].ended]]
    BY <2>1 DEF Grants
  <2>4. \A v \in Tokens \ {t} : token'[v] = token[v]
    BY <1>1, <2>3
  <2>5. token'[t].owner = u
    BY <1>1, <2>3
  <2>6. SetPast(u, [past[u] EXCEPT !.split = @ \/ Others])
    BY <2>1 DEF Grants
  <2>7. \A v \in Ids \ {u} : past'[v] = past[v]
    BY <1>1, <2>6 DEF SetPast
  <2>8. ~past'[u].split => ~past[u].split /\ ~Others
    <3>1. past[u] \in PastType
      BY <1>1, <2>1
    <3>2. past'[u] = [past[u] EXCEPT !.split = past[u].split \/ Others]
      BY <1>1, <2>1, <2>6 DEF SetPast
    <3>3. past'[u].split = (past[u].split \/ Others)
      BY <3>1, <3>2 DEF PastType
    <3>4. QED
      BY <3>3
  <2>9. ASSUME NEW w \in Ids, ~past'[w].split
        PROVE  /\ \A x, v \in Tokens : /\ Live(x)' /\ token'[x].owner = w
                                      /\ Live(v)' /\ token'[v].owner = w => x = v
               /\ \A d \in Calls : call'[d].id = w =>
                    /\ call'[d].at \in {"grant", "regrant"} =>
                         \A x \in Tokens : Live(x)' => token'[x].owner # w
                    /\ call'[d].at = "retire" =>
                         \A x \in Tokens : Live(x)' /\ token'[x].owner = w =>
                           x = call'[d].token
    <3>1. CASE w = u
      <4>1. \A x \in Tokens : Live(x) => token[x].owner # u
        BY <2>1, <2>8, <2>9, <3>1 DEF Single
      <4>2. \A x \in Tokens : Live(x)' /\ token'[x].owner = u => x = t
        BY <2>4, <4>1 DEF Live
      <4>3. \A d \in Calls \ {c} : call[d].id = u => call[d].at \notin GrantingPhases
        <5>1. \A d \in Calls : call[d].at = "retire" /\ call[d].id = u =>
                ~Live(call[d].token)
          BY <4>1 DEF TypeOK
        <5>2. QED
          BY <2>8, <2>9, <3>1, <5>1 DEF GrantingPhases, PastRevoking
      <4>4. QED
        BY <2>2, <3>1, <4>2, <4>3 DEF GrantingPhases
    <3>2. CASE w # u
      <4>1. \A x \in Tokens : Live(x)' /\ token'[x].owner = w => Live(x) /\ token[x].owner = w
        BY <2>4, <2>5, <3>2 DEF Live
      <4>2. ~past[w].split
        BY <2>7, <2>9, <3>2
      <4>3. \A d \in Calls : call'[d].at \in {"grant", "regrant", "retire"} => call'[d] = call[d]
        BY <2>2
      <4>4. QED
        BY <4>1, <4>2, <4>3 DEF Single
    <3>3. QED
      BY <3>1, <3>2
  <2>10. QED
    BY <2>9 DEF Single, Live
<1>6. ASSUME NEW c \in Calls, Retire(c)
      PROVE  Single'
  <2>1. /\ call'[c].at = "regrant" /\ call'[c].id = call[c].id /\ call[c].at = "retire"
        /\ \A d \in Calls \ {c} : call'[d] = call[d]
    BY <1>1, <1>6 DEF Retire, Goes, CallType
  <2>2. \A t \in Tokens : Live(t)' => /\ t # call[c].token /\ Live(t)
                                     /\ token'[t].owner = token[t].owner
    BY <1>1, <1>6 DEF Retire, Live, TokenType
  <2>3. UNCHANGED past
    BY <1>6 DEF Retire
  <2>4. QED
    BY <2>1, <2>2, <2>3 DEF Single
<1>7. ASSUME NEW c \in Calls, GoesOn(c)
      PROVE  Single'
  <2>1. CASE Reread(c)
    BY <2>1, EndsMoves, QuietUngranting, StepsShrink, SingleStays
    DEF Reread, Shrinks, Live
  <2>2. CASE EndsSessions(c) \/ MakesSecret(c) \/ UsesSecret(c) \/ CreatesAccount(c)
               \/ ChangesAccount(c)
    <3>1. Ungranting
      BY <2>2, EndsSessionsMoves, MakesSecretMoves, UsesSecretMoves, AccountMoves,
         QuietUngranting
    <3>2. CASE Shrinks
      BY <3>1, <3>2, SingleStays
    <3>3. QED
      BY <1>5, <3>2, StepsShrink
  <2>3. QED
    BY <1>3, <1>4, <1>5, <1>6, <1>7, <2>1, <2>2 DEF GoesOn, OpensSession, Rotates
<1>8. ASSUME Suspends \/ TimePasses \/ UNCHANGED vars
      PROVE  Single'
  <2>1. Ungranting
    BY <1>8 DEF Ungranting, Suspends, SetStatus, TimePasses, Ages, RecordEnds, WindowEnds,
                Lapses, vars
  <2>2. QED
    BY <1>5, <2>1, StepsShrink, SingleStays
<1>9. ASSUME NEW c \in Calls, Fails(c)
      PROVE  Single'
  BY <1>5, <1>9, FailsMoves, QuietUngranting, StepsShrink, SingleStays
<1>10. ASSUME Crash
       PROVE  Single'
  <2>1. Ungranting
    BY <1>10 DEF Crash, Ungranting, Idle, GrantingPhases
  <2>2. QED
    BY <1>5, <2>1, StepsShrink, SingleStays
<1>11. QED
  BY <1>2, <1>7, <1>8, <1>9, <1>10, StepCases

\* A request about to grant has no session to replace, and one about to retire a
\* token replaces the only session.
THEOREM SingleAlways == Spec => []Single
<1>1. Init => Single
  BY DEF Init, Single, NoToken, Live, Idle
<1>2. TypeOK /\ Known /\ Single /\ [Next]_vars => Single'
  BY SingleStep
<1>3. QED
  BY <1>1, <1>2, AccountsTypes, AccountsKnown, PTL DEF Spec

\* An account has one session, unless since its sessions were last revoked together
\* one was granted beside another request that had nothing more to revoke and was
\* still to grant: a login or a rotation past its revocation, or a rotation whose
\* token is live no longer.
THEOREM SingleSession == Spec => []OneSession
<1>1. TypeOK /\ Single => OneSession
  BY DEF Single, OneSession, TypeOK, Live
<1>2. QED
  BY <1>1, SingleAlways, AccountsTypes, PTL
=============================================================================
