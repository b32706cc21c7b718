--------------------------- MODULE AccountsProofs ---------------------------
(***************************************************************************)
(* Proofs about Accounts, for every set of identifiers, addresses, requests*)
(* and tokens and every bound: the types, and what they rest on.           *)
(***************************************************************************)
EXTENDS AccountsProperties, TLAPS

-----------------------------------------------------------------------------
(* A step of Next, by what it touches.                                     *)

\* The requests that begin: only their own record changes, and what history says
\* of a secret that two of them have read.
Arriving(c) == (~Starting /\ Arrives(c)) \/ Starts(c)

OnlyShared ==
  /\ secret' \in [Secrets -> SecretType]
  /\ \A s \in Secrets :
       /\ secret'[s].kind = secret[s].kind /\ secret'[s].address = secret[s].address
       /\ secret'[s].given = secret[s].given /\ secret'[s].aged = secret[s].aged
       /\ secret'[s].accepted = secret[s].accepted /\ secret'[s].wrong = secret[s].wrong
       /\ secret'[s].contested = secret[s].contested
       /\ secret[s].shared => secret'[s].shared

LEMMA OnlySharedHolds ==
  ASSUME TypeOK
  PROVE  /\ UNCHANGED secret => OnlyShared
         /\ \A c, k, right, record : UseRead(c, k, right, record) => OnlyShared
<1>1. \A s \in Secrets : secret[s] \in SecretType
  BY DEF TypeOK, CodeTypes
<1>2. UNCHANGED secret => OnlyShared
  BY <1>1 DEF OnlyShared, TypeOK, CodeTypes
<1>3. ASSUME NEW c, NEW k, NEW right, NEW record, UseRead(c, k, right, record)
      PROVE  OnlyShared
  <2> DEFINE s == store[k].number
  <2>1. PICK b \in BOOLEAN : b = (secret[s].shared \/ \E d \in Calls :
                                 call[d].at \in Deciding /\ call[d].number = s)
    <3>1. (secret[s].shared \/ \E d \in Calls :
             call[d].at \in Deciding /\ call[d].number = s) \in BOOLEAN
      OBVIOUS
    <3>2. QED
      BY <3>1
  <2>2. secret' = [secret EXCEPT ![s].shared = b]
    BY <1>3, <2>1 DEF UseRead
  <2> HIDE DEF s
  <2>3. ASSUME s \in Secrets
        PROVE  /\ [secret[s] EXCEPT !.shared = b] \in SecretType
               /\ secret[s].shared => b
    BY <1>1, <2>1, <2>3 DEF SecretType
  <2>4. QED
    BY <1>1, <2>2, <2>3 DEF OnlyShared, TypeOK, CodeTypes, SecretType
<1>4. QED
  BY <1>2, <1>3

LEMMA ArrivingShape ==
  ASSUME TypeOK, NEW c \in Calls, Arriving(c)
  PROVE  /\ call[c] = Idle
         /\ UNCHANGED <<store, backing, passed, sessionVars>> /\ OnlyShared
         /\ \E r : Begins(c, r)
<1> DEFINE Shape == /\ UNCHANGED <<store, backing, passed, sessionVars>> /\ OnlyShared
                    /\ \E r : Begins(c, r)
<1>1. ASSUME UNCHANGED <<codeVars, sessionVars>>, NEW r, Begins(c, r)
      PROVE  Shape
  BY <1>1, OnlySharedHolds DEF codeVars
<1>2. \A k, right, record : UseRead(c, k, right, record) => Shape
  BY OnlySharedHolds DEF UseRead
<1>3. ASSUME Starts(c) PROVE Shape
  BY <1>1, <1>3 DEF Starts, SeedFind
<1>4. ASSUME CodeRoutes(c) PROVE Shape
  <2> HIDE DEF Shape
  <2>1. \A op, m, p : AskBegins(c, op, m, p) => Shape
    BY <1>1 DEF AskBegins
  <2>2. \A m, right : ProveMail(c, m, right) => Shape
    BY <1>2 DEF ProveMail
  <2>3. \A p, role, right : ProveSms(c, p, role, right) => Shape
    BY <1>2 DEF ProveSms
  <2>4. QED
    BY <1>4, <2>1, <2>2, <2>3 DEF CodeRoutes, AskMail, AskSms
<1>5. ASSUME AccountRoutes(c) PROVE Shape
  <2> HIDE DEF Shape
  <2>1. \A m, p, role : Signup(c, m, p, role) => Shape
    BY <1>1 DEF Signup
  <2>2. \A u : LoginFind(c, u) /\ UNCHANGED codeVars => Shape
    BY <1>1 DEF LoginFind, sessionVars
  <2>3. \A x : (RotateRead(c, x) \/ LogoutRead(c, x)) /\ UNCHANGED codeVars => Shape
    BY <1>1 DEF RotateRead, LogoutRead, sessionVars
  <2>4. \A m : AskReset(c, m) => Shape
    BY <1>1 DEF AskReset, AskBegins
  <2>5. \A s : UseReset(c, s) => Shape
    BY <1>2 DEF UseReset
  <2>6. CASE \E u \in Ids : LoginFind(c, u) /\ UNCHANGED codeVars
    BY <2>2, <2>6
  <2>7. CASE \E x \in Tokens : (RotateRead(c, x) \/ LogoutRead(c, x)) /\ UNCHANGED codeVars
    BY <2>3, <2>7
  <2>8. QED
    BY <1>5, <2>1, <2>4, <2>5, <2>6, <2>7, Zenon DEF AccountRoutes
<1>6. ASSUME \E u \in Ids, m \in SomeMails : Offers("profile") /\ ProfileRead(c, u, m)
      PROVE  Shape
  BY <1>1, <1>6 DEF ProfileRead
<1>7. Shape
  BY <1>3, <1>4, <1>5, <1>6 DEF Arriving, Arrives
<1>8. QED
  BY <1>7 DEF Begins

-----------------------------------------------------------------------------
(* Types.                                                                  *)

LEMMA IdleOK == Idle \in CallType /\ RecordOK(Idle)
BY DEF Idle, CallType, RecordOK, Endpoints, Steps, WithAccount

\* A record at a step that needs no more than an account.
LEMMA BusyOK ==
  ASSUME NEW r \in CallType, r.at \notin {"idle", "count", "expire", "owner", "store"},
         r.at \in WithAccount => r.id \in Ids
  PROVE  RecordOK(r)
BY DEF RecordOK, Idle

LEMMA JudgedShape ==
  ASSUME NEW record, NEW aged
  PROVE  \E at \in {"lapse", "accept", "reject"} :
           Judged(record, aged) = [record EXCEPT !.at = at]
BY DEF Judged

LEMMA UseReadOK ==
  ASSUME TypeOK, NEW c \in Calls, NEW k \in Keys, NEW right \in BOOLEAN,
         NEW record \in CallType, UseRead(c, k, right, record)
  PROVE  \E r \in CallType : RecordOK(r) /\ Begins(c, r)
<1> DEFINE read == [record EXCEPT !.number = store[k].number, !.tries = store[k].tries,
                                  !.right = right]
<1>1. read \in CallType
  BY DEF TypeOK, CodeTypes, Entry, CallType
<1>2. ASSUME NEW at \in {"lapse", "accept", "reject"}
      PROVE  [read EXCEPT !.at = at] \in CallType /\ [read EXCEPT !.at = at].at = at
  <2>1. at \in Steps
    BY DEF Steps
  <2> HIDE DEF read
  <2>2. QED
    BY <1>1, <2>1 DEF CallType
<1>3. Begins(c, Judged(read, secret[store[k].number].aged))
  BY DEF UseRead
<1> HIDE DEF read
<1>4. PICK at \in {"lapse", "accept", "reject"} :
        Judged(read, secret[store[k].number].aged) = [read EXCEPT !.at = at]
  BY JudgedShape
<1>5. RecordOK([read EXCEPT !.at = at])
  BY <1>2, BusyOK DEF WithAccount
<1>6. QED
  BY <1>2, <1>3, <1>4, <1>5

\* What a request begins with.
LEMMA ArrivingOK ==
  ASSUME TypeOK, NEW c \in Calls, Arriving(c)
  PROVE  \E r \in CallType : RecordOK(r) /\ Begins(c, r)
<1> DEFINE Goal == \E r \in CallType : RecordOK(r) /\ Begins(c, r)
<1>1. CASE Starts(c)
  <2> DEFINE Create0 == [Idle EXCEPT !.op = "seed", !.at = "create", !.mail = SeedMail,
                           !.phone = SeedPhone, !.role = "DRIVER"]
             Reseed0(u) == [Idle EXCEPT !.op = "seed", !.at = "reseed", !.id = u,
                              !.mail = SeedMail]
  <2>1. Begins(c, Create0) \/ \E u \in Present : Begins(c, Reseed0(u))
    BY <1>1 DEF Starts, SeedFind
  <2>2. Create0 \in CallType /\ Create0.at = "create"
    BY ScenariosAssumption DEF Present, Idle, CallType, Endpoints, Steps
  <2>3. \A u \in Present :
          Reseed0(u) \in CallType /\ Reseed0(u).at = "reseed" /\ Reseed0(u).id \in Ids
    BY ScenariosAssumption DEF Present, Idle, CallType, Endpoints, Steps
  <2> HIDE DEF Create0, Reseed0
  <2>4. QED
    BY <2>1, <2>2, <2>3, BusyOK DEF WithAccount
<1>2. CASE Arrives(c)
  <2>1. ASSUME NEW m \in Mails, NEW p \in Phones \cup {None},
               NEW role \in {"PASSENGER", "DRIVER"}, Signup(c, m, p, role)
        PROVE  Goal
    <3> DEFINE begun == [Idle EXCEPT !.op = "signup", !.at = "create", !.mail = m,
                           !.phone = p, !.role = role]
    <3>1. Begins(c, begun)
      BY <2>1 DEF Signup
    <3>2. begun \in CallType /\ begun.at = "create"
      BY DEF Present, Idle, CallType, Endpoints, Steps
    <3> HIDE DEF begun
    <3>3. QED
      BY <3>1, <3>2, BusyOK DEF WithAccount
  <2>2. ASSUME NEW u \in Ids, LoginFind(c, u)
        PROVE  Goal
    <3> DEFINE begun == [Idle EXCEPT !.op = "login", !.at = "bump", !.id = u,
                           !.password = account[u].password,
                           !.version = account[u].version]
    <3>1. Begins(c, begun)
      BY <2>2 DEF LoginFind
    <3>2. account[u].password \in Nat /\ account[u].version \in Nat
      BY DEF TypeOK, SessionTypes, AccountType
    <3>3. begun \in CallType /\ begun.at = "bump" /\ begun.id = u
      BY <3>2 DEF Idle, CallType, Endpoints, Steps
    <3> HIDE DEF begun
    <3>4. QED
      BY <3>1, <3>3, BusyOK
  <2>3. ASSUME NEW t \in Tokens, RotateRead(c, t) \/ LogoutRead(c, t)
        PROVE  Goal
    <3>1. t \in Nat /\ token[t].owner \in Ids /\ token[t].password \in Nat
      BY <2>3, NumbersAssumption
      DEF RotateRead, LogoutRead, Live, TypeOK, SessionTypes, TokenType
    <3> DEFINE owner == token[t].owner
               password == token[t].password
               rotate == [Idle EXCEPT !.op = "rotate", !.at = "retire", !.token = t,
                                      !.id = owner, !.password = password]
               logout == [Idle EXCEPT !.op = "logout", !.at = "close", !.id = owner,
                                      !.token = t]
    <3>2. Begins(c, rotate) \/ Begins(c, logout)
      BY <2>3 DEF RotateRead, LogoutRead
    <3> HIDE DEF owner, password
    <3>3. owner \in Ids /\ password \in Nat
      BY <3>1 DEF owner, password
    <3>4. /\ rotate \in CallType /\ rotate.at = "retire" /\ rotate.id \in Ids
          /\ logout \in CallType /\ logout.at = "close" /\ logout.id \in Ids
      BY <3>1, <3>3 DEF Idle, CallType, Endpoints, Steps
    <3> HIDE DEF rotate, logout
    <3>5. QED
      BY <3>2, <3>4, BusyOK
  <2>4. ASSUME NEW op \in {"askMail", "askSms", "askReset"}, NEW m, NEW p,
               IF op = "askSms" THEN m = None /\ p \in Phones ELSE m \in Mails /\ p = None,
               AskBegins(c, op, m, p)
        PROVE  Goal
    <3> DEFINE begun == [Idle EXCEPT !.op = op, !.at = "count", !.mail = m, !.phone = p,
                           !.window = FirstWindow[op]]
    <3>1. Begins(c, begun)
      BY <2>4 DEF AskBegins
    <3>2. /\ op = "askSms" => FirstWindow[op] = "smsPerHour"
          /\ op = "askMail" => FirstWindow[op] = "per60s"
          /\ op = "askReset" => FirstWindow[op] = "resetPerHour"
      BY DEF FirstWindow
    <3>3. begun \in CallType
      BY <2>4, <3>2 DEF Idle, CallType, Endpoints, Steps
    <3>4. begun.op = op /\ begun.at = "count" /\ begun.mail = m /\ begun.phone = p
            /\ begun.window = FirstWindow[op]
      BY DEF Idle
    <3> HIDE DEF begun
    <3>5. RecordOK(begun)
      BY <2>4, <3>2, <3>4 DEF RecordOK, Idle, WithAccount
    <3>6. QED
      BY <3>1, <3>3, <3>5
  <2>5. Idle \in CallType
    BY IdleOK
  <2>6. ASSUME NEW m \in Mails, NEW right \in BOOLEAN, ProveMail(c, m, right)
        PROVE  Goal
    <3>1. [Idle EXCEPT !.op = "proveMail", !.mail = m] \in CallType
      BY <2>5 DEF CallType, Endpoints
    <3>2. Key("mail", m) \in Keys
      BY KeysAssumption DEF Key, SecretKeys
    <3>3. QED
      BY <2>6, <3>1, <3>2, UseReadOK DEF ProveMail
  <2>7. ASSUME NEW p \in Phones, NEW right \in BOOLEAN,
               NEW role \in {"PASSENGER", "DRIVER"}, ProveSms(c, p, role, right)
        PROVE  Goal
    <3>1. [Idle EXCEPT !.op = "proveSms", !.phone = p, !.role = role] \in CallType
      BY <2>5 DEF CallType, Endpoints
    <3>2. Key("sms", p) \in Keys
      BY KeysAssumption DEF Key, SecretKeys
    <3>3. QED
      BY <2>7, <3>1, <3>2, UseReadOK DEF ProveSms
  <2>8. ASSUME NEW s \in Secrets, UseReset(c, s)
        PROVE  Goal
    <3>1. [Idle EXCEPT !.op = "reset", !.mail = secret[s].address] \in CallType
      BY <2>5, <2>8 DEF CallType, Endpoints, UseReset, TypeOK
    <3>2. Key("reset", s) \in Keys
      BY KeysAssumption DEF Key, SecretKeys
    <3>3. QED
      BY <2>8, <3>1, <3>2, UseReadOK DEF UseReset
  <2>9. ASSUME NEW u \in Ids, NEW m \in Mails, ProfileRead(c, u, m)
        PROVE  Goal
    <3> DEFINE begun == [Idle EXCEPT !.op = "profile", !.at = "save", !.id = u,
                           !.mail = m, !.was = account[u].mail]
    <3>1. Begins(c, begun)
      BY <2>9 DEF ProfileRead
    <3>2. account[u].mail \in Mails \cup {None}
      BY DEF TypeOK, SessionTypes, AccountType
    <3>3. begun \in CallType /\ begun.at = "save" /\ begun.id = u
      BY <3>2 DEF Idle, CallType, Endpoints, Steps
    <3> HIDE DEF begun
    <3>4. QED
      BY <3>1, <3>3, BusyOK
  <2> HIDE DEF Goal
  <2>10. ASSUME NEW m \in Mails, AskMail(c, m) \/ AskReset(c, m)
         PROVE  Goal
    BY <2>4, <2>10 DEF AskMail, AskReset
  <2>11. ASSUME NEW p \in Phones, AskSms(c, p)
         PROVE  Goal
    BY <2>4, <2>11 DEF AskSms
  <2>12. \/ \E m \in Mails, p \in Phones \cup {None}, role \in {"PASSENGER", "DRIVER"} :
               Signup(c, m, p, role)
         \/ \E u \in Ids : LoginFind(c, u)
         \/ \E t \in Tokens : RotateRead(c, t) \/ LogoutRead(c, t)
         \/ \E m \in Mails : AskMail(c, m) \/ AskReset(c, m)
         \/ \E m \in Mails, right \in BOOLEAN : ProveMail(c, m, right)
         \/ \E m \in Mails, u \in Ids : ProfileRead(c, u, m)
         \/ \E p \in Phones : AskSms(c, p)
         \/ \E p \in Phones, role \in {"PASSENGER", "DRIVER"}, right \in BOOLEAN :
               ProveSms(c, p, role, right)
         \/ \E s \in Secrets : UseReset(c, s)
    BY <1>2, Zenon DEF Arrives, CodeRoutes, AccountRoutes, SomeMails, SomePhones
  <2>13. QED
    BY <2>1, <2>2, <2>3, <2>6, <2>7, <2>8, <2>9, <2>10, <2>11, <2>12 DEF Goal
<1>3. QED
  BY <1>1, <1>2 DEF Arriving

\* The record of one request changes to one that is in order.
QuietSteps == Steps \ {"retire", "revoke", "grant", "regrant", "reread"}
QuietMoves(c) ==
  \E r \in CallType : RecordOK(r) /\ r.at \in QuietSteps /\ call' = [call EXCEPT ![c] = r]
Moves(c) ==
  \E r \in CallType : RecordOK(r) /\ r.at # "retire" /\ call' = [call EXCEPT ![c] = r]

LEMMA QuietMovesMoves == ASSUME NEW c, QuietMoves(c) PROVE Moves(c)
BY DEF QuietMoves, Moves, QuietSteps

LEMMA EndsMoves ==
  ASSUME NEW c \in Calls, Ends(c)
  PROVE  QuietMoves(c) /\ Moves(c)
<1>1. Idle.at = "idle" /\ "idle" \in QuietSteps
  BY DEF Idle, QuietSteps, Steps
<1>2. QuietMoves(c)
  BY <1>1, IdleOK DEF Ends, QuietMoves
<1>3. QED
  BY <1>2, QuietMovesMoves

LEMMA GoesMoves ==
  ASSUME TypeOK, NEW c \in Calls, NEW at \in Steps \ {"idle", "count", "expire", "retire"},
         Goes(c, at),
         at \in WithAccount => call[c].id \in Ids,
         at \in {"owner", "store"} => call[c].at \in {"count", "expire", "owner"}
  PROVE  Moves(c) /\ (at \in QuietSteps => QuietMoves(c))
<1>1. call[c] \in CallType /\ RecordOK(call[c]) /\ c \in DOMAIN call
  BY DEF TypeOK, RequestTypes
<1> DEFINE gone == [call[c] EXCEPT !.at = at]
<1>2. gone \in CallType /\ call' = [call EXCEPT ![c] = gone] /\ gone.at = at
  BY <1>1 DEF Goes, CallType
<1>3. RecordOK(gone)
  <2>1. gone.at = at /\ gone.id = call[c].id /\ gone.op = call[c].op
          /\ gone.mail = call[c].mail /\ gone.phone = call[c].phone
    BY <1>1 DEF CallType
  <2> HIDE DEF gone
  <2>2. gone # Idle
    BY <2>1 DEF Idle
  <2>3. QED
    BY <1>1, <2>1, <2>2 DEF RecordOK, WithAccount
<1> HIDE DEF gone
<1>4. QED
  BY <1>2, <1>3 DEF Moves, QuietMoves

LEMMA OpensSessionMoves ==
  ASSUME TypeOK, NEW c \in Calls, OpensSession(c)
  PROVE  Moves(c)
<1>1. call[c] \in CallType /\ RecordOK(call[c])
  BY DEF TypeOK, RequestTypes
<1>2. CASE Bump(c)
  <2>1. CASE Ends(c)
    BY <2>1, EndsMoves
  <2>2. CASE ~Ends(c)
    <3> DEFINE u == call[c].id
               raised == account[u].version + 1
               gone == [call[c] EXCEPT !.at = "revoke", !.version = raised]
    <3>1. u \in Ids /\ raised \in Nat
      BY <1>1, <1>2 DEF Bump, RecordOK, WithAccount, TypeOK, SessionTypes, AccountType
    <3>2. call' = [call EXCEPT ![c] = gone]
      BY <1>2, <2>2 DEF Bump, TypeOK, RequestTypes
    <3>3. "revoke" \in Steps
      BY DEF Steps
    <3>4. /\ gone \in CallType
          /\ gone.at = "revoke" /\ gone.id \in Ids
      <4> HIDE DEF raised
      <4>1. QED
        BY <1>1, <3>1, <3>3 DEF CallType
    <3> HIDE DEF gone
    <3>5. QED
      BY <3>2, <3>4, BusyOK DEF Moves
  <2>3. QED
    BY <2>1, <2>2
<1>3. CASE Revoke(c)
  BY <1>1, <1>3, GoesMoves DEF Revoke, RecordOK, WithAccount, Steps
<1>4. CASE Grant(c)
  BY <1>4, EndsMoves DEF Grant
<1>5. QED
  BY <1>2, <1>3, <1>4 DEF OpensSession

LEMMA RotatesMoves ==
  ASSUME TypeOK, NEW c \in Calls, Rotates(c)
  PROVE  Moves(c)
<1>1. RecordOK(call[c])
  BY DEF TypeOK
<1>2. CASE Retire(c) \/ Regrant(c)
  BY <1>1, <1>2, GoesMoves DEF Retire, Regrant, RecordOK, WithAccount, Steps
<1>3. CASE Reread(c)
  BY <1>3, EndsMoves DEF Reread
<1>4. QED
  BY <1>2, <1>3 DEF Rotates

LEMMA EndsSessionsMoves ==
  ASSUME TypeOK, NEW c \in Calls, EndsSessions(c)
  PROVE  QuietMoves(c)
<1>1. RecordOK(call[c])
  BY DEF TypeOK
<1>2. CASE SetPassword(c)
  BY <1>1, <1>2, EndsMoves, GoesMoves
  DEF SetPassword, RecordOK, WithAccount, Steps, QuietSteps
<1>3. CASE Close(c) \/ RevokeAll(c)
  BY <1>3, EndsMoves DEF Close, RevokeAll
<1>4. QED
  BY <1>2, <1>3 DEF EndsSessions

\* A counter lets a request through: to another counter of the same endpoint.
LEMMA LetThroughMoves ==
  ASSUME TypeOK, NEW c \in Calls, LetThrough(c), call[c].at \in {"count", "expire"}
  PROVE  QuietMoves(c)
<1> DEFINE r == call[c]
           next == IF r.window \in DOMAIN NextWindow
                     THEN [r EXCEPT !.at = "count", !.window = NextWindow[r.window]]
                     ELSE [r EXCEPT !.at = IF r.op = "askReset" THEN "owner" ELSE "store",
                                    !.window = "none"]
<1>1. r \in CallType /\ RecordOK(r)
  BY DEF TypeOK, RequestTypes
<1>2. call' = [call EXCEPT ![c] = next]
  <2>1. call[c] = r /\ c \in DOMAIN call
    BY DEF TypeOK, RequestTypes
  <2>2. QED
    BY <2>1 DEF LetThrough
<1>3. /\ DOMAIN NextWindow = {"per60s", "perHour", "resetPerHour"}
      /\ NextWindow["per60s"] = "perHour"
      /\ NextWindow["perHour"] = "perIp"
      /\ NextWindow["resetPerHour"] = "resetPerIp"
  BY DEF NextWindow
<1>4. next \in CallType
  <2>1. {"count", "owner", "store"} \subseteq Steps
    BY DEF Steps
  <2>2. CASE r.window \in DOMAIN NextWindow
    <3> DEFINE w == NextWindow[r.window]
    <3>1. w \in {"perHour", "perIp", "resetPerIp"}
      BY <1>3, <2>2
    <3>2. next = [r EXCEPT !.at = "count", !.window = w]
      BY <2>2
    <3> HIDE DEF w, next, r
    <3>3. QED
      BY <1>1, <2>1, <3>1, <3>2 DEF CallType
  <2>3. CASE r.window \notin DOMAIN NextWindow
    <3>1. PICK at \in {"owner", "store"} : next = [r EXCEPT !.at = at, !.window = "none"]
      BY <2>3
    <3> HIDE DEF next, r
    <3>2. QED
      BY <1>1, <2>1, <3>1 DEF CallType
  <2>4. QED
    BY <2>2, <2>3
<1>5. /\ next.op = r.op /\ next.mail = r.mail /\ next.phone = r.phone /\ next.id = r.id
      /\ next.at \in {"count", "owner", "store"}
      /\ next.at = "count" => /\ r.window \in {"per60s", "perHour", "resetPerHour"}
                              /\ next.window = NextWindow[r.window]
  BY <1>1, <1>3 DEF CallType
<1> HIDE DEF next
<1>6. next # Idle
  BY <1>5 DEF Idle
<1>7. RecordOK(next)
  BY <1>1, <1>3, <1>5, <1>6 DEF RecordOK, WithAccount
<1>8. QED
  BY <1>2, <1>4, <1>5, <1>7 DEF QuietMoves, QuietSteps, Steps

LEMMA MakesSecretMoves ==
  ASSUME TypeOK, NEW c \in Calls, MakesSecret(c)
  PROVE  QuietMoves(c)
<1>1. call[c] \in CallType /\ RecordOK(call[c])
  BY DEF TypeOK, RequestTypes
<1>2. CASE Count(c)
  <2>1. CASE Goes(c, "expire")
    <3> DEFINE gone == [call[c] EXCEPT !.at = "expire"]
    <3>1. gone \in CallType /\ call' = [call EXCEPT ![c] = gone]
      BY <1>1, <2>1 DEF Goes, CallType, Steps, TypeOK, RequestTypes
    <3>2. /\ gone.at = "expire" /\ gone.op = call[c].op /\ gone.mail = call[c].mail
          /\ gone.phone = call[c].phone /\ gone.window = call[c].window
          /\ call[c].at = "count"
      BY <1>1, <1>2 DEF Count, CallType
    <3> HIDE DEF gone
    <3>3. gone # Idle
      BY <3>2 DEF Idle
    <3>4. RecordOK(gone)
      BY <1>1, <3>2, <3>3 DEF RecordOK, WithAccount
    <3>5. QED
      BY <3>1, <3>2, <3>4 DEF QuietMoves, QuietSteps, Steps
  <2>2. CASE Ends(c) \/ LetThrough(c)
    BY <1>2, <2>2, EndsMoves, LetThroughMoves DEF Count
  <2>3. QED
    BY <1>2, <2>1, <2>2 DEF Count, Judge
<1>3. CASE SetWindow(c)
  BY <1>3, EndsMoves, LetThroughMoves DEF SetWindow, Judge
<1>4. CASE AskOwner(c)
  BY <1>1, <1>4, EndsMoves, GoesMoves DEF AskOwner, Steps, QuietSteps, WithAccount
<1>5. CASE Store(c)
  <2>1. CASE Ends(c)
    BY <2>1, EndsMoves
  <2>2. CASE ~Ends(c)
    <3>1. PICK s \in Secrets :
            call' = [call EXCEPT ![c] = [call[c] EXCEPT !.at = "send", !.number = s]]
      BY <1>5, <2>2 DEF Store, Ends, TypeOK, RequestTypes
    <3> DEFINE gone == [call[c] EXCEPT !.at = "send", !.number = s]
    <3>2. s \in Nat
      BY CodesAssumption
    <3>3. "send" \in Steps
      BY DEF Steps
    <3>4. gone \in CallType /\ gone.at = "send"
      BY <1>1, <3>2, <3>3 DEF CallType
    <3> HIDE DEF gone
    <3>5. QED
      BY <3>1, <3>4, BusyOK DEF QuietMoves, QuietSteps, Steps, WithAccount, gone
  <2>3. QED
    BY <2>1, <2>2
<1>6. CASE Send(c) \/ Unsend(c)
  BY <1>6, EndsMoves DEF Send, Unsend
<1>7. QED
  BY <1>2, <1>3, <1>4, <1>5, <1>6 DEF MakesSecret

\* A request finds its account, or reads what it had not read.
LEMMA FindsMoves ==
  ASSUME TypeOK, NEW c \in Calls, NEW u \in Ids, NEW password \in Nat,
         NEW at \in {"setPassword", "mark", "addProfile", "bump"},
         \/ call' = [call EXCEPT ![c].at = at, ![c].id = u]
         \/ call[c].id = u /\ call' = [call EXCEPT ![c].at = at, ![c].password = password]
  PROVE  QuietMoves(c)
<1>1. call[c] \in CallType /\ c \in DOMAIN call /\ at \in Steps
  BY DEF TypeOK, RequestTypes, Steps
<1>2. \E r \in CallType : call' = [call EXCEPT ![c] = r] /\ r.at = at /\ r.id = u
  <2>1. CASE call[c].id = u /\ call' = [call EXCEPT ![c].at = at, ![c].password = password]
    <3> DEFINE r == [call[c] EXCEPT !.at = at, !.password = password]
    <3>1. r \in CallType /\ call' = [call EXCEPT ![c] = r] /\ r.at = at /\ r.id = u
      BY <1>1, <2>1 DEF CallType
    <3>2. QED
      BY <3>1
  <2>2. CASE \/ call' = [call EXCEPT ![c].at = at, ![c].id = u]
        <3> DEFINE r == [call[c] EXCEPT !.at = at, !.id = u]
    <3>1. r \in CallType /\ call' = [call EXCEPT ![c] = r] /\ r.at = at /\ r.id = u
      BY <1>1, <2>2 DEF CallType
    <3>2. QED
      BY <3>1
  <2>3. QED
    BY <2>1, <2>2
<1>3. QED
  BY <1>2, BusyOK DEF QuietMoves, QuietSteps, Steps

LEMMA UsesSecretMoves ==
  ASSUME TypeOK, NEW c \in Calls, UsesSecret(c)
  PROVE  QuietMoves(c)
<1>1. /\ call[c] \in CallType /\ RecordOK(call[c])
      /\ \A u \in Ids : account[u].password \in Nat
  BY DEF TypeOK, RequestTypes, SessionTypes, AccountType
<1>2. CASE Lapse(c) \/ Reject(c)
  BY <1>2, EndsMoves DEF Lapse, Reject
<1>3. CASE Accept(c)
  BY <1>3, GoesMoves DEF Accept, Steps, QuietSteps, WithAccount
<1>4. CASE LookupMail(c) \/ LookupOwner(c)
  <2>1. CASE Ends(c)
    BY <2>1, EndsMoves
  <2>2. CASE ~Ends(c)
    <3>1. PICK u \in Ids, at \in {"setPassword", "mark"} :
            call' = [call EXCEPT ![c].at = at, ![c].id = u]
      BY <1>4, <2>2 DEF LookupMail, LookupOwner
    <3>2. QED
      BY <3>1, FindsMoves
  <2>3. QED
    BY <2>1, <2>2
<1>5. CASE LookupPhone(c)
  <2>1. CASE \E u \in Ids : call' = [call EXCEPT ![c].at = "mark", ![c].id = u]
    BY <2>1, FindsMoves
  <2>2. CASE Goes(c, "create")
    BY <2>2, GoesMoves DEF Steps, QuietSteps, WithAccount
  <2>3. QED
    BY <1>5, <2>1, <2>2 DEF LookupPhone, Present
<1>6. CASE MarkMail(c)
  <2>1. call[c].id \in Ids
    BY <1>1, <1>6 DEF MarkMail, RecordOK, WithAccount
  <2>2. QED
    BY <1>1, <1>6, <2>1, EndsMoves, FindsMoves DEF MarkMail
<1>7. CASE MarkPhone(c)
  <2>1. call[c].id \in Ids
    BY <1>1, <1>7 DEF MarkPhone, RecordOK, WithAccount
  <2>2. QED
    BY <1>1, <1>7, <2>1, EndsMoves, FindsMoves DEF MarkPhone
<1>8. QED
  BY <1>2, <1>3, <1>4, <1>5, <1>6, <1>7 DEF UsesSecret

LEMMA ProceedsMoves ==
  ASSUME TypeOK, NEW c \in Calls, NEW u \in Ids, NEW driver, Proceeds(c, u, driver)
  PROVE  QuietMoves(c)
BY EndsMoves, FindsMoves DEF Proceeds

LEMMA AccountMoves ==
  ASSUME TypeOK, NEW c \in Calls, CreatesAccount(c) \/ ChangesAccount(c)
  PROVE  QuietMoves(c)
<1>1. RecordOK(call[c])
  BY DEF TypeOK
<1>2. CASE Create(c)
  BY <1>2, EndsMoves, ProceedsMoves DEF Create
<1>3. CASE AddProfile(c)
  BY <1>1, <1>3, ProceedsMoves DEF AddProfile, RecordOK, WithAccount
<1>4. CASE UndoProfile(c)
  BY <1>1, <1>4, GoesMoves DEF UndoProfile, RecordOK, WithAccount, Steps, QuietSteps
<1>5. CASE UndoUser(c) \/ Save(c) \/ Reseed(c)
  BY <1>5, EndsMoves DEF UndoUser, Save, Reseed
<1>6. QED
  BY <1>2, <1>3, <1>4, <1>5 DEF CreatesAccount, ChangesAccount

LEMMA FailsMoves ==
  ASSUME TypeOK, NEW c \in Calls, Fails(c)
  PROVE  QuietMoves(c)
<1>1. call[c] \in CallType /\ RecordOK(call[c]) /\ c \in DOMAIN call
  BY DEF TypeOK, RequestTypes
<1>2. call' = [call EXCEPT ![c] = Recovers(call[c])]
  BY <1>1 DEF Fails
<1>3. CASE Recovers(call[c]) = Idle
  BY <1>2, <1>3, EndsMoves DEF Ends
<1>4. ASSUME NEW at \in {"undoProfile", "undoUser", "unsend"},
             Recovers(call[c]) = [call[c] EXCEPT !.at = at],
             at \in WithAccount => call[c].id \in Ids
      PROVE  QuietMoves(c)
  <2>1. at \in QuietSteps \ {"idle", "count", "expire"} /\ Goes(c, at)
    BY <1>1, <1>2, <1>4 DEF Steps, QuietSteps, Goes
  <2>2. QED
    BY <1>4, <2>1, GoesMoves DEF QuietSteps
<1>5. \/ Recovers(call[c]) = Idle
      \/ \E at \in {"undoProfile", "undoUser"} :
           /\ Recovers(call[c]) = [call[c] EXCEPT !.at = at]
           /\ call[c].at \in WithAccount
      \/ Recovers(call[c]) = [call[c] EXCEPT !.at = "unsend"]
  BY DEF Recovers, WithAccount
<1>6. QED
  BY <1>1, <1>3, <1>4, <1>5 DEF RecordOK, WithAccount

-----------------------------------------------------------------------------
(* The types of what the steps write.                                      *)

LEMMA SetAccountType ==
  ASSUME TypeOK, NEW u \in Ids, NEW record \in AccountType, SetAccount(u, record)
  PROVE  account' \in [Ids -> AccountType]
BY DEF SetAccount, TypeOK, SessionTypes

LEMMA SetPastType ==
  ASSUME TypeOK, NEW u \in Ids, NEW record \in PastType, SetPast(u, record)
  PROVE  past' \in [Ids -> PastType]
BY DEF SetPast, TypeOK, SessionTypes

\* Tokens that are revoked, and one that is granted, keep their types.
TokensOK ==
  /\ token \in [Tokens -> TokenType]
  /\ \A t \in Tokens : token[t].state # "ABSENT" <=> token[t].owner \in Ids

LEMMA RevokedType ==
  ASSUME TypeOK, NEW u, token' = RevokeOf(u)
  PROVE  TokensOK'
BY DEF TypeOK, SessionTypes, TokensOK, TokenType, RevokeOf, LiveOf, Live

LEMMA GrantsType ==
  ASSUME TypeOK, NEW c \in Calls, Grants(c), call[c].id \in Ids
  PROVE  TokensOK' /\ past' \in [Ids -> PastType]
<1> DEFINE u == call[c].id
<1>1. /\ call[c].password \in Nat /\ past[u] \in PastType
  BY DEF TypeOK, RequestTypes, CallType, SessionTypes
<1>2. past[u].ended \in Nat
  BY <1>1 DEF PastType
<1>3. TokensOK'
  <2>1. PICK t \in Tokens :
          token' = [token EXCEPT ![t] = [owner |-> u, state |-> "LIVE",
                      password |-> call[c].password, granted |-> past[u].ended]]
    BY DEF Grants
  <2>2. [owner |-> u, state |-> "LIVE", password |-> call[c].password,
         granted |-> past[u].ended] \in TokenType
    BY <1>1, <1>2 DEF TokenType
  <2>3. QED
    BY <2>1, <2>2 DEF TokensOK, TypeOK, SessionTypes
<1>4. past' \in [Ids -> PastType]
  <2>1. PICK b \in BOOLEAN : SetPast(u, [past[u] EXCEPT !.split = b])
    BY <1>1 DEF Grants, PastType
  <2>2. [past[u] EXCEPT !.split = b] \in PastType
    BY <1>1 DEF PastType
  <2>3. QED
    BY <2>1, <2>2, SetPastType
<1>5. QED
  BY <1>3, <1>4

LEMMA SignsType ==
  ASSUME TypeOK, NEW c \in Calls, NEW version \in Nat, Signs(c, version), call[c].id \in Ids
  PROVE  access' \subseteq [owner : Ids, version : Nat]
BY DEF Signs, TypeOK, SessionTypes

SessionsOK == SessionTypes /\ TokensOK

LEMMA SessionStepTypes ==
  ASSUME TypeOK, NEW c \in Calls, OpensSession(c) \/ Rotates(c) \/ EndsSessions(c)
  PROVE  SessionsOK'
<1> DEFINE u == call[c].id
<1>1. u \in Ids /\ call[c].version \in Nat
  BY DEF TypeOK, RequestTypes, RecordOK, WithAccount, OpensSession, Rotates, EndsSessions,
         Bump, Revoke, Grant, Retire, Regrant, Reread, Close, SetPassword, RevokeAll, CallType
<1>2. /\ account[u] \in AccountType /\ past[u] \in PastType
      /\ account[u].version \in Nat /\ account[u].password \in Nat /\ past[u].ended \in Nat
  BY <1>1 DEF TypeOK, SessionTypes, AccountType, PastType
<1>3. /\ [account[u] EXCEPT !.version = @ + 1] \in AccountType
      /\ [account[u] EXCEPT !.password = @ + 1, !.version = @ + 1] \in AccountType
      /\ [past[u] EXCEPT !.opened = TRUE] \in PastType
      /\ [past[u] EXCEPT !.opened = FALSE] \in PastType
      /\ [past[u] EXCEPT !.split = FALSE] \in PastType
      /\ [past[u] EXCEPT !.ended = @ + 1, !.split = FALSE] \in PastType
      /\ [past[u] EXCEPT !.opened = FALSE, !.ended = @ + 1, !.split = FALSE] \in PastType
  <2> DEFINE a == account[u]
             p == past[u]
  <2>1. /\ a \in AccountType /\ a.version + 1 \in Nat /\ a.password + 1 \in Nat
        /\ p \in PastType /\ p.ended + 1 \in Nat
    BY <1>2
  <2> HIDE DEF a, p
  <2>2. /\ [a EXCEPT !.version = @ + 1] \in AccountType
        /\ [a EXCEPT !.password = @ + 1, !.version = @ + 1] \in AccountType
    BY <2>1 DEF AccountType
  <2>3. /\ [p EXCEPT !.opened = TRUE] \in PastType
        /\ [p EXCEPT !.opened = FALSE] \in PastType
        /\ [p EXCEPT !.split = FALSE] \in PastType
    BY <2>1 DEF PastType
  <2>4. /\ [p EXCEPT !.ended = @ + 1, !.split = FALSE] \in PastType
        /\ [p EXCEPT !.opened = FALSE, !.ended = @ + 1, !.split = FALSE] \in PastType
    BY <2>1 DEF PastType
  <2>5. QED
    BY <2>2, <2>3, <2>4 DEF a, p
<1>4. SessionsOK
  BY DEF TypeOK, SessionsOK, TokensOK, SessionTypes
<1>5. CASE Bump(c)
  <2>1. account' \in [Ids -> AccountType] /\ past' \in [Ids -> PastType]
    BY <1>1, <1>3, <1>4, <1>5, SetAccountType, SetPastType
    DEF Bump, SessionsOK, SessionTypes
  <2>2. QED
    BY <1>4, <1>5, <2>1 DEF Bump, SessionsOK, SessionTypes, TokensOK
<1>6. CASE Revoke(c)
  <2>1. past' \in [Ids -> PastType]
    BY <1>1, <1>3, <1>6, SetPastType DEF Revoke
  <2>2. QED
    BY <1>4, <1>6, <2>1, RevokedType DEF Revoke, SessionsOK, SessionTypes, TokensOK
<1>7. CASE Grant(c)
  BY <1>1, <1>4, <1>7, GrantsType, SignsType DEF Grant, SessionsOK, SessionTypes, TokensOK
<1>8. CASE Retire(c)
  <2>1. token' \in [Tokens -> TokenType]
    BY <1>4, <1>8 DEF Retire, SessionsOK, SessionTypes, TokenType
  <2>2. \A t \in Tokens : token'[t].state # "ABSENT" <=> token'[t].owner \in Ids
    BY <1>1, <1>4, <1>8 DEF Retire, SessionsOK, SessionTypes, TokensOK, TokenType, TypeOK
  <2>3. QED
    BY <1>4, <1>8, <2>1, <2>2 DEF Retire, SessionsOK, SessionTypes, TokensOK
<1>9. CASE Regrant(c)
  BY <1>1, <1>4, <1>9, GrantsType DEF Regrant, SessionsOK, SessionTypes, TokensOK
<1>10. CASE Reread(c)
  BY <1>1, <1>2, <1>4, <1>10, SignsType DEF Reread, SessionsOK, SessionTypes, TokensOK
<1>11. CASE Close(c)
  <2>1. account' \in [Ids -> AccountType] /\ past' \in [Ids -> PastType]
    BY <1>1, <1>3, <1>4, <1>11, SetAccountType, SetPastType
    DEF Close, SessionsOK, SessionTypes
  <2>2. TokensOK'
    BY <1>4, <1>11, RevokedType DEF Close, SessionsOK, TokensOK
  <2>3. QED
    BY <1>4, <1>11, <2>1, <2>2 DEF Close, SessionsOK, SessionTypes, TokensOK
<1>12. CASE SetPassword(c)
  <2>1. account' \in [Ids -> AccountType] /\ past' \in [Ids -> PastType]
    BY <1>1, <1>3, <1>4, <1>12, SetAccountType, SetPastType
    DEF SetPassword, SessionsOK, SessionTypes
  <2>2. QED
    BY <1>4, <1>12, <2>1 DEF SetPassword, SessionsOK, SessionTypes, TokensOK
<1>13. CASE RevokeAll(c)
  <2>1. past' \in [Ids -> PastType]
    BY <1>1, <1>3, <1>13, SetPastType DEF RevokeAll
  <2>2. TokensOK'
    BY <1>13, RevokedType DEF RevokeAll
  <2>3. QED
    BY <1>4, <1>13, <2>1, <2>2 DEF RevokeAll, SessionsOK, SessionTypes, TokensOK
<1>14. QED
  BY <1>5, <1>6, <1>7, <1>8, <1>9, <1>10, <1>11, <1>12, <1>13
  DEF OpensSession, Rotates, EndsSessions

\* The records that are written.
LEMMA CreatedType ==
  ASSUME NEW m \in Mails \cup {None}, NEW p \in Phones \cup {None}, NEW n \in {0, 1},
         NEW role \in {"PASSENGER", "DRIVER"}
  PROVE  [NoAccount EXCEPT !.status = "ACTIVE", !.mail = m, !.phone = p, !.role = role,
                           !.password = n] \in AccountType
<1>1. NoAccount \in AccountType /\ n \in Nat
  BY DEF NoAccount, AccountType
<1>2. QED
  BY <1>1 DEF AccountType

LEMMA ChangedTypes ==
  ASSUME NEW a \in AccountType, NEW p \in PastType, NEW m \in Mails \cup {None},
         NEW b \in BOOLEAN
  PROVE  /\ [a EXCEPT !.mail = m, !.verified = b] \in AccountType
         /\ [a EXCEPT !.mail = m] \in AccountType
         /\ [a EXCEPT !.verified = b] \in AccountType
         /\ [a EXCEPT !.profile = b] \in AccountType
         /\ [p EXCEPT !.overtaken = b] \in PastType
<1>1. [a EXCEPT !.mail = m, !.verified = b] \in AccountType
  BY DEF AccountType
<1>2. [a EXCEPT !.mail = m] \in AccountType /\ [a EXCEPT !.verified = b] \in AccountType
        /\ [a EXCEPT !.profile = b] \in AccountType
  BY DEF AccountType
<1>3. [p EXCEPT !.overtaken = b] \in PastType
  BY DEF PastType
<1>4. QED
  BY <1>1, <1>2, <1>3

LEMMA ProvenType ==
  ASSUME NEW p \in PastType, NEW x \in Mails \cup Phones \cup {None}
  PROVE  [p EXCEPT !.proven = @ \cup {x}] \in PastType
<1>1. p.proven \cup {x} \in SUBSET (Mails \cup Phones \cup {None})
  BY DEF PastType
<1>2. QED
  BY <1>1 DEF PastType

\* Every other step leaves the tokens alone, and writes accounts of the type.
AccountSteps(c) ==
  \/ Create(c) \/ AddProfile(c) \/ UndoProfile(c) \/ UndoUser(c)
  \/ MarkMail(c) \/ MarkPhone(c) \/ Save(c) \/ Reseed(c)

LEMMA AccountStepTypes ==
  ASSUME TypeOK, NEW c \in Calls, AccountSteps(c)
  PROVE  /\ account' \in [Ids -> AccountType] /\ past' \in [Ids -> PastType]
         /\ UNCHANGED <<token, access>>
<1> DEFINE u == call[c].id
           mail == call[c].mail
<1>1. /\ mail \in Mails \cup {None} /\ call[c].phone \in Phones \cup {None}
      /\ call[c].role \in {"PASSENGER", "DRIVER"}
      /\ account \in [Ids -> AccountType] /\ past \in [Ids -> PastType]
  BY DEF TypeOK, RequestTypes, CallType, SessionTypes
<1>2. CASE Create(c)
  <2>1. CASE \E x \in Ids :
               /\ SetAccount(x, [NoAccount EXCEPT !.status = "ACTIVE",
                    !.mail = call[c].mail, !.phone = call[c].phone,
                    !.role = call[c].role,
                    !.password = IF call[c].op = "proveSms" THEN 0 ELSE 1])
               /\ SetPast(x, [NoPast EXCEPT !.signedUp = call[c].op = "signup",
                    !.proven = IF call[c].op = "proveSms" THEN {call[c].phone} ELSE {}])
    <3>1. PICK x \in Ids, n \in {0, 1}, b \in BOOLEAN,
               q \in SUBSET (Mails \cup Phones \cup {None}) :
            /\ SetAccount(x, [NoAccount EXCEPT !.status = "ACTIVE", !.mail = call[c].mail,
                 !.phone = call[c].phone, !.role = call[c].role, !.password = n])
            /\ SetPast(x, [NoPast EXCEPT !.signedUp = b, !.proven = q])
      BY <1>1, <2>1
    <3>2. [NoAccount EXCEPT !.status = "ACTIVE", !.mail = call[c].mail,
             !.phone = call[c].phone, !.role = call[c].role, !.password = n]
            \in AccountType
      BY <1>1, CreatedType
    <3>3. [NoPast EXCEPT !.signedUp = b, !.proven = q] \in PastType
      BY DEF NoPast, PastType
    <3>4. QED
      BY <1>2, <3>1, <3>2, <3>3, SetAccountType, SetPastType DEF Create
  <2>2. QED
    BY <1>1, <1>2, <2>1 DEF Create
<1>3. CASE AddProfile(c) \/ UndoProfile(c) \/ UndoUser(c)
  <2>1. u \in Ids
    BY <1>3 DEF AddProfile, UndoProfile, UndoUser, TypeOK, RecordOK, WithAccount
  <2>2. /\ \A b \in BOOLEAN : [account[u] EXCEPT !.profile = b] \in AccountType
        /\ [account[u] EXCEPT !.status = "DELETED"] \in AccountType
    BY <1>1, <2>1 DEF AccountType
  <2>3. QED
    BY <1>1, <1>3, <2>1, <2>2, SetAccountType DEF AddProfile, UndoProfile, UndoUser
<1>4. CASE MarkMail(c) \/ MarkPhone(c)
  <2>1. u \in Ids
    BY <1>4 DEF MarkMail, MarkPhone, TypeOK, RecordOK, WithAccount
  <2>2. /\ [account[u] EXCEPT !.verified = TRUE] \in AccountType
        /\ [past[u] EXCEPT !.proven = @ \cup {mail}] \in PastType
        /\ [past[u] EXCEPT !.proven = @ \cup {call[c].phone}] \in PastType
    <3>1. account[u] \in AccountType /\ past[u] \in PastType
      BY <1>1, <2>1
    <3>2. QED
      BY <1>1, <3>1, ChangedTypes, ProvenType
  <2>3. QED
    BY <1>1, <1>4, <2>1, <2>2, SetAccountType, SetPastType DEF MarkMail, MarkPhone
<1>5. CASE Save(c) \/ Reseed(c)
  <2>1. u \in Ids
    BY <1>5 DEF Save, Reseed, TypeOK, RecordOK, WithAccount
  <2>2. /\ \A m \in Mails \cup {None}, b \in BOOLEAN :
             [account[u] EXCEPT !.mail = m, !.verified = b] \in AccountType
        /\ \A m \in Mails : [account[u] EXCEPT !.mail = m] \in AccountType
        /\ \A b \in BOOLEAN : [past[u] EXCEPT !.overtaken = b] \in PastType
    <3>1. account[u] \in AccountType /\ past[u] \in PastType
      BY <1>1, <2>1
    <3>2. QED
      BY <3>1, ChangedTypes
  <2>3. account[u].verified \in BOOLEAN /\ past[u].overtaken \in BOOLEAN
    BY <1>1, <2>1 DEF AccountType, PastType
  <2>4. CASE Save(c)
    <3>1. CASE UNCHANGED <<account, past>>
      BY <1>1, <2>4, <3>1 DEF Save
    <3>2. CASE ~UNCHANGED <<account, past>>
      <4>1. PICK v \in BOOLEAN, b \in BOOLEAN :
              /\ SetAccount(u, [account[u] EXCEPT !.mail = mail, !.verified = v])
              /\ SetPast(u, [past[u] EXCEPT !.overtaken = b])
        BY <2>1, <2>3, <2>4, <3>2 DEF Save
      <4>2. QED
        BY <1>1, <2>1, <2>2, <2>4, <4>1, SetAccountType, SetPastType DEF Save
    <3>3. QED
      BY <3>1, <3>2
  <2>5. CASE Reseed(c)
    BY <1>1, <2>1, <2>2, <2>5, SetAccountType, SetPastType, ScenariosAssumption DEF Reseed
  <2>6. QED
    BY <1>5, <2>4, <2>5
<1>6. QED
  BY <1>2, <1>3, <1>4, <1>5 DEF AccountSteps

-----------------------------------------------------------------------------
(* The types of the store and of secrets.                                  *)

LEMMA PutType ==
  ASSUME TypeOK, NEW k, NEW entry \in Entry, Put(k, entry)
  PROVE  store' \in [Keys -> Entry]
BY DEF Put, TypeOK, CodeTypes

\* A value put under a key that the store does not have changes nothing.
LEMMA PutOutside ==
  ASSUME TypeOK, NEW k, k \notin Keys, NEW entry, Put(k, entry)
  PROVE  store' \in [Keys -> Entry]
BY DEF Put, TypeOK, CodeTypes

LEMMA EntryChanges ==
  ASSUME NEW entry \in Entry, NEW b \in BOOLEAN
  PROVE  /\ [entry EXCEPT !.number = @ + 1, !.ttl = b] \in Entry
         /\ [entry EXCEPT !.ttl = b] \in Entry
<1>1. [entry EXCEPT !.ttl = b] \in Entry
  BY DEF Entry
<1>2. [entry EXCEPT !.number = @ + 1] \in Entry
  BY DEF Entry
<1>3. [entry EXCEPT !.number = @ + 1, !.ttl = b]
        = [[entry EXCEPT !.number = @ + 1] EXCEPT !.ttl = b]
  BY DEF Entry
<1>4. [[entry EXCEPT !.number = @ + 1] EXCEPT !.ttl = b] \in Entry
  BY <1>2 DEF Entry
<1>5. QED
  BY <1>1, <1>3, <1>4

LEMMA StoreOpsType ==
  ASSUME TypeOK, NEW k
  PROVE  /\ \A n, tries \in Nat : SetEx(k, n, tries) => store' \in [Keys -> Entry]
         /\ Del(k) \/ Incr(k) \/ Expire(k) => store' \in [Keys -> Entry]
<1>1. \A n, tries \in Nat : SetEx(k, n, tries) => store' \in [Keys -> Entry]
  BY PutType DEF SetEx, Entry
<1>2. Del(k) => store' \in [Keys -> Entry]
  BY PutType DEF Del, Absent, Entry
<1>3. CASE k \notin Keys
  BY <1>1, <1>2, <1>3, PutOutside DEF Incr, Expire
<1>4. CASE k \in Keys
  <2>1. store[k] \in Entry
    BY <1>4 DEF TypeOK, CodeTypes
  <2>2. PICK b \in BOOLEAN : b = (store[k].ttl /\ backing = "redis")
    OBVIOUS
  <2>3. [store[k] EXCEPT !.number = @ + 1, !.ttl = b] \in Entry
    BY <2>1, EntryChanges
  <2>4. Incr(k) => Put(k, [store[k] EXCEPT !.number = @ + 1, !.ttl = b])
    BY <2>2 DEF Incr
  <2>5. PICK h \in BOOLEAN : h = Holds(k)
    BY DEF Holds
  <2>6. [store[k] EXCEPT !.ttl = h] \in Entry
    BY <2>1, EntryChanges
  <2>7. Expire(k) => Put(k, [store[k] EXCEPT !.ttl = h])
    BY <2>5 DEF Expire
  <2>8. QED
    BY <1>1, <1>2, <2>3, <2>4, <2>6, <2>7, PutType
<1>5. QED
  BY <1>3, <1>4

\* Requests that pass a counter, or do not.
LEMMA JudgeType ==
  ASSUME TypeOK, NEW c \in Calls, NEW n, Judge(c, n)
  PROVE  passed' \in [WindowKeys -> Nat]
BY DEF Judge, LetThrough, TypeOK, CodeTypes

SecretsOK ==
  /\ secret \in [Secrets -> SecretType]
  /\ \A s \in Secrets : secret[s].kind = "reset" => secret[s].address \in Mails

LEMMA RecordType ==
  ASSUME TypeOK, NEW s, NEW record, secret' = [secret EXCEPT ![s] = record],
         s \in Secrets => /\ record \in SecretType
                          /\ record.kind = secret[s].kind
                          /\ record.address = secret[s].address
  PROVE  SecretsOK'
BY DEF TypeOK, CodeTypes, SecretsOK

CodesOK == CodeTypes /\ SecretsOK

LEMMA MakesSecretTypes ==
  ASSUME TypeOK, NEW c \in Calls, MakesSecret(c)
  PROVE  CodesOK' /\ UNCHANGED sessionVars
<1>1. CodesOK /\ call[c].number \in Nat /\ RecordOK(call[c])
  BY DEF TypeOK, CodesOK, CodeTypes, SecretsOK, RequestTypes, CallType
<1> USE DEF CodesOK, CodeTypes, SecretsOK
<1>2. CASE Count(c)
  BY <1>1, <1>2, StoreOpsType, JudgeType DEF Count
<1>3. CASE SetWindow(c)
  BY <1>1, <1>3, StoreOpsType, JudgeType DEF SetWindow
<1>4. CASE AskOwner(c)
  BY <1>1, <1>4 DEF AskOwner, codeVars, sessionVars
<1>5. CASE Store(c)
  <2> DEFINE kind == SecretKind[call[c].op]
             address == IF kind = "sms" THEN call[c].phone ELSE call[c].mail
             made(b) == [NoSecret EXCEPT !.kind = kind, !.address = address,
                                      !.given = GivenAtOnce(kind), !.contested = b]
  <2>1. PICK s \in Secrets, b \in BOOLEAN :
          /\ SetEx(SecretKey(kind, address, s), s, 0)
          /\ secret' = [secret EXCEPT ![s] = made(b)]
    BY <1>5 DEF Store
  <2>2. kind \in {"mail", "sms", "reset"} /\ address \in Mails \cup Phones
          /\ (kind = "reset" => address \in Mails)
    BY <1>1, <1>5 DEF Store, RecordOK, SecretKind
  <2>3. made(b) \in SecretType /\ made(b).kind = kind /\ made(b).address = address
    <3> HIDE DEF kind, address
    <3>1. NoSecret \in SecretType /\ GivenAtOnce(kind) \in BOOLEAN
      BY DEF NoSecret, SecretType, GivenAtOnce
    <3>2. QED
      BY <2>2, <3>1 DEF SecretType
  <2>4. s \in Nat
    BY CodesAssumption
  <2> HIDE DEF made, kind, address
  <2>5. SecretsOK'
    BY <1>1, <2>1, <2>2, <2>3
  <2>6. store' \in [Keys -> Entry]
    BY <2>1, <2>4, StoreOpsType
  <2>7. QED
    BY <1>1, <1>5, <2>5, <2>6 DEF Store
<1>6. CASE Send(c)
  <2>1. SecretsOK'
    BY <1>1, <1>6 DEF Send, SecretType
  <2>2. QED
    BY <1>1, <1>6, <2>1 DEF Send
<1>7. CASE Unsend(c)
  BY <1>1, <1>7, StoreOpsType DEF Unsend
<1>8. QED
  BY <1>2, <1>3, <1>4, <1>5, <1>6, <1>7 DEF MakesSecret

LEMMA UsesSecretTypes ==
  ASSUME TypeOK, NEW c \in Calls, UsesSecret(c), ~MarkMail(c), ~MarkPhone(c)
  PROVE  CodesOK' /\ UNCHANGED sessionVars
<1>1. /\ CodesOK /\ call[c].number \in Nat /\ call[c].tries \in Nat
      /\ \A s \in Secrets : secret[s] \in SecretType
  BY DEF TypeOK, CodesOK, CodeTypes, SecretsOK, RequestTypes, CallType
<1>2. ASSUME NEW s \in Secrets
      PROVE  /\ [secret[s] EXCEPT !.wrong = @ + 1] \in SecretType
             /\ [secret[s] EXCEPT !.wrong = @ + 1].kind = secret[s].kind
             /\ [secret[s] EXCEPT !.wrong = @ + 1].address = secret[s].address
             /\ [secret[s] EXCEPT !.accepted = @ + 1] \in SecretType
             /\ [secret[s] EXCEPT !.accepted = @ + 1].kind = secret[s].kind
             /\ [secret[s] EXCEPT !.accepted = @ + 1].address = secret[s].address
  BY <1>1 DEF SecretType
<1> USE DEF CodesOK, CodeTypes
<1>3. CASE Lapse(c)
  <2>1. SecretsOK'
    BY <1>1, <1>3, RecordType DEF Lapse, Then
  <2>2. QED
    BY <1>1, <1>3, <2>1, StoreOpsType DEF Lapse, Then, SecretsOK
<1>4. CASE Reject(c)
  <2>1. SecretsOK'
    BY <1>1, <1>2, <1>4, RecordType DEF Reject, Then
  <2>2. store' \in [Keys -> Entry]
    <3>1. call[c].tries + 1 \in Nat
      BY <1>1
    <3>2. \/ Del(CallKey(c))
          \/ SetEx(CallKey(c), call[c].number, call[c].tries + 1)
      BY <1>4 DEF Reject
    <3>3. QED
      BY <1>1, <3>1, <3>2, StoreOpsType
  <2>3. QED
    BY <1>1, <1>4, <2>1, <2>2 DEF Reject, Then, SecretsOK
<1>5. CASE Accept(c)
  <2>1. SecretsOK'
    BY <1>1, <1>2, <1>5, RecordType DEF Accept, Then
  <2>2. QED
    BY <1>1, <1>5, <2>1, StoreOpsType DEF Accept, Then, SecretsOK
<1>6. CASE LookupMail(c) \/ LookupOwner(c) \/ LookupPhone(c)
  BY <1>1, <1>6 DEF LookupMail, LookupOwner, LookupPhone, codeVars, SecretsOK
<1>7. QED
  BY <1>3, <1>4, <1>5, <1>6 DEF UsesSecret

-----------------------------------------------------------------------------
(* Every step keeps the types.                                             *)

\* A refresh token keeps its owner.
OwnersKept ==
  \A t \in Tokens : token[t].state # "ABSENT" =>
    token'[t].owner = token[t].owner /\ token'[t].state # "ABSENT"

RequestsOK ==
  /\ RequestTypes
  /\ \A c \in Calls : RecordOK(call[c])
  /\ \A c \in Calls : call[c].at = "retire" =>
       call[c].token \in Tokens /\ token[call[c].token].owner = call[c].id

LEMMA TypesTogether == TypeOK <=> SessionsOK /\ CodesOK /\ RequestsOK
BY DEF TypeOK, SessionsOK, TokensOK, SessionTypes, CodesOK, SecretsOK, CodeTypes, RequestsOK

LEMMA UnchangedTypes ==
  ASSUME TypeOK
  PROVE  /\ UNCHANGED sessionVars => SessionsOK' /\ OwnersKept
         /\ UNCHANGED codeVars => CodesOK'
<1>1. SessionsOK /\ CodesOK
  BY TypesTogether
<1>2. ASSUME UNCHANGED sessionVars
      PROVE  SessionsOK' /\ OwnersKept
  BY <1>1, <1>2 DEF sessionVars, SessionsOK, SessionTypes, TokensOK, OwnersKept
<1>3. ASSUME UNCHANGED codeVars
      PROVE  CodesOK'
  BY <1>1, <1>3 DEF codeVars, CodesOK, CodeTypes, SecretsOK
<1>4. QED
  BY <1>2, <1>3

LEMMA SessionOwners ==
  ASSUME TypeOK, NEW c \in Calls, OpensSession(c) \/ Rotates(c) \/ EndsSessions(c)
  PROVE  OwnersKept
<1>1. TokensOK /\ token \in [Tokens -> TokenType]
  BY TypesTogether DEF SessionsOK, TokensOK
<1>2. \A u : token' = RevokeOf(u) => OwnersKept
  BY <1>1 DEF RevokeOf, OwnersKept, TokenType, LiveOf, Live
<1>3. Grants(c) => OwnersKept
  BY <1>1 DEF Grants, OwnersKept
<1>4. Retire(c) => OwnersKept
  BY <1>1 DEF Retire, OwnersKept, TokenType
<1>5. UNCHANGED token => OwnersKept
  BY DEF OwnersKept
<1>6. QED
  BY <1>2, <1>3, <1>4, <1>5
  DEF OpensSession, Rotates, EndsSessions, Bump, Revoke, Grant, Regrant, Reread, Close,
      SetPassword, RevokeAll

LEMMA MovesOK ==
  ASSUME TypeOK, NEW c \in Calls, Moves(c), OwnersKept, UNCHANGED <<scenario, crashed>>,
         faults' \in Nat
  PROVE  RequestsOK'
<1>1. PICK r \in CallType : RecordOK(r) /\ r.at # "retire" /\ call' = [call EXCEPT ![c] = r]
  BY DEF Moves
<1>2. RequestsOK /\ TokensOK
  BY TypesTogether DEF SessionsOK
<1>3. RequestTypes' /\ \A d \in Calls : RecordOK(call'[d])
  BY <1>1, <1>2 DEF RequestsOK, RequestTypes
<1>4. ASSUME NEW d \in Calls, call'[d].at = "retire"
      PROVE  call'[d].token \in Tokens /\ token'[call'[d].token].owner = call'[d].id
  <2>1. d # c /\ call'[d] = call[d]
    BY <1>1, <1>2, <1>4 DEF RequestsOK, RequestTypes
  <2>2. /\ call[d].token \in Tokens /\ token[call[d].token].owner = call[d].id
        /\ call[d].id \in Ids
    BY <1>2, <1>4, <2>1 DEF RequestsOK, RecordOK, WithAccount
  <2>3. token[call[d].token].state # "ABSENT"
    BY <1>2, <2>2 DEF TokensOK
  <2>4. QED
    BY <2>1, <2>2, <2>3 DEF OwnersKept
<1>5. QED
  BY <1>3, <1>4 DEF RequestsOK, RecordOK

\* Only a rotation arrives at "retire".
LEMMA ArrivingRetires ==
  ASSUME TypeOK, NEW c \in Calls, Arriving(c), call'[c].at = "retire"
  PROVE  call'[c].token \in Tokens /\ token[call'[c].token].owner = call'[c].id
<1>1. c \in DOMAIN call
  BY DEF TypeOK, RequestTypes
<1>2. ASSUME NEW r, Begins(c, r)
      PROVE  call'[c] = r
  BY <1>1, <1>2 DEF Begins
<1>3. \A m, p, role : ~Signup(c, m, p, role)
  BY <1>2 DEF Signup, Idle
<1>4. \A u : ~LoginFind(c, u)
  BY <1>2 DEF LoginFind, Idle
<1>5. \A t : ~LogoutRead(c, t)
  BY <1>2 DEF LogoutRead, Idle
<1>6. \A op, m, p : ~AskBegins(c, op, m, p)
  BY <1>2 DEF AskBegins, Idle
<1>7. ASSUME NEW k, NEW right, NEW record, UseRead(c, k, right, record),
             "at" \in DOMAIN record, record \in CallType
      PROVE  FALSE
  <2> DEFINE read == [record EXCEPT !.number = store[k].number, !.tries = store[k].tries,
                                    !.right = right]
  <2>1. "at" \in DOMAIN read
    BY <1>7
  <2>2. Begins(c, Judged(read, secret[store[k].number].aged))
    BY <1>7 DEF UseRead
  <2> HIDE DEF read
  <2>3. PICK at \in {"lapse", "accept", "reject"} :
          Judged(read, secret[store[k].number].aged) = [read EXCEPT !.at = at]
    BY JudgedShape
  <2>4. [read EXCEPT !.at = at].at = at
    BY <2>1
  <2>5. QED
    BY <1>2, <2>2, <2>3, <2>4
<1>8. \A u, m : ~ProfileRead(c, u, m)
  BY <1>2 DEF ProfileRead, Idle
<1>9. ~SeedFind(c)
  BY <1>2 DEF SeedFind, Idle
<1>10. /\ \A m \in Mails : \A right : ~ProveMail(c, m, right)
       /\ \A p \in Phones, role \in {"PASSENGER", "DRIVER"} : \A right : ~ProveSms(c, p, role, right)
       /\ \A s \in Secrets : ~UseReset(c, s)
  <2>1. ASSUME NEW m \in Mails
        PROVE  LET r == [Idle EXCEPT !.op = "proveMail", !.mail = m]
               IN "at" \in DOMAIN r /\ r \in CallType
    BY DEF Idle, CallType, Endpoints, Steps
  <2>2. ASSUME NEW p \in Phones, NEW role \in {"PASSENGER", "DRIVER"}
        PROVE  LET r == [Idle EXCEPT !.op = "proveSms", !.phone = p, !.role = role]
               IN "at" \in DOMAIN r /\ r \in CallType
    BY DEF Idle, CallType, Endpoints, Steps
  <2>3. ASSUME NEW m \in Mails
        PROVE  LET r == [Idle EXCEPT !.op = "reset", !.mail = m]
               IN "at" \in DOMAIN r /\ r \in CallType
    BY DEF Idle, CallType, Endpoints, Steps
  <2>4. \A m \in Mails : \A right : ~ProveMail(c, m, right)
    BY <1>7, <2>1 DEF ProveMail
  <2>5. \A p \in Phones, role \in {"PASSENGER", "DRIVER"} : \A right : ~ProveSms(c, p, role, right)
    BY <1>7, <2>2 DEF ProveSms
  <2>6. \A s \in Secrets : ~UseReset(c, s)
    BY <1>7, <2>3 DEF UseReset, TypeOK
  <2>7. QED
    BY <2>4, <2>5, <2>6
<1>11. PICK t \in Tokens : RotateRead(c, t)
  BY <1>3, <1>4, <1>5, <1>6, <1>8, <1>9, <1>10
  DEF Arriving, Arrives, CodeRoutes, AccountRoutes, SomeMails, SomePhones, Starts, AskMail,
      AskSms, AskReset
<1>12. call'[c] = [Idle EXCEPT !.op = "rotate", !.at = "retire", !.token = t,
                     !.id = token[t].owner, !.password = token[t].password]
  BY <1>2, <1>11 DEF RotateRead
<1>13. QED
  BY <1>12 DEF Idle

LEMMA ArrivingTypes ==
  ASSUME TypeOK, NEW c \in Calls, Arriving(c), Calm
  PROVE  TypeOK'
<1>1. UNCHANGED sessionVars /\ SessionsOK' /\ CodesOK'
  BY ArrivingShape, UnchangedTypes, TypesTogether
  DEF OnlyShared, CodesOK, CodeTypes, SecretsOK
<1>2. PICK r \in CallType : RecordOK(r) /\ call' = [call EXCEPT ![c] = r]
  BY ArrivingOK DEF Begins
<1>3. RequestsOK
  BY TypesTogether
<1>4. RequestTypes' /\ \A d \in Calls : RecordOK(call'[d])
  BY <1>2, <1>3 DEF RequestsOK, RequestTypes, Calm
<1>5. ASSUME NEW d \in Calls, call'[d].at = "retire"
      PROVE  call'[d].token \in Tokens /\ token'[call'[d].token].owner = call'[d].id
  <2>1. token' = token
    BY <1>1 DEF sessionVars
  <2>2. CASE d = c
    BY <1>5, <2>1, <2>2, ArrivingRetires
  <2>3. CASE d # c
    BY <1>2, <1>3, <1>5, <2>1, <2>3 DEF RequestsOK, RequestTypes
  <2>4. QED
    BY <2>2, <2>3
<1>6. RequestsOK'
  BY <1>4, <1>5 DEF RequestsOK, RecordOK
<1>7. QED
  BY <1>1, <1>6, TypesTogether, PTL

LEMMA GoesOnTypes ==
  ASSUME TypeOK, NEW c \in Calls, GoesOn(c), Calm
  PROVE  TypeOK' /\ OwnersKept
<1> SUFFICES SessionsOK' /\ CodesOK' /\ OwnersKept /\ Moves(c)
  <2>1. TypeOK' <=> SessionsOK' /\ CodesOK' /\ RequestsOK'
    BY TypesTogether, PTL
  <2>2. faults' \in Nat
    BY DEF Calm, TypeOK, RequestTypes
  <2>3. QED
    BY <2>1, <2>2, MovesOK DEF Calm
<1>1. CASE (OpensSession(c) \/ Rotates(c) \/ EndsSessions(c)) /\ UNCHANGED codeVars
  BY <1>1, SessionStepTypes, SessionOwners, UnchangedTypes, OpensSessionMoves, RotatesMoves,
     EndsSessionsMoves, QuietMovesMoves
<1>2. CASE MakesSecret(c)
  BY <1>2, MakesSecretTypes, MakesSecretMoves, QuietMovesMoves, UnchangedTypes
<1>3. CASE UsesSecret(c) /\ ~MarkMail(c) /\ ~MarkPhone(c)
  BY <1>3, UsesSecretTypes, UsesSecretMoves, QuietMovesMoves, UnchangedTypes
<1>4. CASE AccountSteps(c)
  <2>1. SessionsOK' /\ OwnersKept
    <3>1. SessionsOK
      BY TypesTogether
    <3>2. QED
      BY <1>4, <3>1, AccountStepTypes DEF SessionsOK, SessionTypes, TokensOK, OwnersKept
  <2>2. CodesOK'
    BY <1>4, UnchangedTypes
    DEF AccountSteps, Create, AddProfile, UndoProfile, UndoUser, MarkMail, MarkPhone, Save,
        Reseed
  <2>3. Moves(c)
    BY <1>4, UsesSecretMoves, AccountMoves, QuietMovesMoves
    DEF AccountSteps, UsesSecret, CreatesAccount, ChangesAccount
  <2>4. QED
    BY <2>1, <2>2, <2>3
<1>5. QED
  BY <1>1, <1>2, <1>3, <1>4 DEF GoesOn, CreatesAccount, ChangesAccount, AccountSteps

LEMMA StandingRequests ==
  ASSUME TypeOK, OwnersKept, UNCHANGED call, Calm
  PROVE  RequestsOK'
<1>1. RequestsOK /\ TokensOK
  BY TypesTogether DEF SessionsOK
<1>2. ASSUME NEW d \in Calls, call[d].at = "retire"
      PROVE  call[d].token \in Tokens /\ token'[call[d].token].owner = call[d].id
  <2>1. /\ call[d].token \in Tokens /\ token[call[d].token].owner = call[d].id
        /\ call[d].id \in Ids
    BY <1>1, <1>2 DEF RequestsOK, RecordOK, WithAccount
  <2>2. QED
    BY <1>1, <2>1 DEF TokensOK, OwnersKept
<1>3. QED
  BY <1>1, <1>2 DEF RequestsOK, RequestTypes, RecordOK, Calm

LEMMA SuspendsTypes ==
  ASSUME TypeOK, Suspends, Calm
  PROVE  TypeOK' /\ OwnersKept
<1>1. PICK u \in Ids : SetStatus(u)
  BY DEF Suspends
<1>2. account[u] \in AccountType
  BY DEF TypeOK, SessionTypes
<1>3. PICK status \in {"ACTIVE", "SUSPENDED"} :
        SetAccount(u, [account[u] EXCEPT !.status = status])
  BY <1>1 DEF SetStatus
<1>4. [account[u] EXCEPT !.status = status] \in AccountType
  BY <1>2 DEF AccountType
<1>5. account' \in [Ids -> AccountType]
  BY <1>3, <1>4, SetAccountType
<1>6. SessionsOK /\ UNCHANGED <<token, access, past, call, codeVars>>
  BY <1>1, TypesTogether DEF SetStatus
<1>7. SessionsOK' /\ OwnersKept
  BY <1>5, <1>6 DEF SessionsOK, SessionTypes, TokensOK, OwnersKept
<1>8. CodesOK' /\ RequestsOK'
  BY <1>6, <1>7, UnchangedTypes, StandingRequests
<1>9. QED
  BY <1>7, <1>8, TypesTogether, PTL

LEMMA TimeTypes ==
  ASSUME TypeOK, TimePasses, Calm
  PROVE  TypeOK' /\ OwnersKept
<1>1. SessionsOK /\ CodesOK /\ UNCHANGED call
  BY TypesTogether
  DEF TimePasses, Ages, RecordEnds, WindowEnds, Lapses
<1> SUFFICES SessionsOK' /\ CodesOK' /\ OwnersKept
  <2>1. TypeOK' <=> SessionsOK' /\ CodesOK' /\ RequestsOK'
    BY TypesTogether, PTL
  <2>2. QED
    BY <1>1, <2>1, StandingRequests
<1>2. ASSUME NEW s \in Secrets, Ages(s)
      PROVE  SessionsOK' /\ CodesOK' /\ OwnersKept
  <2>1. SecretsOK'
    BY <1>1, <1>2 DEF Ages, CodesOK, SecretsOK, SecretType
  <2>2. QED
    BY <1>1, <1>2, <2>1, UnchangedTypes DEF Ages, CodesOK, CodeTypes, SecretsOK
<1>3. ASSUME NEW k, RecordEnds(k)
      PROVE  SessionsOK' /\ CodesOK' /\ OwnersKept
  BY <1>1, <1>3, StoreOpsType, UnchangedTypes
  DEF RecordEnds, TimesOut, CodesOK, CodeTypes, SecretsOK
<1>4. ASSUME NEW k, WindowEnds(k)
      PROVE  SessionsOK' /\ CodesOK' /\ OwnersKept
  BY <1>1, <1>4, StoreOpsType, UnchangedTypes
  DEF WindowEnds, TimesOut, CodesOK, CodeTypes, SecretsOK
<1>5. ASSUME NEW t \in Tokens, Lapses(t), UNCHANGED codeVars
      PROVE  SessionsOK' /\ CodesOK' /\ OwnersKept
  <2>1. TokensOK' /\ OwnersKept
    BY <1>1, <1>5 DEF Lapses, Live, SessionsOK, TokensOK, TokenType, OwnersKept
  <2>2. QED
    BY <1>1, <1>5, <2>1, UnchangedTypes DEF Lapses, SessionsOK, SessionTypes, TokensOK
<1>6. QED
  BY <1>2, <1>3, <1>4, <1>5 DEF TimePasses

LEMMA FailsTypes ==
  ASSUME TypeOK, NEW c \in Calls, Fails(c)
  PROVE  TypeOK' /\ OwnersKept
<1>1. SessionsOK' /\ OwnersKept /\ CodesOK'
  BY UnchangedTypes DEF Fails
<1>2. faults' \in Nat /\ UNCHANGED <<scenario, crashed>>
  BY DEF Fails, TypeOK, RequestTypes
<1>3. RequestsOK'
  BY <1>1, <1>2, FailsMoves, QuietMovesMoves, MovesOK
<1>4. QED
  BY <1>1, <1>3, TypesTogether, PTL

LEMMA CrashTypes ==
  ASSUME TypeOK, Crash
  PROVE  TypeOK' /\ OwnersKept
<1>1. SessionsOK' /\ OwnersKept
  BY UnchangedTypes DEF Crash
<1>2. CodesOK
  BY TypesTogether
<1>3. store' \in [Keys -> Entry]
  <2>1. Absent \in Entry
    BY DEF Absent, Entry
  <2>2. QED
    BY <1>2, <2>1 DEF Crash, Restarts, CodesOK, CodeTypes
<1>4. passed' \in [WindowKeys -> Nat]
  BY <1>2 DEF Crash, CodesOK, CodeTypes
<1>5. SecretsOK'
  BY <1>2 DEF Crash, CodesOK, SecretsOK
<1>6. CodesOK'
  BY <1>2, <1>3, <1>4, <1>5 DEF Crash, CodesOK, CodeTypes, SecretsOK
<1>7. RequestsOK'
  <2>1. call' = [c \in Calls |-> Idle] /\ UNCHANGED <<scenario, faults>> /\ crashed' = TRUE
    BY DEF Crash
  <2>2. Idle.at # "retire"
    BY DEF Idle
  <2>3. QED
    BY <2>1, <2>2, IdleOK DEF RequestsOK, RequestTypes, TypeOK, RecordOK
<1>8. QED
  BY <1>1, <1>6, <1>7, TypesTogether, PTL

\* The cases of a step, with the requests that begin apart from those that go on.
LEMMA StepCases ==
  ASSUME Next
  PROVE  \/ \E c \in Calls : Arriving(c) /\ Calm
         \/ \E c \in Calls : GoesOn(c) /\ Calm
         \/ Suspends /\ Calm
         \/ TimePasses /\ Calm
         \/ \E c \in Calls : Fails(c)
         \/ Crash
BY DEF Next, Arriving

LEMMA TypeInit == Init => TypeOK
<1> SUFFICES ASSUME Init PROVE TypeOK
  OBVIOUS
<1>1. scenario \in ScenarioType /\ Plausible(scenario)
  BY ScenariosAssumption DEF Init
<1>2. SessionsOK
  <2>1. account \in [Ids -> AccountType]
    BY <1>1 DEF Init, ScenarioType
  <2>2. NoToken \in TokenType /\ NoPast \in PastType
    BY DEF NoToken, TokenType, NoPast, PastType
  <2>3. NoToken.owner \notin Ids /\ NoToken.state = "ABSENT"
    BY NoneAssumption DEF NoToken
  <2>4. QED
    BY <2>1, <2>2, <2>3 DEF Init, SessionsOK, SessionTypes, TokensOK
<1>3. CodesOK
  <2>1. store \in [Keys -> Entry]
    <3>1. \A n \in Secrets : [number |-> n, tries |-> 0, ttl |-> TRUE] \in Entry
      BY CodesAssumption DEF Entry
    <3>2. Absent \in Entry
      BY DEF Absent, Entry
    <3>3. \A k \in Keys : (\E s \in Secrets : Made(s) /\ KeyOf(s) = k) =>
            (CHOOSE s \in Secrets : Made(s) /\ KeyOf(s) = k) \in Secrets
      OBVIOUS
    <3>4. QED
      BY <3>1, <3>2, <3>3 DEF Init
  <2>2. secret \in [Secrets -> SecretType] /\ backing \in {"redis", "memory"}
    BY <1>1 DEF Init, ScenarioType
  <2>3. ASSUME NEW s \in Secrets, secret[s].kind = "reset"
        PROVE  secret[s].address \in Mails
    <3>1. secret[s] # NoSecret
      BY <2>3 DEF NoSecret
    <3>2. secret = scenario.secrets
      BY DEF Init
    <3>3. \E kind \in {"mail", "sms", "reset"}, m \in Mails, p \in Phones :
            LET address == IF kind = "sms" THEN p ELSE m IN
            scenario.secrets[s]
              = [NoSecret EXCEPT !.kind = kind, !.address = address, !.given = TRUE]
      <4>1. \/ scenario.secrets[s] = NoSecret
            \/ \E kind \in {"mail", "sms", "reset"}, m \in Mails, p \in Phones :
                 LET address == IF kind = "sms" THEN p ELSE m IN
                 /\ scenario.secrets[s] = [NoSecret EXCEPT !.kind = kind,
                                             !.address = address, !.given = TRUE]
                 /\ \A x \in Secrets \ {s} : scenario.secrets[x].kind = kind =>
                      kind = "reset" \/ scenario.secrets[x].address # address
                 /\ \A x \in Secrets : x < s => scenario.secrets[x] # NoSecret
        BY <1>1, Zenon DEF Plausible
      <4>2. scenario.secrets[s] # NoSecret
        BY <3>1, <3>2
      <4>3. QED
        BY <4>1, <4>2, Zenon
    <3>4. PICK kind \in {"mail", "sms", "reset"}, m \in Mails, p \in Phones :
            secret[s] = [NoSecret EXCEPT !.kind = kind,
                           !.address = IF kind = "sms" THEN p ELSE m, !.given = TRUE]
      BY <3>2, <3>3
    <3>5. QED
      BY <2>3, <3>4 DEF NoSecret
  <2>4. passed \in [WindowKeys -> Nat]
    BY DEF Init
  <2>5. QED
    BY <2>1, <2>2, <2>3, <2>4 DEF CodesOK, CodeTypes, SecretsOK
<1>4. RequestsOK
  <2>1. Idle.at # "retire"
    BY DEF Idle
  <2>2. QED
    BY <2>1, IdleOK DEF Init, RequestsOK, RequestTypes
<1>5. QED
  BY <1>2, <1>3, <1>4, TypesTogether

LEMMA TypeStep ==
  ASSUME TypeOK, [Next]_vars
  PROVE  TypeOK' /\ OwnersKept
<1>1. CASE UNCHANGED vars
  <2>1. SessionsOK' /\ CodesOK' /\ OwnersKept
    BY <1>1, UnchangedTypes DEF vars, sessionVars, codeVars
  <2>2. RequestsOK'
    BY <1>1, <2>1, StandingRequests DEF vars, Calm
  <2>3. QED
    BY <2>1, <2>2, TypesTogether, PTL
<1>2. ASSUME NEW c \in Calls, Arriving(c), Calm
      PROVE  TypeOK' /\ OwnersKept
  BY <1>2, ArrivingTypes, ArrivingShape, UnchangedTypes
<1>3. CASE Next
  BY <1>2, <1>3, StepCases, GoesOnTypes, SuspendsTypes, TimeTypes, FailsTypes, CrashTypes
<1>4. QED
  BY <1>1, <1>3

\* Every variable keeps its type, whatever the requests, the scenario and the
\* bounds: no request works on an account, a token or a counter it has not found.
THEOREM AccountsTypes == Spec => []TypeOK
<1>1. TypeOK /\ [Next]_vars => TypeOK'
  BY TypeStep
<1>2. QED
  BY <1>1, TypeInit, PTL DEF Spec
=============================================================================
