----------------------------- MODULE CodeProofs -----------------------------
(***************************************************************************)
(* Proofs about rate limits and one-time codes: how many requests a        *)
(* counter lets through, that it comes to an end, and what a code is good  *)
(* for, for every set of requests, addresses and secrets and every limit.  *)
(***************************************************************************)
EXTENDS IdentityProofs

-----------------------------------------------------------------------------
(* Counters.                                                               *)

\* Request c has counted itself first and has yet to give k its expiry.
Pending(c, k) == call[c].at = "expire" /\ CallWindow(c) = k

\* Fewer requests have passed a counter than it has counted, one less as long
\* as the first one is pending.
WindowsCount ==
  \A k \in WindowKeys :
    /\ passed[k] <= store[k].number /\ passed[k] <= Limit(k.kind)
    /\ store[k].ttl => Holds(k)
    /\ \A c \in Calls : Pending(c, k) =>
         /\ Holds(k) /\ ~store[k].ttl
         /\ passed[k] + 1 <= store[k].number /\ passed[k] + 1 <= Limit(k.kind)
         /\ \A d \in Calls : Pending(d, k) => d = c

LEMMA LimitType ==
  ASSUME NEW kind
  PROVE  Limit(kind) \in Nat /\ Limit(kind) >= 1
BY CodesAssumption DEF Limit

LEMMA WindowsApart ==
  /\ WindowKeys \subseteq Keys /\ SecretKeys \subseteq Keys
  /\ \A k \in WindowKeys : k \notin SecretKeys
  /\ \A k \in SecretKeys : k.kind \in {"mail", "sms", "reset"}
<1>1. WindowKeys \subseteq Keys /\ SecretKeys \subseteq Keys
  BY KeysAssumption
<1>2. \A k \in WindowKeys : k.kind \in {"per60s", "perHour", "perIp", "resetPerHour",
                                        "smsPerHour", "resetPerIp"}
  BY DEF WindowKeys, Key
<1>3. \A k \in SecretKeys : k.kind \in {"mail", "sms", "reset"}
  BY DEF SecretKeys
<1>4. QED
  BY <1>1, <1>2, <1>3

LEMMA CallWindowType ==
  ASSUME TypeOK, NEW c \in Calls, call[c].at \in {"count", "expire"}
  PROVE  CallWindow(c) \in WindowKeys /\ CallWindow(c).kind = call[c].window
<1>1. RecordOK(call[c])
  BY DEF TypeOK
<1>2. CASE call[c].op \in {"askMail", "askReset"} /\ call[c].mail \in Mails
  BY <1>1, <1>2 DEF RecordOK, CallWindow, WindowKey, Key, WindowKeys
<1>3. CASE call[c].op = "askSms" /\ call[c].phone \in Phones
  BY <1>1, <1>3 DEF RecordOK, CallWindow, WindowKey, Key, WindowKeys
<1>4. QED
  BY <1>1, <1>2, <1>3 DEF RecordOK

\* The key of a request that uses a secret, or has made one.
HandlesKnown ==
  \A c \in Calls : call[c].at \in Holding => CallKey(c) \in SecretKeys

\* What happens to the counter k.
LEMMA CounterSteps ==
  ASSUME TypeOK, HandlesKnown, [Next]_vars, NEW k \in WindowKeys
  PROVE  \/ store'[k] = store[k] /\ passed'[k] = passed[k]
         \/ \E c \in Calls : (Count(c) \/ SetWindow(c)) /\ CallWindow(c) = k
         \/ WindowEnds(k) \/ Crash
<1>1. /\ store \in [Keys -> Entry] /\ passed \in [WindowKeys -> Nat] /\ k \in Keys
      /\ k \notin SecretKeys
  BY WindowsApart DEF TypeOK, CodeTypes
<1> DEFINE Same == store'[k] = store[k] /\ passed'[k] = passed[k]
<1>2. ASSUME NEW x, x # k, NEW e, Put(x, e) PROVE store'[k] = store[k]
  BY <1>1, <1>2 DEF Put
<1>3. UNCHANGED store /\ UNCHANGED passed => Same
  OBVIOUS
<1>4. ASSUME NEW c \in Calls, Judge(c, 1) \/ Judge(c, store[CallWindow(c)].number + 1) \/ UNCHANGED passed,
             CallWindow(c) # k
      PROVE  passed'[k] = passed[k]
  BY <1>1, <1>4 DEF Judge, LetThrough
<1>5. ASSUME NEW c \in Calls, MakesSecret(c)
      PROVE  Same \/ ((Count(c) \/ SetWindow(c)) /\ CallWindow(c) = k)
  <2>1. CASE (Count(c) \/ SetWindow(c)) /\ CallWindow(c) # k
    BY <1>2, <1>4, <2>1 DEF Count, SetWindow, Incr, Expire
  <2>2. CASE AskOwner(c)
    BY <1>3, <2>2 DEF AskOwner, codeVars
  <2>3. CASE Store(c)
    <3>1. PICK s \in Secrets : LET kind == SecretKind[call[c].op]
                      address == IF kind = "sms" THEN call[c].phone ELSE call[c].mail
                      IN SetEx(SecretKey(kind, address, s), s, 0)
      BY <2>3 DEF Store
    <3> DEFINE kind == SecretKind[call[c].op]
               address == IF kind = "sms" THEN call[c].phone ELSE call[c].mail
    <3>2. RecordOK(call[c])
      BY DEF TypeOK
    <3>3. SecretKey(kind, address, s) \in SecretKeys
      BY <2>3, <3>2 DEF Store, RecordOK, SecretKind, SecretKey, Key, SecretKeys
    <3>4. QED
      BY <1>1, <1>2, <2>3, <3>1, <3>3 DEF Store, SetEx
  <2>4. CASE Send(c)
    BY <2>4 DEF Send
  <2>5. CASE Unsend(c)
    <3>1. CallKey(c) # k
      BY <1>1, <2>5 DEF Unsend, HandlesKnown, Holding, Deciding
    <3>2. QED
      BY <1>2, <2>5, <3>1 DEF Unsend, Del
  <2>6. QED
    BY <1>5, <2>1, <2>2, <2>3, <2>4, <2>5 DEF MakesSecret
<1>6. ASSUME NEW c \in Calls, UsesSecret(c)
      PROVE  Same
  <2>1. CASE Lapse(c) \/ Reject(c) \/ Accept(c)
    <3>1. CallKey(c) # k
      BY <1>1, <2>1 DEF Lapse, Reject, Accept, HandlesKnown, Holding, Deciding
    <3>2. QED
      BY <1>2, <2>1, <3>1 DEF Lapse, Reject, Accept, Then, Del, SetEx
  <2>2. QED
    BY <1>3, <1>6, <2>1
    DEF UsesSecret, LookupMail, LookupOwner, LookupPhone, MarkMail, MarkPhone, codeVars
<1>7. ASSUME NEW c \in Calls, GoesOn(c), ~MakesSecret(c), ~UsesSecret(c)
      PROVE  Same
  BY <1>3, <1>7 DEF GoesOn, CreatesAccount, ChangesAccount, Create, AddProfile, UndoProfile,
                    UndoUser, Save, Reseed, codeVars
<1>8. CASE TimePasses
  <2>1. ASSUME NEW x \in SecretKeys, RecordEnds(x) PROVE Same
    BY <1>1, <1>2, <2>1 DEF RecordEnds, TimesOut, Del
  <2>2. ASSUME NEW x \in WindowKeys, x # k, WindowEnds(x) PROVE Same
    BY <1>1, <1>2, <2>2 DEF WindowEnds, TimesOut, Del
  <2>3. QED
    BY <1>3, <1>8, <2>1, <2>2 DEF TimePasses, Ages, codeVars
<1>9. ASSUME NEW c \in Calls, Arriving(c)
      PROVE  Same
  BY <1>3, <1>9, ArrivingShape
<1>10. QED
  BY <1>3, <1>5, <1>6, <1>7, <1>8, <1>9, StepCases
  DEF vars, codeVars, Suspends, SetStatus, Fails

-----------------------------------------------------------------------------
(* How a request comes to a secret.                                        *)

\* What a request is about, of what kind and address the secret is that it uses.
About(r, k) ==
  \/ r.op = "proveMail" /\ k = Key("mail", r.mail)
  \/ r.op = "proveSms" /\ k = Key("sms", r.phone)
  \/ r.op = "reset" /\ k.kind = "reset" /\ secret[k.of].address = r.mail

\* r has read secret r.number of key k, with its tries, and judged it.
HasRead(r, k) ==
  /\ k \in SecretKeys /\ Holds(k) /\ About(r, k)
  /\ r.number = store[k].number /\ r.tries = store[k].tries
  /\ r.at = "reject" => r.tries < MaxAttempts /\ r.op # "reset"
  /\ r.at = "lapse" => secret[r.number].aged \/ r.tries >= MaxAttempts
  /\ r.at = "accept" => r.right \/ (AutoVerify /\ r.op = "proveSms")
  /\ r.right => secret[r.number].given

\* Request c has read a secret that others have in hand: it is shared by now.
Shares(c) ==
  \A d \in Calls :
    /\ call[d].at \in Deciding /\ call[d].number = call'[c].number
    /\ call'[c].number \in Secrets
    => secret'[call'[c].number].shared

\* A reset link is never wrong.
LEMMA UseReadHasRead ==
  ASSUME TypeOK, NEW c \in Calls, NEW k \in SecretKeys, NEW right \in BOOLEAN,
         NEW record \in CallType, UseRead(c, k, right, record), About(record, k),
         record.op = "reset" => right
  PROVE  HasRead(call'[c], k) /\ Shares(c)
<1> DEFINE read == [record EXCEPT !.number = store[k].number, !.tries = store[k].tries,
                                  !.right = right]
           aged == secret[store[k].number].aged
           auto == AutoVerify /\ read.op = "proveSms"
           spent == ~auto /\ read.op # "reset" /\ read.tries >= MaxAttempts
           at == IF aged \/ spent THEN "lapse"
                 ELSE IF auto \/ read.right THEN "accept" ELSE "reject"
<1>1. /\ read.op = record.op /\ read.mail = record.mail /\ read.phone = record.phone
      /\ read.number = store[k].number /\ read.tries = store[k].tries /\ read.right = right
      /\ {"op", "mail", "phone", "number", "tries", "at", "right"} \subseteq DOMAIN read
  BY DEF CallType
<1>2. store[k].tries \in Nat /\ MaxAttempts \in Nat
  BY WindowsApart, CodesAssumption DEF TypeOK, CodeTypes, Entry
<1>3. call'[c] = [read EXCEPT !.at = at]
  BY DEF UseRead, Judged, Begins, TypeOK, RequestTypes
<1> HIDE DEF read
<1>4. /\ call'[c].op = record.op /\ call'[c].mail = record.mail
      /\ call'[c].phone = record.phone /\ call'[c].number = store[k].number
      /\ call'[c].tries = store[k].tries /\ call'[c].at = at /\ call'[c].right = right
  BY <1>1, <1>3
<1>5. at = "lapse" => aged \/ store[k].tries >= MaxAttempts
  BY <1>1
<1>6. at = "reject" => store[k].tries < MaxAttempts /\ record.op # "reset"
  BY <1>1, <1>2
<1>7. at = "accept" => right \/ (AutoVerify /\ record.op = "proveSms")
  BY <1>1
<1> HIDE DEF at, aged
<1>8. Holds(k) /\ (right => secret[store[k].number].given)
  BY DEF UseRead
<1>9. About(call'[c], k)
  BY <1>4 DEF About
<1>10. Shares(c)
  <2> DEFINE n == store[k].number
  <2>1. ASSUME n \in Secrets, NEW d \in Calls, call[d].at \in Deciding, call[d].number = n
        PROVE  secret'[n].shared
    BY <2>1 DEF UseRead, TypeOK, CodeTypes, SecretType
  <2>2. QED
    BY <1>4, <2>1 DEF Shares
<1>11. QED
  BY <1>4, <1>5, <1>6, <1>7, <1>8, <1>9, <1>10 DEF HasRead, aged

\* A request that uses a secret begins by reading it.
LEMMA ArrivingReads ==
  ASSUME TypeOK, NEW c \in Calls, Arriving(c), call'[c].at \in Holding
  PROVE  /\ call'[c].at \in {"lapse", "reject", "accept"}
         /\ Shares(c) /\ \E k \in SecretKeys : HasRead(call'[c], k)
<1>1. c \in DOMAIN call
  BY DEF TypeOK, RequestTypes
<1>2. ASSUME NEW r, Begins(c, r)
      PROVE  call'[c] = r
  BY <1>1, <1>2 DEF Begins
<1>3. ArrivesAs(call'[c])
  BY ArrivingKinds
<1>4. call'[c].at \in {"lapse", "reject", "accept"}
  BY <1>3 DEF ArrivesAs, Holding, Deciding
<1> SUFFICES Shares(c) /\ \E k \in SecretKeys : HasRead(call'[c], k)
  BY <1>4
<1>5. \A m, p, role : ~Signup(c, m, p, role)
  BY <1>2, <1>4 DEF Signup, Idle
<1>6. \A u : ~LoginFind(c, u)
  <2>1. ASSUME NEW u, NEW password, NEW version,
               Begins(c, [Idle EXCEPT !.op = "login", !.at = "bump", !.id = u,
                                      !.password = password, !.version = version])
        PROVE  FALSE
    <3>1. call'[c].at = "bump"
      BY <1>2, <2>1 DEF Idle
    <3>2. QED
      BY <1>4, <3>1
  <2>2. QED
    BY <2>1 DEF LoginFind
<1>7. \A t : ~LogoutRead(c, t) /\ ~RotateRead(c, t)
  <2>1. ASSUME NEW t, NEW op, NEW at, at \notin {"lapse", "reject", "accept"}, NEW u, NEW n,
               Begins(c, [Idle EXCEPT !.op = op, !.at = at, !.id = u, !.token = t])
                 \/ Begins(c, [Idle EXCEPT !.op = op, !.at = at, !.token = t, !.id = u,
                                          !.password = n])
        PROVE  FALSE
    BY <1>2, <1>4, <2>1 DEF Idle
  <2>2. QED
    BY <2>1 DEF LogoutRead, RotateRead
<1>8. \A op, m, p : ~AskBegins(c, op, m, p)
  BY <1>2, <1>4 DEF AskBegins, Idle
<1>9. \A u, m : ~ProfileRead(c, u, m)
  BY <1>2, <1>4 DEF ProfileRead, Idle
<1>10. ~SeedFind(c)
  <2>1. ASSUME NEW u, Begins(c, [Idle EXCEPT !.op = "seed", !.at = "reseed", !.id = u,
                                             !.mail = SeedMail])
        PROVE  FALSE
    BY <1>2, <1>4, <2>1 DEF Idle
  <2>2. ASSUME Begins(c, [Idle EXCEPT !.op = "seed", !.at = "create", !.mail = SeedMail,
                                  !.phone = SeedPhone, !.role = "DRIVER"])
        PROVE  FALSE
    BY <1>2, <1>4, <2>2 DEF Idle
  <2>3. QED
    BY <2>1, <2>2 DEF SeedFind
<1>11. ASSUME NEW m \in Mails, NEW right \in BOOLEAN, ProveMail(c, m, right)
       PROVE  Shares(c) /\ HasRead(call'[c], Key("mail", m)) /\ Key("mail", m) \in SecretKeys
  <2> DEFINE r == [Idle EXCEPT !.op = "proveMail", !.mail = m]
  <2>1. r \in CallType /\ r.op = "proveMail" /\ r.mail = m
    BY DEF Idle, CallType, Endpoints, Steps
  <2>2. Key("mail", m) \in SecretKeys /\ About(r, Key("mail", m))
    BY <2>1 DEF Key, SecretKeys, About
  <2>3. UseRead(c, Key("mail", m), right, r)
    BY <1>11 DEF ProveMail
  <2> HIDE DEF r
  <2>4. QED
    BY <2>1, <2>2, <2>3, UseReadHasRead
<1>12. ASSUME NEW p \in Phones, NEW role \in {"PASSENGER", "DRIVER"},
              NEW right \in BOOLEAN, ProveSms(c, p, role, right)
       PROVE  Shares(c) /\ HasRead(call'[c], Key("sms", p)) /\ Key("sms", p) \in SecretKeys
  <2> DEFINE r == [Idle EXCEPT !.op = "proveSms", !.phone = p, !.role = role]
  <2>1. r \in CallType /\ r.op = "proveSms" /\ r.phone = p
    BY DEF Idle, CallType, Endpoints, Steps
  <2>2. Key("sms", p) \in SecretKeys /\ About(r, Key("sms", p))
    BY <2>1 DEF Key, SecretKeys, About
  <2>3. UseRead(c, Key("sms", p), right, r)
    BY <1>12 DEF ProveSms
  <2> HIDE DEF r
  <2>4. QED
    BY <2>1, <2>2, <2>3, UseReadHasRead
<1>13. ASSUME NEW x \in Secrets, UseReset(c, x)
       PROVE  Shares(c) /\ HasRead(call'[c], Key("reset", x)) /\ Key("reset", x) \in SecretKeys
  <2> DEFINE r == [Idle EXCEPT !.op = "reset", !.mail = secret[x].address]
  <2>1. r \in CallType /\ r.op = "reset" /\ r.mail = secret[x].address
    BY <1>13 DEF UseReset, TypeOK, Idle, CallType, Endpoints, Steps
  <2>2. Key("reset", x) \in SecretKeys /\ About(r, Key("reset", x))
    BY <2>1 DEF Key, SecretKeys, About
  <2>3. UseRead(c, Key("reset", x), TRUE, r)
    BY <1>13 DEF UseReset
  <2> HIDE DEF r
  <2>4. QED
    BY <2>1, <2>2, <2>3, UseReadHasRead
<1>14. Arrives(c)
  BY <1>10 DEF Arriving, Starts
<1>15. \/ \E m \in Mails, right \in BOOLEAN : ProveMail(c, m, right)
       \/ \E p \in Phones, role \in {"PASSENGER", "DRIVER"}, right \in BOOLEAN :
            ProveSms(c, p, role, right)
       \/ \E x \in Secrets : UseReset(c, x)
  BY <1>5, <1>6, <1>7, <1>8, <1>9, <1>14, Zenon
  DEF Arrives, CodeRoutes, AccountRoutes, SomeMails, SomePhones, AskMail, AskReset, AskSms
<1>16. QED
  BY <1>11, <1>12, <1>13, <1>15

\* What request c asks for, and where the secret s made for it goes.
AskedKind(c) == SecretKind[call[c].op]
AskedAddress(c) == IF AskedKind(c) = "sms" THEN call[c].phone ELSE call[c].mail
AskedKey(c, s) == SecretKey(AskedKind(c), AskedAddress(c), s)

\* Request c makes secret s.
Makes(c, s) ==
  /\ call[c].at = "store" /\ call[c].op \in {"askMail", "askSms", "askReset"}
  /\ ~Made(s) /\ \A x \in Secrets : x < s => Made(x)
  /\ AskedKey(c, s) \in SecretKeys
  /\ store' = [store EXCEPT ![AskedKey(c, s)] = [number |-> s, tries |-> 0, ttl |-> TRUE]]
  /\ \A x \in Secrets \ {s} : secret'[x] = secret[x]
  /\ secret'[s].kind = AskedKind(c) /\ secret'[s].address = AskedAddress(c)
  /\ AskedKind(c) \in {"mail", "sms", "reset"}
  /\ secret'[s].given = (AskedKind(c) = "sms") /\ ~secret'[s].aged
  /\ secret'[s].accepted = 0 /\ secret'[s].wrong = 0
  /\ secret'[s].contested
       = \E d \in Calls : call[d].at \in Holding /\ CallKey(d) = AskedKey(c, s)
  /\ call' = [call EXCEPT ![c] = IF AskedKind(c) = "sms" THEN Idle
                                 ELSE [call[c] EXCEPT !.at = "send", !.number = s]]

LEMMA StoreMakes ==
  ASSUME TypeOK, NEW c \in Calls, Store(c)
  PROVE  \E s \in Secrets : Makes(c, s)
<1>1. /\ secret \in [Secrets -> SecretType] /\ call \in [Calls -> CallType]
      /\ RecordOK(call[c])
  BY DEF TypeOK, CodeTypes, RequestTypes
<1>2. /\ call[c].at = "store"
      /\ \/ call[c].op \in {"askMail", "askReset"} /\ call[c].mail \in Mails
         \/ call[c].op = "askSms" /\ call[c].phone \in Phones
  BY <1>1 DEF Store, RecordOK
<1> DEFINE Met(s) == \E d \in Calls : call[d].at \in Holding /\ CallKey(d) = AskedKey(c, s)
           Fresh(s) == [NoSecret EXCEPT !.kind = AskedKind(c), !.address = AskedAddress(c),
                                        !.given = AskedKind(c) = "sms", !.contested = Met(s)]
<1>3. PICK s \in Secrets :
        /\ ~Made(s) /\ \A x \in Secrets : x < s => Made(x)
        /\ SetEx(AskedKey(c, s), s, 0)
        /\ secret' = [secret EXCEPT ![s] = Fresh(s)]
        /\ call' = [call EXCEPT ![c] = IF AskedKind(c) = "sms" THEN Idle
                                 ELSE [call[c] EXCEPT !.at = "send", !.number = s]]
  BY <1>1 DEF Store, AskedKey, AskedKind, AskedAddress, GivenAtOnce
<1>4. AskedKind(c) \in {"mail", "sms", "reset"}
  BY <1>2 DEF AskedKind, SecretKind
<1>5. AskedKey(c, s) \in SecretKeys
  BY <1>2 DEF AskedKey, AskedKind, AskedAddress, SecretKind, SecretKey, Key, SecretKeys
<1> DEFINE made == Fresh(s)
<1>6. /\ made.kind = AskedKind(c) /\ made.address = AskedAddress(c)
      /\ made.given = (AskedKind(c) = "sms") /\ ~made.aged
      /\ made.accepted = 0 /\ made.wrong = 0 /\ made.contested = Met(s)
  BY DEF NoSecret
<1> HIDE DEF Fresh
<1>7. secret'[s] = made /\ \A x \in Secrets \ {s} : secret'[x] = secret[x]
  BY <1>1, <1>3
<1>8. store' = [store EXCEPT ![AskedKey(c, s)] = [number |-> s, tries |-> 0, ttl |-> TRUE]]
  BY <1>3 DEF SetEx, Put
<1>9. call[c].op \in {"askMail", "askSms", "askReset"}
  BY <1>2
<1>10. Makes(c, s)
  BY <1>2, <1>3, <1>4, <1>5, <1>6, <1>7, <1>8, <1>9 DEF Makes
<1>11. QED
  BY <1>10

\* A secret made is under its own key.
LEMMA MadeKeys ==
  ASSUME NEW c \in Calls, NEW s \in Secrets, Makes(c, s)
  PROVE  Made(s)' /\ KeyOf(s)' = AskedKey(c, s)
BY DEF Makes, Made, KeyOf, AskedKey

\* How a request comes to handle a secret.
LEMMA HoldingComes ==
  ASSUME TypeOK, [Next]_vars, NEW d \in Calls, call'[d].at \in Holding
  PROVE  \/ call'[d] = call[d]
         \/ /\ UNCHANGED store /\ OnlyShared /\ Arriving(d)
            /\ call'[d].at \in {"lapse", "reject", "accept"}
            /\ \E k \in SecretKeys : HasRead(call'[d], k)
         \/ \E s \in Secrets : Makes(d, s) /\ AskedKind(d) # "sms"
         \/ /\ UNCHANGED codeVars /\ call[d].at = "send"
            /\ call'[d] = [call[d] EXCEPT !.at = "unsend"]
<1>1. call \in [Calls -> CallType] /\ Idle.at = "idle"
  BY DEF TypeOK, RequestTypes, Idle
<1>2. CASE Arriving(d)
  BY <1>2, ArrivingReads, ArrivingShape
<1>3. CASE GoesOn(d)
  <2>1. Store(d)
    BY <1>1, <1>3, GoesOnKeeps DEF Keeps, Holding, Deciding
  <2>2. PICK s \in Secrets : Makes(d, s)
    BY <2>1, StoreMakes
  <2>3. AskedKind(d) # "sms"
    BY <1>1, <2>2 DEF Makes, Holding, Deciding
  <2>4. QED
    BY <2>2, <2>3
<1>4. CASE Fails(d)
  <2>1. UNCHANGED codeVars /\ call'[d] = Recovers(call[d])
    BY <1>1, <1>4 DEF Fails
  <2>2. ASSUME NEW at, at \notin Holding
        PROVE  [call[d] EXCEPT !.at = at].at \notin Holding
    BY <1>1, <2>2 DEF CallType
  <2>3. call[d].at = "send" /\ call'[d] = [call[d] EXCEPT !.at = "unsend"]
    BY <1>1, <2>1, <2>2 DEF Recovers, Holding, Deciding
  <2>4. QED
    BY <2>1, <2>3
<1>5. CASE Crash
  BY <1>1, <1>5 DEF Crash, Holding, Deciding
<1>6. QED
  BY <1>2, <1>3, <1>4, <1>5, OwnSteps

-----------------------------------------------------------------------------
(* What a step does to secrets and to their records.                       *)

\* The steps that write the record of a secret, and history with it.
Writes(c) == Lapse(c) \/ Reject(c) \/ Accept(c) \/ Unsend(c)

Leaves == OnlyShared /\ \A k \in SecretKeys : store'[k] = store[k]

LEMMA CodeCases ==
  ASSUME TypeOK, [Next]_vars
  PROVE  \/ Leaves
         \/ \E c \in Calls, s \in Secrets : Makes(c, s)
         \/ \E c \in Calls : Writes(c) \/ Send(c)
         \/ \E s \in Secrets : Ages(s)
         \/ \E k \in SecretKeys : RecordEnds(k)
         \/ Crash
<1>1. UNCHANGED codeVars => Leaves
  BY OnlySharedHolds DEF codeVars, Leaves
<1>2. ASSUME NEW k \in WindowKeys, NEW e, Put(k, e), secret' = secret
      PROVE  Leaves
  BY <1>2, OnlySharedHolds, WindowsApart DEF Put, Leaves, TypeOK, CodeTypes
<1>3. ASSUME NEW c \in Calls, Arriving(c)
      PROVE  Leaves
  BY <1>3, ArrivingShape DEF Leaves
<1>4. ASSUME NEW c \in Calls, MakesSecret(c)
      PROVE  Leaves \/ (\E s \in Secrets : Makes(c, s)) \/ Unsend(c) \/ Send(c)
  <2>1. CASE Count(c) \/ SetWindow(c)
    <3>1. CallWindow(c) \in WindowKeys
      BY <2>1, CallWindowType DEF Count, SetWindow
    <3>2. QED
      BY <1>2, <2>1, <3>1 DEF Count, SetWindow, Incr, Expire
  <2>2. QED
    BY <1>1, <1>4, <2>1, StoreMakes DEF MakesSecret, AskOwner
<1>5. ASSUME NEW c \in Calls, GoesOn(c)
      PROVE  Leaves \/ (\E s \in Secrets : Makes(c, s)) \/ Writes(c) \/ Send(c)
  BY <1>1, <1>4, <1>5
  DEF GoesOn, UsesSecret, CreatesAccount, ChangesAccount, Create, AddProfile, UndoProfile,
      UndoUser, Save, Reseed, LookupMail, LookupOwner, LookupPhone, MarkMail, MarkPhone, Writes
<1>6. CASE TimePasses
  <2>1. ASSUME NEW k \in WindowKeys, WindowEnds(k) PROVE Leaves
    BY <1>2, <2>1 DEF WindowEnds, TimesOut, Del
  <2>2. QED
    BY <1>1, <1>6, <2>1 DEF TimePasses
<1>7. QED
  BY <1>1, <1>3, <1>5, <1>6, StepCases DEF vars, codeVars, Suspends, SetStatus, Fails

\* What secret x was made for, and who was given it, is as it was.
SameSecret(x) ==
  /\ secret'[x].kind = secret[x].kind /\ secret'[x].address = secret[x].address
  /\ secret'[x].given = secret[x].given /\ secret'[x].aged = secret[x].aged
  /\ secret'[x].contested = secret[x].contested /\ (secret[x].shared => secret'[x].shared)

\* A write counts a use of the secret in hand, and nothing else.
LEMMA WritesSays ==
  ASSUME TypeOK, NEW c \in Calls, Writes(c), NEW x \in Secrets
  PROVE  /\ SameSecret(x)
         /\ Accept(c) => ~Reject(c)
         /\ secret'[x].accepted
              = secret[x].accepted + (IF Accept(c) /\ call[c].number = x THEN 1 ELSE 0)
         /\ secret'[x].wrong
              = secret[x].wrong + (IF Reject(c) /\ call[c].number = x THEN 1 ELSE 0)
<1> DEFINE s == call[c].number
<1>1. /\ secret \in [Secrets -> SecretType] /\ secret[x] \in SecretType
      /\ secret[x].accepted \in Nat /\ secret[x].wrong \in Nat
  BY DEF TypeOK, CodeTypes, SecretType
<1>2. CASE Lapse(c) \/ Unsend(c)
  <2>1. secret'[x] = secret[x] /\ ~Accept(c) /\ ~Reject(c)
    BY <1>1, <1>2 DEF Lapse, Unsend, Then, Accept, Reject
  <2>2. QED
    BY <1>1, <2>1 DEF SameSecret
<1>3. CASE Reject(c)
  <2>1. secret' = [secret EXCEPT ![s] = [secret[s] EXCEPT !.wrong = @ + 1]] /\ ~Accept(c)
    BY <1>3 DEF Reject, Then, Accept
  <2>2. CASE s = x
    BY <1>1, <1>3, <2>1, <2>2 DEF SecretType, SameSecret
  <2>3. CASE s # x
    BY <1>1, <2>1, <2>3 DEF SameSecret
  <2>4. QED
    BY <2>2, <2>3
<1>4. CASE Accept(c)
  <2>1. secret' = [secret EXCEPT ![s] = [secret[s] EXCEPT !.accepted = @ + 1]] /\ ~Reject(c)
    BY <1>4 DEF Reject, Then, Accept
  <2>2. CASE s = x
    BY <1>1, <1>4, <2>1, <2>2 DEF SecretType, SameSecret
  <2>3. CASE s # x
    BY <1>1, <2>1, <2>3 DEF SameSecret
  <2>4. QED
    BY <2>2, <2>3
<1>5. QED
  BY <1>2, <1>3, <1>4 DEF Writes

\* A secret keeps what it is, from the moment it is made.
LEMMA SecretKept ==
  ASSUME TypeOK, [Next]_vars, NEW x \in Secrets
  PROVE  \/ \E c \in Calls : Makes(c, x)
         \/ /\ secret'[x].kind = secret[x].kind /\ secret'[x].address = secret[x].address
            /\ secret'[x].contested = secret[x].contested
            /\ secret[x].aged => secret'[x].aged
            /\ secret[x].given => secret'[x].given
            /\ secret[x].shared => secret'[x].shared
            /\ secret[x].accepted <= secret'[x].accepted
            /\ secret[x].wrong <= secret'[x].wrong
            /\ secret'[x].given => \/ secret[x].given
                                   \/ \E c \in Calls : Send(c) /\ call[c].number = x
<1>1. /\ secret \in [Secrets -> SecretType]
      /\ secret[x].accepted \in Nat /\ secret[x].wrong \in Nat
  BY DEF TypeOK, CodeTypes, SecretType
<1> DEFINE Same == /\ secret'[x].kind = secret[x].kind
                   /\ secret'[x].address = secret[x].address
                   /\ secret'[x].contested = secret[x].contested
                   /\ secret[x].aged => secret'[x].aged
                   /\ secret[x].given => secret'[x].given
                   /\ secret[x].shared => secret'[x].shared
                   /\ secret[x].accepted <= secret'[x].accepted
                   /\ secret[x].wrong <= secret'[x].wrong
                   /\ secret'[x].given => \/ secret[x].given
                                          \/ \E c \in Calls : Send(c) /\ call[c].number = x
<1>2. secret'[x] = secret[x] \/ Leaves => Same
  BY <1>1 DEF Leaves, OnlyShared
<1>3. ASSUME NEW c \in Calls, Writes(c) PROVE Same
  BY <1>1, <1>3, WritesSays DEF SameSecret
<1>4. ASSUME NEW c \in Calls, Send(c) PROVE Same
  <2>1. CASE call[c].number = x
    <3>1. secret'[x] = [secret[x] EXCEPT !.given = TRUE]
      BY <1>1, <1>4, <2>1 DEF Send
    <3>2. QED
      BY <1>1, <1>4, <2>1, <3>1 DEF SecretType
  <2>2. CASE call[c].number # x
    BY <1>1, <1>2, <1>4, <2>2 DEF Send
  <2>3. QED
    BY <2>1, <2>2
<1>5. ASSUME NEW s \in Secrets, Ages(s) PROVE Same
  <2>1. CASE s = x
    <3>1. secret'[x] = [secret[x] EXCEPT !.aged = TRUE]
      BY <1>1, <1>5, <2>1 DEF Ages
    <3>2. QED
      BY <1>1, <3>1 DEF SecretType
  <2>2. CASE s # x
    BY <1>1, <1>2, <1>5, <2>2 DEF Ages
  <2>3. QED
    BY <2>1, <2>2
<1>6. ASSUME NEW c \in Calls, NEW s \in Secrets, Makes(c, s), s # x PROVE Same
  BY <1>2, <1>6 DEF Makes
<1>7. QED
  BY <1>2, <1>3, <1>4, <1>5, <1>6, CodeCases DEF Leaves, RecordEnds, Crash

-----------------------------------------------------------------------------
(* Records, requests and secrets agree.                                    *)

\* Secret s was made for key k.
Filed(s, k) == s \in Secrets /\ Made(s) /\ KeyOf(s) = k

Mailing(c) == call[c].at \in {"send", "unsend"}

\* Secrets are numbered in the order in which they are made, and have a key.
SecretsFiled ==
  \A s \in Secrets : Made(s) => KeyOf(s) \in SecretKeys /\ \A x \in Secrets : x < s => Made(x)

\* What is under a key, and what a request has in hand, was made for that key.
RecordsFiled == \A k \in SecretKeys : Holds(k) => Filed(store[k].number, k)

RequestsFiled ==
  \A c \in Calls : call[c].at \in Holding =>
    /\ CallKey(c) \in SecretKeys /\ Filed(call[c].number, CallKey(c))
    /\ call[c].at = "reject" =>
         call[c].tries < MaxAttempts /\ call[c].op \in {"proveMail", "proveSms"}
    /\ call[c].at = "lapse" => secret[call[c].number].aged \/ call[c].tries >= MaxAttempts

\* A code that a request has yet to mail has been given to nobody, and no other
\* request is to mail it.
MailsApart ==
  \A c \in Calls : Mailing(c) =>
    /\ ~secret[call[c].number].given
    /\ \A d \in Calls : Mailing(d) /\ call[d].number = call[c].number => d = c

CodesKnown == SecretsFiled /\ RecordsFiled /\ RequestsFiled /\ MailsApart

\* A secret that exists at first.
LEMMA FirstSecrets ==
  ASSUME Plausible(scenario), NEW s \in Secrets, scenario.secrets[s] # NoSecret
  PROVE  \E kind \in {"mail", "sms", "reset"}, m \in Mails, p \in Phones :
           /\ scenario.secrets[s]
                = [NoSecret EXCEPT !.kind = kind,
                     !.address = IF kind = "sms" THEN p ELSE m, !.given = TRUE]
           /\ \A x \in Secrets : x < s => scenario.secrets[x] # NoSecret
<1>1. \/ scenario.secrets[s] = NoSecret
      \/ \E kind \in {"mail", "sms", "reset"}, m \in Mails, p \in Phones :
           LET address == IF kind = "sms" THEN p ELSE m IN
           /\ scenario.secrets[s] = [NoSecret EXCEPT !.kind = kind,
                                       !.address = address, !.given = TRUE]
           /\ \A x \in Secrets \ {s} : scenario.secrets[x].kind = kind =>
                kind = "reset" \/ scenario.secrets[x].address # address
           /\ \A x \in Secrets : x < s => scenario.secrets[x] # NoSecret
  BY Zenon DEF Plausible
<1>2. QED
  BY <1>1, Zenon

LEMMA CodesKnownInit == Init => CodesKnown
<1> SUFFICES ASSUME Init PROVE CodesKnown
  OBVIOUS
<1>1. Plausible(scenario)
  BY ScenariosAssumption DEF Init
<1>2. ASSUME NEW s \in Secrets, Made(s)
      PROVE  KeyOf(s) \in SecretKeys /\ \A x \in Secrets : x < s => Made(x)
  <2>1. secret = scenario.secrets /\ secret[s] # NoSecret
    BY <1>2 DEF Init, Made, NoSecret
  <2>2. PICK kind \in {"mail", "sms", "reset"}, m \in Mails, p \in Phones :
          /\ secret[s] = [NoSecret EXCEPT !.kind = kind,
                            !.address = IF kind = "sms" THEN p ELSE m, !.given = TRUE]
          /\ \A x \in Secrets : x < s => secret[x] # NoSecret
    BY <1>1, <2>1, FirstSecrets
  <2>3. secret[s].kind = kind /\ secret[s].address = IF kind = "sms" THEN p ELSE m
    BY <2>2 DEF NoSecret
  <2>4. KeyOf(s) \in SecretKeys
    BY <2>3 DEF KeyOf, SecretKey, Key, SecretKeys
  <2>5. ASSUME NEW x \in Secrets, x < s PROVE Made(x)
    <3>1. secret[x] # NoSecret
      BY <2>2, <2>5
    <3>2. PICK k \in {"mail", "sms", "reset"}, n \in Mails, q \in Phones :
            secret[x] = [NoSecret EXCEPT !.kind = k,
                           !.address = IF k = "sms" THEN q ELSE n, !.given = TRUE]
      BY <1>1, <2>1, <3>1, FirstSecrets
    <3>3. QED
      BY <3>2 DEF Made, NoSecret
  <2>6. QED
    BY <2>4, <2>5
<1>3. ASSUME NEW k \in SecretKeys, Holds(k) PROVE Filed(store[k].number, k)
  <2>1. k \in Keys
    BY WindowsApart
  <2>2. \E s \in Secrets : Made(s) /\ KeyOf(s) = k
    BY <1>3, <2>1 DEF Init, Holds, Absent
  <2>3. store[k].number = CHOOSE s \in Secrets : Made(s) /\ KeyOf(s) = k
    BY <2>1, <2>2 DEF Init
  <2>4. QED
    BY <2>2, <2>3 DEF Filed
<1>4. \A c \in Calls : call[c].at = "idle"
  BY DEF Init, Idle
<1>5. QED
  BY <1>2, <1>3, <1>4
  DEF CodesKnown, SecretsFiled, RecordsFiled, RequestsFiled, MailsApart, Mailing, Holding, Deciding

\* What a secret was made for does not change.
LEMMA FiledStays ==
  ASSUME TypeOK, [Next]_vars, NEW s, NEW k, Filed(s, k)
  PROVE  /\ Filed(s, k)' /\ (secret[s].aged => secret'[s].aged)
         /\ secret'[s].given =>
              secret[s].given \/ \E c \in Calls : Send(c) /\ call[c].number = s
<1>1. s \in Secrets /\ ~\E c \in Calls : Makes(c, s)
  BY DEF Filed, Makes
<1>2. QED
  BY <1>1, SecretKept DEF Filed, Made, KeyOf

LEMMA SecretsFiledStep ==
  ASSUME TypeOK, CodesKnown, [Next]_vars
  PROVE  SecretsFiled'
<1> SUFFICES ASSUME NEW s \in Secrets, Made(s)'
             PROVE  /\ (KeyOf(s) \in SecretKeys)'
                    /\ \A x \in Secrets : x < s => Made(x)'
  BY DEF SecretsFiled, SecretKeys
<1>1. SecretKeys' = SecretKeys
  BY DEF SecretKeys
<1>2. CASE \E c \in Calls : Makes(c, s)
  <2>1. PICK c \in Calls : Makes(c, s)
    BY <1>2
  <2>2. KeyOf(s)' \in SecretKeys
    BY <2>1, MadeKeys DEF Makes
  <2>3. QED
    BY <1>1, <2>1, <2>2 DEF Makes, Made
<1>3. CASE ~\E c \in Calls : Makes(c, s)
  <2>1. Made(s) /\ KeyOf(s)' = KeyOf(s)
    BY <1>3, SecretKept DEF Made, KeyOf
  <2>2. \A x \in Secrets : x < s => Filed(x, KeyOf(x))
    BY <2>1 DEF CodesKnown, SecretsFiled, Filed
  <2>3. \A x \in Secrets : x < s => Made(x)'
    BY <2>2, FiledStays DEF Filed
  <2>4. QED
    BY <1>1, <2>1, <2>3 DEF CodesKnown, SecretsFiled
<1>4. QED
  BY <1>2, <1>3

\* What request c wrote under its key is about the secret in its hand.
LEMMA WritesUnder ==
  ASSUME TypeOK, CodesKnown, NEW c \in Calls, Writes(c)
  PROVE  /\ CallKey(c) \in SecretKeys /\ Filed(call[c].number, CallKey(c))
         /\ \A k \in SecretKeys : k # CallKey(c) => store'[k] = store[k]
         /\ store'[CallKey(c)] = Absent \/ Reject(c)
         /\ store'[CallKey(c)] = Absent
              \/ store'[CallKey(c)] =
                   [number |-> call[c].number, tries |-> call[c].tries + 1, ttl |-> TRUE]
<1>1. CallKey(c) \in SecretKeys /\ Filed(call[c].number, CallKey(c))
  BY DEF Writes, Lapse, Reject, Accept, Unsend, Holding, Deciding, CodesKnown, RequestsFiled
<1>2. store \in [Keys -> Entry] /\ SecretKeys \subseteq Keys
  BY WindowsApart DEF TypeOK, CodeTypes
<1>3. \/ Put(CallKey(c), Absent)
      \/ /\ Reject(c)
         /\ Put(CallKey(c), [number |-> call[c].number, tries |-> call[c].tries + 1,
                             ttl |-> TRUE])
  BY DEF Writes, Lapse, Reject, Accept, Unsend, Del, SetEx
<1>4. QED
  BY <1>1, <1>2, <1>3 DEF Put

\* What is under a key afterwards: what was there, a secret just made, what a
\* request had in its hand, or nothing.
LEMMA RecordCases ==
  ASSUME TypeOK, CodesKnown, [Next]_vars, NEW k \in SecretKeys
  PROVE  \/ store'[k] = store[k]
         \/ store'[k] = Absent
         \/ \E c \in Calls, s \in Secrets :
              /\ Makes(c, s) /\ AskedKey(c, s) = k
              /\ store'[k] = [number |-> s, tries |-> 0, ttl |-> TRUE]
         \/ \E c \in Calls :
              /\ Reject(c) /\ CallKey(c) = k
              /\ store'[k] = [number |-> call[c].number, tries |-> call[c].tries + 1,
                              ttl |-> TRUE]
<1>1. store \in [Keys -> Entry] /\ k \in Keys /\ SecretKeys \subseteq Keys
  BY WindowsApart DEF TypeOK, CodeTypes
<1>2. ASSUME NEW c \in Calls, NEW s \in Secrets, Makes(c, s), AskedKey(c, s) # k
      PROVE  store'[k] = store[k]
  BY <1>1, <1>2 DEF Makes
<1>3. ASSUME NEW c \in Calls, NEW s \in Secrets, Makes(c, s), AskedKey(c, s) = k
      PROVE  store'[k] = [number |-> s, tries |-> 0, ttl |-> TRUE]
  BY <1>1, <1>3 DEF Makes
<1>4. ASSUME NEW x \in SecretKeys, RecordEnds(x)
      PROVE  store'[k] = store[k] \/ store'[k] = Absent
  BY <1>1, <1>4 DEF RecordEnds, TimesOut, Del, Put
<1>5. CASE Crash
  BY <1>1, <1>5 DEF Crash, Restarts
<1>6. ASSUME NEW c \in Calls, Send(c) PROVE store'[k] = store[k]
  BY <1>6 DEF Send
<1>7. ASSUME NEW s \in Secrets, Ages(s) PROVE store'[k] = store[k]
  BY <1>7 DEF Ages
<1>8. QED
  BY <1>2, <1>3, <1>4, <1>5, <1>6, <1>7, CodeCases, WritesUnder DEF Leaves

LEMMA RecordsFiledStep ==
  ASSUME TypeOK, CodesKnown, [Next]_vars
  PROVE  RecordsFiled'
<1> SUFFICES ASSUME NEW k \in SecretKeys, Holds(k)'
             PROVE  Filed(store[k].number, k)'
  BY DEF RecordsFiled, SecretKeys
<1>1. CASE store'[k] = store[k]
  <2>1. Filed(store[k].number, k)
    BY <1>1 DEF Holds, CodesKnown, RecordsFiled
  <2>2. Filed(store[k].number, k)'
    BY <1>1, <2>1, FiledStays DEF Filed, Made, KeyOf
  <2>3. QED
    BY <2>2
<1>2. ASSUME NEW c \in Calls, NEW s \in Secrets, Makes(c, s), AskedKey(c, s) = k,
             store'[k] = [number |-> s, tries |-> 0, ttl |-> TRUE]
      PROVE  Filed(store[k].number, k)'
  BY <1>2, MadeKeys DEF Filed
<1>3. ASSUME NEW c \in Calls, Reject(c), CallKey(c) = k,
             store'[k] = [number |-> call[c].number, tries |-> call[c].tries + 1,
                          ttl |-> TRUE]
      PROVE  Filed(store[k].number, k)'
  <2>1. PICK n \in Secrets : n = call[c].number
    BY <1>3, WritesUnder DEF Writes, Filed
  <2>2. Filed(n, k)
    BY <1>3, <2>1, WritesUnder DEF Writes
  <2>3. store[k].number' = n
    BY <1>3, <2>1
  <2>4. QED
    BY <2>2, <2>3, FiledStays DEF Filed, Made, KeyOf
<1>4. CASE store'[k] = Absent
  BY <1>4 DEF Holds, Absent
<1>5. QED
  BY <1>1, <1>2, <1>3, <1>4, RecordCases

\* A request that has read a secret has it in hand.
LEMMA ReadFiled ==
  ASSUME CodesKnown, NEW d \in Calls, NEW k \in SecretKeys, HasRead(call'[d], k)
  PROVE  CallKey(d)' = k /\ Filed(call'[d].number, k)
<1>1. Filed(call'[d].number, k)
  BY DEF HasRead, CodesKnown, RecordsFiled
<1>2. CASE call'[d].op = "proveMail" /\ k = Key("mail", call'[d].mail)
  BY <1>1, <1>2 DEF CallKey
<1>3. CASE call'[d].op = "proveSms" /\ k = Key("sms", call'[d].phone)
  BY <1>1, <1>3 DEF CallKey
<1>4. CASE call'[d].op = "reset" /\ k.kind = "reset"
  <2>1. k = KeyOf(call'[d].number)
    BY <1>1 DEF Filed
  <2>2. k = Key("reset", call'[d].number)
    BY <1>4, <2>1 DEF KeyOf, SecretKey, Key
  <2>3. QED
    BY <1>1, <1>4, <2>2 DEF CallKey
<1>5. QED
  BY <1>2, <1>3, <1>4 DEF HasRead, About

\* A request that has made a secret to mail has it in hand.
LEMMA MadeFiled ==
  ASSUME TypeOK, NEW d \in Calls, NEW s \in Secrets, Makes(d, s), AskedKind(d) # "sms"
  PROVE  /\ call'[d].at = "send" /\ call'[d].number = s
         /\ CallKey(d)' = AskedKey(d, s) /\ ~secret'[s].given
         /\ \A e \in Calls \ {d} : call'[e] = call[e]
<1>1. call \in [Calls -> CallType]
  BY DEF TypeOK, RequestTypes
<1>2. /\ call'[d] = [call[d] EXCEPT !.at = "send", !.number = s]
      /\ \A e \in Calls \ {d} : call'[e] = call[e]
  BY <1>1 DEF Makes
<1>3. /\ call'[d].at = "send" /\ call'[d].number = s /\ call'[d].op = call[d].op
      /\ call'[d].mail = call[d].mail
  BY <1>1, <1>2 DEF CallType
<1>4. call[d].op \in {"askMail", "askReset"}
  BY DEF Makes, AskedKind, SecretKind
<1>5. CallKey(d)' = AskedKey(d, s)
  BY <1>3, <1>4 DEF CallKey, AskedKey, AskedKind, AskedAddress, SecretKind, SecretKey
<1>6. QED
  BY <1>2, <1>3, <1>5 DEF Makes

\* A secret in hand, at the same key as before or not.
LEMMA InHand ==
  ASSUME TypeOK, CodesKnown, [Next]_vars, NEW d \in Calls, call'[d].at \in Holding
  PROVE  \/ /\ call'[d] = call[d] /\ CallKey(d)' = CallKey(d) /\ call[d].at \in Holding
         \/ /\ UNCHANGED store /\ OnlyShared /\ Arriving(d)
            /\ call'[d].at \in {"lapse", "reject", "accept"}
            /\ \E k \in SecretKeys : HasRead(call'[d], k)
         \/ \E s \in Secrets : Makes(d, s) /\ AskedKind(d) # "sms"
         \/ /\ UNCHANGED codeVars /\ call[d].at = "send" /\ call'[d].at = "unsend"
            /\ call'[d].number = call[d].number /\ CallKey(d)' = CallKey(d)
<1>1. call \in [Calls -> CallType]
  BY DEF TypeOK, RequestTypes
<1>2. CASE call'[d] = [call[d] EXCEPT !.at = "unsend"]
  <2>1. /\ call'[d].at = "unsend" /\ call'[d].number = call[d].number
        /\ call'[d].op = call[d].op /\ call'[d].mail = call[d].mail
        /\ call'[d].phone = call[d].phone
    BY <1>1, <1>2 DEF CallType
  <2>2. CallKey(d)' = CallKey(d)
    BY <2>1 DEF CallKey
  <2>3. QED
    BY <1>2, <2>1, <2>2, HoldingComes DEF Makes
<1>3. CASE call'[d] = call[d]
  BY <1>3 DEF CallKey
<1>4. QED
  BY <1>2, <1>3, HoldingComes

LEMMA RequestsFiledStep ==
  ASSUME TypeOK, CodesKnown, [Next]_vars
  PROVE  RequestsFiled'
<1> DEFINE InOrder(d, n, k) ==
      /\ k \in SecretKeys /\ Filed(n, k)
      /\ call[d].at = "reject" =>
           call[d].tries < MaxAttempts /\ call[d].op \in {"proveMail", "proveSms"}
      /\ call[d].at = "lapse" => secret[n].aged \/ call[d].tries >= MaxAttempts
<1> SUFFICES ASSUME NEW d \in Calls, call'[d].at \in Holding
             PROVE  \E n, k : n = call'[d].number /\ k = CallKey(d)' /\ InOrder(d, n, k)'
  BY DEF RequestsFiled, SecretKeys, Filed, Made, KeyOf
<1>1. SecretKeys' = SecretKeys
  BY DEF SecretKeys
<1>2. CASE call'[d] = call[d] /\ CallKey(d)' = CallKey(d) /\ call[d].at \in Holding
  <2>1. PICK n, k : n = call[d].number /\ k = CallKey(d)
    OBVIOUS
  <2>2. InOrder(d, n, k)
    BY <1>2, <2>1 DEF CodesKnown, RequestsFiled
  <2>3. InOrder(d, n, k)'
    BY <1>1, <1>2, <2>2, FiledStays
  <2>4. QED
    BY <1>2, <2>1, <2>3
<1>3. ASSUME OnlyShared, NEW k \in SecretKeys, HasRead(call'[d], k)
      PROVE  \E n, x : n = call'[d].number /\ x = CallKey(d)' /\ InOrder(d, n, x)'
  <2>1. PICK n : n = call'[d].number
    OBVIOUS
  <2>2. CallKey(d)' = k /\ Filed(n, k)
    BY <1>3, <2>1, ReadFiled
  <2>3. Filed(n, k)' /\ secret'[n].aged = secret[n].aged
    BY <1>3, <2>2, FiledStays DEF OnlyShared, Filed
  <2>4. InOrder(d, n, k)'
    BY <1>1, <1>3, <2>1, <2>3 DEF HasRead, About
  <2>5. QED
    BY <2>1, <2>2, <2>4
<1>4. ASSUME NEW s \in Secrets, Makes(d, s), AskedKind(d) # "sms"
      PROVE  \E n, x : n = call'[d].number /\ x = CallKey(d)' /\ InOrder(d, n, x)'
  <2>1. PICK k : k = AskedKey(d, s)
    OBVIOUS
  <2>2. Filed(s, k)' /\ k \in SecretKeys
    BY <1>4, <2>1, MadeKeys DEF Filed, Makes
  <2>3. call'[d].at = "send" /\ call'[d].number = s /\ CallKey(d)' = k
    BY <1>4, <2>1, MadeFiled
  <2>4. QED
    BY <1>1, <2>2, <2>3
<1>5. CASE /\ UNCHANGED codeVars /\ call[d].at = "send" /\ call'[d].at = "unsend"
           /\ call'[d].number = call[d].number /\ CallKey(d)' = CallKey(d)
  <2>1. PICK n, k : n = call[d].number /\ k = CallKey(d)
    OBVIOUS
  <2>2. k \in SecretKeys /\ Filed(n, k)
    BY <1>5, <2>1 DEF CodesKnown, RequestsFiled, Holding, Deciding
  <2>3. QED
    BY <1>1, <1>5, <2>1, <2>2, FiledStays
<1> HIDE DEF InOrder
<1>6. QED
  BY <1>2, <1>3, <1>4, <1>5, InHand

\* A request that is to mail a secret had it in hand before, or makes it now.
LEMMA MailingComes ==
  ASSUME TypeOK, CodesKnown, [Next]_vars, NEW d \in Calls, call'[d].at \in {"send", "unsend"}
  PROVE  \/ /\ Mailing(d) /\ call'[d].number = call[d].number
            /\ call'[d] = call[d] \/ UNCHANGED codeVars
         \/ \E s \in Secrets : Makes(d, s) /\ AskedKind(d) # "sms"
BY InHand DEF Holding, Deciding, Mailing

LEMMA MailsApartStep ==
  ASSUME TypeOK, CodesKnown, [Next]_vars
  PROVE  MailsApart'
<1>1. ASSUME NEW d \in Calls, call'[d].at \in {"send", "unsend"}
      PROVE  ~secret'[call'[d].number].given
  <2>1. CASE \E s \in Secrets : Makes(d, s) /\ AskedKind(d) # "sms"
    BY <2>1, MadeFiled
  <2>2. ASSUME Mailing(d), call'[d].number = call[d].number,
               call'[d] = call[d] \/ UNCHANGED codeVars
        PROVE  ~secret'[call'[d].number].given
    <3>1. PICK n : n = call[d].number
      OBVIOUS
    <3>2. Filed(n, CallKey(d)) /\ ~secret[n].given
      BY <2>2, <3>1 DEF CodesKnown, RequestsFiled, MailsApart, Mailing, Holding, Deciding
    <3>3. CASE UNCHANGED codeVars
      BY <2>2, <3>1, <3>2, <3>3 DEF codeVars
    <3>4. ASSUME call'[d] = call[d], NEW c \in Calls, Send(c), call[c].number = n
          PROVE  FALSE
      <4>1. c = d
        BY <2>2, <3>1, <3>4 DEF Send, CodesKnown, MailsApart, Mailing
      <4>2. call'[d] = Idle
        BY <3>4, <4>1 DEF Send, Ends, TypeOK, RequestTypes
      <4>3. QED
        BY <2>2, <3>4, <4>2 DEF Mailing, Idle
    <3>5. QED
      BY <2>2, <3>1, <3>2, <3>3, <3>4, FiledStays
  <2>3. QED
    BY <1>1, <2>1, <2>2, MailingComes
<1>2. ASSUME NEW c \in Calls, NEW d \in Calls, call'[c].at \in {"send", "unsend"},
             call'[d].at \in {"send", "unsend"}, call'[c].number = call'[d].number
      PROVE  c = d
  <2>1. ASSUME NEW x \in Calls, NEW y \in Calls, NEW s \in Secrets, x # y,
               Makes(x, s), AskedKind(x) # "sms", call'[y].at \in {"send", "unsend"},
               call'[x].number = call'[y].number
        PROVE  FALSE
    <3>1. call'[y] = call[y] /\ call'[x].number = s /\ ~Made(s)
      BY <2>1, MadeFiled DEF Makes
    <3>2. call[y].at \in Holding
      BY <2>1, <3>1 DEF Holding, Deciding
    <3>3. Made(call[y].number)
      BY <3>2 DEF CodesKnown, RequestsFiled, Filed
    <3>4. QED
      BY <2>1, <3>1, <3>3
  <2>2. CASE Mailing(c) /\ Mailing(d) /\ call[c].number = call[d].number
    BY <2>2 DEF CodesKnown, MailsApart
  <2>3. QED
    BY <1>2, <2>1, <2>2, MailingComes
<1>3. QED
  BY <1>1, <1>2 DEF MailsApart, Mailing

LEMMA CodesKnownStep == TypeOK /\ CodesKnown /\ [Next]_vars => CodesKnown'
BY SecretsFiledStep, RecordsFiledStep, RequestsFiledStep, MailsApartStep DEF CodesKnown

\* What is stored under an address, and what a request has in hand, is a secret
\* that was made for that address.
THEOREM CodesFiled == Spec => []CodesKnown
<1>1. QED
  BY CodesKnownInit, CodesKnownStep, AccountsTypes, PTL DEF Spec

-----------------------------------------------------------------------------
(* Counters: their bound and their end.                                    *)

LEMMA HandlesFollows == CodesKnown => HandlesKnown
BY DEF CodesKnown, RequestsFiled, HandlesKnown

\* A request that goes on is to give a counter its expiry only when it has just
\* counted itself first.
LEMMA ExpireComes ==
  ASSUME TypeOK, NEW d \in Calls, GoesOn(d), call'[d].at = "expire"
  PROVE  Count(d) /\ ~Holds(CallWindow(d)) /\ Goes(d, "expire")
<1>1. call[d] \in CallType /\ d \in DOMAIN call
  BY DEF TypeOK, RequestTypes
<1>2. ~Ends(d)
  BY <1>1 DEF Ends, Idle
<1>3. ASSUME NEW at, at # "expire", Goes(d, at)
      PROVE  FALSE
  BY <1>1, <1>3 DEF Goes, CallType
<1>4. ASSUME NEW at, at # "expire", NEW n,
             \/ call' = [call EXCEPT ![d].at = at, ![d].id = n]
             \/ call' = [call EXCEPT ![d].at = at, ![d].version = n]
             \/ call' = [call EXCEPT ![d].at = at, ![d].window = n]
             \/ call' = [call EXCEPT ![d].at = at, ![d].password = n]
             \/ call' = [call EXCEPT ![d] = [call[d] EXCEPT !.at = at, !.number = n]]
      PROVE  FALSE
  BY <1>1, <1>4 DEF CallType
<1>5. ~OpensSession(d) /\ ~Rotates(d) /\ ~EndsSessions(d)
  BY <1>2, <1>3, <1>4
  DEF OpensSession, Bump, Revoke, Grant, Rotates, EndsSessions, Retire, Regrant, Reread,
      Close, SetPassword, RevokeAll
<1>6. ~UsesSecret(d)
  <2>1. ASSUME LookupMail(d) \/ LookupOwner(d)
        PROVE  FALSE
    <3>1. \/ Ends(d)
          \/ \E at \in {"mark", "setPassword"} : \E n :
               call' = [call EXCEPT ![d].at = at, ![d].id = n]
      BY <2>1 DEF LookupMail, LookupOwner
    <3>2. QED
      BY <1>2, <1>4, <3>1
  <2>2. ASSUME LookupPhone(d) \/ MarkPhone(d) \/ MarkMail(d)
        PROVE  FALSE
    <3>1. \/ Ends(d)
          \/ \E n : call' = [call EXCEPT ![d].at = "mark", ![d].id = n]
          \/ Goes(d, "create")
          \/ \E n : call' = [call EXCEPT ![d].at = "bump", ![d].password = n]
      BY <2>2 DEF LookupPhone, MarkPhone, MarkMail
    <3>2. QED
      BY <1>2, <1>3, <1>4, <3>1
  <2>3. ~Lapse(d) /\ ~Reject(d) /\ ~Accept(d)
    BY <1>2, <1>3 DEF Lapse, Reject, Accept
  <2>4. QED
    BY <2>1, <2>2, <2>3 DEF UsesSecret
<1>7. ~CreatesAccount(d) /\ ~ChangesAccount(d)
  <2>1. ASSUME NEW u, NEW driver, Proceeds(d, u, driver) PROVE FALSE
    BY <1>2, <1>4, <2>1 DEF Proceeds
  <2>2. QED
    BY <1>2, <1>3, <2>1
    DEF CreatesAccount, ChangesAccount, Create, AddProfile, UndoProfile, UndoUser, Save, Reseed
<1>8. ~LetThrough(d)
  <2>1. ASSUME LetThrough(d)
        PROVE  \E at \in {"count", "owner", "store"} : \E w :
                 call' = [call EXCEPT ![d].at = at, ![d].window = w]
    BY <2>1 DEF LetThrough
  <2>2. QED
    BY <1>4, <2>1
<1>9. ~Store(d)
  <2>1. ASSUME Store(d)
        PROVE  \/ Ends(d)
               \/ \E s : call' = [call EXCEPT ![d] = [call[d] EXCEPT !.at = "send", !.number = s]]
    BY <1>1, <2>1 DEF Store, Ends
  <2>2. QED
    BY <1>2, <1>4, <2>1
<1>10. Count(d)
  BY <1>2, <1>3, <1>5, <1>6, <1>7, <1>8, <1>9
  DEF GoesOn, MakesSecret, SetWindow, Judge, AskOwner, Send, Unsend
<1>11. QED
  BY <1>2, <1>8, <1>10 DEF Count, Judge

LEMMA PendingComes ==
  ASSUME TypeOK, [Next]_vars, NEW d \in Calls, NEW k, Pending(d, k)'
  PROVE  \/ Pending(d, k) /\ call'[d] = call[d]
         \/ Count(d) /\ CallWindow(d) = k /\ ~Holds(k)
<1>1. call \in [Calls -> CallType] /\ call'[d].at = "expire"
  BY DEF TypeOK, RequestTypes, Pending
<1>2. CASE call'[d] = call[d]
  BY <1>2 DEF Pending, CallWindow
<1>3. CASE Arriving(d)
  <2>1. ArrivesAs(call'[d])
    BY <1>3, ArrivingKinds
  <2>2. QED
    BY <1>1, <2>1 DEF ArrivesAs
<1>4. CASE GoesOn(d)
  <2>1. Count(d) /\ ~Holds(CallWindow(d)) /\ call'[d] = [call[d] EXCEPT !.at = "expire"]
    BY <1>1, <1>4, ExpireComes DEF Goes
  <2>2. /\ call'[d].window = call[d].window /\ call'[d].op = call[d].op
        /\ call'[d].mail = call[d].mail /\ call'[d].phone = call[d].phone
    BY <1>1, <2>1 DEF CallType
  <2>3. CallWindow(d) = k
    BY <2>2 DEF Pending, CallWindow
  <2>4. QED
    BY <2>1, <2>3
<1>5. CASE Fails(d)
  <2>1. ASSUME NEW at, at # "expire"
        PROVE  [call[d] EXCEPT !.at = at].at # "expire"
    BY <1>1, <2>1 DEF CallType
  <2>2. call'[d] = Recovers(call[d])
    BY <1>1, <1>5 DEF Fails
  <2>3. QED
    BY <1>1, <2>1, <2>2 DEF Recovers, Idle
<1>6. CASE call'[d] = Idle
  BY <1>1, <1>6 DEF Idle
<1>7. QED
  BY <1>2, <1>3, <1>4, <1>5, <1>6, OwnSteps

\* What counting does to a counter, and whether it lets the request through.
LEMMA CountSays ==
  ASSUME TypeOK, NEW c \in Calls, NEW k \in WindowKeys, CallWindow(c) = k, Count(c)
  PROVE  /\ store'[k].number = store[k].number + 1
         /\ store'[k].ttl = (store[k].ttl /\ backing = "redis")
         /\ \/ /\ ~Holds(k) /\ Goes(c, "expire") /\ passed'[k] = passed[k]
            \/ /\ Holds(k)
               /\ \/ passed'[k] = passed[k]
                  \/ passed'[k] = passed[k] + 1 /\ store[k].number + 1 <= Limit(k.kind)
<1>1. /\ store \in [Keys -> Entry] /\ passed \in [WindowKeys -> Nat] /\ k \in Keys
      /\ store[k] \in Entry
  BY WindowsApart DEF TypeOK, CodeTypes
<1>2. Limit(call[c].window) = Limit(k.kind)
  BY CallWindowType DEF Count
<1>3. store' = [store EXCEPT ![k] = [store[k] EXCEPT !.number = store[k].number + 1,
                                       !.ttl = store[k].ttl /\ backing = "redis"]]
  BY <1>1 DEF Count, Incr, Put
<1>4. /\ store'[k].number = store[k].number + 1
      /\ store'[k].ttl = (store[k].ttl /\ backing = "redis")
  BY <1>1, <1>3 DEF Entry
<1>5. \/ ~Holds(k) /\ Goes(c, "expire") /\ passed' = passed
      \/ Holds(k) /\ Judge(c, store[k].number + 1)
  BY DEF Count
<1>6. Judge(c, store[k].number + 1) =>
        \/ passed' = passed
        \/ passed'[k] = passed[k] + 1 /\ store[k].number + 1 <= Limit(k.kind)
  BY <1>1, <1>2 DEF Judge, LetThrough
<1>7. QED
  BY <1>4, <1>5, <1>6

LEMMA SetWindowSays ==
  ASSUME TypeOK, NEW c \in Calls, NEW k \in WindowKeys, CallWindow(c) = k, SetWindow(c)
  PROVE  /\ store'[k].number = store[k].number /\ (store'[k].ttl <=> Holds(k))
         /\ passed'[k] = passed[k] + 1
         /\ call'[c].at # "expire"
<1>1. /\ store \in [Keys -> Entry] /\ passed \in [WindowKeys -> Nat] /\ k \in Keys
      /\ store[k] \in Entry /\ call \in [Calls -> CallType]
  BY WindowsApart DEF TypeOK, CodeTypes, RequestTypes
<1>2. store' = [store EXCEPT ![k] = [store[k] EXCEPT !.ttl = Holds(k)]]
  BY DEF SetWindow, Expire, Put
<1>3. store'[k].number = store[k].number /\ (store'[k].ttl <=> Holds(k))
  BY <1>1, <1>2 DEF Entry
<1>4. LetThrough(c)
  BY LimitType DEF SetWindow, Judge
<1>5. passed'[k] = passed[k] + 1
  BY <1>1, <1>4 DEF LetThrough
<1>6. PICK at \in {"count", "owner", "store"} : \E w :
        call' = [call EXCEPT ![c].at = at, ![c].window = w]
  BY <1>4 DEF LetThrough
<1>7. call'[c].at = at
  BY <1>1, <1>6 DEF CallType
<1>8. QED
  BY <1>3, <1>5, <1>7

\* A counter that refuses has an expiry or is to be given one.
Timed(k) ==
  Holds(k) /\ backing = "redis" /\ faults = 0 /\ ~crashed =>
    store[k].ttl \/ \E c \in Calls : Pending(c, k)

WindowsOK == WindowsCount /\ \A k \in WindowKeys : Timed(k)

\* A request is to give a counter its expiry until it does.
LEMMA PendingStays ==
  ASSUME TypeOK, [Next]_vars, NEW d \in Calls, NEW k, Pending(d, k), ~SetWindow(d)
  PROVE  Pending(d, k)' \/ faults' # 0 \/ crashed'
<1>1. call[d].at = "expire" /\ call[d] # Idle
  BY DEF Pending, Idle
<1>2. ~Arriving(d)
  BY <1>1, ArrivingShape DEF Begins
<1>3. Fails(d) => faults' # 0
  BY DEF Fails, TypeOK, RequestTypes
<1>4. GoesOn(d) => FALSE
  BY <1>1
  DEF GoesOn, OpensSession, Bump, Revoke, Grant, Rotates, EndsSessions, Retire, Regrant,
      Reread, Close, SetPassword, RevokeAll, MakesSecret, Count, AskOwner, Store, Send, Unsend,
      UsesSecret, Lapse, Reject, Accept, LookupMail, LookupOwner, LookupPhone, MarkMail,
      MarkPhone, CreatesAccount, ChangesAccount, Create, AddProfile, UndoProfile, UndoUser,
      Save, Reseed
<1>5. call'[d] = call[d] => Pending(d, k)'
  BY DEF Pending, CallWindow
<1>6. QED
  BY <1>2, <1>3, <1>4, <1>5, OwnSteps

\* The store that is configured does not change, and history does not go back.
LEMMA HistoryGrows ==
  ASSUME TypeOK, [Next]_vars
  PROVE  backing' = backing /\ (faults' = 0 => faults = 0) /\ (crashed => crashed')
<1>1. UNCHANGED codeVars => backing' = backing
  BY DEF codeVars
<1>2. ASSUME NEW c \in Calls, GoesOn(c) PROVE backing' = backing
  BY <1>1, <1>2
  DEF GoesOn, MakesSecret, UsesSecret, CreatesAccount, ChangesAccount, Count, SetWindow,
      AskOwner, Store, Send, Unsend, Lapse, Reject, Accept, Then, LookupMail, LookupOwner,
      LookupPhone, MarkMail, MarkPhone, Create, AddProfile, UndoProfile, UndoUser, Save, Reseed
<1>3. ASSUME NEW c \in Calls, Arriving(c) PROVE backing' = backing
  BY <1>1, <1>3, ArrivingShape
<1>4. TimePasses => backing' = backing
  BY <1>1 DEF TimePasses, Ages, RecordEnds, WindowEnds
<1>5. faults \in Nat
  BY DEF TypeOK, RequestTypes
<1>6. Suspends \/ UNCHANGED vars \/ (\E c \in Calls : Fails(c)) => backing' = backing
  BY <1>1 DEF Suspends, SetStatus, vars, Fails
<1>7. (\E c \in Calls : Fails(c)) => (faults' = 0 => faults = 0) /\ (crashed => crashed')
  BY <1>5 DEF Fails
<1>8. Crash => backing' = backing /\ faults' = faults /\ crashed'
  BY DEF Crash
<1>9. Calm \/ UNCHANGED vars => faults' = faults /\ crashed' = crashed
  BY DEF Calm, vars
<1>10. QED
  BY <1>2, <1>3, <1>4, <1>6, <1>7, <1>8, <1>9, StepCases

LEMMA WindowsStep ==
  ASSUME TypeOK, CodesKnown, WindowsOK, [Next]_vars
  PROVE  WindowsOK'
<1> DEFINE Counted(k) ==
      /\ passed[k] <= store[k].number /\ passed[k] <= Limit(k.kind)
      /\ store[k].ttl => Holds(k)
      /\ \A c \in Calls : Pending(c, k) =>
           /\ Holds(k) /\ ~store[k].ttl
           /\ passed[k] + 1 <= store[k].number /\ passed[k] + 1 <= Limit(k.kind)
           /\ \A d \in Calls : Pending(d, k) => d = c
<1> SUFFICES ASSUME NEW k \in WindowKeys
             PROVE  Counted(k)' /\ Timed(k)'
  BY DEF WindowsOK, WindowsCount, WindowKeys
<1>1. /\ passed[k] \in Nat /\ store[k].number \in Nat /\ store[k].ttl \in BOOLEAN
      /\ Limit(k.kind) \in Nat /\ Limit(k.kind) >= 1 /\ k \in Keys
      /\ store \in [Keys -> Entry] /\ passed \in [WindowKeys -> Nat]
      /\ call \in [Calls -> CallType]
  BY WindowsApart, LimitType DEF TypeOK, CodeTypes, RequestTypes, Entry
<1>2. Counted(k) /\ Timed(k)
  BY DEF WindowsOK, WindowsCount
<1>3. Limit(k.kind)' = Limit(k.kind)
  BY DEF Limit
<1>4. CASE \E c \in Calls : Count(c) /\ CallWindow(c) = k
  <2>1. PICK c \in Calls : Count(c) /\ CallWindow(c) = k
    BY <1>4
  <2>2. \A d \in Calls \ {c} : call'[d] = call[d]
    BY <1>1, <2>1, MakesSecretMoves DEF MakesSecret, QuietMoves
  <2>3. \A d \in Calls \ {c} : Pending(d, k)' <=> Pending(d, k)
    BY <2>2 DEF Pending, CallWindow
  <2>4. ~Pending(c, k)
    BY <2>1 DEF Pending, Count
  <2>5. CASE Holds(k)
    <3>1. ~Pending(c, k)'
      BY <2>1, <2>4, <2>5, PendingComes
    <3>2. /\ store'[k].number = store[k].number + 1
          /\ store'[k].ttl = (store[k].ttl /\ backing = "redis")
          /\ \/ passed'[k] = passed[k]
             \/ passed'[k] = passed[k] + 1 /\ store[k].number + 1 <= Limit(k.kind)
      BY <2>1, <2>5, CountSays
    <3>3. Counted(k)'
      BY <1>1, <1>2, <1>3, <2>3, <3>1, <3>2 DEF Holds
    <3>4. Timed(k)'
      BY <1>2, <2>3, <2>4, <2>5, <3>2, HistoryGrows DEF Timed, Holds
    <3>5. QED
      BY <3>3, <3>4
  <2>6. CASE ~Holds(k)
    <3>1. /\ store'[k].number = 1 /\ ~store'[k].ttl /\ passed'[k] = 0
          /\ Goes(c, "expire")
      BY <1>1, <1>2, <2>1, <2>6, CountSays DEF Holds
    <3>2. call'[c] = [call[c] EXCEPT !.at = "expire"]
      BY <1>1, <3>1 DEF Goes
    <3>3. /\ call'[c].at = "expire" /\ call'[c].window = call[c].window
          /\ call'[c].op = call[c].op /\ call'[c].mail = call[c].mail
          /\ call'[c].phone = call[c].phone
      BY <1>1, <3>2 DEF CallType
    <3>4. Pending(c, k)'
      BY <2>1, <3>3 DEF Pending, CallWindow
    <3>5. \A d \in Calls \ {c} : ~Pending(d, k)'
      BY <1>2, <2>3, <2>6
    <3>6. QED
      BY <1>1, <1>3, <3>1, <3>4, <3>5 DEF Holds, Timed
  <2>7. QED
    BY <2>5, <2>6
<1>5. CASE \E c \in Calls : SetWindow(c) /\ CallWindow(c) = k
  <2>1. PICK c \in Calls : SetWindow(c) /\ CallWindow(c) = k
    BY <1>5
  <2>2. Pending(c, k)
    BY <2>1 DEF SetWindow, Pending
  <2>3. /\ store'[k].number = store[k].number /\ (store'[k].ttl <=> Holds(k))
        /\ passed'[k] = passed[k] + 1 /\ call'[c].at # "expire"
    BY <2>1, SetWindowSays
  <2>4. \A d \in Calls : ~Pending(d, k)'
    BY <1>2, <2>2, <2>3, PendingComes DEF Pending
  <2>5. QED
    BY <1>1, <1>2, <1>3, <2>2, <2>3, <2>4 DEF Holds, Timed
<1>6. CASE WindowEnds(k)
  <2>1. /\ store[k].ttl /\ store'[k] = Absent /\ passed'[k] = 0 /\ call' = call
    BY <1>1, <1>6 DEF WindowEnds, TimesOut, Del, Put
  <2>2. \A d \in Calls : ~Pending(d, k)'
    BY <1>2, <2>1 DEF Pending, CallWindow
  <2>3. QED
    BY <1>1, <1>3, <2>1, <2>2 DEF Holds, Timed, Absent
<1>7. CASE Crash
  <2>1. \A d \in Calls : ~Pending(d, k)'
    BY <1>1, <1>7 DEF Crash, Idle, Pending
  <2>2. \/ store'[k] = Absent /\ passed'[k] = 0
        \/ store'[k] = store[k] /\ passed'[k] = passed[k]
    BY <1>1, <1>7 DEF Crash, Restarts
  <2>3. QED
    BY <1>1, <1>2, <1>3, <1>7, <2>1, <2>2 DEF Holds, Timed, Absent, Crash
<1>8. CASE /\ store'[k] = store[k] /\ passed'[k] = passed[k]
           /\ ~\E c \in Calls : (Count(c) \/ SetWindow(c)) /\ CallWindow(c) = k
  <2>1. \A d \in Calls : Pending(d, k)' => Pending(d, k)
    BY <1>8, PendingComes
  <2>2. Counted(k)'
    BY <1>1, <1>2, <1>3, <1>8, <2>1 DEF Holds
  <2>3. \A d \in Calls : Pending(d, k) => ~SetWindow(d)
    BY <1>8 DEF Pending
  <2>4. Timed(k)'
    BY <1>2, <1>8, <2>3, PendingStays, HistoryGrows DEF Timed, Holds
  <2>5. QED
    BY <2>2, <2>4
<1>9. QED
  BY <1>4, <1>5, <1>6, <1>7, <1>8, HandlesFollows, CounterSteps

LEMMA WindowsInit == Init => WindowsOK
<1> SUFFICES ASSUME Init, NEW k \in WindowKeys
             PROVE  /\ store[k] = Absent /\ passed[k] = 0 /\ Limit(k.kind) >= 0
                    /\ \A c \in Calls : ~Pending(c, k)
  BY DEF WindowsOK, WindowsCount, Holds, Timed, Absent
<1>1. CodesKnown
  BY CodesKnownInit
<1>2. k \in Keys /\ k \notin SecretKeys
  BY WindowsApart
<1>3. ~\E s \in Secrets : Made(s) /\ KeyOf(s) = k
  BY <1>1, <1>2 DEF CodesKnown, SecretsFiled
<1>4. QED
  BY <1>2, <1>3, LimitType DEF Init, Pending, Idle

\* A counter has counted every request it let through and every request that is
\* about to give it its expiry, and is given one as CounterIsTimed says.
THEOREM WindowsCounted == Spec => []WindowsOK
<1>1. TypeOK /\ CodesKnown /\ WindowsOK /\ [Next]_vars => WindowsOK'
  BY WindowsStep
<1>2. QED
  BY <1>1, WindowsInit, AccountsTypes, CodesFiled, PTL DEF Spec

\* In the life of a counter no more requests pass it than its limit, whatever the
\* number of requests and the order in which they count.
THEOREM WindowsBounded == Spec => []WindowBound
<1>1. WindowsOK => WindowBound
  BY DEF WindowsOK, WindowsCount, WindowBound
<1>2. QED
  BY <1>1, WindowsCounted, PTL

\* With Redis, a counter that refuses has an expiry or is to be given one, as long
\* as nothing throws or crashes.
THEOREM CountersTimed == Spec => []CounterIsTimed
<1>1. WindowsOK => CounterIsTimed
  BY DEF WindowsOK, Timed, Pending, CounterIsTimed
<1>2. QED
  BY <1>1, WindowsCounted, PTL

-----------------------------------------------------------------------------
(* What a code is good for.                                                *)

\* Secret s has left the service or is about to.
Delivered(s) ==
  secret[s].given \/ \E c \in Calls : call[c].at = "send" /\ call[c].number = s

\* Nothing has ended the use of secret s.
Usable(s) ==
  /\ Delivered(s) /\ ~secret[s].aged /\ secret[s].accepted = 0
  /\ secret[s].wrong < MaxAttempts
  /\ ~secret[s].contested /\ (crashed => backing = "redis")
  /\ \A x \in Secrets : ~Newer(x, s)

\* Request d is about to judge secret s by what it has read.
Judging(d, s) == call[d].at \in Deciding /\ call[d].number = s

\* As long as nobody shares s, the one request that judges it knows what became of it.
UsedOnce(s) ==
  Made(s) /\ ~secret[s].shared =>
    /\ secret[s].accepted <= 1 /\ secret[s].wrong <= MaxAttempts
    /\ Held(s) => secret[s].accepted = 0 /\ store[KeyOf(s)].tries = secret[s].wrong
    /\ \A d \in Calls : Judging(d, s) =>
         /\ secret[s].accepted = 0 /\ call[d].tries = secret[s].wrong
         /\ \A e \in Calls : Judging(e, s) => e = d

\* Whoever judges s counted no guess that was not made, and who may still write or
\* delete under the key of a usable secret has that secret in hand.
Contained(s) ==
  Made(s) =>
    /\ Held(s) => store[KeyOf(s)].tries <= secret[s].wrong
    /\ Held(s) /\ secret[s].accepted > 0 =>
         secret[s].kind # "reset" /\ store[KeyOf(s)].tries > 0
    /\ \A d \in Calls : Judging(d, s) => call[d].tries <= secret[s].wrong
    /\ Usable(s) =>
         /\ Held(s)
         /\ \A d \in Calls :
              call[d].at \in Holding /\ CallKey(d) = KeyOf(s) => call[d].number = s

LEMMA FirstApart ==
  ASSUME Plausible(scenario), secret = scenario.secrets, NEW s \in Secrets, NEW x \in Secrets,
         Made(s), Made(x), KeyOf(s) = KeyOf(x)
  PROVE  s = x
<1>1. secret[s] # NoSecret
  BY DEF Made, NoSecret
<1>2. \/ scenario.secrets[s] = NoSecret
      \/ \E kind \in {"mail", "sms", "reset"}, m \in Mails, p \in Phones :
           LET address == IF kind = "sms" THEN p ELSE m IN
           /\ scenario.secrets[s] = [NoSecret EXCEPT !.kind = kind,
                                       !.address = address, !.given = TRUE]
           /\ \A y \in Secrets \ {s} : scenario.secrets[y].kind = kind =>
                kind = "reset" \/ scenario.secrets[y].address # address
           /\ \A y \in Secrets : y < s => scenario.secrets[y] # NoSecret
  BY Zenon DEF Plausible
<1> DEFINE At(kind, m, p) == IF kind = "sms" THEN p ELSE m
<1>3. scenario.secrets[s] # NoSecret
  BY <1>1
<1>4. PICK kind \in {"mail", "sms", "reset"}, m \in Mails, p \in Phones :
        /\ scenario.secrets[s] = [NoSecret EXCEPT !.kind = kind,
                                    !.address = At(kind, m, p), !.given = TRUE]
        /\ \A y \in Secrets \ {s} : scenario.secrets[y].kind = kind =>
             kind = "reset" \/ scenario.secrets[y].address # At(kind, m, p)
  BY <1>2, <1>3, Zenon
<1> DEFINE address == At(kind, m, p)
<1> HIDE DEF At
<1>5. \A y \in Secrets \ {s} : secret[y].kind = kind =>
         kind = "reset" \/ secret[y].address # address
  BY <1>4
<1>6. secret[s].kind = kind /\ secret[s].address = address
  BY <1>4 DEF NoSecret
<1> HIDE DEF address
<1>7. secret[x].kind = kind
  BY <1>6 DEF KeyOf, SecretKey, Key
<1>8. kind = "reset" => s = x
  BY <1>6, <1>7 DEF KeyOf, SecretKey, Key
<1>9. kind # "reset" => secret[x].address = address
  BY <1>6, <1>7 DEF KeyOf, SecretKey, Key
<1>10. QED
  BY <1>5, <1>7, <1>8, <1>9

LEMMA UsedInit ==
  ASSUME Init, NEW s \in Secrets
  PROVE  UsedOnce(s) /\ Contained(s)
<1> SUFFICES ASSUME Made(s) PROVE UsedOnce(s) /\ Contained(s)
  BY DEF UsedOnce, Contained
<1>1. CodesKnown /\ Plausible(scenario) /\ secret = scenario.secrets
  BY CodesKnownInit, ScenariosAssumption DEF Init
<1>2. secret[s] # NoSecret
  BY DEF Made, NoSecret
<1>3. PICK kind \in {"mail", "sms", "reset"}, m \in Mails, p \in Phones :
        scenario.secrets[s]
          = [NoSecret EXCEPT !.kind = kind,
               !.address = IF kind = "sms" THEN p ELSE m, !.given = TRUE]
  BY <1>1, <1>2, FirstSecrets
<1>4. secret[s].accepted = 0 /\ secret[s].wrong = 0
  BY <1>1, <1>3 DEF NoSecret
<1>5. KeyOf(s) \in Keys
  BY <1>1, WindowsApart DEF CodesKnown, SecretsFiled
<1>6. store[KeyOf(s)] = [number |-> CHOOSE x \in Secrets : Made(x) /\ KeyOf(x) = KeyOf(s),
                         tries |-> 0, ttl |-> TRUE]
  BY <1>5 DEF Init
<1>7. s = CHOOSE x \in Secrets : Made(x) /\ KeyOf(x) = KeyOf(s)
  BY <1>1, FirstApart
<1>8. Held(s) /\ store[KeyOf(s)].tries = 0
  BY <1>6, <1>7 DEF Held
<1>9. \A d \in Calls : call[d].at = "idle"
  BY DEF Init, Idle
<1>10. QED
  BY <1>4, <1>8, <1>9, CodesAssumption DEF UsedOnce, Contained, Judging, Holding, Deciding

LEMMA SecretNumbers ==
  ASSUME TypeOK, NEW s \in Secrets
  PROVE  /\ s \in Nat /\ s # 0 /\ secret[s] \in SecretType
         /\ secret[s].accepted \in Nat /\ secret[s].wrong \in Nat
         /\ MaxAttempts \in Nat /\ MaxAttempts >= 1
BY CodesAssumption DEF TypeOK, CodeTypes, SecretType

\* Only the answer to a guess counts.
LEMMA CountsSame ==
  ASSUME TypeOK, [Next]_vars, NEW s \in Secrets, Made(s),
         \A c \in Calls : Accept(c) \/ Reject(c) => call[c].number # s
  PROVE  secret'[s].accepted = secret[s].accepted /\ secret'[s].wrong = secret[s].wrong
<1> DEFINE Same ==
      secret'[s].accepted = secret[s].accepted /\ secret'[s].wrong = secret[s].wrong
<1>1. secret \in [Secrets -> SecretType] /\ secret[s] \in SecretType
  BY DEF TypeOK, CodeTypes
<1>2. ASSUME NEW c \in Calls, Writes(c) PROVE Same
  BY <1>2, WritesSays, SecretNumbers
<1>3. ASSUME NEW c \in Calls, Send(c) PROVE Same
  BY <1>1, <1>3 DEF Send, SecretType
<1>4. ASSUME NEW x \in Secrets, Ages(x) PROVE Same
  BY <1>1, <1>4 DEF Ages, SecretType
<1>5. ASSUME NEW c \in Calls, NEW x \in Secrets, Makes(c, x) PROVE Same
  BY <1>5 DEF Makes
<1>6. QED
  BY <1>2, <1>3, <1>4, <1>5, CodeCases DEF Leaves, OnlyShared, RecordEnds, Crash

\* A request that judges s did so before, or has just read it.
LEMMA JudgingComes ==
  ASSUME TypeOK, CodesKnown, [Next]_vars, NEW d \in Calls, NEW s \in Secrets, Judging(d, s)'
  PROVE  \/ call'[d] = call[d] /\ Judging(d, s)
         \/ /\ Held(s) /\ call'[d].tries = store[KeyOf(s)].tries
            /\ secret'[s].accepted = secret[s].accepted /\ secret'[s].wrong = secret[s].wrong
            /\ \A e \in Calls : Judging(e, s) => secret'[s].shared
            /\ \A e \in Calls \ {d} : call'[e] = call[e]
<1>1. call'[d].at \in Deciding /\ call'[d].at \in Holding /\ call'[d].number = s
      /\ call'[d].at \notin {"send", "unsend"} /\ call \in [Calls -> CallType]
  BY DEF Judging, Holding, Deciding, TypeOK, RequestTypes
<1>2. CASE call'[d] = call[d]
  BY <1>1, <1>2 DEF Judging
<1>3. ASSUME OnlyShared, Arriving(d), NEW k \in SecretKeys, HasRead(call'[d], k)
      PROVE  /\ Held(s) /\ call'[d].tries = store[KeyOf(s)].tries
             /\ secret'[s].accepted = secret[s].accepted /\ secret'[s].wrong = secret[s].wrong
             /\ \A e \in Calls : Judging(e, s) => secret'[s].shared
             /\ \A e \in Calls \ {d} : call'[e] = call[e]
  <2>1. KeyOf(s) = k
    BY <1>1, <1>3, ReadFiled DEF Filed
  <2>2. Held(s) /\ call'[d].tries = store[KeyOf(s)].tries
    BY <1>1, <1>3, <2>1 DEF HasRead, Held
  <2>3. Shares(d)
    BY <1>1, <1>3, ArrivingReads
  <2>4. \A e \in Calls : Judging(e, s) => secret'[s].shared
    BY <1>1, <2>3 DEF Shares, Judging
  <2>5. \A e \in Calls \ {d} : call'[e] = call[e]
    BY <1>1, <1>3, ArrivingShape DEF Begins
  <2>6. QED
    BY <1>3, <2>2, <2>4, <2>5 DEF OnlyShared
<1>4. QED
  BY <1>1, <1>2, <1>3, InHand, MadeFiled

\* A secret made before is under its key as it was, or with one guess more.
LEMMA HeldComes ==
  ASSUME TypeOK, CodesKnown, [Next]_vars, NEW s \in Secrets, Made(s), Held(s)'
  PROVE  /\ KeyOf(s)' = KeyOf(s)
         /\ \/ Held(s) /\ store'[KeyOf(s)] = store[KeyOf(s)]
            \/ \E c \in Calls :
                 /\ Reject(c) /\ call[c].number = s /\ CallKey(c) = KeyOf(s)
                 /\ store'[KeyOf(s)].tries = call[c].tries + 1
<1>1. KeyOf(s)' = KeyOf(s) /\ KeyOf(s) \in SecretKeys
  BY FiledStays DEF Filed, CodesKnown, SecretsFiled
<1>2. store'[KeyOf(s)].number = s
  BY <1>1 DEF Held
<1>3. store'[KeyOf(s)] # Absent
  BY <1>2, SecretNumbers DEF Absent
<1>4. ASSUME NEW c \in Calls, NEW x \in Secrets, Makes(c, x),
             store'[KeyOf(s)] = [number |-> x, tries |-> 0, ttl |-> TRUE]
      PROVE  FALSE
  BY <1>2, <1>4 DEF Makes
<1>5. ASSUME NEW c \in Calls, Reject(c), CallKey(c) = KeyOf(s),
             store'[KeyOf(s)] = [number |-> call[c].number, tries |-> call[c].tries + 1,
                                 ttl |-> TRUE]
      PROVE  call[c].number = s /\ store'[KeyOf(s)].tries = call[c].tries + 1
  BY <1>2, <1>5
<1>6. CASE store'[KeyOf(s)] = store[KeyOf(s)]
  BY <1>1, <1>2, <1>6 DEF Held
<1>7. QED
  BY <1>1, <1>3, <1>4, <1>5, <1>6, RecordCases

\* An answer to a guess: it was judged, and is no more.
LEMMA Answers ==
  ASSUME TypeOK, CodesKnown, NEW c \in Calls, Accept(c) \/ Reject(c), NEW s \in Secrets,
         call[c].number = s
  PROVE  /\ Judging(c, s) /\ call'[c].at \notin Deciding
         /\ CallKey(c) = KeyOf(s) /\ KeyOf(s) \in SecretKeys
         /\ secret'[s].accepted = secret[s].accepted + (IF Accept(c) THEN 1 ELSE 0)
         /\ secret'[s].wrong = secret[s].wrong + (IF Accept(c) THEN 0 ELSE 1)
         /\ Accept(c) => store'[KeyOf(s)].number = 0
         /\ Reject(c) => /\ ~Accept(c)
                         /\ call[c].tries < MaxAttempts /\ secret[s].kind # "reset"
<1>1. Writes(c) /\ call[c].at \in {"accept", "reject"}
  BY DEF Writes, Accept, Reject
<1>2. call[c] \in CallType /\ c \in DOMAIN call /\ store \in [Keys -> Entry]
  BY DEF TypeOK, RequestTypes, CodeTypes
<1>3. Judging(c, s)
  BY <1>1 DEF Judging, Deciding
<1>4. call'[c].at \in {"idle", "lookup"}
  BY <1>2 DEF Accept, Reject, Ends, Goes, Idle, CallType
<1>5. Accept(c) => ~Reject(c)
  BY DEF Accept, Reject
<1>6. /\ secret'[s].accepted = secret[s].accepted + (IF Accept(c) THEN 1 ELSE 0)
      /\ secret'[s].wrong = secret[s].wrong + (IF Accept(c) THEN 0 ELSE 1)
  BY <1>1, <1>5, WritesSays
<1>7. CallKey(c) = KeyOf(s) /\ KeyOf(s) \in SecretKeys
  BY <1>1, WritesUnder DEF Filed
<1>8. Accept(c) => store'[KeyOf(s)].number = 0
  BY <1>2, <1>7, WindowsApart DEF Accept, Del, Put, Absent
<1>9. ASSUME Reject(c)
      PROVE  call[c].tries < MaxAttempts /\ secret[s].kind # "reset"
  <2>1. call[c].at = "reject" /\ call[c].at \in Holding
    BY <1>9 DEF Reject, Holding, Deciding
  <2>2. call[c].tries < MaxAttempts /\ call[c].op \in {"proveMail", "proveSms"}
    BY <2>1 DEF CodesKnown, RequestsFiled
  <2>3. CallKey(c).kind \in {"mail", "sms"}
    BY <2>2 DEF CallKey, Key
  <2>4. QED
    BY <1>7, <2>2, <2>3 DEF KeyOf, SecretKey, Key
<1>10. QED
  BY <1>3, <1>4, <1>5, <1>6, <1>7, <1>8, <1>9 DEF Deciding

LEMMA UsedOnceStep ==
  ASSUME TypeOK, CodesKnown, [Next]_vars, NEW s \in Secrets, Made(s), UsedOnce(s)
  PROVE  UsedOnce(s)'
<1> SUFFICES ASSUME ~secret'[s].shared
             PROVE  /\ secret'[s].accepted <= 1 /\ secret'[s].wrong <= MaxAttempts
                    /\ Held(s)' => /\ secret'[s].accepted = 0
                                   /\ store'[KeyOf(s)'].tries = secret'[s].wrong
                    /\ \A d \in Calls : Judging(d, s)' =>
                         /\ secret'[s].accepted = 0 /\ call'[d].tries = secret'[s].wrong
                         /\ \A e \in Calls : Judging(e, s)' => e = d
  BY DEF UsedOnce
<1>1. ~secret[s].shared
  BY SecretKept DEF Makes
<1>2. /\ secret[s].accepted <= 1 /\ secret[s].wrong <= MaxAttempts
      /\ Held(s) => secret[s].accepted = 0 /\ store[KeyOf(s)].tries = secret[s].wrong
      /\ \A d \in Calls : Judging(d, s) =>
           /\ secret[s].accepted = 0 /\ call[d].tries = secret[s].wrong
           /\ \A e \in Calls : Judging(e, s) => e = d
  BY <1>1 DEF UsedOnce
<1>3. ASSUME NEW c \in Calls, Accept(c) \/ Reject(c), call[c].number = s
      PROVE  /\ secret'[s].accepted <= 1 /\ secret'[s].wrong <= MaxAttempts
             /\ Held(s)' => /\ secret'[s].accepted = 0
                            /\ store'[KeyOf(s)'].tries = secret'[s].wrong
             /\ \A d \in Calls : ~Judging(d, s)'
  <2>1. /\ Judging(c, s) /\ call'[c].at \notin Deciding
        /\ secret'[s].accepted = secret[s].accepted + (IF Accept(c) THEN 1 ELSE 0)
        /\ secret'[s].wrong = secret[s].wrong + (IF Accept(c) THEN 0 ELSE 1)
        /\ Accept(c) => store'[KeyOf(s)].number = 0
        /\ Reject(c) => ~Accept(c) /\ call[c].tries < MaxAttempts
    BY <1>3, Answers
  <2>2. /\ secret[s].accepted = 0 /\ call[c].tries = secret[s].wrong
        /\ \A e \in Calls : Judging(e, s) => e = c
    BY <1>2, <2>1
  <2>3. secret'[s].accepted <= 1 /\ secret'[s].wrong <= MaxAttempts
    BY <1>2, <1>3, <2>1, <2>2, SecretNumbers
  <2>4. ASSUME NEW d \in Calls, Judging(d, s)' PROVE FALSE
    <3>1. d # c
      BY <2>1, <2>4 DEF Judging, Deciding
    <3>2. call'[d] = call[d] /\ Judging(d, s)
      BY <2>1, <2>4, JudgingComes, SecretNumbers
    <3>3. QED
      BY <2>2, <3>1, <3>2
  <2>5. ASSUME Held(s)'
        PROVE  secret'[s].accepted = 0 /\ store'[KeyOf(s)'].tries = secret'[s].wrong
    <3>1. KeyOf(s)' = KeyOf(s) /\ store'[KeyOf(s)].number = s
      BY <2>5, HeldComes DEF Held
    <3>2. ~Accept(c) /\ Reject(c)
      BY <1>3, <2>1, <3>1, SecretNumbers
    <3>3. SetEx(CallKey(c), s, call[c].tries + 1) \/ Del(CallKey(c))
      BY <1>3, <3>2 DEF Reject
    <3>4. CallKey(c) = KeyOf(s) /\ KeyOf(s) \in Keys /\ store \in [Keys -> Entry]
      BY <1>3, Answers, WindowsApart DEF TypeOK, CodeTypes
    <3>5. store'[KeyOf(s)].tries = call[c].tries + 1
      BY <3>1, <3>3, <3>4, SecretNumbers DEF SetEx, Del, Put, Absent
    <3>6. QED
      BY <2>1, <2>2, <3>1, <3>2, <3>5, SecretNumbers
  <2>6. QED
    BY <2>3, <2>4, <2>5
<1>4. ASSUME \A c \in Calls : Accept(c) \/ Reject(c) => call[c].number # s
      PROVE  /\ secret'[s].accepted <= 1 /\ secret'[s].wrong <= MaxAttempts
             /\ Held(s)' => /\ secret'[s].accepted = 0
                            /\ store'[KeyOf(s)'].tries = secret'[s].wrong
             /\ \A d \in Calls : Judging(d, s)' =>
                  /\ secret'[s].accepted = 0 /\ call'[d].tries = secret'[s].wrong
                  /\ \A e \in Calls : Judging(e, s)' => e = d
  <2>1. secret'[s].accepted = secret[s].accepted /\ secret'[s].wrong = secret[s].wrong
    BY <1>4, CountsSame
  <2>2. Held(s)' => /\ secret'[s].accepted = 0
                   /\ store'[KeyOf(s)'].tries = secret'[s].wrong
    BY <1>2, <1>4, <2>1, HeldComes
  <2>3. ASSUME NEW d \in Calls, Judging(d, s)'
        PROVE  secret'[s].accepted = 0 /\ call'[d].tries = secret'[s].wrong
    BY <1>2, <2>1, <2>3, JudgingComes
  <2>4. ASSUME NEW d \in Calls, NEW e \in Calls, Judging(d, s)', Judging(e, s)'
        PROVE  e = d
    <3>1. CASE Judging(d, s) /\ Judging(e, s)
      BY <1>2, <3>1
    <3>2. ASSUME NEW x \in Calls, NEW y \in Calls, Judging(x, s)', Judging(y, s)',
                 ~Judging(x, s)
          PROVE  x = y
      <4>1. /\ \A z \in Calls : ~Judging(z, s)
            /\ \A z \in Calls \ {x} : call'[z] = call[z]
        BY <3>2, JudgingComes
      <4>2. CASE x # y
        <5>1. Judging(y, s)
          BY <3>2, <4>1, <4>2 DEF Judging, Deciding
        <5>2. QED
          BY <4>1, <5>1
      <4>3. QED
        BY <4>2
    <3>3. QED
      BY <2>4, <3>1, <3>2
  <2>5. QED
    BY <1>2, <2>1, <2>2, <2>3, <2>4
<1>5. QED
  BY <1>3, <1>4

\* A secret about to be delivered was so before, or is made now.
LEMMA DeliveredComes ==
  ASSUME TypeOK, CodesKnown, [Next]_vars, NEW d \in Calls, call'[d].at = "send"
  PROVE  \/ call[d].at = "send" /\ call[d].number = call'[d].number
         \/ Makes(d, call'[d].number)
<1>1. CASE call'[d] = call[d]
  BY <1>1
<1>2. ASSUME NEW s \in Secrets, Makes(d, s), AskedKind(d) # "sms"
      PROVE  Makes(d, call'[d].number)
  <2>1. call'[d].number = s
    BY <1>2, MadeFiled
  <2>2. QED
    BY <1>2, <2>1
<1>3. QED
  BY <1>1, <1>2, InHand DEF Holding, Deciding

\* Counts of uses are numbers afterwards.
LEMMA SecretCounts ==
  ASSUME TypeOK, [Next]_vars, NEW s \in Secrets
  PROVE  secret'[s].accepted \in Nat /\ secret'[s].wrong \in Nat
<1>1. TypeOK'
  BY TypeStep
<1>2. QED
  BY <1>1 DEF TypeOK, CodeTypes, SecretType

\* What was usable is, when it still is, under its key.
LEMMA UsableBefore ==
  ASSUME TypeOK, CodesKnown, [Next]_vars, NEW s \in Secrets, Made(s), Usable(s)'
  PROVE  Usable(s)
<1>1. Filed(s, KeyOf(s))
  BY DEF Filed
<1>2. ~\E c \in Calls : Makes(c, s)
  BY DEF Makes
<1>3. Delivered(s)
  <2>1. CASE \E d \in Calls : call'[d].at = "send" /\ call'[d].number = s
    BY <1>2, <2>1, DeliveredComes DEF Delivered
  <2>2. CASE secret'[s].given
    <3>1. secret[s].given \/ \E c \in Calls : Send(c) /\ call[c].number = s
      BY <1>1, <2>2, FiledStays
    <3>2. QED
      BY <3>1 DEF Delivered, Send
  <2>3. QED
    BY <2>1, <2>2 DEF Usable, Delivered
<1>4. /\ ~secret[s].aged /\ secret[s].accepted = 0 /\ secret[s].wrong < MaxAttempts
      /\ ~secret[s].contested
  BY <1>2, SecretKept, SecretNumbers, SecretCounts DEF Usable
<1>5. ASSUME NEW x \in Secrets, Newer(x, s) PROVE FALSE
  <2>1. Filed(x, KeyOf(s))
    BY <1>5 DEF Newer, Filed
  <2>2. Made(x)' /\ KeyOf(x)' = KeyOf(s) /\ KeyOf(s)' = KeyOf(s)
    BY <1>1, <2>1, FiledStays DEF Filed, Made, KeyOf
  <2>3. QED
    BY <1>5, <2>2 DEF Usable, Newer
<1>6. crashed => backing = "redis"
  BY HistoryGrows DEF Usable
<1>7. QED
  BY <1>3, <1>4, <1>5, <1>6 DEF Usable

\* What is made for the key of a secret made before comes after it.
LEMMA MadeNewer ==
  ASSUME TypeOK, CodesKnown, [Next]_vars, NEW s \in Secrets, Made(s), NEW c \in Calls,
         NEW x \in Secrets, Makes(c, x), AskedKey(c, x) = KeyOf(s)
  PROVE  ~Usable(s)'
<1>1. KeyOf(x)' = AskedKey(c, x) /\ Made(x)'
  BY MadeKeys
<1>2. KeyOf(s)' = KeyOf(s)
  BY FiledStays DEF Filed, KeyOf
<1>3. s < x
  <2>1. ~(x < s) /\ x # s
    BY DEF CodesKnown, SecretsFiled, Makes
  <2>2. QED
    BY <2>1, SecretNumbers
<1>4. Newer(x, s)'
  BY <1>1, <1>2, <1>3 DEF Newer
<1>5. QED
  BY <1>4 DEF Usable

\* A usable secret that stays so stays under its key.
LEMMA HeldStays ==
  ASSUME TypeOK, CodesKnown, [Next]_vars, NEW s \in Secrets, Made(s), Contained(s),
         Usable(s), Usable(s)'
  PROVE  Held(s)'
<1>1. /\ secret[s] \in SecretType /\ store \in [Keys -> Entry]
      /\ KeyOf(s) \in SecretKeys /\ SecretKeys \subseteq Keys
  BY WindowsApart DEF TypeOK, CodeTypes, CodesKnown, SecretsFiled
<1>2. /\ Held(s)
      /\ \A d \in Calls : Judging(d, s) => call[d].tries <= secret[s].wrong
      /\ \A d \in Calls :
           call[d].at \in Holding /\ CallKey(d) = KeyOf(s) => call[d].number = s
  BY DEF Contained
<1>3. KeyOf(s)' = KeyOf(s)
  BY FiledStays DEF Filed, KeyOf
<1> SUFFICES store'[KeyOf(s)].number = s
  BY <1>3 DEF Held
<1>4. store'[KeyOf(s)] = store[KeyOf(s)] => store'[KeyOf(s)].number = s
  BY <1>2 DEF Held
<1>5. ASSUME NEW c \in Calls, NEW x \in Secrets, Makes(c, x)
      PROVE  store'[KeyOf(s)] = store[KeyOf(s)]
  BY <1>1, <1>5, MadeNewer DEF Makes
<1>6. ASSUME NEW c \in Calls, Writes(c), CallKey(c) = KeyOf(s)
      PROVE  store'[KeyOf(s)].number = s
  <2>1. call[c].at \in Holding /\ call[c].number = s
    BY <1>2, <1>6 DEF Writes, Lapse, Reject, Accept, Unsend, Holding, Deciding
  <2>2. secret'[s].accepted \in Nat /\ secret'[s].wrong \in Nat
    BY SecretCounts
  <2>3. call[c].tries \in Nat
    BY DEF TypeOK, RequestTypes, CallType
  <2>4. ~Accept(c)
    BY <2>1, Answers, SecretNumbers DEF Usable
  <2>5. ~Lapse(c)
    <3>1. ASSUME Lapse(c) PROVE FALSE
      <4>1. secret[s].aged \/ call[c].tries >= MaxAttempts
        BY <2>1, <3>1 DEF Lapse, CodesKnown, RequestsFiled
      <4>2. call[c].tries <= secret[s].wrong
        BY <1>2, <2>1, <3>1 DEF Lapse, Judging, Deciding
      <4>3. QED
        BY <2>3, <4>1, <4>2, SecretNumbers DEF Usable
    <3>2. QED
      BY <3>1
  <2>6. ~Unsend(c)
    <3>1. ASSUME Unsend(c) PROVE FALSE
      <4>1. Mailing(c) /\ ~secret[s].given
        BY <2>1, <3>1 DEF Unsend, Mailing, CodesKnown, MailsApart
      <4>2. PICK d \in Calls : call[d].at = "send" /\ call[d].number = s
        BY <4>1 DEF Usable, Delivered
      <4>3. d = c
        BY <2>1, <4>1, <4>2 DEF CodesKnown, MailsApart, Mailing
      <4>4. QED
        BY <3>1, <4>2, <4>3 DEF Unsend
    <3>2. QED
      BY <3>1
  <2>7. Reject(c)
    BY <1>6, <2>4, <2>5, <2>6 DEF Writes
  <2>8. call[c].tries <= secret[s].wrong /\ secret'[s].wrong = secret[s].wrong + 1
    BY <1>2, <2>1, <2>4, <2>7, Answers
  <2>9. call[c].tries + 1 < MaxAttempts
    BY <2>3, <2>8, SecretNumbers DEF Usable
  <2>10. SetEx(KeyOf(s), s, call[c].tries + 1)
    BY <1>6, <2>1, <2>3, <2>7, <2>9, SecretNumbers DEF Reject
  <2>11. QED
    BY <1>1, <2>10 DEF SetEx, Put
<1>7. ASSUME NEW c \in Calls, Writes(c), CallKey(c) # KeyOf(s)
      PROVE  store'[KeyOf(s)] = store[KeyOf(s)]
  BY <1>1, <1>7, WritesUnder
<1>8. ASSUME NEW k \in SecretKeys, RecordEnds(k)
      PROVE  store'[KeyOf(s)] = store[KeyOf(s)]
  <2>1. k # KeyOf(s)
    BY <1>2, <1>8 DEF RecordEnds, Held, Usable
  <2>2. QED
    BY <1>1, <1>8, <2>1 DEF RecordEnds, TimesOut, Del, Put
<1>9. CASE Crash
  <2>1. backing = "redis"
    BY <1>9, HistoryGrows DEF Usable, Crash
  <2>2. QED
    BY <1>4, <1>9, <2>1 DEF Crash, Restarts
<1>10. QED
  BY <1>1, <1>4, <1>5, <1>6, <1>7, <1>8, <1>9, CodeCases DEF Leaves, Send, Ages

LEMMA ContainedStep ==
  ASSUME TypeOK, CodesKnown, [Next]_vars, NEW s \in Secrets, Made(s), Contained(s)
  PROVE  Contained(s)'
<1>1. /\ Held(s) => store[KeyOf(s)].tries <= secret[s].wrong
      /\ Held(s) /\ secret[s].accepted > 0 =>
           secret[s].kind # "reset" /\ store[KeyOf(s)].tries > 0
      /\ \A d \in Calls : Judging(d, s) => call[d].tries <= secret[s].wrong
      /\ Usable(s) =>
           /\ Held(s)
           /\ \A d \in Calls :
                call[d].at \in Holding /\ CallKey(d) = KeyOf(s) => call[d].number = s
  BY DEF Contained
<1>2. /\ \A c \in Calls : call[c].tries \in Nat
      /\ KeyOf(s) \in Keys /\ store[KeyOf(s)].tries \in Nat
      /\ secret'[s].accepted \in Nat /\ secret'[s].wrong \in Nat
  BY WindowsApart, SecretCounts
  DEF TypeOK, RequestTypes, CallType, CodeTypes, Entry, CodesKnown, SecretsFiled
<1>3. KeyOf(s)' = KeyOf(s) /\ Made(s)'
  BY FiledStays DEF Filed, KeyOf
<1>4. secret[s].wrong <= secret'[s].wrong /\ secret'[s].kind = secret[s].kind
  BY SecretKept DEF Makes
<1>5. Held(s)' => store'[KeyOf(s)].tries <= secret'[s].wrong
  <2>1. ASSUME NEW c \in Calls, Reject(c), call[c].number = s,
               store'[KeyOf(s)].tries = call[c].tries + 1
        PROVE  store'[KeyOf(s)].tries <= secret'[s].wrong
    BY <1>1, <1>2, <2>1, Answers, SecretNumbers
  <2>2. Held(s) /\ store'[KeyOf(s)] = store[KeyOf(s)] =>
          store'[KeyOf(s)].tries <= secret'[s].wrong
    BY <1>1, <1>2, <1>4, SecretNumbers
  <2>3. QED
    BY <2>1, <2>2, HeldComes
<1>6. ASSUME Held(s)', secret'[s].accepted > 0
      PROVE  secret'[s].kind # "reset" /\ store'[KeyOf(s)].tries > 0
  <2>1. \A c \in Calls : Accept(c) => call[c].number # s
    BY <1>3, <1>6, Answers, SecretNumbers DEF Held
  <2>2. secret'[s].accepted = secret[s].accepted
    BY <2>1, CountsSame, Answers, SecretNumbers
  <2>3. ASSUME NEW c \in Calls, Reject(c), call[c].number = s,
               store'[KeyOf(s)].tries = call[c].tries + 1
        PROVE  secret'[s].kind # "reset" /\ store'[KeyOf(s)].tries > 0
    BY <1>2, <1>4, <2>3, Answers
  <2>4. QED
    BY <1>1, <1>4, <1>6, <2>2, <2>3, HeldComes
<1>7. ASSUME NEW d \in Calls, Judging(d, s)'
      PROVE  call'[d].tries <= secret'[s].wrong
  BY <1>1, <1>2, <1>4, <1>7, JudgingComes, SecretNumbers
<1>8. ASSUME Usable(s)'
      PROVE  /\ Held(s)'
             /\ \A d \in Calls :
                  (call[d].at \in Holding /\ CallKey(d) = KeyOf(s) => call[d].number = s)'
  <2>1. Usable(s)
    BY <1>8, UsableBefore
  <2>2. Held(s)'
    BY <1>8, <2>1, HeldStays
  <2>3. ASSUME NEW d \in Calls, call'[d].at \in Holding, CallKey(d)' = KeyOf(s)
        PROVE  call'[d].number = s
    <3>1. ASSUME NEW k \in SecretKeys, HasRead(call'[d], k)
          PROVE  call'[d].number = s
      <4>1. k = KeyOf(s)
        BY <2>3, <3>1, ReadFiled
      <4>2. QED
        BY <1>1, <2>1, <3>1, <4>1 DEF HasRead, Held
    <3>2. ASSUME NEW x \in Secrets, Makes(d, x), AskedKind(d) # "sms"
          PROVE  FALSE
      BY <1>8, <2>3, <3>2, MadeFiled, MadeNewer
    <3>3. CASE CallKey(d)' = CallKey(d) /\ call[d].at \in Holding
               /\ call'[d].number = call[d].number
      BY <1>1, <2>1, <2>3, <3>3
    <3>4. QED
      BY <2>3, <3>1, <3>2, <3>3, InHand DEF Holding
  <2>4. QED
    BY <1>3, <2>2, <2>3 DEF Holding, Deciding
<1>9. QED
  BY <1>3, <1>5, <1>6, <1>7, <1>8 DEF Contained

\* A secret just made, not yet judged by anybody.
LEMMA MakesUsed ==
  ASSUME TypeOK, CodesKnown, [Next]_vars, NEW c \in Calls, NEW s \in Secrets, Makes(c, s)
  PROVE  UsedOnce(s)' /\ Contained(s)'
<1>1. KeyOf(s)' = AskedKey(c, s) /\ Made(s)' /\ AskedKey(c, s) \in SecretKeys
  BY MadeKeys DEF Makes
<1>2. /\ store \in [Keys -> Entry] /\ SecretKeys \subseteq Keys
      /\ call \in [Calls -> CallType]
  BY WindowsApart DEF TypeOK, CodeTypes, RequestTypes
<1>3. store'[AskedKey(c, s)] = [number |-> s, tries |-> 0, ttl |-> TRUE]
  BY <1>1, <1>2 DEF Makes
<1>4. Held(s)' /\ store'[KeyOf(s)'].tries = 0
  BY <1>1, <1>3 DEF Held
<1>5. secret'[s].accepted = 0 /\ secret'[s].wrong = 0
  BY DEF Makes
<1>6. ASSUME NEW d \in Calls, Judging(d, s)' PROVE FALSE
  <2>1. call'[d] = call[d] \/ d = c
    BY <1>2 DEF Makes
  <2>2. call'[c].at \in {"idle", "send"}
    BY <1>2 DEF Makes, Idle, CallType
  <2>3. Judging(d, s)
    BY <1>6, <2>1, <2>2 DEF Judging, Deciding
  <2>4. call[d].at \in Holding
    BY <2>3 DEF Judging, Holding
  <2>5. Made(s)
    BY <2>3, <2>4 DEF Judging, CodesKnown, RequestsFiled, Filed
  <2>6. QED
    BY <2>5 DEF Makes
<1>7. ASSUME ~secret'[s].contested, NEW d \in Calls, call'[d].at \in Holding,
             CallKey(d)' = AskedKey(c, s)
      PROVE  call'[d].number = s
  <2>1. CASE d = c
    <3>1. AskedKind(c) # "sms"
      BY <1>2, <1>7, <2>1 DEF Makes, Idle, Holding, Deciding
    <3>2. QED
      BY <2>1, <3>1, MadeFiled
  <2>2. CASE d # c
    <3>1. call'[d] = call[d]
      BY <1>2, <2>2 DEF Makes
    <3>2. CallKey(d)' = CallKey(d)
      BY <3>1 DEF CallKey
    <3>3. QED
      BY <1>7, <3>1, <3>2 DEF Makes
  <2>3. QED
    BY <2>1, <2>2
<1>8. Usable(s)' => \A d \in Calls :
        (call[d].at \in Holding /\ CallKey(d) = KeyOf(s) => call[d].number = s)'
  BY <1>1, <1>7 DEF Usable, Holding, Deciding
<1>9. QED
  BY <1>4, <1>5, <1>6, <1>8, SecretNumbers DEF UsedOnce, Contained

LEMMA UsedStep ==
  ASSUME TypeOK, CodesKnown, [Next]_vars, NEW s \in Secrets, UsedOnce(s), Contained(s)
  PROVE  UsedOnce(s)' /\ Contained(s)'
<1>1. CASE ~Made(s) /\ ~\E c \in Calls : Makes(c, s)
  BY <1>1, SecretKept DEF Made, UsedOnce, Contained
<1>2. QED
  BY <1>1, UsedOnceStep, ContainedStep, MakesUsed

CodesUsed == \A s \in Secrets : UsedOnce(s) /\ Contained(s)

\* What becomes of a secret is known to its record, and to the one request that
\* judges it as long as nobody shares it.
THEOREM CodesAreUsed == Spec => []CodesUsed
<1>1. Init => CodesUsed
  BY UsedInit DEF CodesUsed
<1>2. TypeOK /\ CodesKnown /\ CodesUsed /\ [Next]_vars => CodesUsed'
  BY UsedStep DEF CodesUsed
<1>3. QED
  BY <1>1, <1>2, AccountsTypes, CodesFiled, PTL DEF Spec

\* A secret that no two requests had in hand at once is used at most once, counts
\* every wrong guess and takes no more of them than allowed.
THEOREM CodesOnce == Spec => []CodesHold
<1>1. CodesUsed => CodesHold
  BY DEF CodesUsed, UsedOnce, CodesHold
<1>2. QED
  BY <1>1, CodesAreUsed, PTL

\* However many requests have a secret in hand: a used reset link is not stored again,
\* a used code only with a wrong guess counted, no record counts guesses that were not
\* made, and a secret given out is stored until it is used, aged, replaced or used up
\* by wrong guesses, with the two exceptions that RacesAreContained names.
THEOREM RacesContained == Spec => []RacesAreContained
<1>1. CodesUsed => RacesAreContained
  BY DEF CodesUsed, Contained, Usable, Delivered, RacesAreContained
<1>2. QED
  BY <1>1, CodesAreUsed, PTL
=============================================================================
