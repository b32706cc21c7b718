--------------------------- MODULE IdentityProofs ---------------------------
(***************************************************************************)
(* Proofs about who an account belongs to: addresses that are verified,    *)
(* and signups that fail, for every set of identifiers, addresses and      *)
(* requests.                                                               *)
(***************************************************************************)
EXTENDS SessionProofs

-----------------------------------------------------------------------------
(* How an account comes to be.                                             *)

Created(c) ==
  [NoAccount EXCEPT !.status = "ACTIVE", !.mail = call[c].mail, !.phone = call[c].phone,
     !.role = call[c].role, !.password = IF call[c].op = "proveSms" THEN 0 ELSE 1]
Remembered(c) ==
  [NoPast EXCEPT !.signedUp = call[c].op = "signup",
     !.proven = IF call[c].op = "proveSms" THEN {call[c].phone} ELSE {}]

Births(c, u) ==
  /\ call[c].at = "create"
  /\ account[u].status = "ABSENT"
  /\ account' = [account EXCEPT ![u] = Created(c)]
  /\ past' = [past EXCEPT ![u] = Remembered(c)]
  /\ Proceeds(c, u, call[c].role = "DRIVER")

LEMMA CreateBirths ==
  ASSUME NEW c, Create(c)
  PROVE  UNCHANGED <<account, past>> \/ \E u \in Ids : Births(c, u)
BY DEF Create, Births, Created, Remembered, SetAccount, SetPast

\* A step that writes an account writes one that was found, or creates it.
LEMMA Written ==
  ASSUME TypeOK, Known, [Next]_vars, NEW u \in Ids, account[u].status = "ABSENT"
  PROVE  \/ account'[u] = account[u] /\ past'[u] = past[u]
         \/ \E c \in Calls : Create(c) /\ Births(c, u)
<1>1. /\ account \in [Ids -> AccountType] /\ past \in [Ids -> PastType]
      /\ \A c \in Calls : call[c].id # u
  BY DEF TypeOK, SessionTypes, Known
<1>2. ASSUME NEW v, v # u, NEW r, SetAccount(v, r) PROVE account'[u] = account[u]
  BY <1>1, <1>2 DEF SetAccount
<1>3. ASSUME NEW v, v # u, NEW r, SetPast(v, r) PROVE past'[u] = past[u]
  BY <1>1, <1>3 DEF SetPast
<1>4. ASSUME NEW c \in Calls, SessionSteps(c)
      PROVE  account'[u] = account[u] /\ past'[u] = past[u]
  <2>1. Grants(c) => past'[u] = past[u]
    BY <1>1, <1>3 DEF Grants
  <2>2. QED
    BY <1>1, <1>2, <1>3, <1>4, <2>1
    DEF SessionSteps, OpensSession, Rotates, EndsSessions, Bump, Revoke, Grant, Retire,
        Regrant, Reread, Close, SetPassword, RevokeAll
<1>5. ASSUME NEW c \in Calls, AccountSteps(c), ~Create(c)
      PROVE  account'[u] = account[u] /\ past'[u] = past[u]
  BY <1>1, <1>2, <1>3, <1>5
  DEF AccountSteps, AddProfile, UndoProfile, UndoUser, MarkMail, MarkPhone, Save, Reseed
<1>6. ASSUME NEW c \in Calls, Create(c)
      PROVE  \/ account'[u] = account[u] /\ past'[u] = past[u]
             \/ Create(c) /\ Births(c, u)
  BY <1>1, <1>6, CreateBirths DEF Births
<1>7. ASSUME NEW v \in Ids, SetStatus(v)
      PROVE  account'[u] = account[u] /\ past'[u] = past[u]
  <2>1. v # u /\ UNCHANGED past
    BY <1>7 DEF SetStatus, Exists
  <2>2. QED
    BY <1>1, <1>7, <2>1 DEF SetStatus, SetAccount
<1>8. QED
  BY <1>4, <1>5, <1>6, <1>7, WritesCases DEF sessionVars, Lapses

-----------------------------------------------------------------------------
(* Verified addresses.                                                     *)

\* While the service starts it serves nobody.
SeedAlone ==
  \A c \in Calls : call[c].op = "seed" \/ call[c].at = "reseed" =>
    /\ call[c].op = "seed"
    /\ \A d \in Calls \ {c} : call[d] = Idle

LEMMA GoersBusy == ASSUME NEW c, GoesOn(c) PROVE call[c] # Idle
<1>1. Idle.at = "idle"
  BY DEF Idle
<1>2. call[c].at # "idle"
  BY DEF GoesOn, OpensSession, Rotates, EndsSessions, MakesSecret, UsesSecret, CreatesAccount,
         ChangesAccount, Bump, Revoke, Grant, Retire, Regrant, Reread, Close, SetPassword,
         RevokeAll, Count, SetWindow, AskOwner, Store, Send, Unsend, Lapse, Reject, Accept,
         LookupMail, LookupOwner, LookupPhone, MarkMail, MarkPhone, Create, AddProfile,
         UndoProfile, UndoUser, Save, Reseed
<1>3. QED
  BY <1>1, <1>2

LEMMA SeedAloneStep ==
  ASSUME TypeOK, SeedAlone, [Next]_vars
  PROVE  SeedAlone'
<1> SUFFICES ASSUME NEW c \in Calls, call'[c].op = "seed" \/ call'[c].at = "reseed"
             PROVE  /\ call'[c].op = "seed"
                    /\ \A d \in Calls \ {c} : call'[d] = Idle
  BY DEF SeedAlone
<1>1. Idle.op = "none" /\ Idle.at = "idle"
  BY DEF Idle
<1>2. call \in [Calls -> CallType]
  BY DEF TypeOK, RequestTypes
<1>3. CASE call[c].op = "seed" /\ call'[c].op = "seed"
  <2>1. ASSUME NEW d \in Calls \ {c} PROVE call'[d] = Idle
    <3>1. call[d] = Idle /\ Starting /\ call[c] # Idle
      BY <1>1, <1>3 DEF SeedAlone, Starting
    <3>2. ~Arriving(d)
      BY <3>1 DEF Arriving, Starts
    <3>3. ~Fails(d) /\ ~GoesOn(d)
      BY <3>1, GoersBusy DEF Fails
    <3>4. QED
      BY <3>1, <3>2, <3>3, OwnSteps
  <2>2. QED
    BY <1>3, <2>1
<1>4. CASE Arriving(c)
  <2>1. call' = [call EXCEPT ![c] = call'[c]] /\ ArrivesAs(call'[c])
    BY <1>4, ArrivingKinds
  <2>2. call'[c].op = "seed" /\ \A d \in Calls : call[d] = Idle
    BY <2>1 DEF ArrivesAs
  <2>3. QED
    BY <1>2, <2>1, <2>2
<1>5. CASE ~Arriving(c)
  <2>1. call'[c] # Idle
    BY <1>1
  <2>2. CASE call'[c] = call[c]
    BY <1>3, <2>2 DEF SeedAlone
  <2>3. CASE GoesOn(c)
    BY <1>3, <2>1, <2>3, GoesOnKeeps DEF Keeps
  <2>4. CASE Fails(c)
    <3>1. call'[c] = Recovers(call[c])
      BY <1>2, <2>4 DEF Fails
    <3>2. call'[c].op = call[c].op /\ call'[c].at # "reseed"
      BY <1>2, <2>1, <3>1 DEF Recovers, CallType
    <3>3. QED
      BY <1>3, <3>2
  <2>5. QED
    BY <1>5, <2>1, <2>2, <2>3, <2>4, OwnSteps
<1>6. QED
  BY <1>4, <1>5

\* What Outdated says, of a record.
OutdatedAs(r, u, m) ==
  /\ r.id = u /\ r.mail # m
  /\ \/ r.op = "proveMail" /\ r.at = "mark"
     \/ r.at = "save" /\ r.mail = r.was

\* A request comes to hold the address that the account has, and no other.
LEMMA HoldsPresent ==
  ASSUME TypeOK, [Next]_vars, NEW d \in Calls, NEW u \in Ids,
         OutdatedAs(call'[d], u, account[u].mail)
  PROVE  call'[d] = call[d]
<1>1. call \in [Calls -> CallType] /\ Idle.at = "idle"
  BY DEF TypeOK, RequestTypes, Idle
<1>2. call'[d] # Idle
  BY <1>1 DEF OutdatedAs
<1>3. ~Arriving(d)
  BY ArrivingKinds DEF ArrivesAs, OutdatedAs
<1>4. CASE GoesOn(d)
  <2>1. /\ call'[d].at = "mark" /\ call'[d].op = "proveMail"
        /\ call'[d].op = call[d].op /\ call'[d].mail = call[d].mail
        /\ LookupMail(d) \/ LookupPhone(d)
    BY <1>2, <1>4, GoesOnKeeps DEF Keeps, OutdatedAs
  <2>2. LookupMail(d)
    BY <2>1 DEF LookupPhone
  <2>3. Ends(d) => call'[d] = Idle
    BY <1>1 DEF Ends
  <2>4. PICK v \in Ids : /\ account[v].mail = call[d].mail
                         /\ call' = [call EXCEPT ![d].at = "mark", ![d].id = v]
    BY <1>2, <2>2, <2>3 DEF LookupMail
  <2>5. call'[d].id = v
    BY <1>1, <2>4 DEF CallType
  <2>6. QED
    BY <2>1, <2>4, <2>5 DEF OutdatedAs
<1>5. ~Fails(d)
  <2>1. ASSUME Fails(d) PROVE FALSE
    <3>1. call'[d] = Recovers(call[d])
      BY <1>1, <2>1 DEF Fails
    <3>2. call'[d].at \notin {"mark", "save"}
      BY <1>1, <3>1 DEF Recovers, CallType
    <3>3. QED
      BY <3>2 DEF OutdatedAs
  <2>2. QED
    BY <2>1
<1>6. QED
  BY <1>2, <1>3, <1>4, <1>5, OwnSteps

\* What is verified was proven; and as long as nobody was overtaken, no request
\* holds another address for the account than it has.
Truthful(u) ==
  /\ account[u].verified => past[u].proven # {}
  /\ ~past[u].overtaken =>
       /\ account[u].verified => account[u].mail \in past[u].proven \cup {SeedMail}
       /\ \A d \in Calls : ~OutdatedAs(call[d], u, account[u].mail)

VerifiedHolds == \A u \in Ids : Truthful(u)

\* What most steps do to an account: nothing that matters here.
AsTrue(u) ==
  /\ account'[u].verified = account[u].verified /\ account'[u].mail = account[u].mail
  /\ past'[u].overtaken = past[u].overtaken /\ past[u].proven \subseteq past'[u].proven

LEMMA AsTrueStays ==
  ASSUME TypeOK, VerifiedHolds, [Next]_vars, NEW u \in Ids, AsTrue(u)
  PROVE  Truthful(u)'
<1>1. Truthful(u)
  BY DEF VerifiedHolds
<1>2. \A d \in Calls : OutdatedAs(call'[d], u, account[u].mail) => call'[d] = call[d]
  BY HoldsPresent
<1>3. QED
  BY <1>1, <1>2 DEF Truthful, AsTrue

LEMMA SessionStepsAsTrue ==
  ASSUME TypeOK, NEW c \in Calls, SessionSteps(c), NEW u \in Ids
  PROVE  AsTrue(u)
<1> DEFINE v == call[c].id
<1>1. /\ account \in [Ids -> AccountType] /\ past \in [Ids -> PastType]
      /\ \A w \in Ids : account[w] \in AccountType /\ past[w] \in PastType
      /\ v \in Ids
  BY DEF TypeOK, SessionTypes, SessionSteps, OpensSession, Rotates, EndsSessions, Bump, Revoke,
         Grant, Retire, Regrant, Reread, Close, SetPassword, RevokeAll, RecordOK, WithAccount
<1>2. \/ UNCHANGED account
      \/ SetAccount(v, [account[v] EXCEPT !.version = @ + 1])
      \/ SetAccount(v, [account[v] EXCEPT !.password = @ + 1, !.version = @ + 1])
  BY DEF SessionSteps, OpensSession, Rotates, EndsSessions, Bump, Revoke, Grant, Retire,
         Regrant, Reread, Close, SetPassword, RevokeAll
<1>3. \/ UNCHANGED past
      \/ \E b : SetPast(v, [past[v] EXCEPT !.opened = b])
      \/ \E b : SetPast(v, [past[v] EXCEPT !.split = b])
      \/ SetPast(v, [past[v] EXCEPT !.ended = @ + 1, !.split = FALSE])
      \/ SetPast(v, [past[v] EXCEPT !.opened = FALSE, !.ended = @ + 1, !.split = FALSE])
  BY Zenon
  DEF SessionSteps, OpensSession, Rotates, EndsSessions, Bump, Revoke, Grant, Retire,
      Regrant, Reread, Close, SetPassword, RevokeAll, Grants
<1>4. /\ \A r : /\ SetAccount(v, r)
                 /\ r.verified = account[v].verified /\ r.mail = account[v].mail
                 => account'[u].verified = account[u].verified /\ account'[u].mail = account[u].mail
      /\ \A r : /\ SetPast(v, r)
                 /\ r.overtaken = past[v].overtaken /\ r.proven = past[v].proven
                 => past'[u].overtaken = past[u].overtaken /\ past'[u].proven = past[u].proven
  BY <1>1 DEF SetAccount, SetPast
<1>5. account'[u].verified = account[u].verified /\ account'[u].mail = account[u].mail
  <2>1. /\ [account[v] EXCEPT !.version = @ + 1].verified = account[v].verified
        /\ [account[v] EXCEPT !.version = @ + 1].mail = account[v].mail
        /\ [account[v] EXCEPT !.password = @ + 1, !.version = @ + 1].verified = account[v].verified
        /\ [account[v] EXCEPT !.password = @ + 1, !.version = @ + 1].mail = account[v].mail
    BY <1>1 DEF AccountType
  <2>2. QED
    BY <1>2, <1>4, <2>1
<1>6. past'[u].overtaken = past[u].overtaken /\ past'[u].proven = past[u].proven
  <2> DEFINE Same(r) == r.overtaken = past[v].overtaken /\ r.proven = past[v].proven
  <2>1. /\ \A b : Same([past[v] EXCEPT !.opened = b])
        /\ \A b : Same([past[v] EXCEPT !.split = b])
        /\ Same([past[v] EXCEPT !.ended = @ + 1, !.split = FALSE])
        /\ Same([past[v] EXCEPT !.opened = FALSE, !.ended = @ + 1, !.split = FALSE])
    BY <1>1 DEF PastType
  <2> HIDE DEF Same
  <2>2. ASSUME NEW r, SetPast(v, r), Same(r)
        PROVE  past'[u].overtaken = past[u].overtaken /\ past'[u].proven = past[u].proven
    BY <1>4, <2>2 DEF Same
  <2>3. QED
    BY <1>3, <2>1, <2>2
<1>7. QED
  BY <1>5, <1>6 DEF AsTrue

LEMMA MarksTrue ==
  ASSUME TypeOK, VerifiedHolds, [Next]_vars, NEW c \in Calls, MarkMail(c), NEW u \in Ids
  PROVE  Truthful(u)'
<1> DEFINE v == call[c].id
           mail == call[c].mail
<1>1. /\ account \in [Ids -> AccountType] /\ past \in [Ids -> PastType]
      /\ \A w \in Ids : account[w] \in AccountType /\ past[w] \in PastType
      /\ v \in Ids /\ call[c].at = "mark" /\ call[c].op = "proveMail"
  BY DEF TypeOK, SessionTypes, MarkMail, RecordOK, WithAccount
<1>2. CASE UNCHANGED <<account, past>> \/ u # v
  <2>1. AsTrue(u)
    BY <1>1, <1>2 DEF MarkMail, SetAccount, SetPast, AsTrue
  <2>2. QED
    BY <2>1, AsTrueStays
<1>3. CASE ~UNCHANGED <<account, past>> /\ u = v
  <2>1. /\ account' = [account EXCEPT ![u] = [account[u] EXCEPT !.verified = TRUE]]
        /\ past' = [past EXCEPT ![u] = [past[u] EXCEPT !.proven = @ \cup {mail}]]
    BY <1>3 DEF MarkMail, SetAccount, SetPast
  <2>2. /\ account'[u].mail = account[u].mail
        /\ past'[u].proven = past[u].proven \cup {mail}
        /\ past'[u].overtaken = past[u].overtaken
    BY <1>1, <2>1 DEF AccountType, PastType
  <2>3. ~past[u].overtaken => account[u].mail = mail
    BY <1>1, <1>3 DEF VerifiedHolds, Truthful, OutdatedAs
  <2>4. \A d \in Calls : OutdatedAs(call'[d], u, account[u].mail) => call'[d] = call[d]
    BY HoldsPresent
  <2>5. QED
    BY <2>2, <2>3, <2>4 DEF Truthful, VerifiedHolds
<1>4. QED
  BY <1>2, <1>3

LEMMA SavesTrue ==
  ASSUME TypeOK, VerifiedHolds, [Next]_vars, NEW c \in Calls, Save(c), NEW u \in Ids
  PROVE  Truthful(u)'
<1> DEFINE v == call[c].id
           mail == call[c].mail
           same == mail = call[c].was
           others == \E d \in Calls \ {c} : Outdated(d, v, mail)
<1>1. /\ account \in [Ids -> AccountType] /\ past \in [Ids -> PastType]
      /\ \A w \in Ids : account[w] \in AccountType /\ past[w] \in PastType
      /\ call \in [Calls -> CallType] /\ v \in Ids /\ call[c].at = "save" /\ Ends(c)
  BY DEF TypeOK, SessionTypes, RequestTypes, Save, RecordOK, WithAccount
<1>2. CASE UNCHANGED <<account, past>> \/ u # v
  <2>1. AsTrue(u)
    BY <1>1, <1>2 DEF Save, SetAccount, SetPast, AsTrue
  <2>2. QED
    BY <2>1, AsTrueStays
<1>3. CASE ~UNCHANGED <<account, past>> /\ u = v
  <2>1. /\ account' = [account EXCEPT ![u] = [account[u] EXCEPT !.mail = mail,
                                                !.verified = @ /\ same]]
        /\ past' = [past EXCEPT ![u] = [past[u] EXCEPT !.overtaken = (@ /\ same) \/ others]]
    BY <1>3 DEF Save, SetAccount, SetPast
  <2>2. /\ account'[u].mail = mail
        /\ account'[u].verified = (account[u].verified /\ same)
        /\ past'[u].proven = past[u].proven
        /\ past'[u].overtaken = ((past[u].overtaken /\ same) \/ others)
    <3> HIDE DEF mail, same, others
    <3>1. QED
      BY <1>1, <2>1 DEF AccountType, PastType
  <2>3. Truthful(u)
    BY DEF VerifiedHolds
  <2>4. ~past[u].overtaken /\ same => account[u].mail = mail
    BY <1>1, <1>3, <2>3 DEF Truthful, OutdatedAs
  <2>5. ~others => \A d \in Calls : ~OutdatedAs(call'[d], u, mail)
    <3>1. call'[c] = Idle /\ \A d \in Calls \ {c} : call'[d] = call[d]
      BY <1>1 DEF Ends
    <3>2. ~OutdatedAs(Idle, u, mail)
      BY DEF OutdatedAs, Idle
    <3>3. QED
      BY <1>3, <3>1, <3>2 DEF Outdated, OutdatedAs
  <2> HIDE DEF same, others, mail
  <2>6. QED
    BY <2>2, <2>3, <2>4, <2>5 DEF Truthful
<1>4. QED
  BY <1>2, <1>3

LEMMA ReseedsTrue ==
  ASSUME TypeOK, SeedAlone, VerifiedHolds, [Next]_vars, NEW c \in Calls, Reseed(c), NEW u \in Ids
  PROVE  Truthful(u)'
<1> DEFINE v == call[c].id
<1>1. /\ account \in [Ids -> AccountType] /\ past \in [Ids -> PastType]
      /\ \A w \in Ids : account[w] \in AccountType /\ past[w] \in PastType
      /\ call \in [Calls -> CallType] /\ v \in Ids /\ call[c].at = "reseed" /\ Ends(c)
      /\ UNCHANGED past
  BY DEF TypeOK, SessionTypes, RequestTypes, Reseed, RecordOK, WithAccount
<1>2. CASE UNCHANGED account \/ u # v
  <2>1. AsTrue(u)
    BY <1>1, <1>2 DEF Reseed, SetAccount, AsTrue
  <2>2. QED
    BY <2>1, AsTrueStays
<1>3. CASE ~UNCHANGED account /\ u = v
  <2>1. account' = [account EXCEPT ![u] = [account[u] EXCEPT !.mail = SeedMail]]
    BY <1>3 DEF Reseed, SetAccount
  <2>2. account'[u].mail = SeedMail /\ account'[u].verified = account[u].verified
    BY <1>1, <2>1 DEF AccountType
  <2>3. \A d \in Calls : call'[d] = Idle
    BY <1>1 DEF SeedAlone, Ends
  <2>4. ~OutdatedAs(Idle, u, SeedMail)
    BY DEF OutdatedAs, Idle
  <2>5. QED
    BY <1>1, <2>2, <2>3, <2>4 DEF Truthful, VerifiedHolds
<1>4. QED
  BY <1>2, <1>3

LEMMA CreatesTrue ==
  ASSUME TypeOK, Known, VerifiedHolds, [Next]_vars, NEW c \in Calls, Create(c), NEW u \in Ids
  PROVE  Truthful(u)'
<1>1. /\ account \in [Ids -> AccountType] /\ past \in [Ids -> PastType]
      /\ call \in [Calls -> CallType]
  BY DEF TypeOK, SessionTypes, RequestTypes
<1>2. CASE UNCHANGED <<account, past>>
  BY <1>2, AsTrueStays DEF AsTrue
<1>3. ASSUME NEW x \in Ids, Births(c, x), x # u
      PROVE  Truthful(u)'
  <2>1. AsTrue(u)
    BY <1>1, <1>3 DEF Births, AsTrue
  <2>2. QED
    BY <2>1, AsTrueStays
<1>4. CASE Births(c, u)
  <2>1. account'[u] = Created(c)
    BY <1>1, <1>4 DEF Births
  <2>2. ~account'[u].verified
    BY <2>1 DEF Created, NoAccount
  <2>3. \A d \in Calls : call[d].id # u
    BY <1>4 DEF Births, Known
  <2>4. ASSUME NEW d \in Calls, NEW m PROVE ~OutdatedAs(call'[d], u, m)
    <3>1. CASE d # c
      <4>1. call'[d] = call[d]
        BY <1>1, <1>4, <3>1 DEF Births, Proceeds, Ends
      <4>2. QED
        BY <2>3, <4>1 DEF OutdatedAs
    <3>2. CASE d = c
      <4>1. call'[c] = Idle \/ call'[c].at \in {"addProfile", "bump"}
        BY <1>1, <1>4 DEF Births, Proceeds, Ends, CallType
      <4>2. QED
        BY <3>2, <4>1 DEF OutdatedAs, Idle
    <3>3. QED
      BY <3>1, <3>2
  <2>5. QED
    BY <2>2, <2>4 DEF Truthful
<1>5. QED
  BY <1>2, <1>3, <1>4, CreateBirths

LEMMA VerifiedStep ==
  ASSUME TypeOK, Known, SeedAlone, VerifiedHolds, [Next]_vars
  PROVE  VerifiedHolds'
<1> SUFFICES ASSUME NEW u \in Ids PROVE Truthful(u)'
  BY DEF VerifiedHolds
<1>1. /\ account \in [Ids -> AccountType] /\ past \in [Ids -> PastType]
      /\ \A w \in Ids : account[w] \in AccountType /\ past[w] \in PastType
  BY DEF TypeOK, SessionTypes
<1>2. UNCHANGED <<account, past>> => AsTrue(u)
  BY DEF AsTrue
<1>3. ASSUME NEW c \in Calls, AddProfile(c) \/ UndoProfile(c) \/ UndoUser(c) \/ MarkPhone(c)
      PROVE  AsTrue(u)
  <2> DEFINE v == call[c].id
  <2>1. v \in Ids /\ account[v] \in AccountType /\ past[v] \in PastType
    BY <1>1, <1>3
    DEF AddProfile, UndoProfile, UndoUser, MarkPhone, TypeOK, RecordOK, WithAccount
  <2>2. \/ UNCHANGED account
        \/ \E b : SetAccount(v, [account[v] EXCEPT !.profile = b])
        \/ SetAccount(v, [account[v] EXCEPT !.status = "DELETED"])
    BY <1>3, Zenon DEF AddProfile, UndoProfile, UndoUser, MarkPhone
  <2>3. \/ UNCHANGED past
        \/ SetPast(v, [past[v] EXCEPT !.proven = @ \cup {call[c].phone}])
    BY <1>3, Zenon DEF AddProfile, UndoProfile, UndoUser, MarkPhone
  <2>4. account'[u].verified = account[u].verified /\ account'[u].mail = account[u].mail
    <3> DEFINE Same(r) == r.verified = account[v].verified /\ r.mail = account[v].mail
    <3>1. /\ \A b : Same([account[v] EXCEPT !.profile = b])
          /\ Same([account[v] EXCEPT !.status = "DELETED"])
      BY <2>1 DEF AccountType
    <3>2. \A r : SetAccount(v, r) /\ Same(r) =>
                   account'[u].verified = account[u].verified /\ account'[u].mail = account[u].mail
      BY <1>1, <2>1 DEF SetAccount
    <3> HIDE DEF Same
    <3>3. QED
      BY <2>2, <3>1, <3>2
  <2>5. past'[u].overtaken = past[u].overtaken /\ past[u].proven \subseteq past'[u].proven
    BY <1>1, <2>1, <2>3 DEF SetPast, PastType
  <2>6. QED
    BY <2>4, <2>5 DEF AsTrue
<1>4. ASSUME NEW v \in Ids, SetStatus(v)
      PROVE  AsTrue(u)
  <2>1. account'[u].verified = account[u].verified /\ account'[u].mail = account[u].mail
    BY <1>1, <1>4 DEF SetStatus, SetAccount, AccountType
  <2>2. QED
    BY <1>4, <2>1 DEF SetStatus, AsTrue
<1>5. ASSUME NEW c \in Calls, SessionSteps(c)
      PROVE  AsTrue(u)
  BY <1>5, SessionStepsAsTrue
<1>6. AsTrue(u) => Truthful(u)'
  BY AsTrueStays
<1>7. ASSUME NEW c \in Calls, AccountSteps(c)
      PROVE  Truthful(u)'
  BY <1>3, <1>6, <1>7, MarksTrue, SavesTrue, ReseedsTrue, CreatesTrue DEF AccountSteps
<1>8. QED
  BY <1>2, <1>4, <1>5, <1>6, <1>7, WritesCases DEF sessionVars, Lapses

\* A verified address is one that a code given back was for, or the one that seeding
\* sets, unless the account's address was changed while another request still held the
\* old one for its address; and every verified account has proven something.
THEOREM VerifiedProven == Spec => []VerifiedMeansProven
<1>1. Init => VerifiedHolds /\ SeedAlone
  <2> SUFFICES ASSUME Init PROVE VerifiedHolds /\ SeedAlone
    OBVIOUS
  <2>1. Plausible(scenario) /\ account = scenario.accounts
    BY ScenariosAssumption DEF Init
  <2>2. ASSUME NEW u \in Ids PROVE Truthful(u)
    <3>1. scenario.accounts[u] = NoAccount \/ ~scenario.accounts[u].verified
      BY <2>1, Zenon DEF Plausible
    <3>2. ~account[u].verified
      BY <2>1, <3>1 DEF NoAccount
    <3>3. \A d \in Calls : call[d] = Idle
      BY DEF Init
    <3>4. ~OutdatedAs(Idle, u, account[u].mail)
      BY DEF OutdatedAs, Idle
    <3>5. QED
      BY <3>2, <3>3, <3>4 DEF Truthful
  <2>3. SeedAlone
    BY DEF Init, SeedAlone, Idle
  <2>4. QED
    BY <2>2, <2>3 DEF VerifiedHolds
<1>2. TypeOK /\ SeedAlone /\ [Next]_vars => SeedAlone'
  BY SeedAloneStep
<1>3. TypeOK /\ Known /\ SeedAlone /\ VerifiedHolds /\ [Next]_vars => VerifiedHolds'
  BY VerifiedStep
<1>4. VerifiedHolds => VerifiedMeansProven
  BY DEF VerifiedHolds, Truthful, VerifiedMeansProven
<1>5. QED
  BY <1>1, <1>2, <1>3, <1>4, AccountsTypes, AccountsKnown, PTL DEF Spec

-----------------------------------------------------------------------------
(* Signups that fail.                                                      *)

Undoing == {"undoProfile", "undoUser"}
Working == {"addProfile", "bump", "revoke", "grant"} \cup Undoing

\* Whoever signs up works on no account yet or on its own, and undoes only after
\* an exception.
SignupsWork ==
  /\ \A c \in Calls : call[c].op = "signup" =>
       \/ call[c].at = "create" /\ call[c].id = None
       \/ call[c].at \in Working
  /\ \A c \in Calls : call[c].at \in Undoing => call[c].op = "signup" /\ faults >= 1

\* The only steps of a request that has its account and no session.
LEMMA WorkingSteps ==
  ASSUME NEW d, GoesOn(d), call[d].at \in Working
  PROVE  \/ AddProfile(d) \/ Bump(d) \/ Revoke(d) \/ Grant(d)
         \/ UndoProfile(d) \/ UndoUser(d)
BY DEF GoesOn, Working, Undoing, OpensSession, Rotates, EndsSessions, MakesSecret, UsesSecret,
       CreatesAccount, ChangesAccount, Retire, Regrant, Reread, Close, SetPassword, RevokeAll,
       Count, SetWindow, AskOwner, Store, Send, Unsend, Lapse, Reject, Accept, LookupMail, LookupOwner,
       LookupPhone, MarkMail, MarkPhone, Create, Save, Reseed

\* A signup that has its account goes on with it, or one of these was its last step.
Lasts(d) ==
  \/ Bump(d) /\ ~Exists(call[d].id)
  \/ Grant(d) \/ UndoUser(d)
  \/ Fails(d) /\ call[d].at \in Undoing
  \/ Crash /\ crashed'

GoesOnWorking(d) ==
  /\ call'[d].op = "signup" /\ call'[d].id = call[d].id /\ call'[d].at \in Working
  /\ call'[d].at \in Undoing => call[d].at \in Undoing \/ faults' >= 1

LEMMA SignupGoes ==
  ASSUME TypeOK, [Next]_vars, NEW d \in Calls, call[d].op = "signup", call[d].at \in Working
  PROVE  GoesOnWorking(d) \/ (call'[d] = Idle /\ Lasts(d))
<1>1. call[d] \in CallType /\ call[d] # Idle /\ faults \in Nat /\ call \in [Calls -> CallType]
  BY DEF TypeOK, RequestTypes, Working, Undoing, Idle
<1>2. CASE call'[d] = call[d]
  BY <1>2 DEF GoesOnWorking
<1>3. CASE Arriving(d)
  BY <1>1, <1>3, ArrivingShape
<1>4. ASSUME NEW at \in Working, Goes(d, at), at \in Undoing => call[d].at \in Undoing
      PROVE  GoesOnWorking(d)
  BY <1>1, <1>4 DEF Goes, GoesOnWorking, CallType
<1>5. Ends(d) => call'[d] = Idle
  BY <1>1 DEF Ends
<1>6. CASE GoesOn(d)
  <2>1. CASE AddProfile(d)
    <3>1. call' = [call EXCEPT ![d].at = "bump", ![d].id = call[d].id]
      BY <2>1 DEF AddProfile, Proceeds
    <3>2. call'[d].op = "signup" /\ call'[d].id = call[d].id /\ call'[d].at = "bump"
      BY <1>1, <3>1 DEF CallType
    <3>3. QED
      BY <3>2 DEF GoesOnWorking, Working, Undoing
  <2>2. CASE Bump(d)
    <3>1. CASE Exists(call[d].id)
      <4>1. call' = [call EXCEPT ![d].at = "revoke",
                       ![d].version = account[call[d].id].version + 1]
        BY <2>2, <3>1 DEF Bump
      <4>2. call'[d].op = "signup" /\ call'[d].id = call[d].id /\ call'[d].at = "revoke"
        BY <1>1, <4>1 DEF CallType
      <4>3. QED
        BY <4>2 DEF GoesOnWorking, Working, Undoing
    <3>2. CASE ~Exists(call[d].id)
      BY <1>5, <2>2, <3>2 DEF Bump, Lasts
    <3>3. QED
      BY <3>1, <3>2
  <2>3. CASE Revoke(d)
    BY <1>4, <2>3 DEF Revoke, Working, Undoing
  <2>4. CASE Grant(d)
    BY <1>5, <2>4 DEF Grant, Lasts
  <2>5. CASE UndoProfile(d)
    BY <1>4, <2>5 DEF UndoProfile, Working, Undoing
  <2>6. CASE UndoUser(d)
    BY <1>5, <2>6 DEF UndoUser, Lasts
  <2>7. QED
    BY <1>6, <2>1, <2>2, <2>3, <2>4, <2>5, <2>6, WorkingSteps
<1>7. CASE Fails(d)
  <2>1. call'[d] = Recovers(call[d]) /\ faults' >= 1
    BY <1>1, <1>7 DEF Fails
  <2>2. CASE call[d].at \in {"addProfile", "bump", "revoke", "grant"}
    <3>1. Recovers(call[d]) = [call[d] EXCEPT !.at = "undoProfile"]
      BY <2>2 DEF Recovers
    <3>2. QED
      BY <1>1, <2>1, <3>1 DEF GoesOnWorking, Working, Undoing, CallType
  <2>3. CASE call[d].at = "undoProfile"
    <3>1. Recovers(call[d]) = [call[d] EXCEPT !.at = "undoUser"]
      BY <2>3 DEF Recovers
    <3>2. QED
      BY <1>1, <2>1, <3>1 DEF GoesOnWorking, Working, Undoing, CallType
  <2>4. CASE call[d].at = "undoUser"
    BY <1>7, <2>1, <2>4 DEF Recovers, Lasts, Undoing
  <2>5. QED
    BY <2>2, <2>3, <2>4 DEF Working, Undoing
<1>8. QED
  BY <1>2, <1>3, <1>6, <1>7, OwnSteps DEF Lasts

LEMMA SignupsStep ==
  ASSUME TypeOK, SignupsWork, [Next]_vars
  PROVE  SignupsWork'
<1>1. faults \in Nat /\ call \in [Calls -> CallType]
  BY DEF TypeOK, RequestTypes
<1>2. faults' >= faults /\ faults' \in Nat
  BY <1>1 DEF Next, Calm, Fails, Crash, vars
<1>3. Idle.op = "none" /\ Idle.at = "idle"
  BY DEF Idle
<1>4. ASSUME NEW d \in Calls
      PROVE  /\ call'[d].op = "signup" => \/ call'[d].at = "create" /\ call'[d].id = None
                                          \/ call'[d].at \in Working
             /\ call'[d].at \in Undoing => call'[d].op = "signup" /\ faults' >= 1
  <2> DEFINE Goal == /\ call'[d].op = "signup" => \/ call'[d].at = "create" /\ call'[d].id = None
                                                  \/ call'[d].at \in Working
                     /\ call'[d].at \in Undoing => call'[d].op = "signup" /\ faults' >= 1
  <2>1. CASE call'[d] = call[d]
    BY <1>1, <1>2, <2>1 DEF SignupsWork
  <2>2. CASE call'[d] = Idle
    BY <1>3, <2>2 DEF Working, Undoing
  <2>3. CASE Arriving(d)
    BY <2>3, ArrivingKinds DEF ArrivesAs, Undoing
  <2>4. CASE call[d].op = "signup" /\ call[d].at \in Working
    <3>1. CASE GoesOnWorking(d)
      BY <1>1, <1>2, <2>4, <3>1 DEF GoesOnWorking, SignupsWork
    <3>2. QED
      BY <2>2, <2>4, <3>1, SignupGoes
  <2>5. CASE call[d].op = "signup" /\ call[d].at = "create" /\ GoesOn(d)
    <3>1. Create(d)
      BY <2>5
      DEF GoesOn, OpensSession, Rotates, EndsSessions, MakesSecret, UsesSecret,
          CreatesAccount, ChangesAccount, Bump, Revoke, Grant, Retire, Regrant, Reread, Close,
          SetPassword, RevokeAll, Count, SetWindow, AskOwner, Store, Send, Unsend, Lapse,
          Reject, Accept, LookupMail, LookupOwner, LookupPhone, MarkMail, MarkPhone, AddProfile,
          UndoProfile, UndoUser, Save, Reseed
    <3>2. Ends(d) \/ \E u \in Ids, at \in {"addProfile", "bump"} :
                       call' = [call EXCEPT ![d].at = at, ![d].id = u]
      BY <3>1 DEF Create, Proceeds
    <3>3. CASE Ends(d)
      BY <1>1, <2>2, <3>3 DEF Ends
    <3>4. CASE \E u \in Ids, at \in {"addProfile", "bump"} :
                  call' = [call EXCEPT ![d].at = at, ![d].id = u]
      BY <1>1, <3>4 DEF Working, Undoing, CallType
    <3>5. QED
      BY <3>2, <3>3, <3>4
  <2>6. CASE call[d].op # "signup" /\ GoesOn(d)
    BY <2>2, <2>6, GoesOnKeeps DEF Keeps, SignupsWork, Undoing
  <2>7. CASE Fails(d) /\ ~(call[d].op = "signup" /\ call[d].at \in Working)
    <3>1. call'[d] = Recovers(call[d]) /\ faults' >= 1
      BY <1>1, <2>7 DEF Fails
    <3>2. call[d].at \notin Undoing
      BY <2>7 DEF SignupsWork, Working
    <3>3. Recovers(call[d]) \in {Idle, [call[d] EXCEPT !.at = "unsend"]}
      BY <2>7, <3>2 DEF Recovers, Working, Undoing
    <3>4. CASE call'[d] = [call[d] EXCEPT !.at = "unsend"] /\ call[d].at = "send"
      <4>1. call'[d].op = call[d].op /\ call'[d].at = "unsend"
        BY <1>1, <3>4 DEF CallType
      <4>2. call[d].op # "signup"
        BY <3>4 DEF SignupsWork, Working, Undoing
      <4>3. QED
        BY <4>1, <4>2 DEF Undoing
    <3>5. call'[d] = Idle \/ call[d].at = "send"
      BY <2>7, <3>1, <3>2 DEF Recovers, Working, Undoing
    <3>6. QED
      BY <2>2, <3>1, <3>3, <3>4, <3>5
  <2>8. CASE call[d].op = "signup" => call[d].at \in Working
    BY <2>1, <2>2, <2>3, <2>4, <2>6, <2>7, <2>8, OwnSteps
  <2>9. CASE call[d].op = "signup" /\ call[d].at = "create"
    BY <2>1, <2>2, <2>3, <2>5, <2>7, <2>9, OwnSteps DEF Working, Undoing
  <2>10. QED
    BY <2>8, <2>9 DEF SignupsWork
<1>5. QED
  BY <1>4 DEF SignupsWork

LEMMA HalfStep ==
  ASSUME TypeOK, Known, SignupsWork, NoHalfSignups, [Next]_vars
  PROVE  NoHalfSignups'
<1>1. /\ faults \in Nat /\ call \in [Calls -> CallType] /\ None \notin Ids
      /\ account \in [Ids -> AccountType] /\ past \in [Ids -> PastType]
  BY NoneAssumption DEF TypeOK, RequestTypes, SessionTypes
<1>2. faults' >= faults /\ faults' \in Nat /\ (crashed => crashed')
  BY <1>1 DEF Next, Calm, Fails, Crash, vars
<1> SUFFICES ASSUME NEW u \in Ids, Exists(u)', past'[u].signedUp, ~crashed', faults' <= 1
             PROVE  \/ \E c \in Calls : call'[c].op = "signup" /\ call'[c].id = u
                    \/ \E t \in Tokens : token'[t].owner = u
  BY DEF NoHalfSignups, Exists
<1> DEFINE Goal == \/ \E c \in Calls : call'[c].op = "signup" /\ call'[c].id = u
                   \/ \E t \in Tokens : token'[t].owner = u
<1>3. ASSUME NEW t \in Tokens, token[t].owner = u
      PROVE  Goal
  <2>1. token[t].state # "ABSENT"
    BY <1>3 DEF TypeOK
  <2>2. QED
    BY <1>3, <2>1, TypeStep DEF OwnersKept
<1>4. CASE account[u].status = "ABSENT"
  <2>1. account'[u] # account[u]
    BY <1>4 DEF Exists
  <2>2. PICK c \in Calls : Births(c, u)
    BY <1>4, <2>1, Written
  <2>3. past'[u] = Remembered(c)
    BY <1>1, <2>2 DEF Births
  <2>4. call[c].op = "signup"
    BY <2>3 DEF Remembered, NoPast
  <2>5. \E at : call' = [call EXCEPT ![c].at = at, ![c].id = u]
    BY <2>2, <2>4 DEF Births, Proceeds
  <2>6. call'[c].op = "signup" /\ call'[c].id = u
    BY <1>1, <2>4, <2>5 DEF CallType
  <2>7. QED
    BY <2>6
<1>5. CASE account[u].status # "ABSENT"
  <2>1. past[u].signedUp
    BY <1>5, PastFound
  <2>2. Exists(u)
    <3>1. account[u].status # "DELETED"
      BY <1>5, AccountsKept DEF Kept, Exists
    <3>2. QED
      BY <1>1, <1>5, <3>1 DEF Exists, AccountType
  <2>3. CASE \E t \in Tokens : token[t].owner = u
    BY <1>3, <2>3
  <2>4. ASSUME NEW d \in Calls, call[d].op = "signup", call[d].id = u
        PROVE  Goal
    <3>1. call[d].at \in Working
      BY <1>1, <2>4 DEF SignupsWork
    <3>2. CASE GoesOnWorking(d)
      BY <2>4, <3>2 DEF GoesOnWorking
    <3>3. CASE Grant(d)
      <4>1. Grants(d)
        BY <3>3 DEF Grant
      <4>2. QED
        BY <2>4, <4>1 DEF Grants, TypeOK, SessionTypes
    <3>4. CASE UndoUser(d)
      <4>1. CASE \E t \in Tokens : token[t].owner = u
        BY <1>3, <4>1
      <4>2. CASE ~\E t \in Tokens : token[t].owner = u
        <5>1. account' = [account EXCEPT ![u] = [account[u] EXCEPT !.status = "DELETED"]]
          BY <2>4, <3>4, <4>2 DEF UndoUser, SetAccount
        <5>2. account'[u].status = "DELETED"
          BY <1>1, <5>1 DEF AccountType
        <5>3. QED
          BY <5>2 DEF Exists
      <4>3. QED
        BY <4>1, <4>2
    <3>5. ~(Fails(d) /\ call[d].at \in Undoing)
      BY <1>1 DEF SignupsWork, Fails
    <3>6. QED
      BY <2>2, <2>4, <3>1, <3>2, <3>3, <3>4, <3>5, SignupGoes DEF Lasts
  <2>5. QED
    BY <1>1, <1>2, <2>1, <2>2, <2>3, <2>4 DEF NoHalfSignups
<1>6. QED
  BY <1>4, <1>5

\* signup leaves no account without a session, if at most one thing goes wrong.
THEOREM SignupsWhole == Spec => []NoHalfSignups
<1>1. Init => SignupsWork /\ NoHalfSignups
  BY DEF Init, SignupsWork, NoHalfSignups, Idle, NoPast, Undoing
<1>2. TypeOK /\ SignupsWork /\ [Next]_vars => SignupsWork'
  BY SignupsStep
<1>3. TypeOK /\ Known /\ SignupsWork /\ NoHalfSignups /\ [Next]_vars => NoHalfSignups'
  BY HalfStep
<1>4. QED
  BY <1>1, <1>2, <1>3, AccountsTypes, AccountsKnown, PTL DEF Spec
=============================================================================
