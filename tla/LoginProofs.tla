----------------------------- MODULE LoginProofs -----------------------------
(***************************************************************************)
(* Proofs that logins which divide each other's writes leave somebody      *)
(* logged in, that the endpoints implement the ledger of SessionLedger,    *)
(* and that every request presented the secret it goes on with, for every  *)
(* set of identifiers, requests, secrets and tokens.                       *)
(***************************************************************************)
EXTENDS CodeProofs

-----------------------------------------------------------------------------
(* What a step does to the history and the version of an account.          *)

LEMMA SetPastHistory ==
  ASSUME TypeOK, NEW v \in Ids, NEW r, SetPast(v, r), NEW u \in Ids
  PROVE  /\ past'[v] = r
         /\ u # v => past'[u] = past[u]
BY DEF SetPast, TypeOK, SessionTypes

\* The steps of a request that write the history of an account.
LEMMA SessionHistory ==
  ASSUME TypeOK, NEW c \in Calls, SessionSteps(c), past' # past
  PROVE  LET v == call[c].id IN
         /\ v \in Ids /\ past[v] \in PastType
         /\ \/ Bump(c) /\ Exists(v) /\ SetPast(v, [past[v] EXCEPT !.opened = TRUE])
            \/ SetPassword(c) /\ Exists(v) /\ SetPast(v, [past[v] EXCEPT !.opened = FALSE])
            \/ /\ Close(c) /\ Exists(v)
               /\ SetPast(v, [past[v] EXCEPT !.opened = FALSE, !.ended = @ + 1,
                                             !.split = FALSE])
            \/ RevokeAll(c) /\ SetPast(v, [past[v] EXCEPT !.ended = @ + 1, !.split = FALSE])
            \/ /\ Revoke(c) \/ Grant(c) \/ Regrant(c)
               /\ \E b \in BOOLEAN : SetPast(v, [past[v] EXCEPT !.split = b])
<1> DEFINE v == call[c].id
<1>1. v \in Ids /\ past[v] \in PastType
  BY DEF SessionSteps, OpensSession, Rotates, EndsSessions, Bump, Revoke, Grant, Retire,
         Regrant, Reread, Close, SetPassword, RevokeAll, TypeOK, RecordOK, WithAccount,
         SessionTypes
<1>2. ASSUME Grants(c)
      PROVE  \E b \in BOOLEAN : SetPast(v, [past[v] EXCEPT !.split = b])
  <2>1. past[v].split \in BOOLEAN
    BY <1>1 DEF PastType
  <2>2. QED
    BY <1>2, <2>1 DEF Grants
<1>3. QED
  BY <1>1, <1>2
  DEF SessionSteps, OpensSession, Rotates, EndsSessions, Bump, Revoke, Grant, Retire,
      Regrant, Reread, Close, SetPassword, RevokeAll

\* A step about an account, not its creation, leaves the sessions' history alone.
LEMMA AccountHistory ==
  ASSUME TypeOK, Known, NEW c \in Calls, AccountSteps(c), NEW u \in Ids
  PROVE  /\ past'[u].ended = past[u].ended /\ past'[u].split = past[u].split
         /\ past'[u].opened = past[u].opened
         /\ past[u].opened => account'[u].version = account[u].version
<1> DEFINE w == call[c].id
           Same == /\ past'[u].ended = past[u].ended /\ past'[u].split = past[u].split
                   /\ past'[u].opened = past[u].opened
<1>1. /\ past \in [Ids -> PastType] /\ \A v \in Ids : past[v] \in PastType
      /\ account \in [Ids -> AccountType] /\ \A v \in Ids : account[v] \in AccountType
  BY DEF TypeOK, SessionTypes
<1>2. ASSUME NEW v \in Ids, NEW r, SetAccount(v, r), r.version = account[v].version
      PROVE  account'[u].version = account[u].version
  BY <1>1, <1>2 DEF SetAccount
<1>3. CASE Create(c) /\ ~UNCHANGED <<account, past>>
  <2>1. PICK x \in Ids :
          /\ account[x].status = "ABSENT"
          /\ SetAccount(x, [NoAccount EXCEPT !.status = "ACTIVE",
                !.mail = call[c].mail, !.phone = call[c].phone, !.role = call[c].role,
                !.password = IF call[c].op = "proveSms" THEN 0 ELSE 1])
          /\ SetPast(x, Remembered(c))
    BY <1>3 DEF Create, Remembered
  <2>2. past[x] = NoPast
    BY <2>1 DEF Known
  <2>3. u # x => past'[u] = past[u] /\ account'[u] = account[u]
    BY <1>1, <2>1 DEF SetPast, SetAccount
  <2>4. past'[x].ended = 0 /\ past'[x].split = FALSE /\ past'[x].opened = FALSE
    <3>1. past'[x] = Remembered(c)
      BY <2>1, SetPastHistory
    <3>2. QED
      BY <3>1 DEF Remembered, NoPast
  <2>5. past[x].ended = 0 /\ past[x].split = FALSE /\ past[x].opened = FALSE
    BY <2>2 DEF NoPast
  <2>6. CASE u = x
    BY <2>4, <2>5, <2>6
  <2>7. CASE u # x
    BY <2>3, <2>7
  <2>8. QED
    BY <2>6, <2>7
<1>4. ASSUME ~Create(c), account' # account
      PROVE  account'[u].version = account[u].version
  <2>1. w \in Ids /\ account[w] \in AccountType
    BY <1>1, <1>4 DEF AccountSteps, AddProfile, UndoProfile, UndoUser, MarkMail, MarkPhone,
                      Save, Reseed, TypeOK, RecordOK, WithAccount
  <2>2. CASE AddProfile(c) \/ UndoProfile(c)
    <3>1. \E b \in BOOLEAN : SetAccount(w, [account[w] EXCEPT !.profile = b])
      BY <2>2 DEF AddProfile, UndoProfile
    <3>2. QED
      BY <1>2, <2>1, <3>1 DEF AccountType
  <2>3. CASE UndoUser(c)
    <3>1. SetAccount(w, [account[w] EXCEPT !.status = "DELETED"])
      BY <1>4, <2>3 DEF UndoUser
    <3>2. QED
      BY <1>2, <2>1, <3>1 DEF AccountType
  <2>4. CASE MarkMail(c)
    <3>1. SetAccount(w, [account[w] EXCEPT !.verified = TRUE])
      BY <1>4, <2>4 DEF MarkMail
    <3>2. QED
      BY <1>2, <2>1, <3>1 DEF AccountType
  <2>5. CASE Save(c)
    <3>1. SetAccount(w, [account[w] EXCEPT !.mail = call[c].mail,
                            !.verified = @ /\ call[c].mail = call[c].was])
      BY <1>4, <2>5 DEF Save
    <3>2. QED
      BY <1>2, <2>1, <3>1 DEF AccountType
  <2>6. CASE Reseed(c)
    <3>1. SetAccount(w, [account[w] EXCEPT !.mail = SeedMail])
      BY <1>4, <2>6 DEF Reseed
    <3>2. QED
      BY <1>2, <2>1, <3>1 DEF AccountType
  <2>7. QED
    BY <1>4, <2>2, <2>3, <2>4, <2>5, <2>6 DEF AccountSteps, MarkPhone
<1>5. ASSUME ~Create(c), past' # past
      PROVE  Same
  <2>1. w \in Ids /\ past[w] \in PastType
    BY <1>1, <1>5 DEF AccountSteps, AddProfile, UndoProfile, UndoUser, MarkMail, MarkPhone,
                      Save, Reseed, TypeOK, RecordOK, WithAccount
  <2>2. \E x : \/ SetPast(w, [past[w] EXCEPT !.proven = x])
               \/ SetPast(w, [past[w] EXCEPT !.overtaken = x])
    BY <1>5, Zenon
    DEF AccountSteps, AddProfile, UndoProfile, UndoUser, MarkMail, MarkPhone, Save, Reseed
  <2> DEFINE Alike(r) == /\ r.ended = past[w].ended /\ r.split = past[w].split
                         /\ r.opened = past[w].opened
  <2>3. \A x : /\ Alike([past[w] EXCEPT !.proven = x])
               /\ Alike([past[w] EXCEPT !.overtaken = x])
    BY <2>1 DEF PastType
  <2>4. ASSUME NEW r, SetPast(w, r), Alike(r)
        PROVE  Same
    BY <2>1, <2>4, SetPastHistory
  <2> HIDE DEF Alike, Same
  <2>5. QED
    BY <2>2, <2>3, <2>4
<1>6. CASE UNCHANGED <<account, past>>
  BY <1>6
<1>7. QED
  BY <1>3, <1>4, <1>5, <1>6

\* The sessions of an account are ended one at a time, and never taken back.
LEMMA EndsGrow ==
  ASSUME TypeOK, Known, [Next]_vars, NEW u \in Ids
  PROVE  \/ past'[u].ended = past[u].ended
         \/ past'[u].ended = past[u].ended + 1
<1>1. UNCHANGED past => past'[u].ended = past[u].ended
  OBVIOUS
<1>2. ASSUME NEW c \in Calls, SessionSteps(c), past' # past
      PROVE  past'[u].ended \in {past[u].ended, past[u].ended + 1}
  <2> DEFINE v == call[c].id
  <2>1. v \in Ids /\ past[v] \in PastType
    BY <1>2, SessionHistory
  <2>2. ASSUME NEW r, SetPast(v, r), r.ended \in {past[v].ended, past[v].ended + 1}
        PROVE  past'[u].ended \in {past[u].ended, past[u].ended + 1}
    BY <2>1, <2>2, SetPastHistory
  <2>3. \/ \E b \in BOOLEAN : \/ SetPast(v, [past[v] EXCEPT !.opened = b])
                              \/ SetPast(v, [past[v] EXCEPT !.split = b])
        \/ SetPast(v, [past[v] EXCEPT !.opened = FALSE, !.ended = @ + 1, !.split = FALSE])
        \/ SetPast(v, [past[v] EXCEPT !.ended = @ + 1, !.split = FALSE])
    BY <1>2, SessionHistory
  <2>4. QED
    BY <2>1, <2>2, <2>3 DEF PastType
<1>3. QED
  BY <1>1, <1>2, AccountHistory, WritesCases DEF sessionVars, SetStatus, Lapses

\* The version of an account changes only with the flag that says why.
LEMMA VersionCases ==
  ASSUME TypeOK, Known, [Next]_vars, NEW u \in Ids, past'[u].opened
  PROVE  \/ past[u].opened /\ account'[u].version = account[u].version
         \/ \E c \in Calls : /\ call'[c].id = u /\ call'[c].at = "revoke"
                             /\ call'[c].version = account'[u].version
<1> DEFINE Goal == \/ past[u].opened /\ account'[u].version = account[u].version
                   \/ \E c \in Calls : /\ call'[c].id = u /\ call'[c].at = "revoke"
                                       /\ call'[c].version = account'[u].version
<1>1. /\ account \in [Ids -> AccountType] /\ call \in [Calls -> CallType]
      /\ past \in [Ids -> PastType]
  BY DEF TypeOK, SessionTypes, RequestTypes
<1>2. CASE UNCHANGED <<account, past>>
  BY <1>2
<1>3. ASSUME NEW c \in Calls, SessionSteps(c), ~UNCHANGED <<account, past>>
      PROVE  Goal
  <2> DEFINE v == call[c].id
  <2>1. v \in Ids /\ account[v] \in AccountType /\ past[v] \in PastType
    BY <1>1, <1>3
    DEF SessionSteps, OpensSession, Rotates, EndsSessions, Bump, Revoke, Grant, Retire,
        Regrant, Reread, Close, SetPassword, RevokeAll, TypeOK, RecordOK, WithAccount
  <2>2. CASE Bump(c)
    <3>1. /\ SetAccount(v, [account[v] EXCEPT !.version = @ + 1])
          /\ call' = [call EXCEPT ![c].at = "revoke", ![c].version = account[v].version + 1]
          /\ SetPast(v, [past[v] EXCEPT !.opened = TRUE])
      BY <1>3, <2>2 DEF Bump
    <3>2. CASE u = v
      <4>1. account'[v].version = account[v].version + 1
        BY <1>1, <2>1, <3>1 DEF SetAccount, AccountType
      <4>2. /\ call'[c].id = v /\ call'[c].at = "revoke"
            /\ call'[c].version = account[v].version + 1
        BY <1>1, <3>1 DEF CallType
      <4>3. QED
        BY <3>2, <4>1, <4>2
    <3>3. CASE u # v
      BY <1>1, <3>1, <3>3 DEF SetAccount, SetPast
    <3>4. QED
      BY <3>2, <3>3
  <2>3. CASE (SetPassword(c) \/ Close(c) \/ RevokeAll(c)) /\ u # v
    <3>1. /\ UNCHANGED account \/ \E r : SetAccount(v, r)
          /\ UNCHANGED past \/ \E r : SetPast(v, r)
      BY <2>3 DEF SetPassword, Close, RevokeAll
    <3>2. QED
      BY <1>1, <2>3, <3>1 DEF SetAccount, SetPast
  <2>4. CASE (SetPassword(c) \/ Close(c)) /\ u = v
    <3>1. \/ SetPast(v, [past[v] EXCEPT !.opened = FALSE])
          \/ SetPast(v, [past[v] EXCEPT !.opened = FALSE, !.ended = @ + 1, !.split = FALSE])
      BY <1>3, <2>4 DEF SetPassword, Close
    <3>2. past'[v].opened = FALSE
      <4> DEFINE Closed(r) == r.opened = FALSE
      <4>1. /\ Closed([past[v] EXCEPT !.opened = FALSE])
            /\ Closed([past[v] EXCEPT !.opened = FALSE, !.ended = @ + 1, !.split = FALSE])
        BY <2>1 DEF PastType
      <4>2. \A r : SetPast(v, r) => past'[v] = r
        BY <2>1, SetPastHistory
      <4> HIDE DEF Closed
      <4>3. Closed(past'[v])
        BY <3>1, <4>1, <4>2
      <4>4. QED
        BY <4>3 DEF Closed
    <3>3. QED
      BY <2>4, <3>2
  <2>5. CASE RevokeAll(c) /\ u = v
    <3>1. /\ past'[v] = [past[v] EXCEPT !.ended = @ + 1, !.split = FALSE]
          /\ UNCHANGED account
      BY <2>1, <2>5, SetPastHistory DEF RevokeAll
    <3>2. past'[v].opened = past[v].opened
      BY <2>1, <3>1 DEF PastType
    <3>3. QED
      BY <2>5, <3>1, <3>2
  <2>6. CASE Revoke(c) \/ Grant(c) \/ Regrant(c)
    <3>1. UNCHANGED account /\ past' # past
      BY <1>3, <2>6 DEF Revoke, Grant, Regrant
    <3>2. PICK b \in BOOLEAN : SetPast(v, [past[v] EXCEPT !.split = b])
      BY <2>6, <3>1, <2>1 DEF Revoke, Grant, Regrant, Grants, PastType
    <3>3. past'[u].opened = past[u].opened
      <4>1. past'[v].opened = past[v].opened
        BY <2>1, <3>2, SetPastHistory DEF PastType
      <4>2. QED
        BY <2>1, <3>2, <4>1, SetPastHistory
    <3>4. QED
      BY <3>1, <3>3
  <2>7. QED
    BY <1>3, <2>2, <2>3, <2>4, <2>5, <2>6
    DEF SessionSteps, OpensSession, Rotates, EndsSessions, Retire, Reread
<1>4. ASSUME NEW c \in Calls, AccountSteps(c)
      PROVE  Goal
  BY <1>4, AccountHistory
<1>5. ASSUME NEW v \in Ids, SetStatus(v)
      PROVE  Goal
  <2>1. account[v] \in AccountType
    BY <1>1
  <2>2. account'[u].version = account[u].version /\ UNCHANGED past
    BY <1>1, <1>5, <2>1 DEF SetStatus, SetAccount, AccountType
  <2>3. QED
    BY <2>2
<1>6. QED
  BY <1>2, <1>3, <1>4, <1>5, WritesCases DEF sessionVars, Lapses

-----------------------------------------------------------------------------
(* What a step does to tokens, and to requests about to grant one.         *)

\* Granted by a request, which owns the account and the epoch it is for.
IsGranted(t) ==
  \E c \in Calls :
    /\ Grant(c) \/ Regrant(c)
    /\ call[c].id \in Ids /\ token'[t].owner = call[c].id
    /\ token'[t].state = "LIVE" /\ token'[t].granted = past[call[c].id].ended
    /\ past'[call[c].id].ended = past[call[c].id].ended

\* Revoked by a request that grants another next, or with its epoch.
IsRevoked(t) ==
  /\ token'[t].owner = token[t].owner /\ token'[t].granted = token[t].granted
  /\ token'[t].state = "REVOKED"
  /\ \/ \E c \in Calls : /\ call'[c].id = token[t].owner
                         /\ call'[c].at \in {"grant", "regrant"}
     \/ past'[token[t].owner].ended = past[token[t].owner].ended + 1

HasLapsed(t) ==
  /\ token'[t].owner = token[t].owner /\ token'[t].granted = token[t].granted
  /\ Live(t) /\ token'[t].state = "LAPSED"

LEMMA GrantFate ==
  ASSUME TypeOK, NEW c \in Calls, Grant(c) \/ Regrant(c)
  PROVE  \E t \in Tokens : /\ token[t].state = "ABSENT" /\ IsGranted(t)
                           /\ token'[t].owner = call[c].id
                           /\ \A v \in Tokens \ {t} : token'[v] = token[v]
<1> DEFINE u == call[c].id
<1>1. u \in Ids /\ past[u] \in PastType /\ token \in [Tokens -> TokenType]
  BY DEF Grant, Regrant, TypeOK, RecordOK, WithAccount, SessionTypes
<1>2. Grants(c)
  BY DEF Grant, Regrant
<1>3. PICK t \in Tokens :
        /\ token[t].state = "ABSENT"
        /\ token' = [token EXCEPT ![t] =
             [owner |-> u, state |-> "LIVE", password |-> call[c].password,
              granted |-> past[u].ended]]
  BY <1>2 DEF Grants
<1>4. past'[u].ended = past[u].ended
  <2>1. PICK b \in BOOLEAN : SetPast(u, [past[u] EXCEPT !.split = b])
    BY <1>1, <1>2 DEF Grants, PastType
  <2>2. QED
    BY <1>1, <2>1, SetPastHistory DEF PastType
<1>5. QED
  BY <1>1, <1>3, <1>4 DEF IsGranted

LEMMA TokenFate ==
  ASSUME TypeOK, [Next]_vars, NEW t \in Tokens
  PROVE  \/ token'[t] = token[t]
         \/ token[t].state = "ABSENT" /\ IsGranted(t)
         \/ token[t].state # "ABSENT" /\ (IsRevoked(t) \/ HasLapsed(t))
<1>1. /\ token \in [Tokens -> TokenType] /\ call \in [Calls -> CallType]
      /\ past \in [Ids -> PastType]
  BY DEF TypeOK, SessionTypes, RequestTypes
<1>2. ASSUME NEW u, token' = RevokeOf(u), token'[t] # token[t]
      PROVE  /\ token[t].owner = u /\ Live(t)
             /\ token'[t].owner = u /\ token'[t].granted = token[t].granted
             /\ token'[t].state = "REVOKED"
  BY <1>1, <1>2 DEF RevokeOf, LiveOf, TokenType
<1>3. ASSUME NEW c \in Calls, Revoke(c), token'[t] # token[t]
      PROVE  token[t].state # "ABSENT" /\ IsRevoked(t)
  <2>1. call'[c].id = call[c].id /\ call'[c].at = "grant"
    BY <1>1, <1>3 DEF Revoke, Goes, CallType
  <2>2. QED
    BY <1>2, <1>3, <2>1 DEF Revoke, IsRevoked, Live
<1>4. ASSUME NEW c \in Calls, Close(c) \/ RevokeAll(c), token'[t] # token[t]
      PROVE  token[t].state # "ABSENT" /\ IsRevoked(t)
  <2> DEFINE u == call[c].id
  <2>1. u \in Ids /\ past[u] \in PastType
    BY <1>1, <1>4 DEF Close, RevokeAll, TypeOK, RecordOK, WithAccount
  <2>2. /\ token' = RevokeOf(u)
        /\ \/ SetPast(u, [past[u] EXCEPT !.opened = FALSE, !.ended = @ + 1, !.split = FALSE])
           \/ SetPast(u, [past[u] EXCEPT !.ended = @ + 1, !.split = FALSE])
    BY <1>4 DEF Close, RevokeAll
  <2>3. past'[u].ended = past[u].ended + 1
    BY <2>1, <2>2, SetPastHistory DEF PastType
  <2>4. QED
    BY <1>2, <1>4, <2>2, <2>3 DEF IsRevoked, Live
<1>5. ASSUME NEW c \in Calls, Retire(c), token'[t] # token[t]
      PROVE  token[t].state # "ABSENT" /\ IsRevoked(t)
  <2>1. token' = [token EXCEPT ![t].state = "REVOKED"] /\ t = call[c].token
    BY <1>1, <1>5 DEF Retire
  <2>2. token[t].owner = call[c].id /\ call[c].id \in Ids
    BY <1>5, <2>1 DEF Retire, TypeOK, RecordOK, WithAccount
  <2>3. call'[c].id = call[c].id /\ call'[c].at = "regrant"
    BY <1>1, <1>5 DEF Retire, Goes, CallType
  <2>4. /\ token'[t].owner = token[t].owner /\ token'[t].granted = token[t].granted
        /\ token'[t].state = "REVOKED"
    BY <1>1, <2>1 DEF TokenType
  <2>5. QED
    BY <2>2, <2>3, <2>4 DEF IsRevoked, TypeOK
<1>6. ASSUME NEW c \in Calls, Grant(c) \/ Regrant(c), token'[t] # token[t]
      PROVE  token[t].state = "ABSENT" /\ IsGranted(t)
  BY <1>6, GrantFate
<1>7. ASSUME NEW v \in Tokens, Lapses(v), token'[t] # token[t]
      PROVE  token[t].state # "ABSENT" /\ HasLapsed(t)
  BY <1>1, <1>7 DEF Lapses, HasLapsed, Live, TokenType
<1>8. \A c \in Calls : SessionSteps(c) =>
        \/ Revoke(c) \/ Retire(c) \/ Grant(c) \/ Regrant(c) \/ Close(c) \/ RevokeAll(c)
        \/ UNCHANGED token
  BY DEF SessionSteps, OpensSession, Rotates, EndsSessions, Bump, Reread, SetPassword
<1>9. QED
  BY <1>3, <1>4, <1>5, <1>6, <1>7, <1>8, AccountStepTypes, WritesCases
  DEF sessionVars, SetStatus

\* Without exceptions and crashes, what is about to grant grants.
LEMMA GrantersStay ==
  ASSUME TypeOK, [Next]_vars, faults' = 0, ~crashed', NEW d \in Calls,
         call[d].at \in {"revoke", "grant", "regrant"}
  PROVE  call'[d] = call[d] \/ Revoke(d) \/ Grant(d) \/ Regrant(d)
<1>1. faults \in Nat
  BY DEF TypeOK, RequestTypes
<1>2. ~Fails(d)
  BY <1>1 DEF Fails
<1>3. ~Arriving(d)
  BY ArrivingKinds DEF Idle
<1>4. ASSUME GoesOn(d)
      PROVE  Revoke(d) \/ Grant(d) \/ Regrant(d)
  <2>1. ~Bump(d) /\ (~Rotates(d) \/ Regrant(d))
    BY DEF Bump, Rotates, Retire, Reread
  <2>2. ~EndsSessions(d)
    BY DEF EndsSessions, Close, SetPassword, RevokeAll
  <2>3. ~MakesSecret(d)
    BY DEF MakesSecret, Count, SetWindow, AskOwner, Store, Send, Unsend
  <2>4. ~UsesSecret(d)
    BY DEF UsesSecret, Lapse, Reject, Accept, LookupMail, LookupOwner, LookupPhone,
           MarkMail, MarkPhone
  <2>5. ~CreatesAccount(d) /\ ~ChangesAccount(d)
    BY DEF CreatesAccount, ChangesAccount, Create, AddProfile, UndoProfile, UndoUser,
           Save, Reseed
  <2>6. QED
    BY <1>4, <2>1, <2>2, <2>3, <2>4, <2>5 DEF GoesOn, OpensSession
<1>5. QED
  BY <1>2, <1>3, <1>4, OwnSteps

-----------------------------------------------------------------------------
(* Somebody stays logged in.                                               *)

\* No token is of an epoch that has not begun.
Stamped ==
  \A t \in Tokens :
    token[t].owner \in Ids => token[t].granted <= past[token[t].owner].ended

\* The tokens of the present epoch of an account.
CurrentOf(u) == {t \in Tokens : token[t].owner = u /\ token[t].granted = past[u].ended}

\* A session of the epoch is live, or a request is about to open one.
Logged(u) ==
  CurrentOf(u) # {} /\ (\A t \in CurrentOf(u) : token[t].state # "LAPSED") =>
    \/ LiveOf(u) # {}
    \/ \E c \in Calls : call[c].id = u /\ call[c].at \in {"grant", "regrant"}

\* The version is in an access token, or in the hands of a request that will sign it.
Opened(u) ==
  past[u].opened =>
    \/ \E a \in access : a.owner = u /\ a.version = account[u].version
    \/ \E c \in Calls : /\ call[c].id = u /\ call[c].at \in {"revoke", "grant"}
                        /\ call[c].version = account[u].version

LoginInv ==
  /\ Stamped
  /\ faults = 0 /\ ~crashed => \A u \in Ids : Logged(u) /\ Opened(u)

LEMMA StampedStep ==
  ASSUME TypeOK, Known, Stamped, [Next]_vars
  PROVE  Stamped'
<1> SUFFICES ASSUME NEW t \in Tokens, token'[t].owner \in Ids
             PROVE  token'[t].granted <= past'[token'[t].owner].ended
  BY DEF Stamped
<1> DEFINE u == token'[t].owner
<1>1. past[u].ended \in Nat
  BY DEF TypeOK, SessionTypes, PastType
<1>2. past[u].ended <= past'[u].ended
  BY <1>1, EndsGrow
<1>3. CASE token'[t].owner = token[t].owner /\ token'[t].granted = token[t].granted
  <2>1. token[t].granted \in Nat /\ token[t].granted <= past[u].ended
    BY <1>3 DEF Stamped, TypeOK, SessionTypes, TokenType
  <2>2. past'[u].ended \in Nat
    BY <1>1, EndsGrow
  <2>3. QED
    BY <1>1, <1>2, <1>3, <2>1, <2>2
<1>4. CASE IsGranted(t)
  BY <1>1, <1>4 DEF IsGranted
<1>5. QED
  BY <1>3, <1>4, TokenFate DEF IsRevoked, HasLapsed

LEMMA CalmBefore ==
  ASSUME TypeOK, [Next]_vars, faults' = 0, ~crashed'
  PROVE  faults = 0 /\ ~crashed
<1>1. faults \in Nat
  BY DEF TypeOK, RequestTypes
<1>2. QED
  BY <1>1 DEF Next, Calm, Fails, Crash, vars

LEMMA LoggedStep ==
  ASSUME TypeOK, Known, EndedSessionsAreOver, Stamped, [Next]_vars,
         faults' = 0, ~crashed', NEW u \in Ids, Logged(u)
  PROVE  Logged(u)'
<1> DEFINE Granter == \E c \in Calls : /\ call'[c].id = u
                                      /\ call'[c].at \in {"grant", "regrant"}
           Survivor == \E t \in Tokens : token'[t].state = "LIVE" /\ token'[t].owner = u
<1> SUFFICES ASSUME NEW w \in Tokens, token'[w].owner = u,
                    token'[w].granted = past'[u].ended,
                    \A t \in Tokens : token'[t].owner = u /\ token'[t].granted = past'[u].ended
                                        => token'[t].state # "LAPSED"
             PROVE  Granter \/ Survivor
  BY DEF Logged, CurrentOf, LiveOf, Live
<1>1. /\ past[u].ended \in Nat /\ u # None
      /\ \A t \in Tokens : token[t].granted \in Nat
      /\ \A t \in Tokens : token[t].state # "ABSENT" <=> token[t].owner \in Ids
  BY NoneAssumption DEF TypeOK, SessionTypes, PastType, TokenType
<1>2. CASE \E t \in Tokens : IsGranted(t) /\ token'[t].owner = u
  BY <1>2 DEF IsGranted
<1>3. CASE \A t \in Tokens : token'[t].owner = u => ~IsGranted(t)
  <2>1. \A t \in Tokens : token'[t].owner = u =>
          token[t].owner = u /\ token[t].granted = token'[t].granted
    BY <1>3, TokenFate DEF IsRevoked, HasLapsed
  <2>2. token[w].owner = u /\ token[w].granted <= past[u].ended
    BY <2>1 DEF Stamped
  <2>3. past'[u].ended = past[u].ended
    BY <1>1, <2>1, <2>2, EndsGrow
  <2>4. CASE \E t \in Tokens : /\ token[t].owner = u /\ token[t].granted = past[u].ended
                              /\ token[t].state = "LAPSED"
    <3>1. PICK t \in Tokens : /\ token[t].owner = u /\ token[t].granted = past[u].ended
                              /\ token[t].state = "LAPSED"
      BY <2>4
    <3>2. token'[t] # token[t]
      BY <2>3, <3>1
    <3>3. IsRevoked(t)
      BY <3>1, <3>2, TokenFate DEF HasLapsed, Live
    <3>4. QED
      BY <1>1, <2>3, <3>1, <3>3 DEF IsRevoked
  <2>5. CASE LiveOf(u) # {}
    <3>1. PICK t \in Tokens : Live(t) /\ token[t].owner = u
      BY <2>5 DEF LiveOf
    <3>2. token[t].granted = past[u].ended /\ token[t].state = "LIVE"
      BY <3>1 DEF EndedSessionsAreOver, Live
    <3>3. CASE token'[t] = token[t]
      BY <3>1, <3>2, <3>3
    <3>4. CASE IsRevoked(t)
      BY <1>1, <2>3, <3>1, <3>4 DEF IsRevoked
    <3>5. CASE HasLapsed(t)
      BY <2>3, <3>1, <3>2, <3>5 DEF HasLapsed
    <3>6. QED
      BY <3>2, <3>3, <3>4, <3>5, TokenFate
  <2>6. CASE \E c \in Calls : call[c].id = u /\ call[c].at \in {"grant", "regrant"}
    <3>1. PICK c \in Calls : call[c].id = u /\ call[c].at \in {"grant", "regrant"}
      BY <2>6
    <3>2. CASE call'[c] = call[c]
      BY <3>1, <3>2
    <3>3. CASE Grant(c) \/ Regrant(c)
      BY <1>3, <3>1, <3>3, GrantFate
    <3>4. QED
      BY <3>1, <3>2, <3>3, GrantersStay DEF Revoke
  <2>7. QED
    BY <2>2, <2>1, <2>3, <2>4, <2>5, <2>6 DEF Logged, CurrentOf
<1>4. QED
  BY <1>2, <1>3

LEMMA AccessGrows ==
  ASSUME TypeOK, [Next]_vars
  PROVE  access \subseteq access'
<1>1. \A c \in Calls : SessionSteps(c) => access \subseteq access'
  BY DEF SessionSteps, OpensSession, Rotates, EndsSessions, Bump, Revoke, Grant, Retire,
         Regrant, Reread, Close, SetPassword, RevokeAll, Signs
<1>2. QED
  BY <1>1, AccountStepTypes, WritesCases DEF sessionVars, SetStatus, Lapses

LEMMA OpenedStep ==
  ASSUME TypeOK, Known, [Next]_vars, faults' = 0, ~crashed', NEW u \in Ids, Opened(u)
  PROVE  Opened(u)'
<1> DEFINE Signed == \E a \in access' : a.owner = u /\ a.version = account'[u].version
           Signer == \E c \in Calls : /\ call'[c].id = u
                                     /\ call'[c].at \in {"revoke", "grant"}
                                     /\ call'[c].version = account'[u].version
<1> SUFFICES ASSUME past'[u].opened
             PROVE  Signed \/ Signer
  BY DEF Opened
<1>1. CASE past[u].opened /\ account'[u].version = account[u].version
  <2>1. CASE \E a \in access : a.owner = u /\ a.version = account[u].version
    BY <1>1, <2>1, AccessGrows
  <2>2. CASE \E c \in Calls : /\ call[c].id = u /\ call[c].at \in {"revoke", "grant"}
                              /\ call[c].version = account[u].version
    <3>1. PICK c \in Calls : /\ call[c].id = u /\ call[c].at \in {"revoke", "grant"}
                             /\ call[c].version = account[u].version
      BY <2>2
    <3>2. CASE call'[c] = call[c]
      BY <1>1, <3>1, <3>2
    <3>3. CASE Revoke(c)
      <4>1. call'[c] = [call[c] EXCEPT !.at = "grant"] /\ call[c] \in CallType
        BY <3>3 DEF Revoke, Goes, TypeOK, RequestTypes
      <4>2. QED
        BY <1>1, <3>1, <4>1 DEF CallType
    <3>4. CASE Grant(c)
      <4> DEFINE a == [owner |-> call[c].id, version |-> call[c].version]
      <4>1. a \in access'
        BY <3>4 DEF Grant, Signs
      <4>2. a.owner = u /\ a.version = account'[u].version
        BY <1>1, <3>1
      <4> HIDE DEF a
      <4>3. QED
        BY <4>1, <4>2
    <3>5. ~Regrant(c)
      BY <3>1 DEF Regrant
    <3>6. QED
      BY <3>1, <3>2, <3>3, <3>4, <3>5, GrantersStay
  <2>3. QED
    BY <1>1, <2>1, <2>2 DEF Opened
<1>2. QED
  BY <1>1, VersionCases

LEMMA LoginStep ==
  ASSUME TypeOK, Known, EndedSessionsAreOver, LoginInv, [Next]_vars
  PROVE  LoginInv'
BY StampedStep, CalmBefore, LoggedStep, OpenedStep DEF LoginInv

\* In every instance in which nothing throws or crashes, logins that divide each
\* other's writes (auth.service.ts:482) leave somebody logged in.
THEOREM LoginsSurvive == Spec => []LoginSurvives
<1>1. Init => LoginInv
  BY NoneAssumption DEF Init, LoginInv, Stamped, Logged, Opened, CurrentOf, NoToken, NoPast
<1>2. TypeOK /\ Known /\ EndedSessionsAreOver /\ LoginInv /\ [Next]_vars => LoginInv'
  BY LoginStep
<1>3. LoginInv => LoginSurvives
  BY DEF LoginInv, LoginSurvives, Logged, Opened, CurrentOf, BusyWith
<1>4. QED
  BY <1>1, <1>2, <1>3, AccountsTypes, AccountsKnown, EndedOver, PTL DEF Spec

-----------------------------------------------------------------------------
(* Every step is a step of the ledger, or none.                            *)

LEMMA LedgerStutters ==
  ASSUME UNCHANGED token,
         \A u \in Ids : past'[u].ended = past[u].ended /\ past'[u].split = past[u].split
  PROVE  UNCHANGED Ledger!vars
BY DEF Ledger!vars, Live

\* What revokes every live token of an account closes the sessions it has, and
\* no other.
LEMMA LedgerRevokes ==
  ASSUME TypeOK, NEW u \in Ids, token' = RevokeOf(u)
  PROVE  /\ \A t \in Tokens : token'[t].owner = token[t].owner
         /\ {t \in Tokens : Live(t)}' = {t \in Tokens : Live(t)} \ LiveOf(u)
BY DEF TypeOK, SessionTypes, RevokeOf, LiveOf, Live, TokenType

LEMMA LedgerEnds ==
  ASSUME TypeOK, NEW u \in Ids, token' = RevokeOf(u),
         NEW r, SetPast(u, r), r.ended = past[u].ended + 1, r.split = FALSE
  PROVE  Ledger!End(u)
<1>1. past \in [Ids -> PastType]
  BY DEF TypeOK, SessionTypes
<1>2. /\ past'[u].ended = past[u].ended + 1 /\ ~past'[u].split
      /\ \A v \in Ids \ {u} : past'[v] = past[v]
  BY SetPastHistory
<1>3. {v \in Ids : past[v].split}' = {v \in Ids : past[v].split} \ {u}
  BY <1>2
<1>4. [v \in Ids |-> past[v].ended]'
        = [[v \in Ids |-> past[v].ended] EXCEPT ![u] = @ + 1]
  BY <1>2
<1>5. Ledger!OpenOf(u) = LiveOf(u)
  BY DEF Ledger!OpenOf, LiveOf
<1>6. QED
  BY <1>3, <1>4, <1>5, LedgerRevokes DEF Ledger!End

LEMMA LedgerReplaces ==
  ASSUME TypeOK, NEW u \in Ids, token' = RevokeOf(u),
         NEW r, SetPast(u, r), r.ended = past[u].ended, r.split = FALSE
  PROVE  Ledger!Replace(u)
<1>1. past \in [Ids -> PastType]
  BY DEF TypeOK, SessionTypes
<1>2. /\ past'[u].ended = past[u].ended /\ ~past'[u].split
      /\ \A v \in Ids \ {u} : past'[v] = past[v]
  BY SetPastHistory
<1>3. {v \in Ids : past[v].split}' = {v \in Ids : past[v].split} \ {u}
  BY <1>2
<1>4. [v \in Ids |-> past[v].ended]' = [v \in Ids |-> past[v].ended]
  BY <1>2
<1>5. [v \in Tokens |-> token[v].owner]' = [v \in Tokens |-> token[v].owner]
  BY LedgerRevokes
<1>6. Ledger!OpenOf(u) = LiveOf(u)
  BY DEF Ledger!OpenOf, LiveOf
<1>7. QED
  BY <1>3, <1>4, <1>5, <1>6, LedgerRevokes DEF Ledger!Replace

LEMMA LedgerGrants ==
  ASSUME TypeOK, Known, Single, [Next]_vars, NEW c \in Calls, Grant(c) \/ Regrant(c)
  PROVE  \E u \in Ids, t \in Tokens : Ledger!Grant(u, t)
<1> DEFINE u == call[c].id
<1>1. /\ u \in Ids /\ past[u] \in PastType /\ token \in [Tokens -> TokenType]
      /\ \A t \in Tokens : token[t].state # "ABSENT" <=> token[t].owner \in Ids
  BY DEF Grant, Regrant, TypeOK, RecordOK, WithAccount, SessionTypes
<1>2. Grants(c) /\ call[c].at \in {"grant", "regrant"}
  BY DEF Grant, Regrant
<1>3. PICK t \in Tokens :
        /\ token[t].state = "ABSENT"
        /\ token' = [token EXCEPT ![t] =
             [owner |-> u, state |-> "LIVE", password |-> call[c].password,
              granted |-> past[u].ended]]
  BY <1>2 DEF Grants
<1>4. PICK b \in BOOLEAN : SetPast(u, [past[u] EXCEPT !.split = b]) /\ (past[u].split => b)
  BY <1>1, <1>2 DEF Grants, PastType
<1>5. /\ past'[u] = [past[u] EXCEPT !.split = b]
      /\ \A v \in Ids \ {u} : past'[v] = past[v]
  BY <1>1, <1>4, SetPastHistory
<1>6. past'[u].ended = past[u].ended /\ past'[u].split = b
  BY <1>1, <1>5 DEF PastType
<1>7. token[t].owner = None
  BY <1>1, <1>3 DEF TokenType
<1>8. [v \in Ids |-> past[v].ended]' = [v \in Ids |-> past[v].ended]
  BY <1>5, <1>6
<1>9. {v \in Ids : past[v].split}'
        \in {{v \in Ids : past[v].split}, {v \in Ids : past[v].split} \cup {u}}
  BY <1>1, <1>4, <1>5, <1>6
<1>10. u \in {v \in Ids : past[v].split}' \/ Ledger!OpenOf(u) = {}
  <2>1. CASE b
    BY <1>1, <1>6, <2>1
  <2>2. CASE ~b
    <3>1. ~past[u].split
      BY <1>4, <2>2
    <3>2. \A v \in Tokens : Live(v) => token[v].owner # u
      BY <1>1, <1>2, <3>1 DEF Single
    <3>3. QED
      BY <3>2 DEF Ledger!OpenOf
  <2>3. QED
    BY <2>1, <2>2
<1>11. [v \in Tokens |-> token[v].owner]'
         = [[v \in Tokens |-> token[v].owner] EXCEPT ![t] = u]
  BY <1>1, <1>3
<1>12. {v \in Tokens : Live(v)}' = {v \in Tokens : Live(v)} \cup {t}
  BY <1>1, <1>3 DEF Live
<1>13. Ledger!Grant(u, t)
  BY <1>3, <1>7, <1>8, <1>9, <1>10, <1>11, <1>12 DEF Ledger!Grant
<1>14. QED
  BY <1>1, <1>13

\* A token that ends alone, or had ended.
LEMMA LedgerDrops ==
  ASSUME TypeOK, UNCHANGED past, NEW t \in Tokens,
         NEW state \in {"REVOKED", "LAPSED"}, token' = [token EXCEPT ![t].state = state]
  PROVE  [Ledger!Next]_(Ledger!vars)
<1>1. token \in [Tokens -> TokenType]
  BY DEF TypeOK, SessionTypes
<1>2. [v \in Tokens |-> token[v].owner]' = [v \in Tokens |-> token[v].owner]
  BY <1>1 DEF TokenType
<1>3. {v \in Tokens : Live(v)}' = {v \in Tokens : Live(v)} \ {t}
  BY <1>1 DEF Live, TokenType
<1>4. CASE Live(t)
  BY <1>2, <1>3, <1>4 DEF Ledger!Drop, Ledger!Next
<1>5. CASE ~Live(t)
  BY <1>2, <1>3, <1>5 DEF Ledger!vars
<1>6. QED
  BY <1>4, <1>5

LEMMA LedgerStep ==
  ASSUME TypeOK, Known, Single, [Next]_vars
  PROVE  [Ledger!Next]_(Ledger!vars)
<1>1. UNCHANGED <<token, past>> => UNCHANGED Ledger!vars
  BY LedgerStutters
<1>2. ASSUME NEW c \in Calls, SessionSteps(c)
      PROVE  [Ledger!Next]_(Ledger!vars)
  <2> DEFINE u == call[c].id
  <2>1. u \in Ids /\ past[u] \in PastType
    BY <1>2
    DEF SessionSteps, OpensSession, Rotates, EndsSessions, Bump, Revoke, Grant, Retire,
        Regrant, Reread, Close, SetPassword, RevokeAll, TypeOK, RecordOK, WithAccount,
        SessionTypes
  <2>2. CASE UNCHANGED <<token, past>>
    BY <1>1, <2>2
  <2>3. CASE (Bump(c) \/ SetPassword(c)) /\ past' # past
    <3>1. PICK b \in BOOLEAN : SetPast(u, [past[u] EXCEPT !.opened = b])
      BY <2>3 DEF Bump, SetPassword
    <3>2. /\ past'[u] = [past[u] EXCEPT !.opened = b]
          /\ \A v \in Ids \ {u} : past'[v] = past[v]
      BY <2>1, <3>1, SetPastHistory
    <3>3. past'[u].ended = past[u].ended /\ past'[u].split = past[u].split
      BY <2>1, <3>2 DEF PastType
    <3>4. UNCHANGED token
      BY <2>3 DEF Bump, SetPassword
    <3>5. QED
      BY <3>2, <3>3, <3>4, LedgerStutters
  <2>4. CASE Revoke(c)
    <3>1. token' = RevokeOf(u) /\ SetPast(u, [past[u] EXCEPT !.split = FALSE])
      BY <2>4 DEF Revoke
    <3> DEFINE r == [past[u] EXCEPT !.split = FALSE]
    <3>2. r.ended = past[u].ended /\ r.split = FALSE
      BY <2>1 DEF PastType
    <3> HIDE DEF r
    <3>3. QED
      BY <2>1, <3>1, <3>2, LedgerReplaces DEF Ledger!Next, r
  <2>5. CASE Close(c) /\ ~UNCHANGED <<token, past>>
    <3>1. /\ token' = RevokeOf(u)
          /\ SetPast(u, [past[u] EXCEPT !.opened = FALSE, !.ended = @ + 1, !.split = FALSE])
      BY <2>5 DEF Close
    <3> DEFINE r == [past[u] EXCEPT !.opened = FALSE, !.ended = @ + 1, !.split = FALSE]
    <3>2. r.ended = past[u].ended + 1 /\ r.split = FALSE
      BY <2>1 DEF PastType
    <3> HIDE DEF r
    <3>3. QED
      BY <2>1, <3>1, <3>2, LedgerEnds DEF Ledger!Next, r
  <2>6. CASE RevokeAll(c)
    <3>1. /\ token' = RevokeOf(u)
          /\ SetPast(u, [past[u] EXCEPT !.ended = @ + 1, !.split = FALSE])
      BY <2>6 DEF RevokeAll
    <3> DEFINE r == [past[u] EXCEPT !.ended = @ + 1, !.split = FALSE]
    <3>2. r.ended = past[u].ended + 1 /\ r.split = FALSE
      BY <2>1 DEF PastType
    <3> HIDE DEF r
    <3>3. QED
      BY <2>1, <3>1, <3>2, LedgerEnds DEF Ledger!Next, r
  <2>7. CASE Grant(c) \/ Regrant(c)
    BY <2>7, LedgerGrants DEF Ledger!Next
  <2>8. CASE Retire(c)
    <3>1. call[c].token \in Tokens
      BY <2>8 DEF Retire, TypeOK
    <3>2. QED
      BY <2>8, <3>1, LedgerDrops DEF Retire
  <2>9. QED
    BY <1>2, <2>2, <2>3, <2>4, <2>5, <2>6, <2>7, <2>8
    DEF SessionSteps, OpensSession, Rotates, EndsSessions, Bump, SetPassword, Close, Reread
<1>3. ASSUME NEW c \in Calls, AccountSteps(c)
      PROVE  UNCHANGED Ledger!vars
  BY <1>3, AccountHistory, AccountStepTypes, LedgerStutters
<1>4. ASSUME NEW t \in Tokens, Lapses(t)
      PROVE  [Ledger!Next]_(Ledger!vars)
  BY <1>4, LedgerDrops DEF Lapses
<1>5. QED
  BY <1>1, <1>2, <1>3, <1>4, WritesCases DEF sessionVars, SetStatus

LEMMA LedgerInit == Init => Ledger!Init
BY DEF Init, Ledger!Init, NoToken, NoPast, Live

\* The endpoints implement the ledger of sessions, whatever is interleaved,
\* throws or crashes.
THEOREM SessionsImplementLedger == Spec => ImplementsLedger
<1>1. TypeOK /\ Known /\ Single /\ [Next]_vars => [Ledger!Next]_(Ledger!vars)
  BY LedgerStep
<1>2. Spec => []Single
  BY SingleAlways
<1>3. QED
  BY <1>1, <1>2, LedgerInit, AccountsTypes, AccountsKnown, PTL
  DEF Spec, ImplementsLedger, Ledger!Spec

-----------------------------------------------------------------------------
(* Access is earned with a secret.                                         *)

\* What a step of a request does to the password, and to what an account has proven.
LEMMA SessionStepsProve ==
  ASSUME TypeOK, NEW c \in Calls, SessionSteps(c), NEW u \in Ids
  PROVE  /\ past'[u].proven = past[u].proven
         /\ \/ account'[u].password = account[u].password
            \/ /\ SetPassword(c) /\ call[c].id = u
               /\ account'[u].password = account[u].password + 1
<1> DEFINE v == call[c].id
           Kept1 == account'[u].password = account[u].password
           Kept2 == past'[u].proven = past[u].proven
<1>1. /\ account \in [Ids -> AccountType] /\ past \in [Ids -> PastType]
      /\ v \in Ids /\ account[v] \in AccountType /\ past[v] \in PastType
  BY DEF TypeOK, SessionTypes, SessionSteps, OpensSession, Rotates, EndsSessions, Bump, Revoke,
         Grant, Retire, Regrant, Reread, Close, SetPassword, RevokeAll, RecordOK, WithAccount
<1>2. \/ UNCHANGED account
      \/ SetAccount(v, [account[v] EXCEPT !.version = @ + 1])
      \/ /\ SetPassword(c)
         /\ SetAccount(v, [account[v] EXCEPT !.password = @ + 1, !.version = @ + 1])
  BY DEF SessionSteps, OpensSession, Rotates, EndsSessions, Bump, Revoke, Grant, Retire,
         Regrant, Reread, Close, SetPassword, RevokeAll
<1>3. \/ UNCHANGED past
      \/ \E b : SetPast(v, [past[v] EXCEPT !.opened = b])
      \/ \E b : SetPast(v, [past[v] EXCEPT !.split = b])
      \/ SetPast(v, [past[v] EXCEPT !.ended = @ + 1, !.split = FALSE])
      \/ SetPast(v, [past[v] EXCEPT !.opened = FALSE, !.ended = @ + 1, !.split = FALSE])
  BY Zenon
  DEF SessionSteps, OpensSession, Rotates, EndsSessions, Bump, Revoke, Grant, Retire,
      Regrant, Reread, Close, SetPassword, RevokeAll, Grants
<1>4. Kept2
  <2> DEFINE Alike(r) == r.proven = past[v].proven
  <2>1. /\ \A b : Alike([past[v] EXCEPT !.opened = b])
        /\ \A b : Alike([past[v] EXCEPT !.split = b])
        /\ Alike([past[v] EXCEPT !.ended = @ + 1, !.split = FALSE])
        /\ Alike([past[v] EXCEPT !.opened = FALSE, !.ended = @ + 1, !.split = FALSE])
    BY <1>1 DEF PastType
  <2>2. ASSUME NEW r, SetPast(v, r), Alike(r)
        PROVE  Kept2
    BY <1>1, <2>2, SetPastHistory
  <2>3. UNCHANGED past => Kept2
    OBVIOUS
  <2> HIDE DEF Alike, Kept2
  <2>4. QED
    BY <1>3, <2>1, <2>2, <2>3
<1>5. \/ Kept1
      \/ SetPassword(c) /\ v = u /\ account'[u].password = account[u].password + 1
  <2>1. \A r : SetAccount(v, r) => /\ account'[v] = r
                                   /\ u # v => account'[u] = account[u]
    BY <1>1 DEF SetAccount
  <2>2. /\ [account[v] EXCEPT !.version = @ + 1].password = account[v].password
        /\ [account[v] EXCEPT !.password = @ + 1, !.version = @ + 1].password
             = account[v].password + 1
    BY <1>1 DEF AccountType
  <2>3. QED
    BY <1>2, <2>1, <2>2
<1>6. QED
  BY <1>4, <1>5

LEMMA AccountStepsProve ==
  ASSUME TypeOK, Known, NEW c \in Calls, AccountSteps(c), ~Create(c), NEW u \in Ids
  PROVE  /\ account'[u].password = account[u].password
         /\ \/ past'[u].proven = past[u].proven
            \/ /\ MarkMail(c) /\ call[c].id = u
               /\ past'[u].proven = past[u].proven \cup {call[c].mail}
            \/ /\ MarkPhone(c) /\ call[c].id = u
               /\ past'[u].proven = past[u].proven \cup {call[c].phone}
<1> DEFINE v == call[c].id
           Kept1 == account'[u].password = account[u].password
           Kept2 == past'[u].proven = past[u].proven
<1>1. /\ account \in [Ids -> AccountType] /\ past \in [Ids -> PastType]
      /\ v \in Ids /\ account[v] \in AccountType /\ past[v] \in PastType
  BY DEF TypeOK, SessionTypes, AccountSteps, AddProfile, UndoProfile, UndoUser, MarkMail,
         MarkPhone, Save, Reseed, RecordOK, WithAccount
<1>2. \/ UNCHANGED account
      \/ \E b : SetAccount(v, [account[v] EXCEPT !.profile = b])
      \/ SetAccount(v, [account[v] EXCEPT !.status = "DELETED"])
      \/ SetAccount(v, [account[v] EXCEPT !.verified = TRUE])
      \/ SetAccount(v, [account[v] EXCEPT !.mail = call[c].mail,
                          !.verified = @ /\ call[c].mail = call[c].was])
      \/ SetAccount(v, [account[v] EXCEPT !.mail = SeedMail])
  BY DEF AccountSteps, AddProfile, UndoProfile, UndoUser, MarkMail, MarkPhone, Save, Reseed
<1>3. Kept1
  <2>1. ASSUME NEW r, SetAccount(v, r), r.password = account[v].password
        PROVE  Kept1
    BY <1>1, <2>1 DEF SetAccount
  <2>2. QED
    BY <1>1, <1>2, <2>1 DEF AccountType
<1>4. \/ UNCHANGED past
      \/ \E b : SetPast(v, [past[v] EXCEPT !.overtaken = b])
      \/ MarkMail(c) /\ SetPast(v, [past[v] EXCEPT !.proven = @ \cup {call[c].mail}])
      \/ MarkPhone(c) /\ SetPast(v, [past[v] EXCEPT !.proven = @ \cup {call[c].phone}])
  BY Zenon
  DEF AccountSteps, AddProfile, UndoProfile, UndoUser, MarkMail, MarkPhone, Save, Reseed
<1>5. ASSUME NEW b, SetPast(v, [past[v] EXCEPT !.overtaken = b])
      PROVE  Kept2
  <2>1. [past[v] EXCEPT !.overtaken = b].proven = past[v].proven
    BY <1>1 DEF PastType
  <2>2. QED
    BY <1>1, <1>5, <2>1, SetPastHistory
<1>6. ASSUME NEW x, SetPast(v, [past[v] EXCEPT !.proven = @ \cup {x}])
      PROVE  Kept2 \/ (v = u /\ past'[u].proven = past[u].proven \cup {x})
  <2>1. [past[v] EXCEPT !.proven = @ \cup {x}].proven = past[v].proven \cup {x}
    BY <1>1 DEF PastType
  <2>2. QED
    BY <1>1, <1>6, <2>1, SetPastHistory
<1>7. QED
  BY <1>3, <1>4, <1>5, <1>6

\* Passwords change in resets; and what an account has proven grows by an address or a
\* number at a time, or is the number it is created for.
LEMMA CredentialsSteps ==
  ASSUME TypeOK, Known, [Next]_vars, NEW u \in Ids
  PROVE  /\ \/ account[u].status = "ABSENT"
            \/ account'[u].password = account[u].password
            \/ \E c \in Calls : /\ SetPassword(c) /\ call[c].id = u
                                /\ account'[u].password = account[u].password + 1
         /\ \/ past'[u].proven = past[u].proven
            \/ \E c \in Calls : /\ MarkMail(c) /\ call[c].id = u
                                /\ past'[u].proven = past[u].proven \cup {call[c].mail}
            \/ \E c \in Calls : /\ MarkPhone(c) /\ call[c].id = u
                                /\ past'[u].proven = past[u].proven \cup {call[c].phone}
            \/ \E c \in Calls : /\ Create(c) /\ call[c].op = "proveSms"
                                /\ past'[u].proven = past[u].proven \cup {call[c].phone}
<1>1. /\ account \in [Ids -> AccountType] /\ past \in [Ids -> PastType]
  BY DEF TypeOK, SessionTypes
<1> DEFINE Kept1 == account'[u].password = account[u].password
           Kept2 == past'[u].proven = past[u].proven
<1>2. ASSUME NEW c \in Calls, Create(c)
      PROVE  /\ account[u].status = "ABSENT" \/ Kept1
             /\ \/ Kept2
                \/ /\ call[c].op = "proveSms"
                   /\ past'[u].proven = past[u].proven \cup {call[c].phone}
  <2>1. CASE UNCHANGED <<account, past>>
    BY <2>1
  <2>2. ASSUME NEW x \in Ids, Births(c, x), x # u PROVE Kept1 /\ Kept2
    BY <1>1, <2>2 DEF Births
  <2>3. ASSUME Births(c, u)
        PROVE  /\ account[u].status = "ABSENT"
               /\ \/ Kept2
                  \/ /\ call[c].op = "proveSms"
                     /\ past'[u].proven = past[u].proven \cup {call[c].phone}
    <3>1. past'[u] = Remembered(c) /\ past[u] = NoPast /\ account[u].status = "ABSENT"
      BY <1>1, <2>3 DEF Births, Known
    <3>2. /\ past[u].proven = {}
          /\ past'[u].proven = IF call[c].op = "proveSms" THEN {call[c].phone} ELSE {}
      BY <3>1 DEF Remembered, NoPast
    <3>3. QED
      BY <3>1, <3>2
  <2>4. QED
    BY <1>2, <2>1, <2>2, <2>3, CreateBirths
<1>3. ASSUME NEW v \in Ids, SetStatus(v) PROVE Kept1 /\ Kept2
  <2>1. /\ \E st : SetAccount(v, [account[v] EXCEPT !.status = st])
        /\ UNCHANGED past /\ account[v] \in AccountType
    BY <1>1, <1>3, Zenon DEF SetStatus
  <2>2. QED
    BY <1>1, <2>1 DEF SetAccount, AccountType
<1>4. UNCHANGED sessionVars \/ (\E t \in Tokens : Lapses(t)) => Kept1 /\ Kept2
  BY DEF sessionVars, Lapses
<1> HIDE DEF Kept1, Kept2
<1>5. \A c \in Calls : SessionSteps(c) =>
        /\ Kept2
        /\ \/ Kept1
           \/ /\ SetPassword(c) /\ call[c].id = u
              /\ account'[u].password = account[u].password + 1
  BY SessionStepsProve DEF Kept1, Kept2
<1>6. \A c \in Calls : AccountSteps(c) /\ ~Create(c) =>
        /\ Kept1
        /\ \/ Kept2
           \/ /\ MarkMail(c) /\ call[c].id = u
              /\ past'[u].proven = past[u].proven \cup {call[c].mail}
           \/ /\ MarkPhone(c) /\ call[c].id = u
              /\ past'[u].proven = past[u].proven \cup {call[c].phone}
  BY AccountStepsProve DEF Kept1, Kept2
<1>7. /\ account[u].status = "ABSENT" \/ Kept1
         \/ \E c \in Calls : /\ SetPassword(c) /\ call[c].id = u
                             /\ account'[u].password = account[u].password + 1
      /\ \/ Kept2
         \/ \E c \in Calls : /\ MarkMail(c) /\ call[c].id = u
                             /\ past'[u].proven = past[u].proven \cup {call[c].mail}
         \/ \E c \in Calls : /\ MarkPhone(c) /\ call[c].id = u
                             /\ past'[u].proven = past[u].proven \cup {call[c].phone}
         \/ \E c \in Calls : /\ Create(c) /\ call[c].op = "proveSms"
                             /\ past'[u].proven = past[u].proven \cup {call[c].phone}
  BY <1>2, <1>3, <1>4, <1>5, <1>6, WritesCases
<1>8. QED
  BY <1>7 DEF Kept1, Kept2

\* An account without a password has proven something.
Earned(u) == account[u].password = 0 => past[u].proven # {}

\* Request r presented the secret it names, made for the address and given out.
Shown(r, kind, address) ==
  /\ r.right /\ r.number \in Secrets
  /\ secret[r.number].kind = kind /\ secret[r.number].address = address
  /\ secret[r.number].given

\* Request r presented the secret that its endpoint asks for.
Showing(r) ==
  /\ r.op = "proveMail" => Shown(r, "mail", r.mail)
  /\ r.op = "proveSms" => AutoVerify \/ Shown(r, "sms", r.phone)
  /\ r.op = "reset" => Shown(r, "reset", r.mail)

\* The steps that come after the account of a session is found, and those that come
\* after a secret was judged right.
Opening == {"addProfile", "bump", "revoke", "grant", "retire", "regrant"}
Proving == {"accept", "lookup", "create", "mark", "setPassword"}

\* A request is where it is by the secret it presented, or works on an account whose
\* sessions are earned.
Deserves(r) ==
  /\ r.at \in Proving => Showing(r)
  /\ r.at = "setPassword" => r.op = "reset"
  /\ r.at \in Opening => Earned(r.id)

AccessEarned ==
  /\ \A c \in Calls : Deserves(call[c])
  /\ \A t \in Tokens : token[t].owner \in Ids => Earned(token[t].owner)

LEMMA EarnedStays ==
  ASSUME TypeOK, Known, [Next]_vars, NEW u \in Ids, account[u].status # "ABSENT", Earned(u)
  PROVE  Earned(u)'
<1>1. account[u].password \in Nat
  BY DEF TypeOK, SessionTypes, AccountType
<1>2. account'[u].password = 0 => account[u].password = 0
  BY <1>1, CredentialsSteps
<1>3. past[u].proven \subseteq past'[u].proven
  BY CredentialsSteps
<1>4. QED
  BY <1>2, <1>3 DEF Earned

LEMMA ShowingStays ==
  ASSUME TypeOK, [Next]_vars, NEW r, Showing(r)
  PROVE  Showing(r)'
<1>1. ASSUME NEW kind \in {"mail", "sms", "reset"}, NEW address, Shown(r, kind, address)
      PROVE  Shown(r, kind, address)'
  <2>1. Made(r.number) /\ r.number \in Secrets
    BY <1>1 DEF Shown, Made
  <2>2. ~\E c \in Calls : Makes(c, r.number)
    BY <2>1 DEF Makes
  <2>3. QED
    BY <1>1, <2>1, <2>2, SecretKept DEF Shown
<1>2. /\ Shown(r, "mail", r.mail) => Shown(r, "mail", r.mail)'
      /\ Shown(r, "sms", r.phone) => Shown(r, "sms", r.phone)'
      /\ Shown(r, "reset", r.mail) => Shown(r, "reset", r.mail)'
  BY <1>1
<1>3. QED
  BY <1>2 DEF Showing

\* What a request deserves it still deserves when others have moved.
LEMMA DeservesStays ==
  ASSUME TypeOK, Known, [Next]_vars, NEW r, Deserves(r),
         r.at \in WithAccount => r.id \in Ids /\ account[r.id].status # "ABSENT"
  PROVE  Deserves(r)'
<1>1. Showing(r) => Showing(r)'
  BY ShowingStays
<1>2. r.at \in Opening => Earned(r.id)'
  BY EarnedStays DEF Deserves, Opening, WithAccount
<1>3. QED
  BY <1>1, <1>2 DEF Deserves

\* What a request that goes on comes to.
Advances(d) ==
  LET q == call[d]
      r == call'[d] IN
  \/ q.at \in {"addProfile", "bump", "revoke", "retire"} /\ r.at \in Opening /\ r.id = q.id
  \/ q.at \in {"accept", "lookup"} /\ r.at \in Proving /\ (r.at = "setPassword" => q.op = "reset")
  \/ MarkMail(d) /\ Exists(q.id) /\ r.at = "bump" /\ r.id = q.id
  \/ MarkPhone(d) /\ Exists(q.id) /\ r.at = "bump" /\ r.id = q.id
  \/ \E u \in Ids : Create(d) /\ Births(d, u) /\ r.at \in {"addProfile", "bump"} /\ r.id = u

LEMMA GoesOnAdvances ==
  ASSUME TypeOK, NEW d \in Calls, GoesOn(d),
         call'[d].at \in Opening \cup Proving
  PROVE  Advances(d)
<1>1. call \in [Calls -> CallType] /\ call[d] \in CallType
  BY DEF TypeOK, RequestTypes
<1>2. ~Ends(d)
  BY <1>1 DEF Ends, Idle, Opening, Proving
<1>3. ASSUME NEW at, Goes(d, at)
      PROVE  call'[d].at = at /\ call'[d].id = call[d].id
  BY <1>1, <1>3 DEF Goes, CallType
<1>4. CASE OpensSession(d)
  <2>1. ASSUME NEW n, call' = [call EXCEPT ![d].at = "revoke", ![d].version = n]
        PROVE  call'[d].at = "revoke" /\ call'[d].id = call[d].id
    BY <1>1, <2>1 DEF CallType
  <2>2. CASE Bump(d)
    BY <1>2, <2>1, <2>2 DEF Bump, Advances, Opening
  <2>3. CASE Revoke(d)
    BY <1>3, <2>3 DEF Revoke, Advances, Opening
  <2>4. CASE Grant(d)
    BY <1>2, <2>4 DEF Grant
  <2>5. QED
    BY <1>4, <2>2, <2>3, <2>4 DEF OpensSession
<1>5. CASE Rotates(d) \/ EndsSessions(d)
  <2>1. CASE Retire(d)
    BY <1>3, <2>1 DEF Retire, Advances, Opening
  <2>2. CASE Regrant(d) \/ SetPassword(d)
    BY <1>2, <1>3, <2>2 DEF Regrant, SetPassword, Opening, Proving
  <2>3. QED
    BY <1>2, <1>5, <2>1, <2>2 DEF Rotates, EndsSessions, Reread, Close, RevokeAll
<1>6. CASE MakesSecret(d)
  <2>1. ASSUME LetThrough(d) PROVE FALSE
    <3>1. PICK at \in {"count", "owner", "store"} :
            \E w : call' = [call EXCEPT ![d].at = at, ![d].window = w]
      BY <2>1 DEF LetThrough
    <3>2. call'[d].at = at
      BY <1>1, <3>1 DEF CallType
    <3>3. QED
      BY <3>2 DEF Opening, Proving
  <2>2. CASE Store(d)
    <3>1. \/ Ends(d)
          \/ \E s : call' = [call EXCEPT ![d] = [call[d] EXCEPT !.at = "send", !.number = s]]
      BY <1>1, <2>2 DEF Store, Ends
    <3>2. ASSUME NEW s,
                 call' = [call EXCEPT ![d] = [call[d] EXCEPT !.at = "send", !.number = s]]
          PROVE  call'[d].at = "send"
      BY <1>1, <3>2 DEF CallType
    <3>3. QED
      BY <1>2, <3>1, <3>2 DEF Opening, Proving
  <2>3. QED
    BY <1>2, <1>3, <1>6, <2>1, <2>2
    DEF MakesSecret, Opening, Proving, Count, SetWindow, Judge, AskOwner, Send, Unsend
<1>7. CASE UsesSecret(d)
  <2>1. ASSUME NEW at, NEW u, call' = [call EXCEPT ![d].at = at, ![d].id = u]
        PROVE  call'[d].at = at /\ call'[d].id = u
    BY <1>1, <2>1 DEF CallType
  <2>2. ASSUME NEW at, NEW n, call' = [call EXCEPT ![d].at = at, ![d].password = n]
        PROVE  call'[d].at = at /\ call'[d].id = call[d].id
    BY <1>1, <2>2 DEF CallType
  <2>3. CASE Accept(d)
    BY <1>3, <2>3 DEF Accept, Advances, Proving
  <2>4. CASE LookupMail(d)
    BY <1>2, <2>1, <2>4 DEF LookupMail, Advances, Proving
  <2>5. CASE LookupOwner(d)
    BY <1>2, <2>1, <2>5 DEF LookupOwner, Advances, Proving
  <2>6. CASE LookupPhone(d)
    BY <1>3, <2>1, <2>6 DEF LookupPhone, Advances, Proving
  <2>7. CASE MarkMail(d)
    BY <1>2, <2>2, <2>7 DEF MarkMail, Advances
  <2>8. CASE MarkPhone(d)
    BY <1>2, <2>2, <2>8 DEF MarkPhone, Advances, Exists
  <2>9. QED
    BY <1>2, <1>7, <2>3, <2>4, <2>5, <2>6, <2>7, <2>8 DEF UsesSecret, Lapse, Reject
<1>8. CASE CreatesAccount(d) \/ ChangesAccount(d)
  <2>1. ASSUME NEW u, NEW driver, Proceeds(d, u, driver)
        PROVE  call'[d].at \in {"addProfile", "bump"} /\ call'[d].id = u
    BY <1>1, <1>2, <2>1 DEF Proceeds, CallType
  <2>2. CASE Create(d)
    <3>1. PICK u \in Ids : Births(d, u)
      BY <1>2, <2>2 DEF Create, Births, Created, Remembered, SetAccount, SetPast
    <3>2. call'[d].at \in {"addProfile", "bump"} /\ call'[d].id = u
      BY <2>1, <3>1 DEF Births
    <3>3. QED
      BY <2>2, <3>1, <3>2 DEF Advances
  <2>3. CASE AddProfile(d)
    BY <2>1, <2>3 DEF AddProfile, Advances, Opening
  <2>4. CASE UndoProfile(d)
    BY <1>3, <2>4 DEF UndoProfile, Opening, Proving
  <2>5. QED
    BY <1>2, <1>8, <2>2, <2>3, <2>4
    DEF CreatesAccount, ChangesAccount, UndoUser, Save, Reseed
<1>9. QED
  BY <1>4, <1>5, <1>6, <1>7, <1>8 DEF GoesOn

\* A request that has read a secret and goes on has presented it.
LEMMA ReadShows ==
  ASSUME CodesKnown, NEW r, NEW k \in SecretKeys, HasRead(r, k), r.at = "accept"
  PROVE  Showing(r)
<1>1. Filed(r.number, k)
  BY DEF HasRead, CodesKnown, RecordsFiled
<1>2. /\ r.number \in Secrets
      /\ k = SecretKey(secret[r.number].kind, secret[r.number].address, r.number)
  BY <1>1 DEF Filed, KeyOf
<1>3. /\ secret[r.number].kind = k.kind
      /\ k.of = IF k.kind = "reset" THEN r.number ELSE secret[r.number].address
  BY <1>2 DEF SecretKey, Key
<1>4. /\ r.right \/ (AutoVerify /\ r.op = "proveSms")
      /\ r.right => secret[r.number].given
      /\ About(r, k)
  BY DEF HasRead
<1>5. CASE r.op = "proveMail"
  <2>1. k.kind = "mail" /\ k.of = r.mail
    BY <1>4, <1>5 DEF About, Key
  <2>2. QED
    BY <1>2, <1>3, <1>4, <1>5, <2>1 DEF Showing, Shown
<1>6. CASE r.op = "proveSms"
  <2>1. k.kind = "sms" /\ k.of = r.phone
    BY <1>4, <1>6 DEF About, Key
  <2>2. QED
    BY <1>2, <1>3, <1>4, <1>6, <2>1 DEF Showing, Shown
<1>7. CASE r.op = "reset"
  <2>1. k.kind = "reset" /\ secret[k.of].address = r.mail
    BY <1>4, <1>7 DEF About
  <2>2. QED
    BY <1>2, <1>3, <1>4, <1>7, <2>1 DEF Showing, Shown
<1>8. QED
  BY <1>4, <1>5, <1>6, <1>7 DEF About

LEMMA ArrivingDeserves ==
  ASSUME TypeOK, CodesKnown, AccessEarned, NEW c \in Calls, Arriving(c)
  PROVE  Deserves(call'[c])
<1>1. PICK r : r = call'[c]
  OBVIOUS
<1>2. ArrivesAs(r)
  BY <1>1, ArrivingKinds
<1>3. CASE r.at = "accept"
  <2>1. PICK k \in SecretKeys : HasRead(r, k)
    BY <1>1, <1>3, ArrivingReads DEF Holding, Deciding
  <2>2. Showing(r)
    BY <1>3, <2>1, ReadShows
  <2>3. QED
    BY <1>1, <1>3, <2>2 DEF Deserves, Opening
<1>4. CASE r.at = "create"
  <2>1. r.op \in {"signup", "seed"}
    BY <1>2, <1>4 DEF ArrivesAs
  <2>2. QED
    BY <1>1, <1>4, <2>1 DEF Deserves, Showing, Opening
<1>5. CASE r.at = "bump"
  <2>1. account[r.id].password # 0
    BY <1>2, <1>5 DEF ArrivesAs
  <2>2. QED
    BY <1>1, <1>5, <2>1 DEF Deserves, Earned, Proving
<1>6. CASE r.at = "retire"
  <2>1. r.token \in Tokens /\ Live(r.token) /\ token[r.token].owner = r.id
    BY <1>2, <1>6 DEF ArrivesAs
  <2>2. token[r.token].owner \in Ids
    BY <2>1 DEF Live, TypeOK
  <2>3. QED
    BY <1>1, <1>6, <2>1, <2>2 DEF Deserves, AccessEarned, Proving
<1>7. CASE r.at \notin {"accept", "create", "bump", "retire"}
  BY <1>1, <1>2, <1>7 DEF ArrivesAs, Deserves, Opening, Proving
<1>8. QED
  BY <1>3, <1>4, <1>5, <1>6, <1>7

LEMMA OwnersStep ==
  ASSUME TypeOK, Known, AccessEarned, [Next]_vars, NEW t \in Tokens, token'[t].owner \in Ids
  PROVE  Earned(token[t].owner)'
<1>1. PICK u \in Ids : u = token'[t].owner
  OBVIOUS
<1>2. Earned(u) /\ account[u].status # "ABSENT"
  <2>1. CASE token'[t].owner = token[t].owner
    BY <1>1, <2>1 DEF AccessEarned, Known
  <2>2. CASE IsGranted(t)
    <3>1. PICK c \in Calls : (Grant(c) \/ Regrant(c)) /\ call[c].id = u
      BY <1>1, <2>2 DEF IsGranted
    <3>2. QED
      BY <3>1 DEF Grant, Regrant, AccessEarned, Deserves, Opening, Known
  <2>3. QED
    BY <2>1, <2>2, TokenFate DEF IsRevoked, HasLapsed
<1>3. Earned(u)'
  BY <1>2, EarnedStays
<1>4. QED
  BY <1>1, <1>3

LEMMA DeservesStep ==
  ASSUME TypeOK, Known, CodesKnown, AccessEarned, [Next]_vars, NEW d \in Calls
  PROVE  Deserves(call[d])'
<1>1. /\ call \in [Calls -> CallType] /\ RecordOK(call[d]) /\ past \in [Ids -> PastType]
      /\ account \in [Ids -> AccountType] /\ Idle.at = "idle"
  BY DEF TypeOK, RequestTypes, SessionTypes, Idle
<1>2. PICK q : q = call[d]
  OBVIOUS
<1>3. PICK r : r = call'[d]
  OBVIOUS
<1>4. Deserves(q)
  BY <1>2 DEF AccessEarned
<1>5. q.at \in WithAccount => q.id \in Ids /\ account[q.id].status # "ABSENT"
  BY <1>1, <1>2 DEF RecordOK, Known
<1> SUFFICES Deserves(r)'
  BY <1>3 DEF Deserves, Earned, Showing, Shown
<1>6. CASE r = q
  BY <1>4, <1>5, <1>6, DeservesStays
<1>7. CASE Arriving(d)
  <2>1. Deserves(r)
    BY <1>3, <1>7, ArrivingDeserves
  <2>2. UNCHANGED <<account, past>> /\ OnlyShared
    BY <1>7, ArrivingShape DEF sessionVars
  <2>3. QED
    BY <2>1, <2>2 DEF Deserves, Earned, Showing, Shown, OnlyShared
<1>8. ASSUME r.at \notin Opening \cup Proving
      PROVE  Deserves(r)'
  BY <1>8 DEF Deserves, Proving
<1>9. CASE Fails(d)
  <2>1. r = Recovers(q)
    BY <1>1, <1>2, <1>3, <1>9 DEF Fails
  <2>2. q \in CallType
    BY <1>1, <1>2
  <2>3. r.at \in {"idle", "undoProfile", "undoUser", "unsend"}
    BY <1>1, <2>1, <2>2 DEF Recovers, CallType
  <2>4. QED
    BY <1>8, <2>3 DEF Opening, Proving
<1>10. CASE r = Idle
  BY <1>1, <1>8, <1>10 DEF Opening, Proving
<1>11. CASE GoesOn(d) /\ r # Idle /\ r.at \in Opening \cup Proving
  <2>1. Advances(d)
    BY <1>3, <1>11, GoesOnAdvances
  <2>2. ASSUME r.at \in Opening, Earned(r.id)'
        PROVE  Deserves(r)'
    BY <2>2 DEF Deserves, Opening, Proving
  <2>3. CASE /\ q.at \in {"addProfile", "bump", "revoke", "retire"}
             /\ r.at \in Opening /\ r.id = q.id
    <3>1. Earned(q.id)'
      BY <1>4, <1>5, <2>3, EarnedStays DEF Deserves, Opening, WithAccount
    <3>2. QED
      BY <2>2, <2>3, <3>1 DEF Earned
  <2>4. CASE /\ q.at \in {"accept", "lookup"} /\ r.at \in Proving
             /\ r.at = "setPassword" => q.op = "reset"
    <3>1. ~Store(d)
      BY <1>2, <2>4 DEF Store
    <3>2. /\ r.op = q.op /\ r.mail = q.mail /\ r.phone = q.phone
          /\ r.right = q.right /\ r.number = q.number
      BY <1>2, <1>3, <1>11, <3>1, GoesOnKeeps DEF Keeps
    <3>3. Showing(q)'
      BY <1>4, <2>4, ShowingStays DEF Deserves, Proving
    <3>4. Showing(r)'
      BY <3>2, <3>3 DEF Showing, Shown
    <3>5. QED
      BY <2>4, <3>2, <3>4 DEF Deserves, Opening, Proving
  <2>5. CASE (MarkMail(d) \/ MarkPhone(d)) /\ Exists(q.id) /\ r.at = "bump" /\ r.id = q.id
    <3>1. q.id \in Ids /\ past[q.id] \in PastType
      BY <1>1, <1>2, <1>5, <2>5 DEF MarkMail, MarkPhone, WithAccount
    <3>2. \E x : SetPast(q.id, [past[q.id] EXCEPT !.proven = @ \cup {x}])
      BY <1>2, <2>5 DEF MarkMail, MarkPhone
    <3>3. past'[q.id].proven # {}
      <4>1. PICK x : SetPast(q.id, [past[q.id] EXCEPT !.proven = @ \cup {x}])
        BY <3>2
      <4>2. [past[q.id] EXCEPT !.proven = @ \cup {x}].proven = past[q.id].proven \cup {x}
        BY <3>1 DEF PastType
      <4>3. past'[q.id] = [past[q.id] EXCEPT !.proven = @ \cup {x}]
        BY <3>1, <4>1, SetPastHistory
      <4>4. QED
        BY <4>2, <4>3
    <3>4. QED
      BY <2>2, <2>5, <3>3 DEF Earned, Opening
  <2>6. ASSUME NEW u \in Ids, Births(d, u), r.at \in {"addProfile", "bump"}, r.id = u
        PROVE  Deserves(r)'
    <3>1. account'[u] = Created(d) /\ past'[u] = Remembered(d)
      BY <1>1, <2>6 DEF Births
    <3>2. /\ account'[u].password = IF call[d].op = "proveSms" THEN 0 ELSE 1
          /\ past'[u].proven = IF call[d].op = "proveSms" THEN {call[d].phone} ELSE {}
      BY <3>1 DEF Created, NoAccount, Remembered, NoPast
    <3>3. Earned(u)'
      BY <3>2 DEF Earned
    <3>4. QED
      BY <2>2, <2>6, <3>3 DEF Earned, Opening
  <2>7. QED
    BY <1>2, <1>3, <2>1, <2>3, <2>4, <2>5, <2>6 DEF Advances
<1>12. QED
  BY <1>2, <1>3, <1>6, <1>7, <1>8, <1>9, <1>10, <1>11, OwnSteps

LEMMA EarnedInit == Init => AccessEarned
<1> SUFFICES ASSUME Init PROVE AccessEarned
  OBVIOUS
<1>1. \A c \in Calls : Deserves(call[c])
  BY DEF Init, Idle, Deserves, Opening, Proving
<1>2. \A t \in Tokens : token[t].owner \notin Ids
  BY NoneAssumption DEF Init, NoToken
<1>3. QED
  BY <1>1, <1>2 DEF AccessEarned

LEMMA EarnedStep ==
  ASSUME TypeOK, Known, CodesKnown, AccessEarned, [Next]_vars
  PROVE  AccessEarned'
BY OwnersStep, DeservesStep DEF AccessEarned

LEMMA AccessStep ==
  ASSUME TypeOK, Known, AccessEarned, [Next]_vars, NEW u \in Ids
  PROVE  /\ \A x \in past'[u].proven \ past[u].proven :
              \E c \in Calls :
                \/ Presented(c, "mail", x)
                \/ /\ call[c].op = "proveSms" /\ call[c].phone = x
                   /\ AutoVerify \/ Presented(c, "sms", x)
         /\ Exists(u) /\ account'[u].password # account[u].password =>
              \E c \in Calls : call[c].id = u /\ Presented(c, "reset", call[c].mail)
         /\ \A t \in Tokens :
              /\ token'[t].owner = u /\ token[t].owner # u
              /\ account[u].password = 0
              => past[u].proven # {}
<1>1. \A c \in Calls : \A kind, address :
        Shown(call[c], kind, address) => Presented(c, kind, address)
  BY DEF Shown, Presented
<1>2. \A c \in Calls : call[c].at \in Proving => Showing(call[c])
  BY DEF AccessEarned, Deserves
<1>3. ASSUME NEW x \in past'[u].proven \ past[u].proven
      PROVE  \E c \in Calls :
               \/ Presented(c, "mail", x)
               \/ /\ call[c].op = "proveSms" /\ call[c].phone = x
                  /\ AutoVerify \/ Presented(c, "sms", x)
  <2>1. PICK c \in Calls :
          \/ MarkMail(c) /\ past'[u].proven = past[u].proven \cup {call[c].mail}
          \/ /\ MarkPhone(c) \/ (Create(c) /\ call[c].op = "proveSms")
             /\ past'[u].proven = past[u].proven \cup {call[c].phone}
    BY <1>3, CredentialsSteps
  <2>2. CASE MarkMail(c) /\ x = call[c].mail
    BY <1>1, <1>2, <2>2 DEF MarkMail, Proving, Showing
  <2>3. CASE (MarkPhone(c) \/ (Create(c) /\ call[c].op = "proveSms")) /\ x = call[c].phone
    BY <1>1, <1>2, <2>3 DEF MarkPhone, Create, Proving, Showing
  <2>4. QED
    BY <1>3, <2>1, <2>2, <2>3
<1>4. ASSUME Exists(u), account'[u].password # account[u].password
      PROVE  \E c \in Calls : call[c].id = u /\ Presented(c, "reset", call[c].mail)
  <2>1. PICK c \in Calls : SetPassword(c) /\ call[c].id = u
    BY <1>4, CredentialsSteps DEF Exists
  <2>2. call[c].op = "reset" /\ Showing(call[c])
    BY <1>2, <2>1 DEF SetPassword, AccessEarned, Deserves, Proving
  <2>3. QED
    BY <1>1, <2>1, <2>2 DEF Showing
<1>5. ASSUME NEW t \in Tokens, token'[t].owner = u, token[t].owner # u,
             account[u].password = 0
      PROVE  past[u].proven # {}
  <2>1. IsGranted(t)
    BY <1>5, TokenFate DEF IsRevoked, HasLapsed
  <2>2. PICK c \in Calls : (Grant(c) \/ Regrant(c)) /\ call[c].id = u
    BY <1>5, <2>1 DEF IsGranted
  <2>3. Earned(u)
    BY <2>2 DEF Grant, Regrant, AccessEarned, Deserves, Opening
  <2>4. QED
    BY <1>5, <2>3 DEF Earned
<1>6. QED
  BY <1>3, <1>4, <1>5

\* An address or a number is proven, and a password changed, only by a request that
\* presented the secret made for it and given out (no secret at all with AutoVerify,
\* for numbers); and an account without a password has proven something before it
\* opens a session.
THEOREM AccessByProof == Spec => AccessIsEarned
<1>1. TypeOK /\ Known /\ CodesKnown /\ AccessEarned /\ [Next]_vars => AccessEarned'
  BY EarnedStep
<1>2. TypeOK /\ Known /\ AccessEarned /\ [Next]_vars =>
        [\A u \in Ids :
           /\ \A x \in past'[u].proven \ past[u].proven :
                \E c \in Calls :
                  \/ Presented(c, "mail", x)
                  \/ /\ call[c].op = "proveSms" /\ call[c].phone = x
                     /\ AutoVerify \/ Presented(c, "sms", x)
           /\ Exists(u) /\ account'[u].password # account[u].password =>
                \E c \in Calls : call[c].id = u /\ Presented(c, "reset", call[c].mail)
           /\ \A t \in Tokens :
                /\ token'[t].owner = u /\ token[t].owner # u
                /\ account[u].password = 0
                => past[u].proven # {}]_vars
  BY AccessStep
<1>3. QED
  BY <1>1, <1>2, EarnedInit, AccountsTypes, AccountsKnown, CodesFiled, PTL
  DEF Spec, AccessIsEarned
=============================================================================
