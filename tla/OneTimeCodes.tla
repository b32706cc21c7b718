---------------------------- MODULE OneTimeCodes ----------------------------
(***************************************************************************)
(* Secrets that are good for one use: the codes of EmailOtpService and     *)
(* OtpService and the tokens of PasswordResetService                       *)
(* (src/src/modules/auth/email-otp.service.ts, otp.service.ts,             *)
(* password-reset.service.ts), and the rate limits in front of them, over  *)
(* the store of KeyValueStore.                                             *)
(*                                                                         *)
(* One action is one access to the store, or one e-mail, with the code up  *)
(* to the next await.  Secrets are numbered as they are stored; two codes  *)
(* that happen to have the same digits are told apart.                     *)
(***************************************************************************)
EXTENDS KeyValueStore, Sessions

CONSTANTS
  Secrets,       \* the numbers of secrets
  CountCap,      \* bound on a counter of requests
  MaxAttempts,   \* EMAIL_OTP_MAX_FAILED_ATTEMPTS, OTP_MAX_FAILED_ATTEMPTS
  MaxPer60s,     \* EMAIL_OTP_MAX_PER_60S
  MaxPerHour,    \* EMAIL_OTP_MAX_PER_HOUR, OTP_MAX_PER_HOUR,
                 \* PASSWORD_RESET_MAX_PER_HOUR
  AutoVerify     \* OTP_AUTO_VERIFY without a provider of SMS

ASSUME CodesAssumption ==
  /\ Secrets \subseteq Nat \ {0}
  /\ {CountCap, MaxAttempts, MaxPer60s, MaxPerHour} \subseteq Nat \ {0}
  /\ AutoVerify \in BOOLEAN

VARIABLES
  secret,   \* the secrets made so far
  passed    \* history: requests that each counter has let through

codeVars == <<store, backing, secret, passed>>
sessionVars == <<account, token, access, past>>

-----------------------------------------------------------------------------
(* The keys of the store.                                                  *)

Key(kind, of) == [kind |-> kind, of |-> of]

\* A reset token is stored under its own hash, a code under its address.
SecretKeys ==
  [kind : {"mail"}, of : Mails] \cup [kind : {"sms"}, of : Phones]
    \cup [kind : {"reset"}, of : Secrets]

\* The counters that a request for a secret increments: the first, and the one
\* after each.  There is one client address.
FirstWindow ==
  [askMail |-> "per60s", askSms |-> "smsPerHour", askReset |-> "resetPerHour"]
NextWindow ==
  [per60s |-> "perHour", perHour |-> "perIp", resetPerHour |-> "resetPerIp"]

Limit(kind) ==
  CASE kind = "per60s" -> MaxPer60s
    [] kind = "resetPerIp" -> 3 * MaxPerHour
    [] OTHER -> MaxPerHour

WindowKey(kind, address) == Key(kind, IF kind = "resetPerIp" THEN None ELSE address)

WindowKeys ==
  [kind : {"per60s", "perHour", "perIp", "resetPerHour"}, of : Mails]
    \cup [kind : {"smsPerHour"}, of : Phones] \cup {Key("resetPerIp", None)}

ASSUME KeysAssumption == Keys = SecretKeys \cup WindowKeys

\* kind and address say what a secret was made for; given, that it has left the
\* service; aged, that it is past expiresAt.  The rest is history: accepted and
\* wrong count its uses; shared, two requests had read it and not yet written;
\* contested, a request had still to write or delete an older one under its key
\* when it was stored.
NoSecret ==
  [kind |-> "none", address |-> None, given |-> FALSE, aged |-> FALSE, accepted |-> 0,
   wrong |-> 0, shared |-> FALSE, contested |-> FALSE]

Made(s) == secret[s].kind # "none"

SecretKey(kind, address, s) == Key(kind, IF kind = "reset" THEN s ELSE address)
KeyOf(s) == SecretKey(secret[s].kind, secret[s].address, s)

\* The key a request works on.
CallKey(c) ==
  CASE call[c].op \in {"askMail", "proveMail"} -> Key("mail", call[c].mail)
    [] call[c].op \in {"askSms", "proveSms"} -> Key("sms", call[c].phone)
    [] OTHER -> Key("reset", call[c].number)

\* The steps at which a request has read a secret and not yet written, and those
\* at which it may still write or delete what is under its key.
Deciding == {"lapse", "reject", "accept"}
Holding == Deciding \cup {"send", "unsend"}

-----------------------------------------------------------------------------
(* Asking for a secret: rateLimitCheck, then the record, then the e-mail.  *)

Asking == {c \in Calls : call[c].op \in DOMAIN FirstWindow}

\* The counter that call c is at.
CallWindow(c) ==
  WindowKey(call[c].window, IF call[c].op = "askSms" THEN call[c].phone ELSE call[c].mail)

AskBegins(c, op, m, p) ==
  /\ Cardinality(Asking) < Cardinality({s \in Secrets : ~Made(s)})
  /\ \A k \in WindowKeys : k.of \in {m, p} => store[k].number < CountCap
  /\ Begins(c, [Idle EXCEPT !.op = op, !.at = "count", !.mail = m, !.phone = p,
                            !.window = FirstWindow[op]])
  /\ UNCHANGED <<codeVars, sessionVars>>

AskMail(c, m) == AskBegins(c, "askMail", m, None)
AskSms(c, p) == AskBegins(c, "askSms", None, p)
AskReset(c, m) == AskBegins(c, "askReset", m, None)

\* A counter lets a request through: on to the next one, or to what they guard.
LetThrough(c) ==
  /\ passed' = [passed EXCEPT ![CallWindow(c)] = @ + 1]
  /\ \/ /\ call[c].window \in DOMAIN NextWindow
        /\ call' = [call EXCEPT ![c].at = "count", ![c].window = NextWindow[@]]
     \/ /\ call[c].window \notin DOMAIN NextWindow
        /\ call' = [call EXCEPT ![c].at = IF call[c].op = "askReset" THEN "owner" ELSE "store",
                                ![c].window = "none"]

\* Wrong on purpose: the limit is one too high.
JudgeLoosely(c, count) ==
  \/ count > Limit(call[c].window) + 1 /\ Ends(c) /\ UNCHANGED passed
  \/ count <= Limit(call[c].window) + 1 /\ LetThrough(c)

Judge(c, count) ==
  \/ count > Limit(call[c].window) /\ Ends(c) /\ UNCHANGED passed
  \/ count <= Limit(call[c].window) /\ LetThrough(c)

\* The first request of a window gives the counter its expiry.
Count(c) ==
  /\ call[c].at = "count"
  /\ LET k == CallWindow(c) IN
     /\ Incr(k)
     /\ \/ Holds(k) /\ Judge(c, store[k].number + 1)
        \/ ~Holds(k) /\ Goes(c, "expire") /\ UNCHANGED passed
  /\ UNCHANGED <<backing, secret, sessionVars>>

SetWindow(c) ==
  /\ call[c].at = "expire"
  /\ Expire(CallWindow(c))
  /\ Judge(c, 1)
  /\ UNCHANGED <<backing, secret, sessionVars>>

\* requestPasswordReset reads the account; any other address gets no token.
AskOwner(c) ==
  /\ call[c].at = "owner"
  /\ \/ /\ \E u \in Ids : account[u].status = "ACTIVE" /\ account[u].mail = call[c].mail
        /\ Goes(c, "store")
     \/ /\ \A u \in Ids : account[u].status = "ACTIVE" => account[u].mail # call[c].mail
        /\ Ends(c)
  /\ UNCHANGED <<codeVars, sessionVars>>

SecretKind == [askMail |-> "mail", askSms |-> "sms", askReset |-> "reset"]

\* requestOtp gives a code out at once, to whoever asked for it in the answer
\* (SMS_MOCK) or to the log.  Nothing is sent to the number.
GivenAtOnce(kind) == kind = "sms"

\* A new secret takes the place of the one under its key.
Store(c) ==
  /\ call[c].at = "store"
  /\ \E s \in Secrets :
       LET kind == SecretKind[call[c].op]
           address == IF kind = "sms" THEN call[c].phone ELSE call[c].mail
           key == SecretKey(kind, address, s) IN
       /\ ~Made(s)
       /\ \A x \in Secrets : x < s => Made(x)
       /\ SetEx(key, s, 0)
       /\ secret' = [secret EXCEPT ![s] =
            [NoSecret EXCEPT !.kind = kind, !.address = address,
               !.given = GivenAtOnce(kind),
               !.contested = \E d \in Calls : call[d].at \in Holding /\ CallKey(d) = key]]
       /\ call' = [call EXCEPT ![c] =
            IF GivenAtOnce(kind) THEN Idle ELSE [@ EXCEPT !.at = "send", !.number = s]]
  /\ UNCHANGED <<backing, passed, sessionVars>>

Send(c) ==
  /\ call[c].at = "send"
  /\ secret' = [secret EXCEPT ![call[c].number].given = TRUE]
  /\ Ends(c)
  /\ UNCHANGED <<store, backing, passed, sessionVars>>

\* The e-mail failed: whatever is under the key by now is deleted.
Unsend(c) ==
  /\ call[c].at = "unsend"
  /\ Del(CallKey(c))
  /\ Ends(c)
  /\ UNCHANGED <<backing, secret, passed, sessionVars>>

-----------------------------------------------------------------------------
(* Using a secret: verify of both services, and resetPassword.             *)

\* Wrong on purpose: a wrong guess is taken for the right one.
JudgedKindly(record, aged) ==
  LET auto == AutoVerify /\ record.op = "proveSms"
      spent == ~auto /\ record.op # "reset" /\ record.tries >= MaxAttempts IN
  [record EXCEPT !.at = IF aged \/ spent THEN "lapse" ELSE "accept"]

\* A record past expiresAt or out of attempts, a wrong guess or the right one.
\* Out of attempts, OtpService refuses without a write.
Judged(record, aged) ==
  LET auto == AutoVerify /\ record.op = "proveSms"
      spent == ~auto /\ record.op # "reset" /\ record.tries >= MaxAttempts IN
  [record EXCEPT !.at =
     IF aged \/ spent THEN "lapse" ELSE IF auto \/ record.right THEN "accept" ELSE "reject"]

\* The secret under key k is read.  Nobody guesses: who has it right was given it.
UseRead(c, k, right, record) ==
  LET s == store[k].number
      judged == Judged([record EXCEPT !.number = s, !.tries = store[k].tries,
                                      !.right = right], secret[s].aged) IN
  /\ Holds(k)
  /\ right => secret[s].given
  /\ judged.op = "proveSms" /\ judged.at = "lapse" => secret[s].aged
  /\ Begins(c, judged)
  /\ secret' = [secret EXCEPT ![s].shared = @ \/ \E d \in Calls :
                  call[d].at \in Deciding /\ call[d].number = s]
  /\ UNCHANGED <<store, backing, passed, sessionVars>>

ProveMail(c, m, right) ==
  /\ TokensLeft
  /\ UseRead(c, Key("mail", m), right, [Idle EXCEPT !.op = "proveMail", !.mail = m])

ProveSms(c, p, role, right) ==
  /\ TokensLeft
  /\ UseRead(c, Key("sms", p), right,
             [Idle EXCEPT !.op = "proveSms", !.phone = p, !.role = role])

UseReset(c, s) ==
  /\ secret[s].kind = "reset"
  /\ UseRead(c, Key("reset", s), TRUE,
             [Idle EXCEPT !.op = "reset", !.mail = secret[s].address])

\* What follows an access to the record of the secret a request works on.
Then(c, record) ==
  /\ secret' = [secret EXCEPT ![call[c].number] = record]
  /\ UNCHANGED <<backing, passed, sessionVars>>

Lapse(c) ==
  /\ call[c].at = "lapse"
  /\ Del(CallKey(c))
  /\ Ends(c)
  /\ Then(c, secret[call[c].number])

\* Wrong on purpose: a wrong guess costs nothing.
RejectFreely(c) ==
  /\ call[c].at = "reject"
  /\ Ends(c)
  /\ Then(c, [secret[call[c].number] EXCEPT !.wrong = @ + 1])
  /\ UNCHANGED store

\* The count that was read, plus one, is written back with a new expiry.
Reject(c) ==
  /\ call[c].at = "reject"
  /\ IF call[c].op = "proveMail" /\ call[c].tries + 1 >= MaxAttempts
       THEN Del(CallKey(c))
       ELSE SetEx(CallKey(c), call[c].number, call[c].tries + 1)
  /\ Ends(c)
  /\ Then(c, [secret[call[c].number] EXCEPT !.wrong = @ + 1])

\* Wrong on purpose: the record stays.
AcceptAndKeep(c) ==
  /\ call[c].at = "accept"
  /\ Goes(c, "lookup")
  /\ Then(c, [secret[call[c].number] EXCEPT !.accepted = @ + 1])
  /\ UNCHANGED store

Accept(c) ==
  /\ call[c].at = "accept"
  /\ Del(CallKey(c))
  /\ Goes(c, "lookup")
  /\ Then(c, [secret[call[c].number] EXCEPT !.accepted = @ + 1])

-----------------------------------------------------------------------------
(* Time.                                                                   *)

\* A secret passes its expiresAt.
Ages(s) ==
  /\ Made(s)
  /\ ~secret[s].aged
  /\ secret' = [secret EXCEPT ![s].aged = TRUE]
  /\ UNCHANGED <<store, backing, passed, call, sessionVars>>

\* The expiry of a record is renewed by wrong guesses: never before expiresAt.
RecordEnds(k) ==
  /\ Holds(k)
  /\ secret[store[k].number].aged
  /\ TimesOut(k)
  /\ UNCHANGED <<backing, secret, passed, call, sessionVars>>

WindowEnds(k) ==
  /\ TimesOut(k)
  /\ passed' = [passed EXCEPT ![k] = 0]
  /\ UNCHANGED <<backing, secret, call, sessionVars>>
=============================================================================
