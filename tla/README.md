# SafeRide API: a TLA+ development

SafeRide is the backend of a ride-hailing service for Kigali: one NestJS
process over a MongoDB database (through Prisma), with Redis or an in-memory
substitute as a key-value store. Passengers request rides, a dispatcher offers
them to drivers one at a time, drivers answer and report the progress of the
trip, payments follow, and an outbox turns events into notifications.

Paths below are relative to the repository (`src/modules/...`).

## 1. Inventory

| Component | State | Operations | What is hard about it | What makes it correct |
|---|---|---|---|---|
| Dispatch `rides/dispatch.service.ts` | `Ride.state/driverId/offerId`, `Driver.isAvailable`, `activeRides`, pending timers | `start`, `attemptMatch`, `scheduleOfferTimeout` | every await lets other handlers in; timers survive what they were set for; all of it is lost in a crash | one driver per ride and one ride per driver; every offer ends; every search ends |
| Ride endpoints `rides/rides.service.ts` | the same rides and drivers | `requestRide`, `cancel`, `setDriverAvailability`, `acceptRide`, `rejectRide`, `updateState` | decisions on earlier reads, some writes by id only | status, driver and offer agree; an accepted ride stays with its driver; the lifecycle is followed |
| Status tables `rides/ride-state.ts` | none | `canTransition`, `isDriverForwardTransition` | - | they are what the writes follow |
| Driver administration `admin/admin.service.ts` | `Driver.isVerified/status`, `User.status` | `approveDriver`, `rejectDriver`, `setUserStatus`, `refundPayment` | happens at any moment of a ride | offers keep their timers; no payment is refunded twice |
| Payments `payments/payments.service.ts` | `Payment.status`, auto-confirm timers | `initiateForRide`, `confirm` (timer, webhook, simulation), `refund` | check-then-update without guards | one payment per ride; REFUNDED is final |
| Outbox `outbox/outbox.service.ts` | `Outbox` rows, back-off | `poll`, `process`, `create` | notification, push and mark are separate steps | nothing is lost below the failure limit; duplicates only after a failure |
| Notifications `notifications/notification.service.ts` | `Notification`, `PushSubscription` | `enqueueFromEvent`, `sendPush`, `upsert`, `remove`, `markRead` | dead subscriptions are removed during a fan-out | a dead subscription is not used again |
| Sessions `auth/token.service.ts`, `auth.service.ts`, `guards/jwt-auth.guard.ts` | `RefreshToken`, `User.tokenVersion`, the access tokens clients hold | `login`, `createSession`, `refresh`, `logout`, guard | opening a session is four writes, rotation three accesses, and all may interleave | what was ended stays ended; a login leaves somebody logged in; one session per account |
| One-time codes `auth/email-otp.service.ts`, `otp.service.ts` | records with attempts, and rate-limit counters, in the key-value store | `request`, `generate`, `verify`, `rateLimitCheck` | records are read, decided on and written back; counter and expiry are two steps | a code is used once; wrong guesses are counted and bounded; limits hold and end |
| Password reset `auth/password-reset.service.ts` | reset tokens in the store, `User.passwordHash` | `requestPasswordReset`, `resetPassword` | get, delete, read, update and revoke are five steps | a token is used once; old sessions end |
| Key-value store `common/redis.service.ts` | map with expiry | `get`, `set`, `del`, `incr`, `expire` | Redis and its in-memory substitute differ; the latter is lost in a restart | counters expire |
| Sign-up and seeding `auth/auth.service.ts`, `auth-seed.service.ts` | `User`, `Driver` | `signup`, `verifyOtp`, `verifyEmailOtp`, `seedDefaultUser` | check-then-create; account, profile and session are separate writes with a clean-up | one account per phone and e-mail; no account is left half made; verified means proven |
| Profiles `users/users.service.ts` | `User.email`, `isEmailVerified` | `updateProfile` | the address changes while a code for it is under way | a new address is not verified |
| Websocket, e-mail, audit, HTTP plumbing, configuration, health, fares | none that matters here | delivery, formatting, reading | - | - |

Interaction: the ride endpoints call `dispatch.start`; both share the `Ride` and
`Driver` collections; `updateState` creates the payment of a completed ride;
ride and payment endpoints write outbox rows that the outbox poller turns into
notifications; the guard reads the user that administration, sessions and
password reset write; every way of proving an address ends in `createSession`;
codes, reset tokens and rate limits share the key-value store.

`PROJECT.json` lists every component with its status and every hazard at its
line.

## 2. Modules

| Module | What it is |
|---|---|
| `RideStates` | `ride-state.ts`: the status groups and the transition table as a relation |
| `Dispatch` | dispatch pipelines, ride endpoints and driver administration over one database: the detailed specification |
| `RideAssignment` | the abstract promise: a ride is searched for, offered to one driver at a time, and once settled keeps its driver and is never offered again |
| `DispatchProperties` | types, invariants, action and liveness properties, the refinement of `RideAssignment` |
| `MCDispatch` | initial driver states and the symmetry for TLC |
| `DispatchProofs`, `PipelineProofs` | TLAPS proofs about them |
| `Outbox` | the outbox rows and the worker that turns them into notifications; extended by the modules that write rows |
| `Payments` | the end of a ride, its payment and its refund, composed with `Outbox` |
| `PaymentsProperties` | types, invariants, action and liveness properties of `Payments` with `Outbox`; checked as it is, it needs no MC module |
| `AtLeastOnce` | the abstract promise of the outbox: rows in order, each told of before it is closed, again only when something went wrong, passed over only when it failed |
| `PaymentsProofs` | TLAPS proofs about them |
| `KeyValueStore` | the operations of `RedisService` on one key, with either store behind it |
| `Sessions` | accounts, refresh and access tokens: logins, rotation, logout, the last writes of a reset |
| `OneTimeCodes` | codes, reset tokens and rate limits over `KeyValueStore`; extends `Sessions`, whose accounts it looks up |
| `Accounts` | the rest of the handlers (sign-up, verification, profile, suspension, seeding), exceptions, crashes, and the composition of all three |
| `AccountsProperties` | types, invariants, action and liveness properties of `Accounts` |
| `SessionLedger` | the abstract promise of sessions: who holds which refresh token, and which of them are open |
| `MCAccounts` | the scenarios for TLC |
| `AccountsProofs`, `SessionProofs`, `IdentityProofs`, `CodeProofs`, `LoginProofs` | TLAPS proofs about them; each extends the one before |

### How `Dispatch` corresponds to the code

Node runs one event loop, so code between two awaits is atomic and anything may
happen at an await. **One action is one database access plus the code up to the
next await**; values read before an await are kept in the pipeline (`round`,
`driver`) or the request (`who`, `ride`, `offer`, `next`) and used after it,
which is where the stale reads come from.

* `ride`, `driver` - the two collections. `approved` stands for `isVerified`
  together with `Driver.status = ACTIVE` (approval and rejection write both),
  `suspended` for `User.status`. An offer identifier is the pair of a driver
  and a round, as in `${rideId}:${driver.id}:${round}`.
* `active` - `DispatchService.activeRides`.
* `pipe[r][s]` - the pipelines of ride `r`, in slots: what is a chain of
  timers and awaits in the code is a record whose `phase` says what runs next
  (`due`, `armed`: a timer is pending). `holds` says whether the promise of this
  attempt removes the ride from `active` when it settles: true for the attempts
  of `start` and of the offer timer, which have a `.finally`, false for the
  later rounds of line 139, which do not.
* `call[c]` - an HTTP request between its reads and its write. The phase
  `start` is the await between a commit and the call of `dispatch.start`.
* `faults` - exceptions and crashes so far.

| Action | Code |
|---|---|
| `StartDispatch`, `StartAll` | `start`, 24-35, called by three endpoints |
| `ReadRide`, `FindDriver` | the read and the query of `attemptMatch`, the timer of the next round |
| `Reserve`, `CanReserve` | the reservation transaction: both guarded updates or neither |
| `SendOffer` | the passenger is read, the offer is sent, its timer is set, the promise settles |
| `GiveUp`, `ReportFailure` | the last round: FAILED, then the notification |
| `OfferTimeout`, `ExpireOffer`, `Requeue` | the offer timer: read, release transaction, next round |
| `PipeFails`, `CallFails`, `Crash` | the catch blocks, a request that ends in an error, a restart |
| `RequestCheck/Create`, `CancelRead/Commit` | the passenger's endpoints |
| `AnswerOffer`, `Accept/RejectCommit`, `Online*`, `Offline*`, `Advance*` | the driver's endpoints |
| `SetApproved`, `SetSuspended` | the administrator's endpoints |

Abstractions, and why they are sound:

* A MongoDB transaction is one action. Two that write the same document
  conflict, and `retryTransaction` runs the loser again; one that fails four
  times is `PipeFails` or `CallFails`.
* Timers have no length: a timer fires at any moment after it is set. This
  allows every order the real delays allow, and more; the traces of the
  violated properties were checked to need only delays the code can have.
* The order by rating is left open, as ratings are data.
* `driverId: null` in the reservation is taken to match a ride without driver.
* The guard's read of the user is merged with the first read of the handler.
* A request that its checks refuse changes nothing and is not begun.
* Ride events, audit rows, outbox rows and socket emits are written but never
  read by this component, and are left out.
* A commit whose acknowledgement is lost is not modelled.

The section "Wrong on purpose" of `Dispatch`, and the definitions so marked in
`Outbox`, `Payments`, `KeyValueStore`, `Sessions`, `OneTimeCodes` and `Accounts`, are operations with one easy mistake each (a forgotten guard, a missing reset, a timer not set). Putting one
in the place of its original makes the property named in `PROJECT.json`
("mutants") fail under the configuration of its run, which is how we know that
each property says something about the code.

### How `Payments` and `Outbox` correspond to the code

The same rule: one action is one database access with the code up to the next
await.

* `ride`, `payment` - `Ride.state` and `Payment.status`. `Payment.rideId` is
  unique in `schema.prisma`, so payments are kept by ride, and a second create
  throws, which ends the handler (`CreatePaid`, `InitiateCreate`).
* `timers` - the timers of `scheduleAutoConfirm`, of which a ride has at most one,
  because only the handler that created the payment sets it.
* `job[j]` - a handler between two awaits: one of the HTTP requests `Calls`, or
  the confirmation that a timer of ride `j` runs.
* `outbox` - the collection in the order of `createdAt`. `told` counts the
  `Notification` documents created for the row; it is the model's, not the
  code's.
* `worker` - the polling timer (`wait`), or the row that is being processed, what
  is done with it next, and the rows of the batch that remain. There is one
  worker: `tick` returns when it is already running.

| Action | Code |
|---|---|
| `CompleteRead/Commit`, `CreatePaid`, `TellCompleted`, `TellPaid` | `updateState(COMPLETED)`, `rides.service.ts` 432-487 |
| `InitiateRead/Find/Create`, `ScheduleAutoConfirm` | `initiateForRide` 27-71, `scheduleAutoConfirm` 227-239 |
| `AutoConfirm`, `ConfirmRead`, `ConfirmCommit`, `TellPaid` | `confirm` 182-225, from the timer, the simulation and the webhook |
| `RefundRead`, `RefundCommit` | `refund` 96-131 and `refundPayment` of the administrator (the same guard and write) |
| `Poll`, `TakeNext`, `Notify`, `Mark` | `poll` 94-108, `process` 125-170, `enqueueFromEvent` |
| `ProcessFails`, `Count`, `GiveUpRow`, `PollFails` | the catch blocks of `poll` 109-121 and `tick` 76-88 |
| `JobFails`, `Crash` | an await that throws, a restart |

Abstractions:

* Amounts, keys and ownership are left out: the guards on them refuse a request
  before it changes anything. Rows have a recipient.
* The audit rows are written by `record`, which never throws.
* The push notification is sent and forgotten (`void this.sendPush`), so it
  cannot delay or fail the row.
* `attempts` is compared as it was read by the poll; only the worker writes it,
  and it processes a row once in a batch, so the row still has that value.
* The back-off is a later `Poll`, as timers have no length.
* Of the driver's transitions only the last is here; the others are in
  `Dispatch`, and none leads away from `EN_ROUTE_TO_DROPOFF` but this one and
  stale writes, which are `Dispatch`'s subject.
* Initial states: rides on their last leg, and at most one undelivered row of
  their dispatch, which has no notification.

### How `Accounts`, `Sessions`, `OneTimeCodes` and `KeyValueStore` correspond to the code

Once more one action is one access, to the database, to the store or to the
e-mail provider, with the code up to the next await.

* `account[u]` - a `User` document with the `Driver` that belongs to it. A
  password is a number that a reset raises; `DELETED` is an account that the
  clean-up of `signup` removed. The index makes e-mail addresses unique
  (`MailTaken`); nothing does so for phone numbers.
* `token[t]` - the `RefreshToken` documents, `LAPSED` when past `expiresAt`.
  `access` - every access token that was signed, with its `tokenVersion`. Whether
  the guard takes one is `Accepts`; a client may keep it for as long as it likes.
* `store[k]` - the entries of the store: a counter, or the secret that is kept
  under an address (codes) or its own hash (reset tokens) with the attempts
  counted so far. `ttl` says that the entry has an expiry.
* `call[c]` - an HTTP request between two awaits, `at` what it does next, with
  what it has read. A request that its first read refuses changes nothing
  and is not begun (a wrong password, a code for an address that has none).
* `scenario` - chosen at the start and never changed: which endpoints clients use, what
  exists already, what time may do and which faults may occur. An instance is a set of
  scenarios, each about handlers that touch the same documents.
* `past`, `secret`, `passed`, `crashed`, and the fields `password` and `granted` of a token are
  history: the properties read them and no action decides by them, but that
  the fields `kind`, `address`, `given` and `aged` of a secret stand for what the
  record in the store is for, that it has left the service, and its `expiresAt`. `right` says of a request
  that it presented the secret it was asked for; the code finds that out by comparing hashes.

| Action | Code |
|---|---|
| `LoginFind`, `Bump`, `Revoke`, `Grant` | `login` 298-334 and `createSession` 482-508 of `auth.service.ts`, which signup and both verifications enter at `Bump` |
| `RotateRead`, `Retire`, `Regrant`, `Reread` | `rotateRefreshToken` 73-108 of `token.service.ts` |
| `LogoutRead`, `Close` | `logout` 403-427; the transaction is one action |
| `AskMail`, `AskSms`, `AskReset`, `Count`, `SetWindow`, `Judge` | `rateLimitCheck` of the three services: each counter is one `incr`, and one `expire` after the first |
| `AskOwner`, `Store`, `Send`, `Unsend` | `request` 86-117 of `email-otp.service.ts`, `generate` 58-76 of `otp.service.ts`, `requestPasswordReset` 107-157 |
| `ProveMail`, `ProveSms`, `UseReset`, `Lapse`, `Reject`, `Accept` | both `verify`, and `resetPassword` up to 203: the record is read, and then deleted or written back as it was read |
| `LookupMail`, `MarkMail` / `LookupPhone`, `MarkPhone` / `LookupOwner`, `SetPassword`, `RevokeAll` | the rest of `verifyEmailOtp`, `verifyOtp` and `resetPassword` |
| `Signup`, `Create`, `AddProfile`, `UndoProfile`, `UndoUser` | `signup` 60-154, `ensureDriverProfile`, the create of `verifyOtp` 170-179 |
| `ProfileRead`, `Save` | `updateProfile` of `users.service.ts` |
| `SeedFind`, `Create`, `AddProfile`, `Reseed` | `seedDefaultUser` for the driver; `Starting`: nobody is served before it is done |
| `SetStatus` | `setUserStatus` of `admin.service.ts` |
| `CodeRoutes`, `AccountRoutes`, `ProfileRead` (in `Arrives`) | the routes of `auth.controller.ts` and `users.controller.ts` that change something |
| `Ages`, `RecordEnds`, `WindowEnds`, `Lapses` | time: a secret or token passes its `expiresAt`, an entry expires |
| `Fails`, `Crash` | an await that throws (`Recovers` is what the catch blocks do), a restart |

Abstractions:

* Time has no length: what carries an expiry may expire at any moment. A record
  never goes before its secret is past `expiresAt`, because a wrong guess
  writes it back with a new and later expiry.
* Two codes are never equal; a guess is right or wrong, and only what was given
  out can be right: that nobody guesses a code is assumed of clients (`UseRead`), not
  shown of the code.
* An e-mail code or reset link is given out when its e-mail is sent (`Send`). An SMS code is
  given out as soon as it is stored, and nothing is sent to the number: `requestOtp` returns the code
  to whoever asked, or logs it (`auth.service.ts` 51-57, `GivenAtOnce`). So a code that was
  given out is not one that has reached the number, and no property says so.
* There is one client address, so the counters per address of the client are
  shared; usernames, a second unique name like the e-mail address, are left out,
  and so is the unique index over accounts *without* e-mail address.
* `ensureDriverProfile` looks for a profile and creates it in one action: nobody else
  creates one for the account. `updateProfile` reads its account and looks for the new
  address in one: the second read only refuses, and the unique index does so again at the write.
* The e-mail and the audit row at the end of a handler change no state here;
  an exception of the e-mail is `Fails` at `send`.
* A suspended account is refused as the code refuses it: by login, by the guard, by
  verification and reset, and not by rotation or logout.
* The store is chosen when the process starts. That `RedisService` changes to the memory
  store when Redis cannot be reached is a start with the memory store.

## 3. Properties

Of `Dispatch`:

* `TypeOK` - types, with what each pipeline and request must have for its next
  step: a driver where one is used, a round it may be in, an existing ride.
* `AssignmentConsistent` - status, driver and offer of a ride agree, although
  four writes touch the status alone and two of them have no guard.
* `StaleAdvanceIsOwn` - when `updateState` writes on the strength of an old
  read, the ride is still that driver's and settled.
* `NeverRedispatched` - once accepted (or over) a ride never goes back to
  dispatch and keeps driver and passenger.
* `OfferIsTimed` - until something throws, every outstanding offer has a
  pipeline that will send it or time it out.
* `ActiveIsHeld` - a ride in `activeRides` has a pipeline that will remove it,
  so `start` is never disabled for good, also after exceptions and crashes.
* `ImplementsAssignment` - `Dispatch` implements `RideAssignment`.
* `DriverExclusive` - a driver has at most one assigned ride, and none while he
  is available; true as long as he does not declare himself available.
* `OfferResolves`, `SearchIsDecided` - liveness: an offer ends, a search ends.

Of `Payments` and `Outbox`:

* `TypeOK` - types; the worker is at an undelivered row and goes on to later
  ones; what a timer or a handler will update exists.
* `CompletedIsPaid` - a completed ride has a payment once `updateState` has tried
  to create it: the create may lose to `initiateForRide`, but then to a payment.
* `ProcessingIsTimed` - a payment in progress has a timer, or a handler that will
  set it or confirm the payment.
* `PaidHasReceipt`, `ReceiptIsOfPaid` - payment and receipt, two writes of three
  handlers, in both directions.
* `PaymentsMoveForward` - no payment is taken back, although all updates name it
  by id only and are decided on earlier reads.
* `NothingLost` - the worker closes no row without its notification unless it
  has failed on it more than `GiveUp` times.
* `FewDuplicates` - one notification for a row, and at most one more per fault.
* `InOrder` - unless a row fails it is not passed: nobody is told of a row, nor
  is it closed or failed on, before every earlier one was closed or has failed,
  also when a poll breaks off in the middle of its batch or the process restarts.
* `ImplementsAtLeastOnce` - handlers and worker implement `AtLeastOnce`. Its `log`
  is `outbox` and its `mishaps` are `faults`; the worker, its batch and the
  back-off have no counterpart, which is the point.
* `PaymentSettles`, `PassengerIsTold`, `RowsAreClosed` - liveness: payments go
  through, passengers hear of it, and every row is closed whatever fails.

Of `Accounts` with `Sessions` and `OneTimeCodes`:

* `TypeOK` - types; every request has found the account, the counter or the token it works on.
* `EndedSessionsAreOver` - no refresh token outlives a logout or a completed reset,
  whatever logins and rotations were under way.
* `RefusedForGood` - an access token refused for its version is never accepted again.
* `LoginSurvives` - when the logins, rotations and logouts of an account have divided
  each other in any way and are through, somebody is logged in who should be: a
  live refresh token, and an access token the guard accepts.
* `ImplementsLedger` - the endpoints implement `SessionLedger`: `owner` and `open`
  are the owners of tokens and the tokens that are live, `ends` and `divided` the
  history of each account (`ended`, `split`). Requests, versions, passwords and
  access tokens have no counterpart. A rotation is a `Drop` and a `Grant`,
  a login a `Replace` and a `Grant`, a logout or reset an `End`.
* `AccessIsEarned` - nothing between the reading of a code and the last write it is good for lets
  a request through that did not present it, whatever else is under way. An
  address is proven only by a request that presents a code mailed to it; a number
  only by one that presents a code given out for it; a password is changed only by
  one that presents a link mailed to an address; and a token of an account without a
  password is created only after the account has proven something. With `AutoVerify` no code
  is asked for, and nothing is said of numbers.
* `OneSession` - one live refresh token per account. The account is `split`, and may have two,
  from when one is granted beside another request that has nothing more to revoke and will grant too:
  a login or a rotation past its revocation, or a rotation whose token has been revoked, or has
  lapsed, since it was read. The next login, logout or completed reset revokes both and ends this.
* `CodesHold` - a secret that no two requests had in hand at once (`shared`) is used at
  most once, takes at most `MaxAttempts` wrong guesses and counts each, whatever requests
  with older or newer codes of the address do to the record.
* `RacesAreContained` - what no race on a record can do, however many requests share it: a
  used reset link admits no later request; a used code is back only by a wrong guess, with that guess counted; nobody is charged for more wrong guesses than were made;
  and a secret that was given out stays good until it is used, aged, replaced or guessed at `MaxAttempts` times.
  The last is not said of a secret that was stored while a request with an older one was still to write or delete
  under the key (`contested`), nor after a crash of the memory store.
* `WindowBound` - no counter lets more requests through than its limit.
* `CounterIsTimed` - with Redis, until something fails, every counter has an
  expiry or a request that is about to set it.
* `VerifiedMeansProven` - a verified account has proven something, and its present address is one it
  has proven, or the one that seeding sets. Excepted is an account whose address was changed while
  another request still held the old one (`overtaken`, raised by the change and not by what comes of it),
  until a change resets the mark.
* `NoHalfSignups` - with at most one exception, an account that `signup` created has had
  a session, or is still being worked on.
* `WaitingHelps` - a rate limit ends; it does not, see below.

The invariants about payments with `faults = 0` as a condition hold only until
something throws or restarts: the code writes ride, payment and receipt
separately and keeps timers in memory, and it repairs none of this afterwards.

## 4. Runs

The first eight runs use `MCDispatch`, the next two `PaymentsProperties`, the
last two `MCAccounts`.
`CHECK_DEADLOCK FALSE` because the system may stop:
clients need not send requests, there are finitely many ride identifiers, and
the pipelines of the model end at `RoundCap`; the outbox worker polls for ever,
but a poll that finds nothing changes nothing.

| Run | Instance | Shows |
|---|---|---|
| `Answers` | 1 ride, 2 drivers, 2 requests at a time, 2 pipelines, 1 fault | the invariants and `NeverRedispatched` when answers, cancellation, status updates, timers and a crash race |
| `Availability` | 1 ride, 1 driver (ready or pending), 1 request at a time, 2 pipelines, 3 rounds, all driver endpoints, administrator | types, offers keep timers, the refinement |
| `Exclusive` | 2 rides, 2 passengers, 1 driver | the claim of the driver excludes |
| `Search` | 1 ride, 2 drivers, fairness | offers and searches end |
| `TwoPipelines` | expects a violation of `OnePipelinePerRide` | see below |
| `Resurrected` | expects a violation of `TerminalIsFinal` | see below |
| `DoubleBooked` | expects a violation of `NoDoubleBooking` | see below |
| `LostClaim` | expects a violation of `SearchIsDecided` | see below |
| `Settlement` | 1 ride, 2 requests at a time, timer, batches of 2, `GiveUp` 1, 2 faults, fairness | ride, payment, receipt and notification stay in step, the refinement of `AtLeastOnce`, and all liveness properties |
| `SettledTwice` | expects a violation of `SettledOnce` | see below |
| `Access` | thirteen scenarios, 2 requests at a time, 2 accounts, 3 refresh tokens, 3 secrets, limits of 1, 2 attempts | all invariants of `Accounts`, `RefusedForGood`, `AccessIsEarned`, and the refinement of `SessionLedger` |
| `WaitingHelps` | expects a violation of `WaitingHelps`; the store in memory, fairness | see below |

Bounds. Two requests and two pipelines (`Answers`) are enough for every race of
two handlers, which is all the code's guards distinguish; `RoundCap` is above
`MaxRounds`, so both ways a round follows another (nobody found, offer expired)
occur; one fault falls between any two steps. Symmetry is used for rides,
drivers, passengers and requests in the runs without fairness. In `Settlement`
payments of different rides share nothing but the outbox, whose rows come from
one ride as well as from two; three rows occur, one more than a batch. With
`GiveUp = 1` the second failure of a row is the last, and two faults reach it,
alone or with a fault elsewhere.

The thirteen scenarios of `Access` (734,297 states) are the sets of handlers that share documents:
logins, rotations and logouts with an exception; a reset among logins and
rotations; reset links asked for again while the account is suspended; right and wrong guesses
at an e-mail code that is asked for again; guesses at an SMS code; the first SMS code; guesses at an
account's first e-mail code before it is mailed and after; requests
against the limits, with either store, a crash and an exception; sign-ups side
by side; a sign-up that is used and cleaned up; a code given back while
the address changes; seeding over nobody, and over an account that has the number and
may have proven its address.
Two requests at a time are enough for each of the races of which the properties speak; three
tokens for a login that divides a rotation, three secrets for two that follow one another under one key.
`VersionCap`, `CountCap` and the number of tokens and secrets bound how many
requests a behaviour has, and a request that may need one begins only while one is left, so no bound
cuts a handler short. With limits of 1 the second request is refused; a counter reaches 3.
The limit per client address of the reset (three times the hourly one) is not reached.
`AutoVerify` is FALSE in the instance; the proofs cover both values.

Fairness (`FairSpec`): weak fairness of each pipeline and of each request that
has begun. Timers fire and promises settle in a process that runs; nothing is
assumed of clients, who need not answer, cancel or request. `Search` has no
rejections, competing rides or faults, and that is part of what it says:
`SearchIsDecided` fails with competing rides (run `LostClaim`), and `OfferResolves`
cannot hold of an offer whose timer died in a crash. `FairSpec` of `Payments`
is weak fairness of each handler, of each timer and of the worker's own steps;
its failures are not fair, but `RowsAreClosed` holds with them. `FairSpec` of
`Accounts` is weak fairness of each request and of each expiry that was set.

### Where the code departs from what is said of it

* `TwoPipelines` - the offer timer reads the ride, the driver rejects, `start`
  begins a pipeline, and the timer's handler starts another although its
  transaction released nothing (`dispatch.service.ts` 195, 223).
* `Resurrected` - `updateState` writes by id only (`rides.service.ts` 443): a
  ride cancelled between its read and its write is live again.
* `DoubleBooked` - `setDriverAvailability` checks for a ride and then writes
  `isAvailable` without a guard (307-320): a reservation in between leaves the
  driver available and holding a ride, so a pipeline that had chosen him for
  another ride reserves him again.
* `LostClaim` - a pipeline that loses the claim of the driver returns (104) and
  nobody searches for its ride any more.
* `SettledTwice` - two confirmations read PROCESSING; one commits, the payment is
  refunded, and the other writes SUCCESS by id (`payments.service.ts` 197).
* `WaitingHelps` - `incr` of the memory store replaces the entry by one without expiry
  (`redis.service.ts` 70), and the services set one only at a count of 1: after a
  second request the counter stays for ever, and when it is past the limit so does the refusal,
  although its message says "Please wait" (`email-otp.service.ts` 58).

Seen in the model while it was built, and left without a run of their own: the
FAILED of the last round overwrites a cancellation (145); the cancelling update
accepts a ride that is on its way (`rides.service.ts` 179); a ride goes from
REQUESTED to RESERVED although the table has no such edge (78); two requests of
a passenger both create a ride (52); an offer repeated after a rejection has
the identifier of the first one and is expired by its timer (59); a silent
driver is offered the ride for ever (225); a rejection that commits before the
offering attempt has returned is not followed by a new search (28); nothing
expires an offer whose timer died with the process (15); when `initiateForRide`
creates the payment first, `updateState` throws and `ride.completed` is never
written (463); a payment whose timer died with the process stays PROCESSING
(232). Of the accounts: two resets that read one token both go through, although
"a replay can never reset twice" (`password-reset.service.ts` 202), as two
verifications that read one code do; wrong guesses that read the same count are
counted once, and a guess may write back the record of a code that was used
or replaced (`email-otp.service.ts` 148-157, `otp.service.ts` 94); the failure of
one e-mail deletes the code of a later one (115); two rotations of one refresh token
both succeed (`token.service.ts` 79-84); a rotation or a login that began before the
`RevokeAll` of a reset and creates its token after it leaves a session opened with the
old password, although "all of the user's refresh tokens are revoked"
(`password-reset.service.ts` 35); a crash between `incr` and
`expire` leaves a counter without expiry with Redis too (`email-otp.service.ts` 54);
two sign-ups with one phone number and two addresses both succeed
(`auth.service.ts` 83); a code given back while the address of its account changes marks the
new address as verified, because the account is found by address and updated by id (`auth.service.ts`
259-272); a profile saved with the address it was read with, while another request changed and
verified it, restores the old address and leaves it verified (`users.service.ts` 33-41); the SMS
code is not sent to the number but returned to whoever asked for it, which is the default, or logged
(`auth.service.ts` 51-57); a driver whose profile could not be created by `verifyOtp`, or whose seeding
was interrupted, stays without one (179, `auth-seed.service.ts` 116); seeding changes an
address and leaves it verified (`auth-seed.service.ts` 94).

## 5. Proofs

`DispatchProofs` and `PipelineProofs` prove, with TLAPS, for every set of rides, drivers,
passengers, slots and requests, every workload and every bound, and
`PaymentsProofs` for every set of rides and requests, every batch size, limit and
number of faults. `AccountsProofs` and the four modules after it prove, for every set of accounts, addresses,
requests, tokens and secrets, every scenario, every limit and bound:

| Theorem | Statement |
|---|---|
| `Invariance`, `TypeCorrect`, `Consistency`, `StaleAdvance` | `Spec => []Inv`, and its three parts `TypeOK`, `AssignmentConsistent`, `StaleAdvanceIsOwn` |
| `FinalAssignment` | `Spec => NeverRedispatched` |
| `Refinement` | `Spec => ImplementsAssignment`, that is `Assignment!Spec` |
| `MarksAreHeld` (in `PipelineProofs`) | `Spec => []ActiveIsHeld` |
| `OffersAreTimed` (in `PipelineProofs`) | `Spec => []OfferIsTimed` |
| `ClaimExcludes` (in `PipelineProofs`) | `Spec => []DriverExclusive`, if `"online"` is not in the workload |
| `PaymentsInvariance`, `PaymentsTypeCorrect` | `Spec => []PaymentsInv`, `Spec => []TypeOK` of `Payments` |
| `CompletedRidesArePaid`, `ProcessingPaymentsAreTimed` | `Spec => []CompletedIsPaid`, `Spec => []ProcessingIsTimed` |
| `PaidPaymentsHaveReceipts`, `ReceiptsAreOfPaidPayments` | `Spec => []PaidHasReceipt`, `Spec => []ReceiptIsOfPaid` |
| `NoRowIsLost`, `DuplicatesAreFaults` | `Spec => []NothingLost`, `Spec => []FewDuplicates` |
| `PaymentsAdvance` | `Spec => PaymentsMoveForward` |
| `OrderInvariance`, `NotificationsInOrder` | `Spec => []OrderInv`, `Spec => []InOrder` |
| `OutboxImplementsAtLeastOnce` | `Spec => ImplementsAtLeastOnce`, that is `Promise!Spec` |
| `AccountsTypes` (in `AccountsProofs`) | `Spec => []TypeOK` of `Accounts` |
| `AccountsKnown`, `EndedOver`, `RefusedStays`, `SingleSession` (in `SessionProofs`) | `Spec => []Known`, `Spec => []EndedSessionsAreOver`, `Spec => RefusedForGood`, `Spec => []OneSession` |
| `LoginsSurvive`, `SessionsImplementLedger` (in `LoginProofs`) | `Spec => []LoginSurvives`, `Spec => ImplementsLedger`, that is `Ledger!Spec` |
| `AccessByProof` (in `LoginProofs`) | `Spec => AccessIsEarned` |
| `VerifiedProven`, `SignupsWhole` (in `IdentityProofs`) | `Spec => []VerifiedMeansProven`, `Spec => []NoHalfSignups` |
| `CodesFiled`, `WindowsCounted`, `WindowsBounded`, `CountersTimed` (in `CodeProofs`) | `Spec => []CodesKnown`, `Spec => []WindowsOK`, `Spec => []WindowBound`, `Spec => []CounterIsTimed` |
| `CodesAreUsed`, `RacesContained`, `CodesOnce` (in `CodeProofs`) | `Spec => []CodesUsed`, and its two parts `RacesAreContained` and `CodesHold` |

Assumptions: the named ASSUMEs of `Dispatch` (`1 <= MaxRounds <= RoundCap`,
`MaxFaults` a natural number, a workload of known endpoints, driver records of
the right shape, `None` distinct from rides, drivers and passengers), of `Outbox`
(`BatchSize` positive, `GiveUp` and `MaxFaults` natural numbers) and of `Payments`
(requests are not rides, `None` is no ride). Of `Sessions`: tokens are positive numbers
and `None` is no account or address; of `OneTimeCodes`: secrets, limits and
bounds are positive, and `Keys` are the keys of secrets and counters; of `Accounts`: each
scenario starts from accounts that differ in address and number and from secrets that were given
out (`Plausible`).

Argument. None of the invariants is inductive alone: a stale `updateState` write
keeps `AssignmentConsistent` only because the ride still has a driver, and it
still has one because nothing takes a settled ride back, which needs every
request to name what it read. `Inv` is the conjunction of `TypeOK`,
`AssignmentConsistent` and `StaleAdvanceIsOwn`. The step from `Inv` to `Inv'`
goes through three lemmas that describe what *any* step can do to one ride
(`StepMovesRide`: nothing, or `Created`, `Reserved`, `Released` or `Settled`), to one
request (`StepMovesCall`) and to one pipeline (`PipeWellFormedStep`); the
conjuncts then follow from those descriptions without looking at the actions
again.

`Refinement` uses the same description, and one more fact: a step changes one
ride or releases several (`OneRideOrReleases`). `MarksAreHeld` and `OffersAreTimed`
are inductive once `Inv` is known. For `OffersAreTimed` the two places to look
are `StartAll`, which only fills slots that are free, and `ReservedByReserve`: no
other step makes an offer. `DriverExclusive` is not inductive, because a stale
`updateState` may bring a cancelled ride back to its driver; the invariant
`Claimed` therefore speaks of the driver of a ride in *any* status.

`PaymentsInv` has three parts. `PaymentInv` is about handlers: a stale refund is
harmless because the payment it read as SUCCESS can only be SUCCESS or REFUNDED
by now (`RefundIsOfPaid`), which is also what `PaymentsMoveForward` needs.
`OutboxInv` adds to `NothingLost` and `FewDuplicates` what the worker knows of its
row from the steps behind it (`WorkerKnows`) and that an undelivered row has been
told of at most once per fault, but for the row between notification and mark
(`ToldSoFar`). `ReceiptInv` needs both: rows are never removed (`RowsStay`), and
payments never leave SUCCESS and REFUNDED.

`InOrder` needs three more facts. The worker is at a row only when all before
it have been tried (`Reached`); that stays true as it goes on because a poll
reads a prefix of the undelivered rows, so that a row it leaves out comes after
all it has read (`NoneSkipped`). For the refinement, a row has failed at most once
per fault, and the failure that is about to be counted has one to itself
(`Counted`), also when the counting fails and is repeated by no one.
`OutboxImplementsAtLeastOnce` goes through what a step of a handler can do to the
outbox (`OutboxCases`: nothing, a fault, or one row appended) and takes the worker's actions one
by one: `Notify` is `Tell`, whose bound on `told` is `ToldSoFar`; `Count` is `Fail`;
`Mark` and `GiveUpRow` are `Close`, by what `WorkerKnows` of the row; a poll is a stutter.

About the accounts, `Known` says that nothing refers to an account before it is
created, so that what is proved about old tokens is not undone by a new account.
`EndedSessionsAreOver` needs nothing more: whatever creates a token stamps it with the present epoch, and
what starts a new one revokes every live token in the same step. `OneSession` is strengthened to `Single`:
while it is not `split`, an account has no live token when a request is about to create one, and
only the token that is being rotated when a request is about to retire one. A grant breaks this only
beside a request that is past its revocation, which is what raises `split`; a rotation whose token is
still live is no exception, because what grants beside it has revoked that token before. And `split` falls
only where no token of the account is left (`SplitStays`), so that `Single` begins anew.

`VerifiedMeansProven` needs to know what requests hold (`Truthful`): one about to mark the
account, or about to save the address it read, holds the present address of
the account unless the account is `overtaken`. `HoldsPresent` says that a request comes to hold no other, and only
a change of the address beside it makes it hold an old one. Seeding changes an address without asking; no
request then holds one, since the service serves nobody while it starts (`SeedAlone`).

`LoginSurvives` speaks of the moment when all requests about an account have ended, so its
invariant says what they carry until then, and the two halves need different carriers. For the refresh
token (`Logged`): in an epoch that has had a token, one is live or a request stands between its
revocation and its grant. What revokes is a login or a rotation, and either becomes
such a request by the same step; and such a request stays until it has granted
(`GrantersStay`), whoever revokes meanwhile. A token may otherwise only lapse
(`TokenFate`), or end with its epoch, and a new epoch has no tokens because none is stamped ahead of
its account (`Stamped`). For the access token (`Opened`): the version of an account that was
raised last by opening a session is in an access token, or in the hands of the request that raised it
and will sign it. A request that raises it again takes this over, and one that read the version
before does not matter; this is why the version must be the one written, and the mutant that signs
the version read fails. A logout or reset clears `opened`, so nothing is claimed of the version it writes.

`SessionsImplementLedger` takes the endpoints one by one as well. A `Grant` is one of the
ledger because `Single` (proved for `OneSession`, as `SingleAlways`) leaves no other session open
while the account is not `split`; `Known` gives each token a fresh owner; and `Revoke` is
`Replace`, also when there is nothing left to revoke. A second rotation of a token
that another has revoked is a stutter and a `Grant`, and the ledger says in `divided` that the account
then may have two.

`AccessIsEarned` needs an invariant (`AccessEarned`) about each request between the code and
the session (`Deserves`). From `accept` to the write the code is good for, a request is `Showing` the secret
it presented: made for its own address, which is `CodesKnown`, and given out. Once
the account of a session is found, that account is `Earned`: it has a
password or has proven something. So are the owners of tokens, and a rotation
needs nothing more. What makes these last is that a secret, once made, keeps what it is for and stays given out
(`SecretKept`), that a request keeps the secret it presented (`GoesOnKeeps`), that accounts lose neither
password nor what they have proven, and that `Known` keeps a new account from the tokens of another.

`NoHalfSignups`
follows the one exception through the catch block (`SignupsWork`: a signup works on its own account, and
undoes only after an exception). `CodesKnown` (what is stored under a key, and what a request has in
hand, was made for that key) keeps the uses of one secret apart from those of others;
Two invariants carry the uses of a secret (`CodesUsed`). `UsedOnce` adds to `CodesHold` that the one request that
judges a secret nobody shares has read its present count. `Contained` adds to `RacesAreContained`
that whoever judges a secret has read no more wrong guesses than were made, that a secret whose e-mail is
still to be sent is as good as one that was given out (it must be usable when it arrives),
and that a request which may write or delete under the key of a usable secret has that secret in hand;
a record is `contested` exactly when this fails as it is stored. For `WindowBound` the counter is compared
with the requests it let through, where the one that has still to set
the expiry is counted apart (`WindowsCount`); this holds with either store.

Only model-checked: liveness (`OfferResolves`, `SearchIsDecided`, `PaymentSettles`, `PassengerIsTold`,
`RowsAreClosed`), which is out of the prover's reach. Every other property that a passing run
checks is also proved.

## 6. What is left

1. The outbox rows of the ride endpoints other than `updateState`, in `Dispatch`.
2. Push subscriptions of `Notifications`: a subscription that turns out dead while it is
   registered again.

Not modelled, and why: delivery by websocket, e-mail and web push, which is sent and
forgotten; audit rows and listings, which nothing decides by; formatting,
configuration, health checks and logging, which keep no state; usernames, which behave
like the e-mail addresses that are modelled; fares (floating point).
