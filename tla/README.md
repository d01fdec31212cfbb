# Centynella core: a TLA+ model

Centynella core is the back end of a small shop system: a FastAPI application
over MongoDB that keeps users, roles and sessions, products, suppliers,
customers with informal credit ("fiado"), and a log of events in a database of
its own. This directory holds TLA+ modules translated from its source, TLC
configurations that check them on small instances, and TLAPS proofs of theorems
about them for every instance.

Source paths are relative to the repository; `service.py:12` is line 12.

## How the program runs, and how it is modelled

* One process runs one asyncio event loop. Every HTTP request is a coroutine;
  it gives way only at an `await`. Several processes may serve one database.
* All state that outlives a request is in MongoDB. Every service method is a
  sequence of repository calls (`src/database/repositories/mongo.py`), each of
  which touches one document or one `update_many`; there are no transactions.
* So the unit of atomicity is one repository call. In the modules of the
  services an **action is one repository call together with the code up to the
  next one**, and the local variables that live across an await (the document
  that was read) are part of the state. The model does not distinguish requests
  of one process from those of two, except in `Startup`, where the processes are
  the point. `EventLogger` and `Pipeline` are about one process and one exchange;
  there an action is what happens between two awaits of asyncio.
* `update_many` is treated as one step (`revoke_family`, `revoke_all_for_user`).
  MongoDB makes it atomic per document only; a token inserted while it runs may
  or may not be seen, which is the same as inserted before or after.
* A crash, a client that goes away (cancellation) or a driver error stops the
  coroutine at its await. What it had written stays written. Where an answer or a
  reply depends on it the failure is an action (`CustomerCredit`, `Startup`,
  `EventLogger`); elsewhere there is no fairness, so that a request may simply
  take no more steps.

## Inventory

| Component | State | Operations | What is hard | Model |
|---|---|---|---|---|
| Customers and credit (`customer_service.py`) | `customers` (with the cached `balance`), `credit_movements` | create, update, delete, record_movement | check on a document read before an await; two writes without a transaction; edit against `$inc` | `CustomerCredit` |
| Event log (`event_logger.py`) | queue, asyncio's unfinished count, worker task and batch, `dropped`, collection `logs` | log, start, flush, stop, the worker | bounded queue, retries of inserts that may have arrived, cancellation at any await, shutdown timeout | `EventLogger`, `WriteBehind` |
| Sessions (`auth_service.py`, refresh tokens) | `refresh_tokens` (family, revoked_at, rotated_at, expires_at) | login, refresh, logout, and all that closes sessions | rotation races, reuse detection with a tolerance window, closing against opening | `Sessions` |
| Credentials (`auth_service.py`) | password, failed-login counter, lock, `password_resets` | login, change, forgot, reset | lost counts, a lock lifted by an old login, links used twice, rehash over a new password | `Recovery` |
| User and role administration (`user_service.py`, `role_service.py`, `routes/dependencies.py`) | `users`, `roles` | authenticate, authorize, create, update, delete of both | last active administrator, role in use, both checked before an await | `UserAdmin` |
| Startup and registration (`app.py`, `bootstrap.py`, `register`) | indexes, system roles, first administrator | ping, indexes, seed_roles, bootstrap_admin, register | several instances of several versions, failures that do not stop an instance, registration before the first administrator | `Startup` |
| Products, suppliers | their collections, unique SKU | create, update, delete, list | a list read in pages while it changes, last write wins, delete twice | `Catalog` |
| Request pipeline (`middlewares/`, `app.py`) | per request | body limit, access log, request id, headers, CORS, error handlers | the order of the layers, counting chunks at the limit, an exception after the response started | `Pipeline` |
| Tokens, DTOs, settings, hashing, e-mail | none | validation, signing, hashing, sending | - | not modelled: pure or library calls |
| Log queries, health, greeting | none | read-only | - | not modelled |

The services call the repositories and `EventLogger.log`, never each other;
they interact through the database: user administration and credentials close
sessions (`revoke_all_for_user`), and roles are referenced by users. Every
service logs, and `log` never waits or raises, so the event log does not feed
back into them. This is why the modules can be checked separately; `Sessions`
composes the operations of three services on one collection, `UserAdmin` those of
two services and of the dependencies that guard their routes, and `Startup` the
startup of several processes with a route of those that already serve.

## Modules

### CustomerCredit and Ledger

`pc[r]` is the await a request stands at or the status it was answered with,
`call[r]` what it asks for, `doc[r]` the document it holds. `Get` is
`CustomerService.get` with the checks of `delete` and `record_movement`,
`AdjustBalance` the `$inc`, `InsertMovement` the insert into the history and the
over-limit warning, `SetFields` the `$set` of PATCH, `Remove` the delete,
`Create` the insert, `Fail` a request lost at an await. A last write may be
answered 200 or, if its reply is lost, 500. `applied`, `overtaken` and `warned`
are history variables that only the properties read: `overtaken` holds the
requests whose check another movement made out of date. Amounts are whole units
(the program uses floats: see "Not modelled").

Run `credit` (four requests, one customer, amounts 1 and 2, limits 0 and 2):

* `AnswersAreTruthful`: 200 means balance and history both have the movement,
  404/409 that neither has, and the history never runs ahead of the balance.
* `BalanceIsHistoryPlusUnrecorded`: the cache differs from the history exactly by
  movements that are on their way or died between the two writes.
* `OverdraftNeedsOvertaking`, `DebtDeletedNeedsOvertaking`: a negative balance or
  a deleted debtor takes two requests whose check and write interleave; nothing
  else leads there.
* `OverLimitWasWarned`: charges that together pass the limit are noticed by one.
* `ImplementsLedger`: whatever races and whatever dies, the accounts are a
  `Ledger`. That module says what the shop is promised, without requests or
  awaits: a movement is posted once, on an open account, and moves the balance
  by its amount; nothing else moves a balance (an edit writes none back) and
  nothing takes a posting away; the history holds only what was posted; what is
  confirmed is written, what is refused is never posted. The mapping takes the
  records of `applied` as posted, `movements` as written, and the requests
  answered 200 as confirmed, 404 or 409 as refused; a request that died is
  neither, and its movement may be posted or not.

Four requests are what the hazards take: a charge to owe something, two payments
that race, and one more of any kind. One customer is enough because every action
reads and writes a single customer document and requests of different customers
share nothing.

Runs `credit_overdraw` and `credit_delete` show that the two promises made in the
documentation ("Un abono nunca deja el saldo en negativo", "No se puede eliminar
un cliente con saldo pendiente") do not survive that interleaving.

### EventLogger and WriteBehind

`queue` and `unfinished` are the asyncio queue and its counter, `worker` the
await `_run` is in, `batch` its local list, `attempt` the loop variable of
`_write`, `stopping` where `stop()` is, `stored` the collection. `Log` runs
without an await and is one step; so is everything the worker does between two
awaits (`Take`, `Wake`, the end of a batch). `insert_many` is unordered: when it
raises it may have stored any part of the batch, and as entries carry their
`_id`, a repetition of a batch of which something is stored can only raise.
`Cancel` is the CancelledError that `stop()` throws into the worker, at
whichever await it is: only the write is inside the `try` whose `finally` calls
`task_done`.

`WriteBehind` is what the log promises: a bounded buffer written behind the
caller's back, in order, from which an entry can be saved only while it is among
the `BatchSize` oldest and never after it has left. `ImplementsWriteBehind` maps
its `pending` to `batch \o queue`.

Run `logger` (three entries, queue and batch of two): the queue fills, batches
hold one or two entries, every attempt can fail, stop comes at every moment and
the log can start again after it.

* `UnfinishedCount`, `NothingVanishes`, `DroppedCount`: asyncio's counter, the
  place of every entry, and `dropped` are accounted for exactly.
* `FlushedMeansSettled`: when the flush of stop() ends by itself, what was logged
  before has left the process.
* `GivenUpIsFinal`: no entry is stored after it was given up.
* `WorkerDrains`, `StopEnds` under `Fairness`: weak fairness of the worker (the
  event loop resumes it, the driver answers or times out), of the flush (its
  `wait_for` has a timeout) and of the cancellation. Nobody is assumed to log,
  start or stop anything. `CHECK_DEADLOCK FALSE`, as an idle log does nothing.

Run `logger_dropped` shows stored entries counted in `dropped`.

### Sessions

A token is named by the request that opens it and a family by the request that
begins it; a password by the request that chose it. `Login`, `ChangePassword`,
`ResetPassword` and `Administer` read the user and make the checks. `SucceedLogin` is
the update a login that passed them makes before it opens its session: when the
hash is `old` (`needs_rehash`) it writes back the password it had read (`saw`),
whatever is stored by then. `Write` is the write to the user of the others;
`RevokeAll` and `OpenSession` follow where the code has them. `Refresh` is the lookup of the token
with its three checks (reuse outside the window, expiry), then `CheckUser`,
`Rotate` and `OpenSession`, or `RevokeFamily`; `Logout` is the lookup, then
`RevokeFamily`. `Purge` is the TTL index, `Tick` the clock. A lost request is
one that takes no more steps: the specification has no fairness, so every
prefix of a handler is covered. What a client may present is a token some
request was answered with, at any later time, also twice.

Run `sessions` (four requests, one account, window 0, life 2, clock to 2: same
instant, late, and expired are all reached):

* `ClosedIsDead`: a revocation reaches every token of the family and is never
  undone; only opening a new token ends it.
* `ReopeningIsExplained`: a closed family gets a token only from a refresh that
  was past its checks when it was closed, or from one that presented a token
  rotated before, within the tolerance window.
* `RotationIsOnce`: the window of a token never moves.
* `RefreshSpendsToken`: an answered refresh leaves its token dead.
* `RefusalsAreExplained`: no client is logged out without a cause.
* `StaleSessionsAreExplained`: a live session that an inactive account still has,
  or that was begun with another password than the stored one, has one of four
  causes: a revocation still to come (or that died); a login or refresh that the
  revocation caught half way; a session opened again; or a login that had read
  the previous password and rehashed it over the new one (`auth_service.py:157`),
  which leaves the session of the change alive beside a password that is not its
  own (`undone` holds these families). The last takes no failure: a login reads
  password A, a change writes B, revokes and opens a session, and the login's
  update puts A back.

Run `sessions_forgiven` shows a session reopened after logout with the token
rotated just before it.

### Recovery

One account and the links to reset its password. `Login` is the read of the user
with the check of the lock, `RegisterFailedLogin` and `SucceedLogin` the two
updates it may end with, both computed from the document that `Login` read (`doc`)
and the time it took then (`at`). `ChangePassword` and `WriteChange` are the change
with the current password; `RequestReset`, `InvalidateLinks`, `CreateLink`,
`SendLink` the request of a link; `ResetPassword`, `FindUser`, `WriteReset`,
`MarkUsed` its use, where the link is looked at first and marked last. `Purge` is
the TTL index and `Administer` an administrator. Whether a password is right is
a free choice of the client; what it is, is named by the request that chose it.
The same operations close sessions: that half is in `Sessions`. Requests of
different accounts share nothing.

Run `recovery` (three requests, lock after two failures for two ticks, links that
live one tick, clock to 2): three requests are what the hazards take, two that
overlap and one whose effect is lost or undone; the clock lets a link expire
between any two awaits of a reset and a lock run out.

* `LockAfterMaxFailed`: so many failures do not go without a lock, unless one was
  counted from a document out of date.
* `LockHolds`: a lock is lifted early only by a reset, or by a login whose copy of
  the account is out of date when it writes.
* `PasswordIsTheLastChosen`: only the rehash of a login that overlapped brings an
  old password back.
* `LinkIsUsedOnce`: two resets with one link take two that overlap, or one that
  died between the new password and the mark.
* `OneUsableLink`: two usable links take two overlapping requests for one.

### UserAdmin

`Authenticate` is `get_current_user`, `Authorize` is `permissions_of` with
`require_permission`. `Target` is the read of the user to be changed together with
the checks that need no other document, `RequireRole` is `_require_role`,
`CountAdmins` the count of active administrators, then `WriteUser`, `RemoveUser` or
`InsertUser`. `FindRole`, `WriteRole`, `CountUsers`, `RemoveRole` and `InsertRole` are
the routes of roles; which permissions a body names is left open, so `InsertRole`
and `FindRole` may also answer the 422 of an unknown one. `recounted` and `reassigned` are history variables: requests
whose check another one has made out of date since.

Run `useradmin` (two requests, three accounts, one custom role beside the two
system roles): two requests are enough for a check to be overtaken, three
accounts for two administrators and a third to be created, promoted or left.

* `AdminRemains`: there is an active administrator, unless an update or delete
  went through whose check was overtaken. README.md:157 of the repository says it
  without the exception ("nunca queda el sistema sin un administrador activo").
* `RolesExist`: the role of a stored user is stored, with the same kind of
  exception.

### Startup

`pc[i]` is where an instance is between its start and serving, `version[i]` what
it runs, `at[i]` the loop variable of `seed_roles`. `Ping`, `CreateIndexes`,
`CreateLogIndexes`, `LookAtRole`, `CreateRole`, `SyncAdmin`, `CountUsers`,
`InsertAdmin` are the calls of `_prepare_data` in order; `Fail` is its `except`, after
which the instance serves unprepared; `Crash` and `Start` restart it with any
version. `Register` and `InsertUser` are the public registration on any instance
that serves. Without the unique index a taken e-mail is inserted all the same.

Run `startup` (two instances, two versions, two registrations, two addresses, one
of which is the first administrator's): two of each make every pair that can
race. Deadlock is checked: an instance can always crash or start.

* `EmailsAreUnique`: also while there is no index; what prevents it is that
  registration needs the default role, which is seeded after the index.
* `AdminRoleIsCurrent`: whoever has prepared its data finds the permissions of its
  own version, unless another version wrote after it looked.
* `FirstAdminExists`: no accounts without an administrator, unless somebody
  registered before any instance had finished.

An instance whose startup failed serves on, and answers `/health/ready` with
"ready" as soon as the database answers the ping (`app.py:80` says the failure is
reported there): the roles may be missing then, which is the 404 of `Register`.

### Catalog

One module for both collections, since products and suppliers differ only in the
unique SKU. A document is its place in the order of the list and whether it
matches the client's filters: that the order is total (`_id` after `created_at`)
is how documents are named here, and not something a run could refute. Writing
requests look for the document and then write or remove it; a client reads page
after page, each page a `Count` and a `Find` with skip and limit.

Run `catalog` (two writing requests, up to five documents in pages of two): five
and two give a first, a middle and a last page that is not full, and two writes
can put one document in and take another out.

* `NoRepeat`: a document given twice was pushed back by one that entered.
* `NoOmission`: a document that was always there and is missing at the end was
  pulled forward by one that left, or the view grew between the last count and
  its find.

### Pipeline

One exchange. `Stack` is the order in which `create_app` adds the layers, and what
an answer carries and who sees its status follows from which layers are outside
the one that sends it. `Arrive` is the check of Content-Length, `Receive` the
counting `receive`, `Reject` the 413, `Respond` a route or a handler of a foreseen
error, `Raise` anything else, `Log` the access log on the way out,
`AnswerUnhandled` Starlette's ServerErrorMiddleware (external).

Run `pipeline` (limit 3, bodies up to 6, in any chunks): the limit is met, passed
by one, and passed by the first or a later chunk, before or after the response
started.

* `OversizeIsRefused`: the application gets at most the limit, and the client a
  413 unless the response had begun.
* `LogTellsTheAnswer`: the access log has the status the client got, also for the
  413 and for the 500 of an unhandled exception.
* `HeadersOnEveryAnswer`: all answers but that 500, which is sent from outside all
  layers although README.md:185 of the repository says "Cabeceras en toda
  respuesta".

## Bounds

Every run starts from the states a deployment starts from (empty collections;
customers that owe nothing; one account; any accounts and roles with an
administrator; any documents) and lets each request be used once, so the number
of requests bounds everything. Besides:

* `MaxTime` bounds the clock in `Tick` of `Sessions` and `Recovery`. Times are only
  compared with each other, and it reaches the end of the longest span of the run.
* `Entries` are the entries the event log will ever see, `Size` the documents of
  `Catalog`, `MaxBody` the longest body of `Pipeline`.
* Requests are symmetric in every module that has them, accounts in `UserAdmin`,
  instances and versions in `Startup`: no action tells them apart. No symmetry is
  used where liveness is checked.

| Run | Distinct states |
|---|---|
| `credit` | 1,073,644 |
| `logger` | 64,286 |
| `sessions` | 2,477,674 |
| `recovery` | 593,614 |
| `useradmin` | 1,353,923 |
| `startup` | 1,519,709 |
| `catalog` | 876,340 |
| `pipeline` | 3,165 |

## Proofs

All constants are arbitrary: sets (of amounts and limits that are naturals),
positive sizes, and natural times. `KeepIsNoRole` says that the value standing for
"the body does not name a role" is not a role.

Two kinds of theorems: the safety properties of the runs, and, where such a
property makes an exception, what holds without it when requests take turns.

`CustomerCredit_proofs`: the inductive invariant `IInv` joins type correctness,
what each await knows of its own request (`AwaitsKnowTheirCall`), that an id
without a customer owes nothing, and the key part, `ChecksHoldUnlessOvertaken`:
the check of a payment at its `$inc`, or of a delete at its delete, still holds
of the database unless the request is in `overtaken`. `AnswersAreTruthful`,
`OverdraftNeedsOvertaking` and `DebtDeletedNeedsOvertaking` are conjuncts of it;
`OverdraftNeedsOvertaking` is not inductive alone, since a payment lowers a
balance that only its own earlier check bounds. `OverLimitWasWarned` speaks of
quiet states only; `OverLimitIsNoticed` strengthens it to all states: the charge
whose `$inc` passed the limit holds the document that shows it until it has
warned or died.

`BalanceIsHistoryPlusUnrecorded` is about sums over sets, which the library
defines by recursion, and the theorems it offers on them take operators as
parameters. The section on sums therefore starts from nothing: that the
recursive function exists, and that adding a member adds its value, follow by
infinite descent (a smallest finite set that fails, `SmallestFiniteSet`). With
`SumGrows` and `SumDependsOnMembers`, `HistoryInv` is inductive: it adds that both
sets are finite and that a request at its insert has no record yet, so that the
insert moves one amount from one sum to the other.

`Implements` is the refinement of `Ledger`, one lemma per action. Reads,
edits and failures are stutters; the `$inc` is `Post`, a check that fails or a
customer that is gone is `Refuse`, the insert is `Write`. `Post` needs that a
record is posted once (`applied` never holds a request that is still at its
`$inc`), `Write` that it is not written yet (from `HistoryInv`).

`EventLogger_proofs`: type correctness and `UnfinishedCount` are inductive
together (the counter is a natural number because it counts what is in hand).
`ImplementsWriteBehind` is proved as a refinement: the steps that move entries
(`LogShape`, `TakeShape`, `WakeShape`) keep `batch \o queue`, the end of a batch
removes a prefix of it (`SettledShape`), and the entries of a batch are always
among the `BatchSize` oldest (`PendingShape`). `PlaceInv` adds that `batch \o queue`
holds no entry twice, so that its length is the number of entries that wait:
`NothingVanishes`, `DroppedCount` (a batch that is given up adds as many entries
as it has places), `FlushedMeansSettled` (which needs `UnfinishedCount` at the end of
the flush) and `GivenUpIsFinal` follow. A step treats what waits in one of four
ways (moved, queued, tried, settled), with a lemma for each.

`Sessions_proofs`: every property of the run `sessions`, in two layers. `Base`
(types; `Begun`: a family is begun by a request of the same user that has been
answered before anybody else is in it; `Stages`: which await belongs to which
call; `Opened`: an unanswered request has no token) gives `TokenStep`, what any
step may do to one document, and with it `RotationIsOnce`. On top of it:

* `ClosedIsDead` needs `Begun`: `revoke_all_for_user` selects by user and yet
  reaches every token of each family it closes, since a family has one user.
* `ReopeningIsExplained` needs `ReopenersAreKnown`, the same said of every
  request from its last check on, not only when it opens the token.
* `RefusalsAreExplained` needs `RevocationsAreExplained`: a token revoked without
  being rotated belongs to a family that was ended or in which somebody reused
  a token too late; the reuse of such a token adds no cause of its own.
* `StaleSessionsAreExplained` needs two: `StaleFamiliesAreExcused`, for every
  family with a token of any kind or a request about to open one (a live token
  alone is not inductive: a stale family can have a rotated token that is still
  tolerated), and `ChangesAreExcused` for a change of password on its way, which
  a login can undo before the change has opened its session. Whoever replaces a
  password is about to revoke, or was a login and put the family into `undone`.

`Recovery_proofs`: every property of the run `recovery`. All of them rest on
`CallFits`, what each await knows of its own request and link. `Counted` (the
counter of the account is never behind the failures, unless somebody was late)
gives `LockAfterMaxFailed`, and with the type invariant bounds the counter.
`LinkIsUsedOnce` and `OneUsableLink` take `LinkInv`: a link is closed once a reset
with it has ended (`SpentIsClosed`), a request still on its way with a link that
is already spent is in `overtaken` (`LookedBefore`), and from `InvalidateLinks` to
`CreateLink` no link is open (`OthersClosed`). `OneOpen`
is `OneUsableLink` said of links that are open, expired or not.

`UserAdmin_proofs`: `AdminInv` adds to `AdminRemains` what the checks establish and
overtaking takes away: a request about to demote or remove an administrator has
another one to spare (`Spare`), and one whose target was not an administrator
will not remove one (`Harmless`), or it is in `recounted`. `RolesInv` says the same
of roles: whoever assigns one finds it stored (`Required`), whoever removes one
finds it unused (`Unused`), or is in `reassigned`.

`Startup_proofs`: `EmailsAreUnique` from `IndexFirst` (the default role, and with it
any registration past its look, implies the index, and so does every step after
`CreateIndexes`); `FirstAdminExists` from `SomebodyIsThere`; `AdminRoleIsCurrent` from
`AdminInv`, which says it of every instance from its look at `admin` on.

`Catalog_proofs`: `RepeatInv` and `OmissionInv` compare positions with the page the
client will ask for: what was shown is before it, what was not is at or after it,
unless the history has the document that shifted it. `Shifts` is the step from
documents to positions: the documents before `d` only grow by one that entered and
only shrink by one that left.

`Pipeline_proofs`: `SizeInv` and `LogInv` give, for each stage, what has been received
and sent so far; `Foreseen` is the status the client will get. The theorem about
headers needs the order of `Stack` only (`PlaceIs`, `StackLayers`).

### Without the exceptions

Most safety properties say "unless": a check that another request made out of
date, a version that overtook another. The theorems below have a hypothesis about
the order of requests instead, and a conclusion without exceptions, which is
mostly the sentence of the documentation. They say that the distance between a
check and its write is the only thing wrong: whoever closes it (a condition in
the filter of the update, a transaction, a lock) gets the promise. Everything a
hypothesis does not name interleaves, and fails, as before. In
`UserAdmin`, `Recovery` and `Sessions` a lost request takes no more steps and so
keeps standing where it was.

| Theorem | Hypothesis | Conclusion |
|---|---|---|
| `PaymentsInTurnNeverOverdraw` | no two payments of a customer between check and `$inc` | `PaymentNeverOverdraws` |
| `DeletesInTurnRemoveNoDebtor` | no movement before its `$inc` while a delete of the customer is past its check | `NoDebtorDeleted` |
| `WritesInTurnKeepAnAdmin` | no write of a user while another request is between its last checks and its write | there is an active administrator |
| `RolesInTurnExist` | no removal of a role between its requirement and its assignment | every stored user's role is stored |
| `LoginsInTurnAreCounted` | no write of the account between read and write of a login | as many failures in a row as allowed always lock; only a reset lifts a lock early; the password is the last chosen |
| `ResetsInTurnUseALinkOnce` | one reset at a time between look and mark of a link | one reset at most succeeds with it |
| `ForgotsInTurnLeaveOneLink` | one request at a time between invalidating and creating | one usable link at most |
| `WithoutReuseClosedIsNeverForgiven` | no refresh accepted with a revoked token | `ClosedIsNeverForgiven` |
| `ClosingsInTurnAreFinal` | the same, and no closing while another request of the session or user is past its checks | nothing closed comes back; a stale live session waits for a revocation under way |
| `OneVersionAtATimeKeepsAdminCurrent` | all running instances of one version | `admin` has the permissions of whoever serves prepared |
| `PreparedServersHaveAnAdmin` | no instance serves unprepared | no accounts without an administrator |
| `CleanFailuresDropForGood` | a failed insert stores nothing | `DroppedAreGone` |
| `QuietWalkIsExact` | nothing enters or leaves the view | at the end each document has been given once, and no other |
| `QuietWalkIsInOrder` | the same | before that, exactly the documents before the next page have been given, once each |

Each proof takes the invariant of the component and shows that its history
variable (`overtaken`, `recounted`, `late`, ...) never gets a member of the kind the
exception needs. `ClosingsInTurnAreFinal` also shows that its hypothesis leaves
nothing to undo: a login past its checks has read the password that is stored
(`LoginsAreFresh`), since a change that wrote another one is at its revocation. Four of the conclusions are what a run refutes without the
hypothesis (`credit_overdraw`, `credit_delete`, `logger_dropped`,
`sessions_forgiven`). No hypothesis is empty: restricted to it, the instances of
the runs keep between a twelfth and nearly all of their states.

### Beyond the runs

`EveryStepOfTheWorkerCounts` is the part of `WorkerDrains` that needs no fairness:
`StepsLeft`, eight for each queued entry and what three attempts still leave of
the batch in hand, goes down with every step of the worker and up only with a
new entry, so that the worker cannot go on for ever with what it was given,
however the database fails.

### What is not proved

Model-checked only: the liveness properties `WorkerDrains` and `StopEnds`
(fairness and ENABLED are out of the prover's reach).

## Not modelled

* Formatting, wording and rendering of errors, names and descriptions, the text
  of headers; `sanitize`, `mask_email` and the logging bridge (one more caller of
  `log`); the request context.
* Validation by the DTOs appears as the sets of inputs and the assumptions on
  constants. The branches for an update without changes are not reached through
  the routes, whose DTOs demand a field.
* Signing and hashing. Access tokens stay valid until they expire whatever
  happens to their session; `get_current_user` looks only at the account.
* The queries of the log, health and greeting: reads without state.
* Floating-point residue of balances (`customer_service.py:98`): amounts are whole
  units.
* The quantity of a product is set, not incremented (`product_service.py:90`): the
  last of two edits wins. Each write is what its body asked for, so there is no
  promise of the code that this breaks, and `Catalog` keeps no quantities.
* A change of the name or description of a role, the admin role included.
* Several event logs: each process has its own queue, and they share only the
  collection, to which each adds entries of its own ids.

## Plan

Done: 1. `CustomerCredit` with `Ledger`, 2. `EventLogger` with `WriteBehind`,
3. `Sessions`, 4. `Recovery`, 5. `UserAdmin`, 6. `Startup`, 7. `Catalog`, 8. `Pipeline`;
the proofs of every safety property of their runs, and of what holds without
their exceptions.

Left: an abstract specification of the sessions (a family of which one token at a
time is the current one) and of the lockout, proved as refinements like `Ledger`;
amounts as binary fractions.
