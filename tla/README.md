# Disbursement service: a TLA+ verification project

The program is a small HTTP backend in Go (Fiber, GORM, MySQL) through which
operators create disbursements, administrators approve or reject them, and both
read an audit log. This directory models it in TLA+, checks the models with TLC
on small instances, and proves the main safety properties with TLAPS for every
size of instance.

The hard part of the program is not the amount of code but where it runs: every
request is a goroutine, every request is a sequence of SQL statements, each write in
a transaction of its own (GORM's default; one endpoint puts two INSERTs into one
transaction), and nothing but MySQL orders the statements of different requests.
The models therefore have one action per SQL statement, its BEGIN and COMMIT
included, and let statements of different requests interleave, fail, or lose their
acknowledgement, and the process die in between.

## Inventory

| Component | State | Operations | Interacts with |
|---|---|---|---|
| Disbursement review (`internal/usecase/disbursements.go`: `UpdateStatus`, `Delete`, `Detail`; `internal/repository/disbursements.go`) | table `disbursements` (status, note, approved_by, deleted_at) | first `FindByID`, conditional `UPDATE ... WHERE status = 'PENDING'`, second `FindByID`, `writeAudit` | audit log; other requests through the row |
| Disbursement creation (`Create`; `CreateWithIdempotency`, `FindIdempotencyKey`, `DeleteIdempotencyKey`) | tables `disbursements`, `idempotency_keys`, InnoDB's record locks, the clock | insert with or without a key, look up, replay, refuse, delete an expired record, try once more | audit log; other requests through the key |
| Batch creation (`CreateBatch`) | table `disbursements` | item by item: validate, insert, audit | as creation, without a key |
| Listing (`List` and `FindAll` of `disbursements.go` and of `audit.go`) | none of its own | normalise, count, select a page | reads both tables |
| Audit log (`writeAudit`, `internal/repository/audit.go`) | table `audit_logs` | insert after the change, failures only logged | every writing endpoint |
| Authentication (`internal/usecase/auth.go`, `internal/repository/auth.go`, `pkg/middlewares/jwt.go`) | table `refresh_tokens`; access tokens live at the client | login, refresh, logout, `Protect` | every route |
| Request pipeline (`internal/routes/routes.go`, `pkg/middlewares/*`) | limiter windows in memory | limit, authenticate, authorise, log, recover | every route |
| Request ids and the request context (`pkg/common/reqctx`) and the logger (`pkg/logger`) | an id and a user per request; the log and its level | take or mint an id, attach both to lines | every route |
| Error and response mapping (`pkg/common/httpresponse`) | none | error to status code, pagination | every handler |
| Server (`cmd/api`, `pkg/server/fiber.go`, `configs`, `pkg/database/mysql.go`) | what fx has built, the listener, the requests in flight | build, listen, drain, stop, exit | MySQL, the container runtime, every request |
| Health check (`GET /health`) | none | ping with a timeout | MySQL |
| Migrations (`cmd/migrate`) | schema | apply or roll back the files in order | MySQL |

What makes each component correct:

* Review: of all requests that decide or delete one disbursement one succeeds,
  its answer and its audit entry tell what the row holds and go on holding,
  a refused request was refused for a reason that stands.
* Creation: a record of a key is never without its disbursement, a replay shows
  what the same request created, retries create once, a refusal creates nothing and
  has a cause, waiting for a key ends.
* Batch creation: an item's result says whether that item's row exists; the
  answer code agrees with the results; a retry may create again.
* Listing: a page is a slice of what the filter selects, totals and pages agree
  when nothing else runs, page arithmetic stays within its width, a client that
  turns the pages to the end misses no row that was there when it began.
* Authentication: a token is refused after logout or expiry, `revoked_at` is
  written once; access tokens outlive a logout by at most their lifetime.
* Pipeline: a request over its limit, without a valid token or without the role
  does not reach a handler; limits hold per user over any minute of the limiter's
  clock; the log agrees with the answers, and its lines carry the request's id and
  user.
* Server: a stop ends; a process that ends well has cut nobody off; the health
  check is true and is answered while MySQL hangs; a server that fell comes back.
* The endpoints together: the audit log of a disbursement tells its whole life,
  whoever wrote its entries in which order.
* Migrations: a run that failed half way can be run again.

The behaviours that are hard to test are listed one by one, at the line where
each bites, under `hazards` in `PROJECT.json`.

## Modules

`DisbursementTable` holds the tables `disbursements` and `audit_logs` and one
operator per SQL statement on them. The component modules EXTEND it, so that
later they can be composed over the same rows. Only the columns that change
after the insert are kept.

`DisbursementReview` models PATCH `/disbursements/:id/status`, DELETE and GET
of one disbursement. `pc[r]` is the statement request `r` issues next; `current`
and `updated` are the Go variables of the same names, the rows as read before
and after the write.

| Action | Code |
|---|---|
| `Receive` | handler validation and the status test at the top of `UpdateStatus` |
| `Find` | first `FindByID`, not found, status test |
| `Update`, `SoftDelete` | the conditional write and the test of `RowsAffected`; MySQL refuses a note that does not fit |
| `Reread` | second `FindByID` of `UpdateStatus`; a row that is gone is `missing`, a 500 |
| `WriteAudit` | `writeAudit`, whose failure is ignored |
| `StatementFails`, `AckLost` | the error returns, the write undone or done |
| `Crash` | the process dies: running requests are lost, tables stay |

Nobody asks how long a note is, and MySQL in strict mode refuses one that is longer
than its column, with an error the code answers 500: `fits` says of an ask whether its
note fits. The 500s of the code are three replies, `failed`, `unfit` and `missing`, as
the logged error has it.

`DisbursementLifecycle` is what the review endpoints promise about one
disbursement: absent, PENDING, then decided once or removed once, and nothing
after that. `DisbursementReview` implements it under the refinement mapping
`life`.

`DisbursementCreate` models POST `/disbursements`. The minted uuid is the
request that minted it, and a record of `idempotency_keys` is the request that
inserted it, because its other columns (user, hash, response, expiry) are
functions of that request's input and of its `now`. `lock[k]` is the transaction
that has inserted key `k` and not committed: other INSERTs and DELETEs of `k`
wait for it, the look-up (a consistent read) does not see it. The INSERT of the
disbursement and the COMMIT are one step, since nobody can observe the state in
between.

A waiting INSERT waits for a shared lock first, which InnoDB's duplicate check takes,
and then for an exclusive one. When the holder rolls back, or a DELETE takes the record
away, several that wait may be granted the shared lock (`sharing`, `Admit`), and then
wait for each other, or for a DELETE queued between them (`InDeadlock`); InnoDB rolls
one back (`Deadlock`, error 1213), for which the code has no retry and answers 500. Two
keys next to each other share a gap, so sharers of different keys count as well. The
model errs on the side of more deadlocks than MySQL has. As to payloads, the validator asks
for no length, and one that does not fit its columns (`fits`), or a key in the urn form
that does not fit `CHAR(36)`, is refused by MySQL (`ValueRefused`). The 500s of the
code are four replies: `failed`, `unfit`, `deadlock`, and `missing` for a record that is
gone when it is looked up.

| Action | Code |
|---|---|
| `Receive` | parsing, the key's format, `now`, the record to insert |
| `Insert` | `Create` without a key |
| `InsertKey` | first INSERT of `CreateWithIdempotency`: wait for holder and sharers, take the key, or duplicate |
| `Commit` | second INSERT and COMMIT |
| `Lookup` (`Verdict`) | `FindIdempotencyKey` and the tests that follow: gone, expired, replay, mismatch |
| `DeleteKey` (`DeleteRecord`, `NextRound`) | `DeleteIdempotencyKey` and `continue`, at most two rounds |
| `WriteAudit` | as above |
| `ValueRefused`, `Deadlock` (`Fails`, `Release`) | MySQL refuses a value, or ends a deadlock: the transaction is rolled back, 500 |
| `StatementFails`, `AckLost` | a fault, with the transaction rolled back (lock wait timeouts are among these) or committed unseen |
| `Crash`, `EndOrphan` | the process dies with a transaction open; MySQL keeps its lock until it commits or rolls it back. A statement that waits for a lock is taken to end with its client |
| `Tick` | time passes |

`IdempotencyLedger` is what creation promises about keys: a key is recorded
together with what it created, a recorded key creates nothing, a record is
forgotten only after a record of that key has expired. `DisbursementCreate`
implements it with `record <- idem` and `made` read off the rows.

`AuthSessions` models POST `/auth/login`, `/auth/refresh`, `/auth/logout` over the
table `refresh_tokens`, and the check of the access token with which `Protect`
opens every other route (a "call"; what the call then does belongs to the other
modules). A refresh token is the login that issued it and an access token the
request that made it, so `tokens[q]` is the row that login `q` inserted and
`exp[q]` the `exp` claim of the token `q` made; access tokens have no row and
outlive a crash at the client. Clients present the tokens they were answered
with, or made-up ones. The code reads the clock between statements, so a time
that is written (`expires_at`, `revoked_at`) is any time from the previous
statement to this one. `after` is a history variable: which logouts had been
answered when a refresh came in.

| Action | Code |
|---|---|
| `Receive` | handlers' parsing and validation; for a call, all of `Protect` |
| `FindUser` | `FindUserByUsername`, the password test, `generateAccessToken` |
| `CreateToken`, `HandOut` | `issueRefreshToken` with `CreateRefreshToken`; the answer of `Login` |
| `FindToken` | `FindRefreshToken`, first statement of `Refresh` and of `Logout` |
| `Judge` (`Judgement`) | `Refresh`: revoked? expired by now? |
| `FindOwner` | `FindUserByID`, `generateAccessToken`, the answer of `Refresh` |
| `Revoke` (`RevokeOnce`), `Confirm` | `RevokeRefreshToken`; the answer of `Logout` |
| `StatementFails`, `AckLost`, `Crash`, `Tick` | as above; a process that dies between a write and its answer leaves a session nobody has the token of, or a logout nobody was told of |

`SessionBook` is what these endpoints promise about a session: opened once,
closed at most once at a time that stays, and access tokens only for requests
that, after they came in, found it open and not expired. They need not find it
open when the token is made: a refresh that has read the row is not stopped by a
logout, and no wording that forbids this is in the documentation.
`AuthSessions` implements it with `until` and `closed` read off the rows and
`seen` off what the requests have read.

`BatchCreate` models POST `/disbursements/batch`. Each of the loop's writes is a
transaction by itself, one item after the other; the answer's code is worked out from
the results. `hit` is a history variable: the items one of whose statements failed
though the payload is good. No `Idempotency-Key` is read, so a batch that was cut
short and is sent again creates again what it had created; what the model shows
is that every item is as if it stood alone, so that the rest can be told.

| Action | Code |
|---|---|
| `Receive` (`LegalSize`) | the handler's parsing and `validate:"required,min=1,max=100"` |
| `RejectItem` (`Passes`) | `ValidateStruct` on the item |
| `InsertItem`, `InsertRefused` (`Fits`) | `repo.Create`, for a payload the columns can or cannot hold |
| `InsertFails` | `repo.Create` fails, the row not there or there |
| `WriteAudit` (`CreatedEntry`) | `writeAudit`, whose failure is ignored |
| `Conclude` (`AnswerCode`) | appending the result, the loop, and the handler's 201, 207 or 400 |
| `Crash` | the process dies: the batch is cut short |

`RequestPipeline` models what stands between a client and a handler. `Chain`
is the table of `Register`: which middleware each route passes, in order.
`meter` is the limiters' memory, one window for each limiter and user, and
`place` how far a request has come; between two stages of one request others
run. `outcome` is what has come of it at the end of its way in. On the way back
recovery, the logger and the error handler work out the status one after the other
from the same outcome, each in a step of its own, and each writes its line before the
answer is sent: a process that dies in between leaves lines without an answer. A usecase may
log as often as it likes before that (`Note`). `Write` is the logger: a line passes if its level does
(`Emitted`), but with `APP_ENV=production`, which `compose.yml` sets,
`zap.NewProductionConfig` samples lines of one message, errors included (`Sampled`);
how many came within a second is not followed, so that any line may be dropped there.
`scope` is what travels with a request: its id, from `X-Request-ID` or minted, and from
`Protect` on its user. What the server cannot read (a body or a header that is too
large, a broken connection) reaches the error handler without any middleware
(`TurnAway`). Whether a token is valid is the matter of `AuthSessions`.

| Action | Code |
|---|---|
| `Receive` | `request_id.go` and the outer middleware |
| `Protect` | the token of a protected route: user, or 401; the user goes into `scope` |
| `RateLimit` (`Bump`, `WindowEnd`, `Key`, `Over`) | `NewRateLimiter`, and the fixed window of Fiber's limiter: 429 |
| `RequireRoles` | 403 |
| `Note` (`Noted`) | what usecases log, with `logger.WithCtx` |
| `Handle` (`Finish`) | the handler: a response, an error of one of three kinds, or a panic |
| `TurnAway` | the server's own answers to what it cannot read |
| `Recover` (`Panic`, `Recovered`) | `recovery.go`: the line, and a response 500 |
| `Complete` (`Completed`, `LoggedCode`) | `logging.go`, on the way out |
| `LogFailure` (`Failed`), `Respond` (`SentCode`) | `NewErrorHandler`: the line from 500 on; the answer |
| `Restart` | the process stops and starts: the windows and the requests under way are gone, the log stays |
| `Tick` | time passes |

Three observations the model makes plain and no property claims: behind `Protect`
the username is always set, so the limiter's fallback to the address of the
client is never taken, and the login, which is not behind it, has no limit; and
a POST passes both limiters, so it counts against the 120 requests of the
other routes too, of which README.md's "endpoint terproteksi lain" says nothing.
And README.md, "Context propagation", says that `logger.WithCtx` puts request id
and user on every log line, while "PANIC RECOVERED" and "request failed" are
written without it and carry neither (`Failed`, `Panic`): nothing in such a line names
the request it is about.

`ListQuery` models GET `/disbursements` and GET `/audit-logs`; `list` says which of
the two an instance is about. It has what `Normalize` makes of a query, the
count, the page, and writers that insert, decide and delete rows between the two
and after. A client may go on to the next page; `walk` is a history variable, what
it has seen since page 1 and what kinds of writes there were. `basis` is another:
the rows that matched when the page was read, in the order MySQL gave them, which
is any that the sort key allows. Go's int wraps round at `IntMax`.

| Action or operator | Code |
|---|---|
| `Receive` (`Normalize`, `Legal`) | `DisbursementFilter.Normalize`, `AuditLogFilter.Normalize`, the tests of status and dates in `List` |
| `Count` (`RowMatches`, `EntryMatches`) | the two `FindAll`: the WHERE clauses, `Count` |
| `Find` (`Orders`, `Slice`, `Offset`) | the two `FindAll`: ORDER BY, LIMIT, OFFSET |
| `TotalPages` | `NewPagination` |
| `TurnPage` | the client asks for the next page while `total_pages` says there is one |
| `StatementFails` | the error returns |
| `InsertRow`, `InsertEntry` (`Stamp`), `DecideRow`, `DeleteRow`, `Midnight` | the statements of other requests, with the `created_at` they took before; the days |

A walk is at its end (`AtTheEnd`) at a page that is not full, or at the last of
`total_pages` if no row came between the count and the page. A client that goes by
`total_pages` alone can miss a row when one was inserted just there; nothing in
the repository promises otherwise.

`Migrations` models the runner of `cmd/migrate` and the two files there are,
`Up` and `Down`. A file is one multi-statement query; each of its DDL statements
commits by itself, and the server may go on with the rest after the runner is
gone (`orphan`). `crossed` marks runs beside or before which one of the other
direction ran; nothing is promised of those. Its names that begin with `M` (`MInit`,
`MSpec`) have the letter because one proof module is about it and `ServerLifecycle`.

| Action | Code |
|---|---|
| `Launch` | the runner with `up` or `down`, from the first statement |
| `Execute` (`MoveOn`, `Refused`, `Effect`) | the next statement of the file, and "applied" after the last |
| `StatementFails` | `log.Fatalf`: a full disk, a lock wait timeout |
| `LoseClient`, `EndOrphan` | the connection breaks or the runner dies; the server goes on until it notices |

`ServerLifecycle` models the process itself: fx builds what `cmd/api/server.go`
lists, the start hook listens in a goroutine, the stop hook drains the requests in
flight, the container runtime restarts a process that ended by itself. MySQL goes
down, hangs and comes back whenever it likes. A request is GET `/health` or any
other, which is a number of statements here. `seen`, `late` and `cutBy` are history
variables: what MySQL was like while a request ran, whether it was accepted after
the stop hook had returned, and the exit status of the process that cut it off.

| Action | Code |
|---|---|
| `ReadConfig` | `NewViper`: a missing file is no error, one that cannot be read is |
| `Assemble`, `Needs` | the constructors that put things together, in the order their parameters require |
| `ReachMySQL` | the two halves of `NewMySQL`: `gorm.Open`, `Ping`; an error ends `fx.New` |
| `Start`, `Listen`, `AcceptFails` | `OnStart`, `app.Listen` in its goroutine, `log.Fatal` |
| `Stop`, `CloseListener`, `Drain`, `StopTimesOut`, `Return` | the signal, `OnStop` with `ShutdownWithContext`, the end of `main` |
| `Kill`, `Restart` | `compose.yml`: `restart: unless-stopped`, and the kernel |
| `Arrive`, `Statement`, `Respond` | a request other than the health check |
| `Ping`, `Check` (`Status`) | `PingDB` with its timeout, 200 or 503 |
| `DatabaseBecomes` | MySQL |

Two things to know of it. A stop that comes before the goroutine of `OnStart` has
reached `Listen` finds nothing to close, and what `Listen` accepts after that is cut
off by a process that ends with status 0: the exception in `CleanExit`. And the
container runtime waits 10 seconds by default for a stop to which fx gives 15, so
that the end of the draining may be a `Kill`.

`DisbursementService` is creation and review in one process, as
`internal/routes/module.go` wires them: instances of `DisbursementCreate` and
`DisbursementReview` over one `rows` and one `audit`. `Create(r)` is a step of the
first, `Decide(r)` one of the second, `Crash` takes both down, `Tick` passes time. A
disbursement can be found, decided and deleted from the COMMIT of its creation on,
while the request that made it has yet to write its audit entry. `TrailReplays` is
about the log that both write; `Promises` says that each part, among the steps of the
other, still implements its own abstract specification. Batches are not part of
it: seen from a review, an item is a creation without a key.

The `MC*` modules instantiate the components for TLC. The `*_proofs` modules
hold the theorems.

Beside the definitions that follow the code, the component modules hold some
whose comment starts with "Bug:". Each is what a plausible mistake would make of
the definition after it; nothing uses them, and putting one in the place of its
neighbour makes TLC refute the property that `PROJECT.json` pairs it with. That
is how we know that each property depends on the code being as it is.

## Runs

| Run | Instance | Shows |
|---|---|---|
| `review` | 3 requests, 1 disbursement, 2 users, 2 notes and one that does not fit, faults, a crash at any time; symmetric in the requests | `OneWinner`, `WinnerOwnsRow`, `AuditTrue`, `RefusalTrue`, `RereadHits`, `LifecycleSpec` |
| `create` | 3 requests, 1 key beside none, a malformed and an over-long one, 2 payloads and one that does not fit, TTL 1, clock 0 to 2, faults and crashes; symmetric | `KeyBacked`, `ReplayFaithful`, `OnceWithinTTL`, `RefusedCreatesNothing`, `NoSpuriousRefusal`, `LedgerSpec` |
| `create_serial` | the same with requests one at a time, clock 0 to 4, crashes, no faults | `ExactlyOnce` |
| `create_expiry` | 3 requests, no faults, no crash, requests shorter than a clock unit | a violation of `ExactlyOnce`, below |
| `service` | 2 creations and 1 review of either, 1 key, TTL 1, clock 0 to 1, crashes, statements that fail only for a value that does not fit or a deadlock; fair | `TrailReplays`, `Promises`, `EveryRequestEnds` (liveness) |
| `sessions` | 4 requests, 1 user beside unknown credentials, access lifetime 1, refresh lifetime 2, clock 0 to 3, requests shorter than a clock unit, faults and crashes; symmetric | `LogoutIsFinal`, `RefusalTrue`, `CallTraceable`, `AccessEnds`, `SessionSpec` |
| `batch` | 2 batches of 0 to 3 items of every form and one of 4 items, limit 3, faults and crashes; symmetric | `ResultsTell`, `CodeTells`, `EachAlone` |
| `pipeline` | 2 requests on routes of every chain or unreadable, 3 users of the 3 roles and none, with an `X-Request-ID` and without, 2 log levels, development and production, every kind of outcome, limits 1, a restart; symmetric | `OnlyGranted`, `LogTrue` |
| `pipeline_limits` | 4 POSTs of 2 users, single and batch, general limit 2, create limit 1, a window of 2, clock 0 to 2, handlers that do not come back; symmetric in requests and users | `SlidingBound`, `RefusalEarned` |
| `list` | 1 client on either list, every filter, pages and limits from -1 to 7 with ints of 4 bits, 3 rows, 3 amounts, 3 days, 3 writes, failing statements; symmetric in the rows | `TypeOK`, `PageExact`, `TotalsAgree`, `RowsAsked`, `WalkWhole` |
| `migrations` | 3 runs in either direction, one after the other or at once, failing and losing their client; symmetric | `Rerunnable`, `AppliedMeansAll` |
| `server` | 2 requests of at most 1 statement, 1 fault of the process or its host, any changes of MySQL; fair | `CleanExit`, `HealthTrue`, and the liveness of `StopEnds`, `HealthAnswers`, `EventuallyServes` |

The type invariants of the modules with a `_proofs` module are theorems
(`TypeCorrect`, `MigrationTypes`); only `list` checks its own again.

Bounds. The constants in the cfg files are the bounds: `Requests`, `Ids`,
`Users`, `Notes`, `Keys`, and `MaxClock` for the clock. Three requests are the
least that show one winner beside two losers who lose at different statements,
and two requests that find a third one's record expired. One disbursement
suffices where requests interact only through the row they share. Two notes give an empty and a
non-empty note, and two payloads that differ. With TTL 1 the clock value 2 is
the first that finds a record expired; up to 4 a key can expire twice. The
theorems below remove all of these bounds for the safety properties they are
about.

In `sessions` time passes between requests only, because `AccessEnds` is about
such requests; the theorems hold for those that run on as well. Access lifetime 1
and refresh lifetime 2 put a last refresh at clock 2, an access token that is
good after its session has expired, and one that is no longer good at 3.

Four requests are one more than fit into a minute under a general limit of 2
(twice the limit less one) and three more than fit under a create limit of 1,
and with a window of 2 the clock value 2 is the first in a second window. A
larger limit repeats the same steps. The clock of that run, and of the bounds, is the
limiter's, which counts whole seconds: by a finer clock twice the limit can pass within
slightly less than a minute. `pipeline` needs no clock: a limit of 1 refuses the second
request, and two requests are enough for lines to be told apart; the outcomes and notes
of a kind are given to one route each. The `list` instance has rows for one full
page and a part of one with limit 2, limits below, at and above their maximum of
3, and page 7 times limit 3 does not fit an int of 4 bits. `batch` needs three
items for a bad one between two good ones, and one batch over the limit.
Three runs of the migration are one that ends half way, one that goes on as an
orphan, and one that must not mind either.

In `service` two creations suffice to contend for a key, and one review to come
between them, since `review` has the contention of reviews already; one note is
enough where no two decisions are compared, and within TTL no record expires (the
clock's second value only lets requests come in later). No statement fails there but
for a value that does not fit or a deadlock, so that the last part of `TrailReplays`, that
no entry is missing, says something; with faults the parts are checked alone. In `server` the second request is one that comes while
the first is drained; one statement is enough to wait for a MySQL that hangs; one
fault lets every kind happen at every place, and liveness is asked after the last
of them.

A request is handled once, so the models stop when all requests have ended, and
the cfg files switch deadlock checking off, `server` excepted, where somebody can
always do something. That nobody waits for ever is `EveryRequestEnds` instead.

Fairness. `FairSpec` of `DisbursementService` asks weak fairness of each request's
own next statement: the Go scheduler runs every goroutine, and MySQL answers every
statement or fails it, those in a deadlock included, which it detects. `EndOrphan` is among them: MySQL notices a client that is
gone. No fairness is asked of arrivals, of time or of crashes; the run has no
faults, so that a lock wait timeout cannot stand in for a lock that is released.

`FairSpec` of `ServerLifecycle` asks it of what the process goes on with by itself
(`Build`, `Start`, `Listen`, `CloseListener`, `Drain`, `Return`), of the timer fx
sets for a stop (`StopTimesOut`), of the runtime's `Restart`, and of each request's
next step. Nothing is asked of MySQL, which may hang for ever, nor of arrivals,
stops and faults. `StopEnds` and `HealthAnswers` therefore hold because of the two
timeouts there are, the one that fx gives a stop and the one of the ping; take one out
and they fail (`StopWaits` is a stop without any: fiber's call alone would not do it,
since fx waits for the hook with a deadline of its own). `EventuallyServes` is the one that
assumes something of MySQL, in its statement: that it stays up from some time on.

## Finding

`create_expiry` refutes `ExactlyOnce`. README.md says that a second request with
the same key within 24 hours is answered with the first response and not
processed again, ARCHITECTURE.md that a disbursement cannot be created twice.
TLC's run: a record has expired; requests A and B with its key both insert, fail
as duplicates, look the record up and find it expired; A deletes it, inserts its
own record and disbursement, and commits; B, still at its DELETE, removes A's
fresh record, inserts again and commits. Two disbursements exist for one key at
one time, and neither request waited longer than an instant. The DELETE names
only the key; one that also named the expiry or the owner it had read would not
hit the fresh record. Requests one at a time (`create_serial`), and any requests
that all come within TTL of the first (`OnceWithinTTL`), are safe.

The same window turns a duplicate into a 500 when the record is deleted between
the duplicate-key error and the look-up, and lets INSERTs that wait for the deleted
record deadlock. Nothing in the repository promises otherwise; `NoSpuriousRefusal` says
what it takes: another request that found a record of the key expired, or, for a
deadlock, one that was rolled back or lost.

## Proofs

Every invariant, every action property and every refinement that a passing run
checks is stated by a theorem: for any sets of requests, disbursements, users,
notes and keys, any lifetimes, limits, tables and numbers of runs, and with faults
and crashes. The assumptions, which TLC evaluates in the runs, are

- `TableAssumption`: NULL is no user, the empty note is a note;
- `ReviewAssumption`, `CreateAssumption`, `SessionAssumption`, `BatchAssumption`,
  `PipelineAssumption`, `MigrationAssumption`, `ServerAssumption`: the switches are
  Booleans, lifetimes, limits and windows are positive, the odd keys and tokens are
  no ordinary ones, a minted id is an id and no header, every user has one of the roles,
  no handler answers 403 or 429 of its own accord, only a public one 401, and the server
  none of these to what it cannot read;
- `ServiceAssumption`: a request is a creation or a review and not both, and every
  creation has an id to give;
- `ListAssumption`: the default limit is positive and at most the maximum, which an
  int can hold, and a table has no more rows than an int can count.

`DisbursementReview_proofs`. The properties are not inductive alone. `IInv` adds
what a request in flight knows: its input fits the statement it is about to
issue (`AskFits`), the row it read is PENDING and, as long as the row can still
be claimed, is the row in the table (`ReadFits`), a refusal stays justified
(`RefusalFits`), and an entry of the audit log is the entry its finished request
would write (`EntryFits`). One lemma per statement shows what it does to the
request that issues it (`Effect`); `OthersKeepFits` shows once and for all that
the other requests do not mind, because a row that exists changes only by being
claimed and nobody who has won, or lost, relies on a claimable row. From `IInv`
follow `TypeCorrect`, `AtMostOneWinner`, `WinnerKeepsRow`, `AuditIsTrue`,
`RefusalIsTrue`, and with one more step `RereadsHit`: whoever is at its second read
owns the row, and a row that is owned is visible. `ImplementsLifecycle` maps every step
to a step of the lifecycle or a stutter.

`DisbursementCreate_proofs`. `KeyInv` ties a key's record, its lock and the rows
together; its last conjunct is the strengthening that matters: until some
request of a key finds a record of it expired (`Late`), the record of that key is
the only disbursement ever made under it. `Late` is stable (`LateStays`), and
only a request that makes the key late can delete a record. From the invariant
follow `TypeCorrect`, `RecordsAreBacked`, `ReplaysAreFaithful`,
`RetriesCreateOnce` and `RefusalsCreateNothing`; `ImplementsLedger` is the
refinement of `IdempotencyLedger`.

For `RefusalsAreEarned`, `EvidenceInv` says what a request in trouble can point to: in
its second round an expired record that it found and that never returns (`RoundInv`), at
its look-up without a record somebody else who found one expired (`GoneBecause`), and
while it shares the key's lock somebody who was rolled back, was lost or found a record
expired. What it points to is never undone.

Two theorems there are the part of `EveryRequestEnds` that is within the prover's
reach, for any number of requests. `RequestsWindDown`: every step of a request takes it
nearer to its end by the measure `StepsLeft`, and no step of anybody else, no crash and
no tick puts it back, so that a request takes seven steps at most.
`WaitsEnd`: whoever waits for a key waits for one transaction, which is at its COMMIT,
waits for nobody and has its id free, or for those that share the key, one of which can
go on or is rolled back by InnoDB. It rests on the model of the locks, as said above.
TLC checked both on the instance of `create` first. That a request which can go on does go on is the fairness that only
TLC's run assumes.

The second half of the module is about requests that do not overlap, or that end
within one unit of time. `SerialInv`: one request runs (`Alone`; a transaction
that outlived a crash may run beside it); a disbursement that the record of its
key does not stand for has expired, and had expired for whoever is about to make
another one under that key (`KeyFits`), which is what overlapping requests break in
the finding above; and the record that was looked up is still the one that gets
deleted (`AskFits`). From it follows `SerialCreatesOnce`. `PromptInv` says of
requests within one unit of time that what they find in their second round was made
since their DELETE and, with time standing still, has not expired, so that there is no
third. From both follows `NobodyTripsAlone`: a request that runs alone is never told to
retry, never misses the record it looks up, and is in no deadlock, and prompt ones are
never told to retry.

`AuthSessions_proofs`. `IInv` says what a request in flight or answered can rely
on (`Fits`) and what a row goes back to (`RowFits`): the row a request has read
is the row in the table but for a later revocation (`StoredFits`), one that came
after a finished logout has not read the token open (`AfterFits`), a row goes
back to a login of its user and its revocation to a logout that had read it and that is
answered, about to be, or lost. Rows are only ever
added or revoked once (`Grows`) and answered requests do not change (`Settled`);
`RestingKeepsFits` concludes that whoever does not step keeps what it relies on,
which serves the other requests, the crash and the clock alike. From `IInv`
follow `TypeCorrect`, `LogoutsAreFinal`, `CallsAreTraceable`, `AccessIsBounded`
and `RefusalsAreTrue`; `ImplementsBook` maps each step to a step of `SessionBook`
or a stutter. `AccessIsBounded` is about prompt requests, as `AccessEnds` is: a
refresh that stalls between its test and its token makes a token that lasts
longer by the stall.

`BatchCreate_proofs`. The results of a batch are those of the items before the
current one (`LocalsFit`), each of them is sound (`Sound`), and an item without a
result has no row but for the current one once it is inserted (`PlaceFits`). Rows
belong to one place of one batch, so a step of one batch keeps what is known of all
other places. From it follow `TypeCorrect`, `ResultsAreTrue`, `CodesAreTrue` and
`ItemsStandAlone`.

`RequestPipeline_proofs`. The stages a request has passed tell who its user is and
which roles were asked for (`WayFits`), its id and user are the ones it came with
((`ScopeFits`). What is true on the way back is said for each place on it: of the
outcome and the answer (`OutcomeFits`); of each line, that it is the one which this
outcome makes and is there no sooner than it can be (`LineFits`); and, without
sampling, that what must have been written is (`AllTold`). Recovery, log and error
handler agree because all three go by one outcome, and a process that dies changes
none. From it follow `TypeCorrect`, `GuardedRoutes` and `LogIsTrue`; what they need of
the table of routes is in `ChainFacts`.

The second half of it is about the limiters. What a limiter let through of one user
in one life of the process is a function `Passes` from requests to times. `Windows`
says of such a function that its times lie in windows that do not overlap, each
opened by a request that passed and holding at most the limit; `LimitersInv` says
that of every limiter, user and life, that `meter` counts the window it is in
(`Counts`), and that whoever was refused was so by a limiter that had let its limit
through (`RefusalFits`). `SpanBound`, on cardinalities, is the arithmetic: the last `Window`
units of the limiter's clock before any time meet two such windows at most, and if two, the request that
opened the first is out of them, which leaves twice the limit less one. Hence
`LimitsHold` and `RefusalsAreEarned`, for every limit and any traffic.

`ListQuery_proofs`. `IInv` says of a request what it asks for (`AskFits`), that the
total is the table's at the count (`CountFits`), and that the page is a slice of the
rows that matched (`PageFits`). The lemmas behind it are about any order MySQL may
produce: `OrderRows` (it holds exactly the rows that match, once each), `RankIsPlace`
(where sort keys are distinct, a row's place in it is its rank: how many rows come
before it), `PageRows` (the page is the rows of ranks `Offset` up to `Offset` plus
limit). What a writer can do to a page is `Spared`: an insert leaves the rows there
are as they are, a decision or a deletion touches claimable rows only. `WalkFits`
carries a walk through the pages: a row that was there on page 1 and has not been
shown yet has a rank of at least the pages turned times the limit, and since inserts
only raise ranks, no later page can have jumped over it. Hence `TypeCorrect`,
`PagesExact`, `TotalsTrue`, `RowsTrue` and `WalksWhole`, the last for walks of any
length over tables of any size.

`DisbursementService_proofs`. In the composition neither part is alone on the
tables, and creation's invariant, which says that a row stays as it was made, is no
longer true of them. It is true of a view: to a creation a row is as it was inserted,
whatever became of it (`asMade`), and of the log it knows the creations (`makings`);
to a review the log holds the reviews (`closings`), and an INSERT only fills an id it
has not seen. The modules of the parts are instantiated on these views (`CV`, `RV`)
and their lemmas used as they stand; each step of one part is shown to be a step or
a stutter of the other's view. `IInv` is the two invariants and what one side knows of
the other: an entry is a creation's or a review's (`AuditSplits`), a row that nobody
has decided is as it was inserted (`UndecidedFits`), and so is what a review has read
and may still write over (`StartFits`), and who has ended without a fault has written
its entry (`MakingWritten`, `ClosingWritten`). Hence `TrailIsWhole`; `NobodyTrips`, which
carries `NoSpuriousRefusal` and `RereadHits` over to the composition; and
`KeepsPromises`, the refinement of both abstract specifications at once. TLC checked
`IInv` on the run's instance before it was proved, as it did that of `ListQuery_proofs`.

`Operations_proofs` has two halves that share no state. `ServerLifecycle`: a process
that leaves with status 0 had no request when it began to leave, and has only late
ones (`LateFits`); what a ping found was so at some time since its request came in
(`SeenFits`). Hence `ExitIsClean` and `HealthIsTrue`. `Migrations`: a run that no run
of the other direction came near (`Undisturbed`) has had the schema to itself and to
runs of its own direction, so what its statements have done is still done
(`RunFits`), whoever else did it again: hence `RunsAreRerunnable` and
`AppliedIsWhole`.

Model-checked only: the liveness properties (`EveryRequestEnds`, `StopEnds`,
`HealthAnswers`, `EventuallyServes`), which need fairness and so are beyond this
prover.

## Plan

Every component with behaviour of its own has its module, and every safety property
its theorem. What further work would take up, in this order:

1. Batches in the composition, and faults in its run. The proofs have the faults
   already; the run leaves them out so that the last part of `TrailReplays` bites.
2. For `StopEnds` and `HealthAnswers` what `RequestsWindDown` is for `EveryRequestEnds`:
   the measure by which each phase of the process comes to its end.
3. The search for a recipient in the list, should it ever get rules of its own.

## Not modelled

The texts that the validation helper makes of the validator library's verdicts
(what is refused is in the models of the endpoints), the connectors for databases
other than MySQL and the helpers that nothing calls (`pkg/common/filter`,
`pkg/common/response`), and the generated API documentation. Of the configuration
only whether it can be read, the log level and whether it says production, of the
logger its level and that it samples but not how many lines, its encoders and files, of the MySQL connector opening and the ping but not the
settings of the pool. Within the modelled endpoints: the texts of messages, the
columns that never change after the insert, uuids as such (they are taken to be
distinct), SHA-256 (taken to be injective on payloads), bcrypt and the signature of
access tokens, and JSON (a stored response is read back as what was stored). Of
lists: the search for a recipient, which is one more filter; an offset that is no
int (the page then shows the rows of another page, since GORM writes no OFFSET that
is not positive) and the order of rows with equal keys from one page to the next
are in the model, but nothing is claimed of them and nothing in the repository
promises it. Of MySQL's locks: those on `idempotency_keys` by its primary key, taken
together as said under `DisbursementCreate`; deadlocks on other tables and indexes are
among the faults. Of the pipeline: the texts of log lines and how often an equal one
comes, the lines of starting and
stopping, and the parsing of requests. Of the server: how long anything takes.
