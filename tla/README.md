# TLA+ models of api-padrao

`api-padrao` is a NestJS API over Postgres (Prisma), Redis (cache-manager) and
Bull queues: users, companies, profiles and permissions, JWT sessions with
rotating refresh tokens, password recovery, account lockout, a transactional
outbox with an audit trail, per-tenant throttling.  Its handlers are
`async` functions of one Node process, and several processes may share the
database, so any two requests interleave at every `await`.  This directory
holds TLA+ modules translated from the source, the TLC configurations that
check them and proofs that TLAPS checks: eight modules that follow the code
(`AuthSessions`, `LoginLockout`, `Outbox`, `ReadCaches`, `Cadastro`,
`Idempotency`, `HttpPipeline`, `Listings`), three abstract specifications
that three of them are proved to implement (`SessionStore`, `AuditTrail`,
`CadastroStore`), and a proof module for each of the eight.

Paths below are relative to `src/src/` unless they say otherwise.  Line numbers
are in `PROJECT.json` (`map`), one entry per definition.

## 1. Inventory

| Component | State it keeps | Operations | Hard behaviour | What makes it correct |
|---|---|---|---|---|
| **Refresh-token sessions** `auth/application/services/auth.service.ts` | `RefreshToken`, `LoginHistory` rows | `login`, `generateTokens`, `refreshTokens` (rotation, reuse detection) | two refreshes of one token; a refresh against a password change, a disabling or the purge; exception inside the transaction | rotation is atomic; at most overlapping refreshes fork a session; a token is not issued to a user seen as disabled |
| **Account lockout** `auth/infrastructure/services/cache-login-attempt-tracker.service.ts` | Redis counter per address, `login_attempts` rows | `isLocked`, `recordFailure`, `clearFailures` | read-then-write of the counter; Redis failing between the calls; two stores that do not know of each other | nobody is locked out without `MAX_ATTEMPTS` failures; sequential failures do lock; a success resets |
| **Password recovery** `auth/application/services/password-recovery.service.ts` | `PasswordResetToken` rows, the user's password, its refresh tokens | `forgotPassword`, `resetPassword` | check before the transaction; three statements without a transaction; lock order | a used reset token is refused; earlier sessions die with the old password |
| **Purge of refresh tokens** `shared/infrastructure/queues/processors/refresh-flush.processor.ts` | `RefreshToken` rows | `process` | deletes rows that a rotation or a revocation is locking | only expired rows go; it never breaks a rotation |
| **User accounts** `usuarios/application/services/usuarios.service.ts` | `Usuario` rows (`senha`, `ativo`, `deletedAt`, e-mail), refresh tokens | `create`, `update` (password, disable, restore, e-mail), `findAll`, `findOne` | optimistic guard on `deletedAt`; two `updateMany` in one transaction; check-then-act on the e-mail | of two administrators one changes the row and the other is told; a password change revokes |
| **User caches** `auth/infrastructure/strategies/jwt.strategy.ts`, `usuarios/infrastructure/repositories/prisma-usuario.repository.ts` | Redis keys: JWT validity (60 s), login profile | fill on miss, invalidate on write | a fill that read before the invalidation writes after it | a disabled user is refused within the TTL; a profile change is seen |
| **Outbox and queues** `shared/infrastructure/queues/**`, `shared/infrastructure/interceptors/audit.interceptor.ts` | `OutboxEvent` rows, Bull jobs, `AuditLog` rows | interceptor, poller, outbox / audit / e-mail processors | dual write, crash between enqueue and `publishedAt`, retry of the queue and of the row, batch of 50 | every stored event is published at least once; duplicates are bounded or harmless |
| **Idempotency** `shared/infrastructure/interceptors/idempotency.interceptor.ts` | Redis: answer and lock per key | lookup, lock, run, store, release | lock TTL shorter than the handler; lock released before the answer is stored | one execution at a time per key while locks last |
| **Profiles, permissions** `perfis/**`, `permissoes/**` | `Perfil`, `Permissao`, their link table | create, update, disable, restore | uniqueness check before the insert; unguarded disable/restore; a `PATCH` that moves a profile to another company between two queries of another request; cache invalidation of every user of a profile | no two rows of one name, removed ones included; a request in flight does not write to a profile that has left its company; caches follow the permissions within the company |
| **Companies** `empresas/**` | `Empresa`, `UsuarioEmpresa` | create, update, disable, restore, `addUser` | checks before the upsert | a membership refers to rows that exist; what was checked still holds at the write unless another request came in between |
| **Soft delete** `prisma/prisma-extension.ts` | `deletedAt` of every model | rewrites reads and deletes | nested reads and unique lookups that bypass the filter | a deleted row is hidden from every read but the nested one of permissions; names of deleted rows stay taken; a profile is changed only from the company that it is in |
| **Authorization** `auth/application/guards/permissao.guard.ts`, `shared/infrastructure/interceptors/empresa.interceptor.ts` | request context (`AsyncLocalStorage`) | decide the permission and the tenant | several tenants per user, permissions per membership | a permission counts only in the tenant that granted it |
| **Tenant throttling** `shared/infrastructure/throttling/**` | plan cache, throttler object | pick the limit, count | a limit written into an object that all requests share | no address gets more than its limit |
| **Audit log query** `shared/infrastructure/repositories/prisma-audit-log.repository.ts` | reads `AuditLog` | cursor pages | rows with equal timestamps; inserts between pages | the pages together are the list |
| **Errors and metrics** `shared/infrastructure/filters/all-exceptions.filter.ts`, `shared/infrastructure/metrics/**` | counters and a histogram of the process | map an error to an answer, count and time a request | the status is read before the filter sets it; the filter itself fails | counter, histogram and errors agree |
| **E-mail** `shared/application/services/email-sender.service.ts` | none | `send` | errors swallowed | best effort |
| **Logging, health, tracing** | none a handler reads back | - | - | - |
| **Bootstrap, configuration, controllers, DTOs** | none | - | - | - |

How they interact: sessions, recovery, user accounts and the purge share the
`Usuario`, `RefreshToken` and `PasswordResetToken` tables and meet only there,
through row locks.  Lockout runs in front of `login`.  Disabling a
user, changing its password or e-mail, and changing the permissions of a profile
delete the cached login profiles concerned; no write deletes the cached
validity, and a membership changes without any deletion.
The audit interceptor wraps every mutating request and feeds the outbox, the
outbox feeds the audit and e-mail queues.  Guards and the tenant context run
before any handler.  The hazards of each, with the line at which they bite,
are listed in `PROJECT.json` under `hazards`.

## 2. Plan

| # | Module | Subject | Composes / refines | State |
|---|---|---|---|---|
| 1 | `AuthSessions` | sessions, recovery, `update`, purge, over shared tables with row locks | implements `SessionStore` (proved) | done |
| 2 | `SessionStore` | what those handlers promise, each as one atomic change | - | done |
| 3 | `LoginLockout` | the attempt counter and its fallback | in front of `login` of 1 | done |
| 4 | `Outbox`, `AuditTrail` | interceptor, poller, processors, queues with redelivery, crashes; what they promise together | behind the handler of 8; `Outbox` implements `AuditTrail` (proved) | done |
| 5 | `ReadCaches` | JWT validity, login profile and plan against every write that changes what they hold | writes of 1 and 6 | done |
| 6 | `Cadastro`, `CadastroStore` | creation, change, disable and restore of profiles, permissions, companies, memberships, under the extension and the unique indexes; the same operations as single steps | context granted by 8; `Cadastro` implements `CadastroStore` (proved) | done |
| 7 | `Idempotency` | lookup, lock, execution, answer | - | done |
| 8 | `HttpPipeline` | throttling, guards, interceptors, metrics, error filter of one request | hands 6 its context, 4 its events | done |
| 9 | `Listings` | cursor and page-number walks over changing tables | tables of 4 and 6 | done |

Each of 1 and 3 to 9 has a `_proofs` module.  The order was: first what
protects accounts, then what must not lose or repeat work, then staleness, then
the rest.

How the modules meet is stated where one relies on the other: `AuthSessions`
starts after the lockout check; a profile that `LoginProfile` gets from a cache
is the concern of `ReadCaches`, whose writes are the writes of `AuthSessions`
and `Cadastro` seen from one user; `RunsInCheckedCompany` of `HttpPipeline` is
what gives a request of `Cadastro` its `ctx`; `audited` of `HttpPipeline` says
which requests reach `Commit` of `Outbox`.  They are not composed into one
specification: the state spaces would multiply, and each meets the others in a
single value.

## 3. `AuthSessions`

### State and code

| Variable | Code |
|---|---|
| `usuario`, `refreshToken`, `resetToken`, `loginHistory` | the committed rows of the Prisma models |
| `draft`, `lockU`, `lockT` | what Postgres keeps for open transactions: uncommitted row versions and row locks |
| `pc`, `op` | where the handler's `async` function stands, and its arguments |
| `read` | `current.deletedAt`, which `update` keeps in a local and compares with later |
| `todo`, `wanted` | progress of an `updateMany` / `deleteMany` over many rows |
| `before` | history only: who had ended when a request began, so that properties can speak of overlap |

A password hash and a `deletedAt` timestamp are named by the request that wrote
them.  Rows keep three history fields (`parent`, `cred`, `by`) that no guard
reads.

Every awaited database statement is a step; `Begin...` runs a handler to its
first awaited result.  Transactions run under READ COMMITTED, the default that
`prisma-unit-of-work.service.ts` leaves in place:

* `SELECT` sees committed rows and takes no lock.  `findUnique` with `include`
  is two `SELECT`s (`BeginRefresh`, `RefreshUser`).
* `UPDATE` / `DELETE` of one row waits for the row's lock and evaluates its
  `WHERE` again afterwards (`Matches`, `RefreshRotate`).
* `updateMany` / `deleteMany` over tokens is four actions: `StartScan` fixes
  the rows that match, `LockRow` takes one, `QueueForRow` commits to waiting
  for one, `EndScan` moves on.
* `Abort` is a crash, a broken connection or the timeout of the interactive
  transaction, at any statement.  `DeadlockVictim` is what Postgres does with a
  cycle of waiting transactions.

| Handler | Actions |
|---|---|
| `AuthService.login` after the lockout check | `BeginLogin`, `LoginProfile`, `LoginIssue` |
| `AuthService.refreshTokens` | `BeginRefresh`, `RefreshUser`, `RefreshRotate`; reuse: scan, `ReuseThrow` |
| `UsuariosService.update` | `BeginUpdate`, `UpdateAtivo`, scan, `UpdateSenha` |
| `PasswordRecoveryService.forgotPassword` | `BeginForgot`, `ForgotInvalidate`, `ForgotCreate` |
| `PasswordRecoveryService.resetPassword` | `BeginReset`, `ResetUsuario`, scan, `ResetConsume` |
| `RefreshFlushProcessor.process` | `BeginFlush`, `LockRow`, `QueueForRow`, `EndScan`, `FlushCommit` |
| time | `ExpireToken`, `ExpireReset` |

Operators whose comment starts with "Fault" are altered forms of the action
that follows them; no behaviour uses them.  They document what each property
is able to detect (`mutants` in `PROJECT.json`).

### Abstractions

* The last statement of a transaction and its `COMMIT` are one step: nothing
  can block the transaction in between, and a crash there is a crash before
  the statement.  `RotationAtomic` therefore does not look between the
  revocation of a token and the creation of its successor: that Postgres rolls
  both back together is assumed.
* `LoginProfile` is the insert of the history row and the read of the profile.
  The insert is seen by nobody, so their order to other steps is irrelevant.  A
  profile that comes from the cache may be older than the row; since the user
  was found enabled by the request's first statement, that is the behaviour in
  which `LoginProfile` came before the disabling.
* The purge's `includeRevoked` and `cutoff` are a free choice of some expired
  rows.  A row revoked after the purge started is taken or spared.
* The change of e-mail in `update`, the caller's permission to do what it
  asks, e-mails (best effort, after the last write), claims and signatures of
  JWTs and audit are left out.

### Abstract specification

`SessionStore` has no statements, locks or transactions.  A request begins,
changes the tables in one step and ends; its guards are what a client may rely
on (who may be issued a token, which tokens must die).  `AuthSessions` refines
it with the tables mapped to themselves and `pc` mapped to
idle / running / ended.  `forgotPassword` is the one operation that is not
atomic in the code, and the abstract specification says so
(`InvalidateResets`, then `IssueReset`).

### Properties

| Property | What it says |
|---|---|
| `TypeOK` | types |
| `RotationAtomic` | a token with a successor is dead, whatever failed or was purged |
| `SuccessorsOverlap` | two successors of one token come from refreshes that overlapped |
| `RevocationCovers` | a successful password change or reset leaves no active token obtained before it began |
| `NoIssueForDisabled` | while a user stays disabled no request that began after the disabling obtains a token |
| `FlipsExclusive` | disabling succeeds only on an enabled user, restoring only on a deleted one |
| `ResetReuseOverlaps` | two successful resets with one reset token overlapped |
| `LiveResetsOverlap` | two unused reset tokens of one user come from overlapping requests |
| `ImplementsStore` | refinement of `SessionStore` |
| `EveryRequestEnds` | every request that has begun ends |

### Runs

| Run | Instance | Shows |
|---|---|---|
| `sessions` | 3 requests of `login`, `refresh`, `update`; 1 user; 4 tokens, 1 issued before; all four patches | rotation, revocation, disabling, refinement, and `IInv` (60,080 states) |
| `recovery` | 3 requests of all handlers but `login`; 3 refresh tokens, 2 issued before that may expire at any moment; 3 reset tokens, 1 issued before | reset and purge against revocation and rotation, the lock cycle of purge and revocation over two expired rows, and refinement (406,382 states) |
| `serving` | 3 requests of `reset`, `update`; two tokens to lock in either order, a reset token that may expire; fairness | liveness across lock cycles of reset and update (67,302 states) |
| `reuse_rollback` | two refreshes | a message of the code is contradicted (section 12) |

Why these bounds: each safety property names at most two requests and two
tokens, and a third request supplies the concurrent writer, so three requests
show every pairwise race with an interferer.  Two refreshes, or a login and a
refresh, need two new token rows, three requests at most three; in `recovery`
the row limit only stops a second rotation, which no property there needs and
`sessions` has.  That a reset token expires while requests run is part of
`serving`; with `k0` in `Expiring` as well `recovery` has 847,606 states and the
same answers.  One user is enough for TLC because rows of different
users never share a lock, except in the purge; the theorems
hold for any number of users.  An instance with two users and three requests
exceeds 1.2 million states and adds no run.  Requests and the identities of
rows not issued at the start are interchangeable, hence the symmetry sets;
`serving` checks liveness and uses none.

Deadlock is checked in every run: `AllServed` is the only way to stop.

### Fairness

`FairSpec` assumes weak fairness of `Serve(p)` and of `DeadlockVictim(p)` for
each request.  The Node event loop runs every continuation, Postgres answers
every statement whose locks are free, and after `deadlock_timeout` it aborts a
member of a wait cycle.  Nothing forces a request to arrive, a token to
expire or a failure to happen.  `serving` creates no rows, so its bound on
tokens cannot stop a request.

### Proofs

`AuthSessions_proofs` proves, from `ConstantsAssumption` alone and thus for any
sets of requests, users and tokens:

* `Inductive`: `Spec => []IInv`
* `TypeCorrect`, `RotationIsAtomic`, `SuccessorsOverlapped`,
  `RevocationIsComplete`, `DisabledUsersGetNoToken`, `ResetsAreOnce`,
  `OldResetsAreInvalid`, `FlipsAreExclusive`: `TypeOK`, which `IInv` contains,
  and the seven safety properties of the table
* `SessionsImplementStore`: `Spec => ImplementsStore`, the refinement

None of the six invariants among them is inductive.  `IInv` adds

* `WellFormed`: rows and requests refer to rows that exist, the author of a row
  has ended, a request is at a statement of its own handler;
* `RowLocks`: who can hold the lock of a user row, and what its draft can be;
* `Covered` and `ScanOver`: once the revoking scan has started, every token it
  must revoke is still to be locked or is locked by it.  This carries
  `RevocationCovers` over the many steps between the scan and the commit: a
  locked row cannot be rotated away, and a row not locked yet that loses its
  state to another transaction is dead anyway;
* `NotRotatedBefore`: a refresh that has passed its check presented a token
  with no successor by an earlier request, which gives `SuccessorsOverlap` at
  the insert;
* `EnabledWhenIssuing`: a request about to insert a token saw the user enabled
  after it began, which gives `NoIssueForDisabled`;
* `ResetRows` and `Addressed`: a reset token has an owner and an author that
  has ended, and a request works on the rows of its own user;
* `Consumed` and `UnusedBefore`: a reset that succeeded has used its token up,
  and one in flight was begun while the token was unused, which gives
  `ResetReuseOverlaps`;
* `InvalidatedBefore`: between the two writes of `forgotPassword` an unused
  token of the user is not older than the request, which gives
  `LiveResetsOverlap`;
* `FlipAsRead` and `Drafts`: what a PATCH has read of its user, and how the
  uncommitted row of an open transaction differs from the committed one.  With
  the guard on `deletedAt`, evaluated again under the row lock, they give
  `FlipsExclusive`;
* `ScansOwn`: what a scan wants or has locked belongs to its user and is active.

`SessionsImplementStore` takes each action of `Next` to a step of `SessionStore`
or to one that leaves its variables alone.  The statements of an open transaction
are the latter.  The last one, which commits, is the abstract change: the
locked tokens are the ones the abstract password change must revoke (`Covered`,
`ScanOver`) and no others (`ScansOwn`), and the row it commits is the old one
with nothing but the password, or the flip, changed (`Drafts`).  `FlipAsRead`
gives the guard of `Flip`, `InvalidatedBefore` that of `IssueReset`, and an
abort or a broken lock cycle is `Refuse`.  Without `Drafts` the refinement could
not be proved: a commit would publish whatever an earlier transaction had left.

The proof has one lemma per conjunct and one step per action in it; the run
`sessions` checks `IInv` on its instance.

Only model-checked: `EveryRequestEnds` (liveness under fairness is out of the
prover's reach).

## 4. `LoginLockout`

One e-mail address: keys and rows of different addresses never meet.

| Variable | Code |
|---|---|
| `counter` | the key `auth:login:attempts:<email>`, 0 when absent |
| `attempts` | rows of `login_attempts` inside the window |
| `pc` | the next awaited call of a login, or its outcome |
| `current` | the local of `recordFailure` between `get` and `set` |
| `failed`, `fresh`, `cleared`, `before` | history |

| Code | Actions |
|---|---|
| `isLocked` | `IsLocked`, `IsLockedOffline`, `IsLockedCount` |
| credentials check of `AuthService.login` | `WrongPassword`, `RightPassword`, `LookupFails` |
| `recordFailure` | `RecordGet`, `RecordSet`, `RecordOffline`, `RecordInsert` |
| `clearFailures` | `ClearDel`, `ClearOffline`, `ClearInsert` |
| time | `KeyExpires` (TTL or eviction), `RowLeavesWindow` |

`Unreliable` names the stores whose calls may fail.  A failing call throws,
which is what the `catch` blocks of the tracker are written for; a write that
fails may or may not have taken effect.  A login that stops simply takes no
further step.  No crash action is needed, since each call commits by itself.

| Property | What it says |
|---|---|
| `LockoutJustified` | no refusal by a count unless `MAX_ATTEMPTS` wrong passwords have been given |
| `SuccessResets` | after a success, a refusal by the counter rests on `MAX_ATTEMPTS` failures not over by then, or on a failure that overlapped the success |
| `SequentialFailuresLock` | failures that do not overlap are never lost from the counter |

`SuccessResets` and `SequentialFailuresLock` name the overlaps they exclude,
because the read and the write of the counter are two calls: overlapping
failures do lose increments, and a failure that overlaps a success writes the
old count back.

Run `lockout`: four interchangeable logins, `MaxAttempts = 2`, both stores
unreliable; 427,609 states.  Four logins are two failures to reach
the limit, a success or a lost update among them, and one login that observes
the result; `MAX_ATTEMPTS` is 5 in the code, and with 2 every counter value
below, at and above the limit occurs.  No fairness is assumed: there is no
liveness property.

Proofs (`LoginLockout_proofs`, from `LockoutAssumption`: finitely many logins,
`MaxAttempts` a positive number): `Inductive`, `LockoutIsJustified`,
`SuccessIsReset`, `SequencesLock`.  Each property is about what the counter
stands for, so each conjunct of `IInv` gives a bound on it, and on every value
that has been read from it and not yet been written:

* `CountBacked`: at most the failed logins that are past the write; failure rows
  belong to failed logins.  This gives `LockoutJustified`.
* `ResetBacked`: after a success that no failure overlapped, at most the failures
  that had not ended when the success began.  A value read before the deletion and
  written after it would break this, and its reader would overlap the success.
* `CountComplete`: at least the failures counted since the last deletion or
  expiry, as long as they were in sequence: of two that did not overlap the
  second has read what the first wrote.  With it a login that passes the counter
  has seen fewer than `MaxAttempts` of them.
* `Histories`: who had ended when a login began has ended.

The argument is about cardinalities and rests on the library's facts on finite
sets.

## 5. `Outbox`

The way of an audited operation into the audit log.  The interceptor takes it
twice: it stores an event in `outbox_events` and adds a job to the queue
`audit` itself, in two calls that it does not wait for.  The poller adds a job
to the queue `outbox` for each event it finds unpublished, `OutboxProcessor`
adds the job to `audit` and sets `publishedAt`, `AuditProcessor` inserts the
row.

| Variable | Code |
|---|---|
| `operation` | how far the request is: its handler has committed, it has been answered, its process stopped |
| `persisting`, `enqueuing` | the two calls of `tap` that are in flight |
| `row` | `outbox_events`; `due` stands for `scheduledFor <= now()`, `createdAt` for the order of insertion |
| `batch` | the rest of the loop of `poll`; not empty stands for the flag `polling` |
| `job` | jobs `outbox-publish`, with the statement of `process` a running one has reached |
| `auditJob`, `exhausted` | jobs `audit-log`; those that failed for good and are kept |
| `auditLog` | number of `AuditLog` rows of an event |
| `faults` | history: failures so far |

| Code | Actions |
|---|---|
| `AuditInterceptor.intercept` | `Commit`, `Tap`, `PersistOutbox`, `PersistFails`, `EnqueueDirect`, `EnqueueFails`, `RequestCrashes` |
| `OutboxPollerService` | `Poll`, `PollAdd`, `PollFails` |
| `OutboxProcessor.process` | `FindEvent`, `RouteToQueue`, `MarkPublished`, `Reschedule`, and `FindFails`, `RouteFails`, `MarkFails`, `RescheduleFails` |
| `AuditProcessor.process` | `AuditProcess`, `AuditFails` |
| the queue | `JobStalls`, `AuditStalls`: a job whose worker is gone is run again, or given up |
| time | `BackoffPasses` |

A call that fails may have taken effect.  A request, a poll and a job may each
lose its process alone, which includes the case that they lose it together.
The exponent of the backoff, the queue's own delay between attempts and the
removal of old jobs change no order that the model does not already allow.  A
worker that keeps running a job which the queue has given to another one (its
lock having expired) is not modelled.  Only events of type `audit` exist: at
this commit nothing creates another.

| Property | What it says |
|---|---|
| `PublishedIsCarried` | `publishedAt` is set only on an event that the audit log, a job of `audit` or a failed job holds |
| `OneFailureLosesNothing` | an answered operation whose calls are over is stored or carried unless two calls have failed |
| `NotRoutedAgain` | an event once published, with no job just before its routing, stays so, and nothing adds an audit job for it but the interceptor's own call |
| `ImplementsTrail` | refinement of `AuditTrail` |
| `StoredIsAudited` | a stored event reaches the audit log or a job that failed for good |

`NotRoutedAgain` says what the check of `publishedAt` achieves, and with the
exception it makes, what it does not: two jobs that have both passed the check
route the event twice.

`AuditTrail` has no calls, jobs, retries or failures.  Of an event it knows
whether its operation has committed, whether it is recorded in `outbox_events`
and published, whether the queue `audit` has received it, and how many rows the
audit log has of it.  It changes one of these at a time and never back: a record
is made once and only of what has committed, it is published only when the event
is carried, rows are written only of carried events, and an event that is carried
stays so.  `Outbox` refines it with `Committed`, `Record` and `AllCarried`.

| Run | Instance | Shows |
|---|---|---|
| `outbox` | 2 operations, 2 pollers, 2 publish jobs, 1 audit job at a time, 2 attempts each, batch of 1, 2 failures | the safety properties, the refinement and `IInv` (925,426 states) |
| `delivery` | the same with 1 poller, 1 attempt of an audit job, 1 failure, no symmetry, fairness | `StoredIsAudited` (142,489 states) |

The bounds: two publish jobs of one event are what any race of pollers, retries
and stalled jobs comes down to, and a second event competes with the first for
the batch.  Two failures are one more than `OneFailureLosesNothing` forgives,
and allow a retry to fail again.  In `delivery` the one failure makes the queue
retry a job while the poller finds the rescheduled row again; the batch of one
is filled by the oldest due event for as long as it is unpublished, and the
other waits.  With two failures it has 1.3 million states and the same answer.
With `BATCH_SIZE` 1 every poll leaves an event behind while two are pending;
`outbox` with a batch of 2 has 1.6 million states and the same answers.  Slots for jobs bound the queues: an `add` waits for a
free slot, as if it were slow.  Quiescence is `Quiet`, so deadlock is checked.

Fairness: `setInterval` fires (`Poll`), a poll goes on (`PollAdd`), time passes
(`BackoffPasses`), workers run jobs (`Work`, `AuditProcess`).  Requests have
none: a client may never call, a process may stop.

Proofs (`Outbox_proofs`, from `OutboxAssumption`: finitely many events, `None`
is none of them, positive numbers): `Inductive`, `PublicationIsCarried`,
`OneFailureIsHarmless`, `PublishedStaysQuiet`, `OutboxImplementsTrail`, for any
number of pollers, jobs and failures.  `IInv` adds to the two invariants

* `JobsOK`: a job about to set `publishedAt` is about a carried event.  This is
  where the order of `routeToQueue` and `update` matters, over a job that may be
  retried or handed over in between;
* `AnsweredOK`: which calls of an answered request can have ended without
  effect, and how many failures that took;
* `StoredOnce`: a row is inserted at most once, by a call of a committed
  operation, and every batch and job is about a stored row, so a late insert
  cannot clear `publishedAt`.

`CarriedStays` (nothing takes an event out of the audit queue but a row or a
failed job) is the lemma the first two rest on, and with them the refinement.
`OutboxImplementsTrail` takes every action of `Next` to one step of `AuditTrail`
or to none: a call that fails after it took effect is the same step as one that
succeeds, and polling, retrying, rescheduling and losing a worker are none.
`StoredIsAudited` is only model-checked.

## 6. `ReadCaches`

Three caches of 60 s that a request asks before the database: is the user of
this JWT active (`validity`), what may the user that logs in do (`profile`),
which plan has the company (`plan`).  One user and one company: keys of others
never meet theirs.

| Variable | Code |
|---|---|
| `now` | a clock that the servers and Redis share |
| `rows` | the committed versions of the `Usuario` row, with what hangs on it, and of the `Empresa` row; of a version only whether it makes its owner valid and since when it is current |
| `entry` | the three keys: version, expiry, and (history) which read stored it |
| `read`, `write` | where each reader and each writer stands, and the version the reader holds in a local |
| `answer` | what the last step has answered |
| `slowest`, `dropped`, `overtaken` | history |

| Code | Actions |
|---|---|
| `JwtStrategy.assertUserStillValid` | `JwtGet`, `JwtFindOne`, `JwtSet` |
| `PrismaUsuarioRepository.findByEmailWithPerfisAndPermissoes` | `ProfileLookup`, `ProfileGet`, `ProfileFind`, `ProfileSet` |
| `PlanoService.getPlanoByEmpresaId` | `PlanoGet`, `PlanoFind`, `PlanoSet` |
| `UsuariosService.update` | `Disable`, `Restore`, `ChangeCredentials`, then `InvalidateUserCache` or `InvalidateFails` |
| `PerfisService.update` | `ChangePermissoes`, `ListUsers`, then the same; `ChangeMembership` for `ativo`, which drops no cache |
| `EmpresasService` | `ChangeMembership` (`addUser`), `ChangePlano`, `RemoveEmpresa` |
| time | `Tick` |

Every call to Redis or to the database may fail; a failed `get` is a miss, a
failed `set` or `del` is swallowed.  `@nestjs/cache-manager` and its store are
not part of `src/`: that the cache is one Redis shared by all processes is what
`CacheModule.registerAsync` with `store: redisStore(...)` and the comments of
the code say.

| Property | What it says |
|---|---|
| `StaleBounded` | an answer is at most the time to live old, plus what the slowest fill took between its query and its answer |
| `ProfileFresh` | after an invalidation the cache holds an older profile only if its reader had queried before the deletion and stored after it |
| `NoProfileForDisabled` | a login gets no profile of a user that was disabled all the time since it began |

`StaleBounded` is what remains of "no máximo 60s" (section 12): the time to live
runs from the `set`, not from the query.  `ProfileFresh` names the one race
that an invalidation cannot win, and with it everything that may not happen.

Run `caches`: two reads and two writes of any kind, `Ttl` 1, clock up to 2;
1,344,092 states.  A stale fill takes one reader, one writer between its query
and its `set`, and one reader that gets the entry; a second writer makes the
entry older than the last invalidation.  A clock of 2 lets an entry of life 1
expire, and a fill last as long as an entry lives.

Proofs (`ReadCaches_proofs`, from `ReadCachesAssumption`, for any number of
reads and writes, any `Ttl` and any bound on the clock): `Inductive`,
`StalenessIsBounded`, `InvalidationHolds`, `DisabledGetNoProfile`.  A statement
about an answer is not inductive, since an answer comes from an entry that
came from a read.  `Ordered` says that versions follow each other in time;
`ReadsBounded` and `EntriesBounded` carry "was current when it was queried"
from the query over the local of the reader to the entry; `StoresOvertaken`
does the same for `ProfileFresh`; `LookupSawValid` says that a login which
looks into the cache has found the user active, as `findByEmail` before the
cache key hides a disabled one.

## 7. `Cadastro`

Companies, profiles, permissions, memberships, and the creation of users.  No
operation here runs in a transaction: what one query has found the next relies
on.

| Variable | Code |
|---|---|
| `row` | of every row of the four tables whether it exists and `deletedAt` |
| `perfil` | the company, the name and the permissions of a profile |
| `membro` | `UsuarioEmpresa`: the profiles of a user in a company |
| `request` | operation, context (`x-empresa-id`), arguments, the next query, the rows it has checked |
| `been`, `foreign`, `missed`, `overtaken` | history |

| Code | Actions |
|---|---|
| `PerfisService.create` | `CreatePerfil`, `CheckNome`, `InsertPerfil` |
| `PerfisService.update` | `UpdatePerfil`, `FindPerfilToPermit`, `ChangePerfil`, `ListHolders`, `FlipPerfil` |
| `PermissoesService.create`, `update`, `remove`, `restore` | `CreatePermissao`, `InsertPermissao`, `ChangePermissao`, `FlipPermissao` |
| `EmpresasService.create`, `update`, `remove` | `CreateEmpresa`, `ChangeEmpresa`, `UpdateEmpresa`, `RemoveEmpresa` |
| `EmpresasService.addUser` | `AddUser`, `FindUsuario`, `FindPerfis`, `Upsert` |
| `UsuariosService.create` | `CreateUsuario`, `InsertUsuario` |
| `UsuariosService.update` with `ativo`, which `AuthSessions` has in detail | `FlipUsuario` |

`Live`, `InContext`, `VisiblePerfis`, `Updatable` and `ListedHolders` are what
`prisma-extension.ts` makes of a query: removed rows hidden, profiles and
memberships narrowed to the company of the context.  `SoftDelete` is what it
makes of a `delete`.  `NomeUsed` is the unique index, which counts removed rows.

`UpdatePerfilDto` has every field of `CreatePerfilDto`, so one `PATCH` may change
the name, the permissions and the company of a profile, any of them or all
(`Updated`).  The extension narrows the `where` of the update and not its `data`:
a profile is written only while it is in the company of the context, but to any
company that exists, and keeps its members there (`WritePerfil`).  A request
that had found it before the move gets no row at its write (`P2025`) and
answers 404: the first branch of `ChangePerfil` and the second of `FlipPerfil`.
The unique index and the foreign key are those of the company it is moved to.

A row stands for its unique name too, except for a profile, whose name is
unique in its company.  The unique code of a profile or permission has an
index of the same kind and is left out, as are descriptions, the other columns
of a company and the renaming of a permission.

| Property | What it says |
|---|---|
| `IInv` | names of profiles stay unique, references exist, and every request in flight relies on facts that last or has been overtaken |
| `TenantScoped` | a profile is changed only by a request in the context of the company that it is in at that moment, whatever company the request found it in |
| `MembershipScoped` | a profile gets into the memberships of a company only from one that it has been in: it has been of this company, or `addUser` handed it out from another; moves add no other way |
| `InvalidationCovers` | a change of permissions drops the cache of every member in the company of the context, also if the profile is moved before they are listed; it misses only members of another company where the profile has been or was handed out |
| `ImplementsCadastroStore` | refinement of `CadastroStore`: the operations change the tables as if each were one step, unless another request has changed a row they had checked |

`CadastroStore` has the same tables and no queries.  An operation is one step,
which looks at the rows it relies on and writes.  `overtaken` is what the code
gives up by not using transactions: a request of which a row has changed after
it looked may find it in the other state, removed for live or the reverse, and a
profile in another company.  A step of an overtaken request may so link a removed
permission, make a removed user a member, disable a profile twice or hand out a
profile that has left the company of the context.  What it may not do is what
`CadastroStore` asks of every step: refer to a row that does not exist, take a
name that is taken, or disregard a check, the company of a profile included,
while nobody has interfered.

`InvalidationCovers` and `MembershipScoped` state limits of the code:
`findUserIdsByPerfilId` is narrowed to the memberships of the context, so that
members in another company keep their cached profile until it expires
(`StaleBounded`), and a profile that is moved stays with the members of the
company it leaves.  A test of the entity says that `empresaId` does not change
(section 12).

Run `cadastro`: two companies, three profiles, two names, one permission, one
user, two requests of any operation; Init is any subset of rows with one
profile, its members and permissions; 419,186 states.  Two companies tell
"context", "body" and "path" apart; three profiles are the initial one and one
creation of each request, so that names collide; two requests are each other's
interferer, every property being about one request and one that comes in
between: a move between the check and the write of the other, for one.  User rows flip at any time.

Proofs (`Cadastro_proofs`, from `CadastroAssumption`, for any rows and
requests): `Inductive`, `MembershipsAreScoped`, `InvalidationIsComplete`,
`ProfilesAreOfTheirTenant`, `CadastroImplementsStore`.  What makes the operations
right without transactions is that some of what a query finds cannot change:
rows are never deleted, and a profile has been in the company in which it was
found, though it may have left it.  That is why the history `been`, and not the
column, is in `MembershipScoped` and `InvalidationCovers`.  `Sound` lists,
for each step of each operation, which of these facts the request has
established by then; `AsChecked` says that everything else it has checked, the
company of a profile included, is as it was, or the request is in `overtaken`;
`Based`, that what its write relies on is among the rows it has checked, and
that these exist.  `TenantScoped` needs no such fact: it rests on the `where` of
the write (`Updatable`), which looks at the company again.

`CadastroImplementsStore` takes each write to the operation it belongs to and
each query to no step.  The guard of the abstract operation comes from
`Based` (the rows have been looked at and exist), `AsChecked` (they are still as
they were, and profiles in the company of the context, or the request is
overtaken) and the unique index (the name is free at the write, whatever the
check before it has said).

## 8. `Idempotency`

`IdempotencyInterceptor` for the requests that carry one key.

| Variable | Code |
|---|---|
| `at` | the next awaited call of a request, or how it ended |
| `lock` | `idem:lock:<key>`; the request that set it is history, the code stores no owner |
| `answer` | the cached answer |
| `storing`, `releasing` | `cache.set` and `redis.del` that are sent and not awaited |
| `outlived`, `lapsed`, `abandoned` | history |

`Get`, `SetLock`, `SetLockFails`, `HandlerReturns`, `HandlerThrows`,
`ReleaseAfterError`, `ReleaseLands`, `StoreLands` are the awaited calls, in the
order of `intercept`, and the landing of those that are not awaited;
`LockExpires`, `AnswerExpires` and `Stop` are time and a stopping process.  A
handler is one step from `run` to its end.

| Property | What it says |
|---|---|
| `Exclusive` | two handlers run at once only if one has lost its lock, which began with a lock that expired under its request or a `SET` that failed |
| `LockAccounted` | a lock belongs to a request at work, or to one whose `DEL` failed, that stopped, or that had lost it; a 400 is never given for nothing else |

Both are about the lock.  A retry that executes again after the first request
has answered, because the answer was not yet stored when it looked, holds the
lock by right: that is a finding (section 12), and no property forbids it.

Run `idempotency`: four requests; 139,567 states.  The longest chain the
properties tell apart takes three (the first outlives its lock, its `DEL`
removes the lock of the second, a third gets in) and one that observes.

Proofs (`Idempotency_proofs`, for any number of requests): `Inductive`,
`ExclusionHolds`, `LockIsAccounted`.  `HolderHasLock` (who is at work holds the
lock or has lost it) gives exclusion, `LapseBegins` traces the loss to its
beginning, `Pending` says which requests have calls in flight.

No module registers the interceptor at this commit (section 12).  The model is
of what it would do.

## 9. `HttpPipeline`

What `app.module.ts` installs around every handler, in its order: guards
`TenantThrottlerGuard`, `AuthGuard`, `PermissaoGuard`; interceptors for
serialization, logging, company context, audit, metrics; `AllExceptionsFilter`.

| Variable | Code |
|---|---|
| `at`, `tier` | the stage of a request, the named throttler it is at |
| `ask` | route kind, address, header `x-empresa-id`, JWT |
| `user`, `ctx` | `request.user`, `contextStorage` |
| `error`, `answer` | what was thrown, what was sent |
| `hits` | counters of `ThrottlerStorageRedisService` |
| `total`, `errors`, `bucket`, `count` | the registry's counters and histogram |
| `audited` | requests whose audit event was sent |
| `passed`, `settled`, `asked` | history |

| Code | Actions |
|---|---|
| `TenantThrottlerGuard` | `Throttle` once per tier, `ThrottleFails`, `WindowEnds` |
| `AuthGuard`, `JwtStrategy.validate` | `Authenticate` |
| `PermissaoGuard`, `EmpresaInterceptor` | `Authorize` |
| handler, `HttpMetricsInterceptor`, `AuditInterceptor` | `Return`, `Fail` |
| `ClassSerializerInterceptor`, the response | `Reply` |
| `AllExceptionsFilter` | `Filter` |

Stages between which nothing shared is touched are one action.  Of a JWT there
remain the first company and those that grant the route's permission, of a
route whether it is public, needs a session or a permission.  A plan that the
throttler gets is any plan, as `ReadCaches` decides which.

| Property | What it says |
|---|---|
| `RunsInCheckedCompany` | the handler of a route with a permission runs in the context of the company of the header, in which the token grants that permission |
| `MetricsAgree` | every handler that returned or threw is counted once; histogram, counter and errors agree; buckets are cumulative |
| `AddressBounded` | one address gets no more requests to a handler in a window than `FREE` allows |
| `AuditedDone` | an audit event tells of a handler that returned |

`RunsInCheckedCompany` is worth stating because two components decide it apart:
the guard compares the header with the token, the interceptor copies the
header into the context and compares it with nothing.

Run `pipeline`: two requests, one address, two companies, two tiers, limits 1
(`FREE`) and 2 (`PRO`), two buckets and the overflow; 1,041,101 states.  Two
requests suffice to meet in a counter and to exceed the limit of 1; two tiers
make a request that is counted by one and refused by the next; two companies
make a header that differs from the token.

Proofs (`HttpPipeline_proofs`, for any requests, addresses, companies, tiers,
limits and buckets): `Inductive`, `CompanyIsChecked`, `MetricsAreConsistent`,
`AddressesAreBounded`, `AuditIsOfDeeds`.  `Staged` says what each stage may rely
on (who is behind `AuthGuard` on a route that is not public has a user from a
valid token), `Counted` that what a tier let pass it had counted.

## 10. `Listings`

A client that reads a list page by page while rows appear, are restored and are
removed, between any two pages and between the two queries of one page.

| Variable | Code |
|---|---|
| `created`, `removed` | the table: `createdAt` and soft deletion of its rows |
| `walk` | the client's next request: list, page or cursor, limit, and the total it has been told |
| `seen`, `lasting`, `shrunk`, `early`, `cuts` | history |

A list is described by what its repository method does: is there an `orderBy`,
are removed rows hidden, may the count come first (`FindAllEmpresas`, ...,
`FindCompaniesByUser`, one definition per method).  `Pages` is `skip`, `take`
and `orderBy`: rows with one `createdAt`, and all rows of a list without order,
come in any order, another one each time.  `FindItems` and `CountTotal` are the
two queries of a page in either order, `Answer` the arithmetic of
`totalPages`; `FindMany` is the cursor of the audit log with its one row more
than the page.  A row may appear with a `createdAt` before the newest: its
`INSERT` committed last.

| Property | What it says |
|---|---|
| `AuditWalk` | no row of the audit log is shown twice; one that was there at the beginning is missing only if its time is that of the last row of a page |
| `ListingComplete` | of an ordered list every row that was shown throughout is seen, unless one was removed meanwhile, or appeared between count and items of the last page, or was created at the same time |

Run `listings`: four rows, three times, limits 1 and 2, and one above
the maximum; 568,446 states.  Four rows in pages of two are a full
page and a rest, in pages of one a walk of four; three times leave ties.

Proofs (`Listings_proofs`, for any table, times and limit): `Inductive`,
`AuditIsWalked`, `ListingsAreComplete`.  `Ahead` is the loop invariant of the
walk by cursor: nothing behind the cursor has been shown, and a row that was
there at the beginning has been shown, has the time of a cut, or is behind the
cursor.  `PagesAhead` is that of the walk by number: a row shown throughout that
has fewer newer ones than the pages read so far have places has been seen.
Rows that appear push it back, never forward, and while none is removed
(`Unremoved`) nothing moves forward.  That the last page covers it needs the
total: the number of rows when the items were read, unless one appeared between
the two queries.  The counting is in two lemmas: `PageOf` (a row that is
not on a page has fewer newer ones than that page skips, or has them all on it or
before it) and `LastPage` (the pages that `totalPages` announces have a place for
every row).  `IInv` is not listed in `listings.cfg`; added to it, TLC finds it to
hold on that instance.

## 11. Files

| File | Content |
|---|---|
| `AuthSessions.tla`, `SessionStore.tla`, `AuthSessions_proofs.tla` | section 3 |
| `LoginLockout.tla`, `LoginLockout_proofs.tla` | section 4 |
| `Outbox.tla`, `AuditTrail.tla`, `Outbox_proofs.tla` | section 5 |
| `ReadCaches.tla`, `ReadCaches_proofs.tla` | section 6 |
| `Cadastro.tla`, `CadastroStore.tla`, `Cadastro_proofs.tla` | section 7 |
| `Idempotency.tla`, `Idempotency_proofs.tla` | section 8 |
| `HttpPipeline.tla`, `HttpPipeline_proofs.tla` | section 9 |
| `Listings.tla`, `Listings_proofs.tla` | section 10 |
| `MC*.tla` | one per module: values of constants and symmetry for TLC |
| `*.cfg` | one per run |
| `PROJECT.json` | components, runs, mutants, map to the source, findings, hazards, theorems |

    tlc -config sessions.cfg MCAuthSessions.tla
    tlapm AuthSessions_proofs.tla

The runs `sessions`, `recovery`, `serving`, `reuse_rollback` are of
`MCAuthSessions`, `lockout` of `MCLoginLockout`, `outbox` and `delivery` of
`MCOutbox`, `caches` of `MCReadCaches`, and `cadastro`, `idempotency`,
`pipeline`, `listings` of the module they are named after.

Every `_proofs` module extends its module and starts from the assumption on the
constants alone.  Its theorems come in one order: `Inductive` (`Spec => []IInv`)
from a lemma for `Init` and one for a step, then one theorem per property.
Every safety property that a passing run checks, refinements included, is a
theorem. Only `EveryRequestEnds` and `StoredIsAudited` are model-checked and
not proved: liveness under fairness is out of the prover's reach.

## 12. Where code and text disagree

What a comment, a message, a test or a document of the repository says and the
code does not do.  Each is an entry of `findings` in `PROJECT.json` with both
places quoted.

Those in the first table contradict a formula of the models.  `reuse_rollback`
is a run; for the others the last column says which formula to add to which
instance to get TLC's counterexample, with the constants that differ from the
`.cfg` named first.

| Text | Behaviour | Counterexample |
|---|---|---|
| "Todos os tokens revogados" | the 403 is thrown inside the transaction, so the revocation is rolled back | run `reuse_rollback` (`ReuseRevokesAll`) |
| the transaction takes a row lock, a refresh token is "de uso único" | two overlapping refreshes both read the token as valid, both rotate | `reuse_rollback.cfg` with `SingleSuccessor` as invariant |
| "se a senha mudou, tokens antigos não sobrevivem" | a refresh that overlaps the change inserts its token after the revoking scan | `reuse_rollback.cfg`, `Kinds = {"refresh", "update"}`, invariant `OldSessionsDie` |
| "foi modificado por outra requisição" | a PATCH with `ativo` and `senha` conflicts with itself | `reuse_rollback.cfg`, `Kinds = {"update"}`, `Patches <- Combined`, property `ConflictMeansInterference` |
| "tolerar outage de Redis sem abrir o lockout" | failures counted in Redis are not in the table that replaces it | `lockout.cfg`, `Unreliable = {"cache"}`, property `OutageKeepsLock` |
| "a duplicação é benigna", the processor is idempotent | the direct call and the outbox both enqueue the event; every operation is logged twice | `outbox.cfg`, `AuditJobs = {a1, a2}`, `MaxFaults = 0`, invariant `AuditedOnce` |
| "Rate limit respeita empresaId do JWT" | the throttler runs before `AuthGuard`, and counts by address for the plan `FREE` | `pipeline.cfg`, invariant `TenantsIndependent` |
| errors are the requests with `status>=400` | the interceptor reads the status before the filter sets it; failures count as successes | `pipeline.cfg`, invariant `ErrorsCounted` |
| "codigo e empresaId imutáveis em partial update" | `PATCH /perfis/:id` writes the `empresaId` of its body | `cadastro.cfg`, property `EmpresaImmutable` |
| a removed permission "não SHALL constar no JWT" | the nested select looks neither at `deletedAt` nor at `ativo` | `cadastro.cfg`, invariant `NoRemovedGrant` |

`SuccessorsOverlap`, `RevocationCovers`, `AddressBounded`, `MetricsAgree` and
`MembershipScoped` are what does hold in place of the second, third, seventh,
eighth and ninth.

The others show in a guard or an action rather than in a formula:

* a used reset token is said to be refused, but two overlapping resets both
  pass the check made before the transaction; `ResetReuseOverlaps` is what holds;
* the tracker notes that `clearFailures` after a lockout is a no-op in Redis; the
  code deletes the key (`ClearDel`);
* the outbox is said to survive a crash before the enqueue and to be atomic with
  the commit; `RequestCrashes` between `Commit` and `PersistOutbox` loses the
  event;
* a disabled user is said to be refused after at most 60 s; the 60 s count from
  the `cache.set`, and `StaleBounded` has the exact bound;
* `IdempotencyInterceptor` is registered by no module, so `@Idempotent()` has no
  effect;
* were it registered: the cached answer is read before the lock is taken, and
  the `DEL` of the lock does not wait for the `cache.set`, so a retry can execute
  again after the first has answered (`Get`, `ReleaseLands`, `StoreLands`);
* `findByNome` asks for the company of the body, and the extension overwrites it
  with that of the context (`CheckNome`): a free name is refused, or a taken one
  goes on to the index;
* the members of a company are listed for the company of the context instead;
* the cursor of the audit log leaves out rows with the time of the last row of a
  page (`AuditWalk` says exactly which).

## 13. Not modelled

* `EmailProcessor`: nothing enqueues into `email` at this commit.  Events of
  type `email` and `refresh_flush` are produced by nobody either.
* `usuarioRepository.update`, `remove` and `restore`: nothing calls them.
* E-mail delivery and templates: `send` swallows its errors and keeps no state.
* Logging, tracing, health checks, gauges and the text format of `/metrics`:
  nothing a handler reads back.
* Controllers, DTOs, validation, configuration and bootstrap: they keep no state
  and turn a request into the arguments with which the models begin.
* The change of an e-mail alone, and which administrator may see or change whom.
* Codes and descriptions of profiles and permissions, the renaming of a
  permission, the columns of a company that no query compares.  A code has a
  unique index of the same kind as a name.
* Signatures, claims and expiry of JWTs; password hashes; the randomness of
  tokens.
* The libraries: Prisma and Postgres, Redis, cache-manager, Bull, the throttler's
  storage.  The models hold what the code relies on: READ COMMITTED with row
  locks, single-key commands that are atomic, jobs delivered at least once.
