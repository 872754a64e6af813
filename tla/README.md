# Verification of the Banco Verde IAM service

TLA+ modules, TLC configurations and TLAPS proofs for the NestJS service under
`src/`. Paths below are relative to `src/src/` unless they say otherwise.

Run `tlc -config <file>.cfg <module>` in this directory, and `tlapm <module>.tla`
for the proof modules. `PROJECT.json` lists every run with what it shows, the
mutated definition that breaks each property, and the source lines each
definition models.

## 1. The system

One Node process per instance (several may run) over one PostgreSQL database,
plus log files and a Loki server. Nothing is kept in memory between two requests
except by the two loggers.

| Component | State | Operations | Interacts with |
|---|---|---|---|
| `users/users.service.ts` | table `users` | counters and locks of password and second factor, MFA columns, temporary token, biometrics | every handler below; rows written by `update(id, cols)` or by `save(entity)` |
| `auth/auth.service.ts` `login` | none | find, lock check, password, counter, temporary token or session, audit row | users, sessions, audit, JWT |
| `auth/auth.service.ts` `refresh`, `logout` | none | validate, rotate, revoke | sessions, JWT, audit |
| `auth/mfa/mfa.controller.ts` | none | setup, verify-setup, disable, verify, verify-backup, verify-biometric, enable- and disable-biometric | users, TOTP, backup codes, JWT |
| `auth/admin.controller.ts` | none | unlock-user, reset-user | table `users` directly |
| `sessions/sessions.service.ts` | table `sessions` | create, validate, revoke, revoke all, clean up | login, refresh, logout |
| `audit-log/audit-log.service.ts` | table `audit_logs` | one INSERT per outcome, one line to Loki | login, refresh, logout |
| `common/logging/siem-logger.service.ts` | last hash, sequence number, daily files | log, resume at start, verify, close | file system |
| `common/logging/loki-transport.service.ts` | buffer, timer | push, flush every 5 s | HTTP to Loki; pushed to by the audit log, by Nest and by `main.ts`, all into one buffer |
| `auth/mfa/backup-codes.service.ts`, `mfa.service.ts`, `token-crypt`, `encryption`, `jwt` | none | pure functions over libraries | handlers |
| `notifications`, DTOs, controllers | none | pass-through | handlers |
| `database/seed/reset-users.ts` | the entities it read | clear every user, then give one after the other a new hash | table `users`, beside a running service |
| `../docker`, `../cicd`, `../siem-doc` | configuration of third-party services, CI, documents | | |

What is hard in it:

* **Every await is a scheduling point.** Requests on one instance, and instances,
  interleave between any two database statements. There are no transactions, no
  row locks and no version columns.
* **`save(entity)` is a read, a comparison and a partial write.** TypeORM selects
  the row again, finds the columns in which the entity differs and updates those
  with the entity's values. An entity read early therefore writes back every
  column that somebody else changed in between. `login` and
  `incrementMfaFailedAttempts` save entities; everything else updates columns.
* **Partial failure.** Any statement may fail and a process may die between two;
  what was written stays written.
* **The audit chain survives the process** only as far as its streams had written.
* **Requests arrive unchecked.** `main.ts` registers no ValidationPipe, so a handler
  may be called without a field its DTO asks for.

The correctness properties of each component are listed with its module below, and
the places where they could go wrong under `hazards` in `PROJECT.json`.

## 2. Modules

```
Users            one row, and what UsersService does to it (pure operators)
  Requests       table, clock, the handlers' local state, reads and writes
    Login        AuthService.login        ----.
      Reset      the reset script beside login |
    Mfa          MfaController            ----+-- Iam   all handlers over one table
Account          abstract lockout, implemented by Login with one slot
Sessions         SessionsService
  AuthTokens     refresh and logout with the tokens clients really hold
SiemChain        SiemLoggerService
LokiTransport    loki-transport.service
  AuditEvents    AuditLogService.log over it
Delivery         abstract at-most-once delivery, implemented by AuditEvents
UsersProofs, LoginProofs, ResetProofs, IamProofs, SerialProofs,
SessionsProofs, SiemProofs, AuditProofs                  theorems
MCLogin, MCReset, MCIam, MCSessions, MCAuthTokens        instances for TLC
```

### Users and Requests

A row is a function from columns to values; 0 is SQL NULL, dates are ticks of a
clock that starts at 1. `IncrementFailed` and its siblings are the bodies of the
methods of `UsersService`. `Assign` is `update`, `Changed` and `Merge` the two
halves of `save`. A password hash is a number: 1 for the one a user starts with, 2
for the one the reset script sets. Left out are columns nothing relates: e-mail,
is_active, mfa_last_verified, timestamps.

A request occupies a slot: `pc` is the await it is at, `who` its user, `entity`
the entity it read, `dirty` what its save found changed, `ok` whether its password
is right (the client's choice). `Fail` is a rejected await or a dead process.

### Login

One action per stretch between awaits: `Receive` (findByEmail), `RejectLocked`,
`WrongPassword`/`RightPassword` (the change of the entity), `LoginSelect` and
`LoginUpdate` (the save), `IssueToken`, `CreateSession` and the four audit writes.
bcrypt's await is joined with the step after it: it touches no shared state, and
the clock may move before it as well.

* `LockBacked`: no interleaving makes a row count failures that were not, or
  locks before `LockThreshold` wrong passwords. An unlock starts the count afresh
  (`wrongs` back to 0) when no request for the user is in progress (`Quiet`): such
  an unlock is final. One that lands in the middle of a request may be undone by
  its save, and the model lets it.
* `LockBounded`: no late save prolongs a lock.
* `AuditBacked`, `AuditComplete`: no success is audited without its session, no
  pending MFA without its token, and each login leaves one row or fails.
* `LockAfterThreshold`, `ImplementsAccount`: with one request at a time the
  threshold locks, and login refines module `Account`, also among the MFA
  handlers (checked in `Iam`).

`wrongs`, `streak`, `started` and `failed` are history variables for these.

### Reset

`reset-users.ts` is run by hand against the database of a service that goes on
answering: one UPDATE clears every user (`ResetClear`), one SELECT reads them all
(`ResetFind`), and then each is saved whole after a slow hash (`ResetSelect`,
`ResetUpdate`). It may die anywhere (`ResetDie`). The entities it holds are one
more set of stale copies, so `LockBacked` and `LockBounded` are checked and proved
again with it.

* `ResetHolds`: a password the script set while no request for the user was in
  progress stays, although every login saves whole entities. With a login in
  progress TLC shows the old hash written back, which is why the property has that
  condition (`secured`).

The second half of the script, which inserts test users that are missing, and
`run-seed.ts` create accounts; every account of the model exists from the start.

### Mfa and Iam

`Mfa` has the controller's handlers; a temporary token, a secret and a device are
numbers. The three exchanges share the path of the code they share and differ in
one step (`JudgeTotp`, `JudgeBackup`, `JudgeBiometric`, `Throw`). Backup codes:
the stored column is ciphertext and `verify-backup` hands it undecrypted to
`validateBackupCode`, whose `JSON.parse` fails, so no code is ever right; the
branch after a right one (`updateBackupCodes`) is not reached. A `deviceBiometricId`
the client omits altogether (rather than sending null) is not modelled.

`presented` is the temporary token a request presents, Null for a request without
one: TypeORM 0.3 leaves a condition without a value out of a `findOne`, so such a
request `Matches` every row and is served from one of them. `granted` records both
the token presented and the one in the row.

`Iam` lets logins, these handlers and the administrator interleave over one table.

* `MfaLockBacked`, `MfaLockBounded`, `BiometricCoherent`: what stale saves must
  not do, and do not: invent second-factor failures, prolong the MFA lock, leave the
  biometric method preferred with the flag off. Unlock and reset-user count afresh as
  for the password. Of `deviceBiometricId` nothing is said: it may be one request's
  beside the flag of another.
* `TokenOfUser`, `GrantedToIssued`: a temporary token serves the user it was
  drawn for, whatever saves move it in and out of rows.
  That an exchange presents one at all, as its DTO asks ("@IsString() @IsNotEmpty()
  tempToken", `auth/mfa/dto/mfa-verify.dto.ts:10`), is not so: a request without one is
  granted tokens while the row it is served from holds a token that has not expired.
  Of it the property says whose tokens these are.
* `MfaLockAfterThreshold`, `EnabledHasSecret`, `TokenSpentOnce`,
  `LatestTokenOnly`: hold with one request at a time. With two, TLC breaks each of
  them (two wrong codes counted as one; verify-setup around a disable; two exchanges
  past the same token; a stale save that puts an older token back), which is why
  `iam_serial` has one slot: what it shows is that no order of requests, failures and
  expiries breaks them, and nothing about requests that overlap.
* `RequestAnswered`: a handler that throws is answered too. It throws when another
  request has taken the secret or the backup codes away, so this needs two slots.

### Sessions and AuthTokens

`Sessions` has `validateRefreshToken` and `revokeSession` as calls that select,
compare and save while everything else moves. `save` of a row that the cleanup has
deleted inserts it again, revoked. Properties: `RevocationFinal`, `ClosedNotLive`,
`NeverLivesAgain`, `KeptUntilClosed` (no session is lost to somebody else's
revocation or to the cleanup). `AuthTokens` adds what login hands out: the JWT,
while the token stored is another one that is dropped. So no call ever matches a
session: `RefreshAccepted` is violated, and in the same way a logout revokes nothing.

### SiemChain

`pending` are the streams, `files` the disk. A stream creates its file and then
writes its entries one by one; at midnight two streams are at work. A `Crash` is the
death of the process: it loses `pending` and may cut the line being written (`bare`:
without its newline, `torn`: in the middle). What is written after such a line joins
it: the line then does not parse, and goes on (`torn`) until a newline is written
(`garbage`). What was written stays: the code never syncs, so a machine that goes down
could lose written lines as well, which is not modelled. `Restart` is `initializeFromLastLog`, `VerifyChain` is
`verifyChainIntegrity`: `Walk` the files in order, and each line `Follows` the one
before. `OrderlyChainVerifies` (every range, at every moment but the one after a
midnight at which the new stream has overtaken the old), `LossDetected` (take any
line but the last away and verification fails) and `NoFork` are about histories
without a crash, `NeighboursLinked` and `EntriesDurable` about all, deaths of the
process included.
`Stop` is an orderly `app.close()`; `main.ts` enables no shutdown hooks, so a signal
is a `Crash`. The service is not registered in a module at this commit; it is
modelled from its own code. Its forward of each entry to the Loki transport is left
out here; it would be one more push about no row, like `Announce` in `AuditEvents`.

### LokiTransport, AuditEvents and Delivery

`LokiTransport` is the buffer, the timer and the POSTs under way; `AuditEvents` is
`AuditLogService.log` over it, one action when the INSERT has answered (`Save`) and
one for the rest of the call (`Report`), so calls overlap and die between the two.
`main.ts` gives the same logger to Nest and logs a line itself when the service has
started: `Announce` pushes such an entry, about `NoRow`, at any time.
`Delivery` says what that should amount to: reports arrive at most once each, among
whatever `Other` things arrive by the same way.

* `EachOnce`: an entry is in the buffer, under way, stored or lost with its batch,
  and in one of them only.
* `ImplementsDelivery`: each row is reported at most once, across calls that overlap,
  other lines in the same buffer, batches out of order and deaths of the process.
* `LeavesProcess`: a row's entry leaves the process in the end, or the process dies.
* `AlertCounts`: the alert on `login_failed` counts every wrong password that arrived,
  and never more than there were refused logins.
* `LockedReported` is violated: `getEventType` never answers `account_locked`, since
  "login" is found first in LOGIN_LOCKED, so the alert at
  `../docker/monitoring/grafana/provisioning/alerting/alert-rules.yml:97` cannot fire.
  `AlertCounts` therefore leaves open whether `login_failed` counts these.

## 3. Runs, bounds and fairness

| Run | Module | Instance | Result |
|---|---|---|---|
| login_race | MCReset | 1 user, 2 requests, the script, threshold 2, 3 logins, 2 ticks | holds |
| login_lost | MCLogin | 1 user, 2 requests, threshold 5, 6 logins | `LockAfterThreshold` violated |
| iam_race | MCIam | 1 user, 2 requests, 2 logins, 2 exchanges, 2 ticks | holds |
| iam_bearer | MCIam | 2 users, 2 requests, 1 login each, 1 exchange, with a token or none, no biometrics | holds |
| iam_serial | MCIam | 1 user, 1 request, 3 logins, 3 exchanges, 3 ticks | holds |
| iam_bioleft | MCIam | 1 user, 1 request | `BiometricNeedsMfa` violated |
| sessions_race | MCSessions | 2 users, 2 calls, 2 sessions, 3 ticks | holds |
| tokens_refresh | MCAuthTokens | 2 users, 2 calls, 2 logins | `RefreshAccepted` violated |
| siem | SiemChain | 3 days, 5 entries, 2 deaths of the process | holds |
| siem_broken | SiemChain | 2 days, 3 entries, 1 death of the process | `UntouchedChainVerifies` violated |
| loki | AuditEvents | 3 audit rows of 4 actions, 1 other line | holds |
| loki_locked | AuditEvents | 1 audit row, 1 other line | `LockedReported` violated |

*Bounds.* Two requests are enough for every race above: each is one request's read,
another's write and the first one's write back. The proofs remove the bounds for
every safety property of the passing runs (section 4). A threshold of 2 is reached, renewed and reset within three
logins, and 2 ticks let a lock of 1 tick begin and end. Three audit rows fill two
batches under way at once and a buffer behind them, and one other line may be in any
of them; the four actions are one for each way `EventType` treats those the service
logs as far as a property tells them apart. `MaxLogins`, `MaxAsks`,
`MaxSecrets`, `MaxUnknown`, `MaxSessions`, `MaxNow`, `MaxDay`, `MaxEntries`,
`MaxCrashes`, `MaxPushes`, `MaxRows` and `MaxOthers` bound counters in the guards and stand for nothing in
the code. Slots, users and calls are interchangeable in the safety runs. `iam_bearer` and
`iam_serial` check liveness as well and declare no symmetry: the one has two requests
at a time and few kinds of them, the other one at a time and every kind. The views of `MCIam` drop
history variables that the properties of the run do not read and no guard depends on.

*Fairness.* Weak fairness of each handler's own steps: the event loop and the
database answer each await in the end. None is assumed of clients, of the clock, of
failures or of restarts. For the SIEM streams and the Loki timer the same.

The violated runs are disagreements between the code and what the repository says
of it; `findings` in `PROJECT.json` quotes each statement.

## 4. Proofs

`UsersProofs` has lemmas about rows: what `Assign`, `Merge`, the counters and the
resets preserve. `LoginProofs` proves, for all accounts, any number of slots and
all thresholds:

* `TypeCorrect`: `Spec => []TypeOK`.
* `LockSound`: `Spec => []LockBacked`. Not inductive alone: a save writes an entity
  over the row, so the entities handlers hold must be backed too
  (`EntitiesBacked`), and since `Merge` takes each column from one of two backed
  rows, the result is backed although it is neither of them. An unlock that starts
  the count afresh meets no entity of the user, so there is none it could expose.
* `LockEnds`: `Spec => []LockBounded`, with `EntitiesBounded` in the same way; the
  clock only grows, so a bound that held when the entity was changed holds when it
  is written.

The lemmas behind them are about `Service`, the steps of logins and administrators
for any set of places, so that modules that add other steps reuse them.
`ResetProofs` does, with the script's entities as one more set of copies
(`HeldBacked`, `HeldBounded`): `ResetTypeCorrect`, `ResetLockSound`,
`ResetLockEnds`. `ResetIsFinal` (`ResetSpec => []ResetHolds`) needs more:

* the service only moves hashes between copies of one user's row (`HashKept`), so a
  user all of whose copies have the new hash keeps it;
* nobody has the new hash before the script saves the user; therefore its save finds
  that column changed and writes it (`HashInv`).

`IamProofs` proves the safety invariants of `Iam` that hold with any number of
requests, from one invariant, `IamInv`:

* `IamTypeCorrect` (`IamTypeOK`), for requests that present a temporary token and for
  those that do not.
* `IamLockSound`, `IamLockEnds` (`LockBacked`, `LockBounded` among all handlers),
  `IamMfaLockSound`, `IamMfaLockEnds`, `IamBiometricCoherent`, `IamTokenOfUser`:
  `Good` says all of it of one copy of a row, and `GoodInv` of the row in the table
  and of every copy a handler holds. The lemmas about operators (`GoodOps` to
  `GoodGrows`) are free of state; `GoodStep` lifts them to steps in which nothing is
  forgotten, `GoodForgotten` to the administrator's. A save keeps the biometric
  columns together because two coherent rows differ in both of them or in neither,
  so its set of changed columns is `Paired`, and stays so until the write.
* `IamGrantedToIssued`: only `Grant` grants, for the token in the entity it holds,
  which `Good` says was drawn for the user of its slot; and that is the token the
  request presented, if it presented one (`AskedToken`).

The audit trail of login: `TrailTrue` (`Spec => []AuditBacked`) and
`EveryLoginAudited` (`AuditComplete`) in `LoginProofs`, again beside the script
(`ResetTrailTrue`, `ResetEveryLoginAudited`), and `IamTrailTrue` among all handlers.
`AuditBacked` is not inductive: a request on its way to the audit row has written
its effect and not the row, so `TrailInv` counts the requests `Waiting` to audit
with the rows, and bounds the sum by the effects. `AuditComplete` is inductive with
the types.

`SerialProofs` is about `Iam` with one request at a time, under the hypothesis
`OneAtATime` (there is one slot; `iam_serial` is such an instance). The properties
are false without it (section 2). The invariant is `SerialInv`:

* until the request in progress writes, what it holds is what it made of the row that
  is in the table (`Serial`), because nobody else writes in between; so the columns
  its save finds changed are all it changed, and `Merge` writes the entity as it is
  (`MergeChanged`);
* in each row counters, locks, secret and temporary token are related to the history
  as the last write left them (`SerialRow`). A row with an expiry has a token, so
  that an exchange without one, too, is granted against a token that is then spent.

`SerialLockout`, `SerialMfaLockout`, `SerialSecret`, `SerialSpentOnce` and
`SerialLatestToken` follow. `SerialLockoutRefines` (`IamSpec => ImplementsAccount`)
maps the initial state, and then each step: a save of a login to `Account`'s atomic
check and count, the administrator's writes to its unlock, every other step of every
handler to a stutter.

`SessionsProofs` proves every property of `Sessions`, for all users, concurrent
calls, tokens and bounds, from one inductive invariant, `SessionsInv`:

* `SessionsTypeCorrect`, `ClosedStayDead` (`ClosedNotLive`), `RevocationIsFinal`
  (`RevocationFinal`), `SessionsKept` (`KeptUntilClosed`), `NothingRevives`
  (`NeverLivesAgain`).
* `ClosedNotLive` needs to know of each call that the sessions it selected contain
  the one whose token it carries, if live (`SeenComplete`): a revocation that finds
  no match has then ended nothing live, and one that saves has saved the only match
  (`StoredInjective`). That `save` found the row revoked or gone stays a fact until
  the write (`LoadedTrue`), since no step revives a row (`Restated`, one lemma per
  kind of write). `SeenComplete` survives a creation because no client holds the
  token of a row that does not exist (`NewTokenUnsent`).
* `RevocationFinal` follows from `SeenFresh`: what a call selected was live, hence
  not closed, when it began.

`AuditProofs` has the transport and `AuditLogService.log` over it, for any number of
calls, batches and deaths. `LokiInv` says that buffer, batches under way, stored and
lost entries are disjoint, without repetition, and together everything pushed:
`NoEntryTwice`. Every step of the calls is a step of the transport or leaves it
alone, so that holds under them. With `OneEntryEach` (no row is reported by two
entries, however many are about none) follow `AuditTyped`, `AlertTrue` (by an injection from entries to rows) and
`TrailDelivers`, the refinement of `Delivery`: `Save` is its SetOut, a batch stored
its Arrive, a batch refused or a death its Lose, everything else a stutter.

`SiemProofs` has the hash chain, for any number of days, entries and crashes.

* `SiemInv` holds whatever crashes: a day's file with what its stream holds is one
  `Linked` sequence, and the two fields continue its last entry if that entry is of
  this run (`EndsIn`). A line that was cut and what is appended to it no longer parse,
  so that nothing is asked of their neighbours (`LinkedSpoiled`, `LinkedCut`). From it
  `SiemTyped`, `SiemNeighbours` and `SiemDurable`.
* `Orderly` holds until the first crash: the days' sequences, one after the other,
  are the entries 1 to `logged` (`Counts`; `base[d]` is how many there are up to day
  d). A restart needs it: the last line of the last file is the last entry
  (`LastFileCounts`), since a stream creates its file only when it has something to write.
  `SiemNoFork` follows, because an entry is in one place (`OnePlace`).
* `SiemVerifies` (`OrderlyChainVerifies`) and `SiemLoss` (`LossDetected`) are about
  `Walk`, a recursive function over the days. `WalkIs` proves that the function
  exists, so that it may be unfolded, and `UpTo` carries a fact from day to day.
  What is read of a file is either all of its day, or nothing is read after it
  (`DayRead`), so the walk has the first entries of the chain. Of a missing line the
  successor is still read, and no line before it has the hash it carries.

The library's theorems of induction take an operator, which the provers here cannot
instantiate; `LeastNumber` and `UpTo` do without, from the well-foundedness of the
finite sets.

Assumptions: the named ASSUMEs of `Users`, `Requests`, `Login`, `Mfa`, `Sessions`,
`LokiTransport`, `AuditEvents` and `SiemChain` (thresholds, lock and session lengths at
least 1, `NoUser` no account, finitely many slots, foreign tokens none of the service's
own, at least one day, bounds natural, every row and other line may be pushed), and
`OneAtATime` where a theorem names it.

Only model-checked: liveness (`RequestAnswered`, `PendingWritten`, `LeavesProcess`),
since temporal properties under fairness and ENABLED are beyond the provers here;
`LockAfterThreshold` and `ImplementsAccount` are proved of one slot and refuted by
TLC of two. `AuthTokens` has no theorem: its run is a counterexample.

## 5. Not modelled

Cryptography, TOTP, JWT signatures, rate limits (libraries, stateless here);
notifications, which no handler sends; formatting of log lines and the log schema;
creation of accounts by the scripts; third-party configuration under `src/docker`;
the second half of `refresh`, which no issued token reaches; the branch of
`verify-backup` after a right code, which no stored code reaches.

## 6. Plan

Every safety property and refinement of the passing runs is a theorem. Left are:

1. `AuthTokens`: since no client holds a stored token, that no `refresh` is ever
   accepted and no `logout` revokes anything, for every instance.
2. `SerialProofs` with the weaker hypothesis that no two requests in progress work for
   the same user, instead of one slot.
