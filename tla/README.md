# A verification of fxa-auth-db-postgres

`fxa-auth-db-postgres` stores the accounts of an authentication server: sessions, tokens, devices,
emails, one-time codes, recovery codes, second factors, security events. It is an HTTP API over one of
two stores: JavaScript objects (`lib/db/mem.js`, what `index.js` and `bin/mem.js` start) and a
database reached through stored procedures (`lib/db/postgres.js` and `lib/db/schema/`). The modules
here are TLA+ models of both, checked with TLC and, in part, proved with TLAPS.

Two remarks on the code as it is:

- The port from MySQL is unfinished. `lib/db/postgres.js` still ends in `MySql.prototype...` (line
  1574) and does not load, and the procedures are in MySQL's dialect. They are modelled by what they
  mean in the dialect they are written in: each statement outside `START TRANSACTION` commits by
  itself, a plain `SELECT` takes no lock, a duplicate key rolls the transaction back through the exit
  handler. The database engine itself is external.
- A procedure has many versions, one per schema patch that changed it. The version that
  `lib/db/postgres.js` calls at this commit is the one that is modelled.

## Inventory

| Component | State | Operations | Talks to |
|---|---|---|---|
| Session and key-fetch tokens | `sessionTokens`, `keyFetchTokens`, `unverifiedTokens` | create, update, delete, verifyTokens, verifyTokenCode, verifyTokensWithMethod | devices, security events, prune, accounts |
| Devices and device commands | `devices`, `deviceCommandIdentifiers`, `deviceCommands` | create, update, delete, list | sessions (a device uses one), connection pool (`writeMultiple`) |
| Security events | `securityEvents` | create, list | `unverifiedTokens` (is the session verified?) |
| Accounts and emails | `accounts`, `emails` | create, delete, reset, createEmail, deleteEmail, setPrimaryEmail, verifyEmail | everything with a uid |
| Password-forgot, password-change, account-reset tokens | three tables with one row per account | create, delete, forgotPasswordVerified, resetAccount, resetAccountTokens | accounts, emails |
| Recovery codes | `recoveryCodes` | replace, consume | scrypt between their database calls |
| Sign-in codes, unblock codes | `signinCodes`, `unblockCodes` | create, consume | emails (join), prune, accounts |
| TOTP, recovery keys | one row per account | create, read, update, delete | accounts |
| Verification reminders | `verificationReminders` | create, fetch (deletes what it returns), delete | named lock |
| Pruning | `dbMetadata`, `GET_LOCK` | `prune_7`, started by a timer of every server | all token tables, devices |
| Connection pool | connections, queue | getConnection, singleQuery, multipleQueries, transaction, retryable | every call of the PostgreSQL store |
| In-memory store | plain objects | all of the above | event loop, scrypt on the thread pool |
| HTTP API, error mapping | none | 60-odd routes | the store |
| Schema migrations, start-up, scripts | schema patch level | | |

What makes these hard: no foreign key ties the tables together (only the procedures do); several
procedures read without a lock, or outside a transaction, what they act on later; scrypt separates
the halves of the recovery-code operations in both stores; connections fail, are lost, run out, and
transactions are retried; requests for one account overlap; rows expire and are pruned meanwhile.
`PROJECT.json` lists the places, line by line, as hazards.

## Modules

| Module | Models | Extends / instantiates |
|---|---|---|
| `AddressBook` | abstract: whose an email address is, and which one is primary | |
| `Accounts` | accounts, emails, reset tokens, TOTP, recovery keys of the PostgreSQL store | implements `AddressBook` |
| `MemAccounts` | the same of the in-memory store, with its queue of callbacks | implements `AddressBook` |
| `DeviceCommands` | createDevice and updateDevice with the commands of a device; reading them back | |
| `Prune` | the timer, `prune_7` and its named lock, next to the requests that use sessions | |
| `TokenLifecycle` | abstract: what a session or key-fetch token may go through | |
| `SessionTokens` | the five token, device and event tables and the procedures on them | implements `TokenLifecycle` |
| `MemTokens` | sessions, key-fetch tokens, devices and events of the in-memory store | implements `TokenLifecycle` |
| `SingleUseCodes` | abstract: codes that are accepted once | |
| `AccountCodes` | recovery, sign-in and unblock codes of the PostgreSQL store | its recovery codes implement `SingleUseCodes` |
| `RecoveryCodesMem` | recovery codes of the in-memory store | implements `SingleUseCodes` one request at a time |
| `ConnectionPool` | getConnection, singleQuery, multipleQueries, transaction, retryable | |
| `MC*` | small instances for TLC | |
| `*_proofs` | TLAPS proofs about the module of that name | |

Definitions named `<Operation>_<Fault>` are faulty variants of an operation. No specification uses
them; putting one in the place of the operation must violate the property it was written for, which
shows that the property depends on that piece of code (`mutants` in `PROJECT.json`).

### SessionTokens

A table is a function from keys to rows or `None`; `securityEvents` is a set of rows. Columns no
property distinguishes (user agents, times of last access, names) are left out;
`verificationMethod` stands for itself and `verifiedAt`, which are always written together. Token ids
are 32 random bytes and hashes of them, so an id belongs to one account for ever: `OwnerOf`.

A transaction whose reads lock is one action (`CreateSessionToken`, `DeleteSessionToken`,
`VerifyTokensWithMethod`, `ResetAccount`, ...). Four procedures are two actions each, with what the
connection remembers kept in `calls`: `verifyToken_3` (two autocommitted statements),
`verifyTokenCode_1` (SELECT before START TRANSACTION), `createSecurityEvent_3` (lookup, insert) and
`deleteDevice_3` (SELECT, multi-table DELETE). `ConnectionLost` stops any of them half-way.
`ExpireCode` is time passing a code's expiry. `PruneSessionTokens` leaves open which sessions are in
`prune_7`'s window of `createdAt`, and keeps those a device uses.

One thing is assumed of the callers (`DeviceStep`): the session that a request gives for a device is one of the
same account. `createDevice_4` and `updateDevice_5` do not check it, nor does `lib/db/mem.js`. With another account's session
`deleteSessionToken_3`, which looks for devices under the session's uid, would leave the device behind, and `deleteDevice_3`
would delete a session of the other account: `SessionTakesItsDevices` and `OneAccountPerStep` hold under the assumption only.

What is checked and why:

- `UnverifiedRowsOwned`: `unverifiedTokens` makes a token unverified just by having its id. A row
  that outlives its token would make a later token's state depend on a dead one; nine procedures delete
  tokens and must each delete the right rows.
- `MustVerifyAgrees`, `MustVerifyNeverDropped`: `mustVerify` is in two tables, and
  `sessionWithDevice_16` reads whichever has it.
- `MethodOnlyWhenVerified`: no session that says how it was verified is unverified.
- `SessionTakesItsDevices`: whatever deletes a session, no device still uses it afterwards.
- `EventsVerifiedWithTokens`: events become verified with, or one statement before, their tokens.
- `OneAccountPerStep`: `tokenVerificationId`s are chosen by callers and may coincide between
  accounts; no step but pruning changes rows of two accounts.
- `LifecycleSpec`: under the mapping `StatusOf` (absent, unverified, verified) the tables implement
  `TokenLifecycle`: a verified token is never unverified again, verification and revocation stay within an
  account. `TokenLifecycle` states the first two as `VerifiedForGood` and `VerifiedByAccount`, and the proofs carry them
  over to both stores.

### MemTokens

The same five collections in `lib/db/mem.js`, where the difficulty is a different one. A function without
promises is one step (`CreateSessionToken`, `UpdateSessionToken`, `VerifyTokens`, `VerifyTokenCode`,
`CreateSecurityEvent`, ...), so nothing interleaves with it. Everything that finds an account with
`getAccountByUid` continues in a later turn of the event loop, and two functions continue twice:
`deleteSessionToken` (devices, then rows) and `verifyTokensWithMethod` (read, verify, record). `calls[r]` is what
the closure of request `r` holds until then. The turn in which an account is merely looked up is merged
with the one before it. A callback keeps the account's object when the account is deleted meanwhile, which is
why `devices` is there for every uid and `accounts` says which are still reachable. Accounts are not
created again: a uid is random.

What is checked and why:

- `EventsFollowTokens`: an event has no `tokenVerificationId` here; `verifyTokens` finds it through
  the token's id. For a token that exists the event and `unverifiedTokens` always say the same, which the
  PostgreSQL store does not keep up (see the disagreements below).
- `MustVerifyKept`: `updateSessionToken` may reset the session's flag but never that of the unverified
  token, and `sessionToken()` answers the disjunction. (The copies do not agree as in PostgreSQL, so the
  property is another one.)
- `MethodOnlyWhenVerified`: the same promise as in PostgreSQL, kept over three turns instead of by one
  transaction.
- `DeviceKeysPointBack`: `session.deviceKey` is how the store knows that a session is taken. It always
  names a device that uses the session, except between the turns of that session's deletion. (The run has one device id,
  so that no request there is refused because another device has the session: two device ids do not finish in the time of a
  run. That a refused `updateDevice` keeps the property rests on `DeviceKeysAlwaysPointBack`.)
- `LifecycleSpec`: the refinement of `TokenLifecycle` again, so both stores keep one promise.

Faithful oddities of the in-memory store that are in the model: `verifyTokenCode` looks the code up in every
account and verifies the `tokenVerificationId` it finds for the account of the request; `createSessionToken`
does not ask whether the account exists; `deleteDevice` of a device without session fails with a
TypeError after deleting the device; a device created between the turns of `deleteSessionToken` stays behind.

### AccountCodes, RecoveryCodesMem, SingleUseCodes

scrypt runs outside the database (and, in the in-memory store, outside the event loop), so replacing
is delete - hash - insert, and consuming is read - compare - delete. `SingleUseCodes` says what that
must amount to: a code is issued once, accepted once at most, and accepting it removes no other. In
`AccountCodes` the last DELETE checks its row count, and the promise holds with any overlap, any
failure (`RequestFails`) and with account deletion. `generated` and `uses` are history variables.

`RecoveryCodesMem` keeps the order of the array and the index that a consumption found before it
waited. One request at a time it keeps the promise (`MemRecoverySerial`, all that the tests of the
repository try). With two it does not (`MemRecoveryTwice`).

The other kinds in `AccountCodes` are consumed differently: `consumeSigninCode_4` and `consumeUnblockCode_3`
each are a SELECT without lock whose row is the answer, then a DELETE whose count nobody reads. Two
overlapping requests can both succeed. What does hold is `AcceptedCodesGone`: once a request was answered, no later request finds its code, whatever
expired, was pruned, or belonged to a deleted account.

### ConnectionPool

One pool and the requests that use it. `at[r]` says where request `r` is in the promise chain:
asking, queued, setting the connection up, in its only or first queries (`query`), in the final query of
`multipleQueries` (`final`, which `.finally` sends whatever became of the others), or in BEGIN / body / COMMIT /
ROLLBACK of `transaction`. A request that is no transaction turns out to be a `singleQuery` or a
`multipleQueries` when its query is answered. `Refused` and `Settle` are the two uses of `retryable`. The pool is a
library; from its configuration it opens up to `connectionLimit` connections and queues up to
`queueLimit` requests (`Available`, `Grant`, `ConnectFails` and `PoolStep` are external). `Faults` says what may go
wrong: a connection cannot be opened (`connect`), a set-up query fails (`setup`), a statement fails
with a lock error (`lock`) or another one (`other`), the connection is lost (`lost`), possibly after
the server has carried out the COMMIT, and ROLLBACK fails on a connection that is not lost (`rollback`).

`retryable` is taken to recognise lock errors, as it is written to; which numbers would arrive from the
unfinished port is open.

The safety properties: a connection has one user; a transaction is open only on the connection of
the request it belongs to, while that request is at work; retrying never applies a transaction twice. The second one has
an exception, because the code does: after a ROLLBACK that failed on a living connection `transaction` releases it
all the same, and nobody looks at it again (`RollbackFails`, `unrolled`). The transaction stays open: single queries of other
requests run inside it, and a BEGIN or a procedure's START TRANSACTION on that connection commits it
(`CommitOpen`, `Procedures`), although its request was answered with an error. `OnlyOnesOwnTransaction` proves that nothing
else leaves one open, and `NeverAppliedTwice` that even such a transaction is committed once at most: an error of ROLLBACK takes
the place of the lock error, so it is not tried again.

`QueueServed` is the safety behind an answer: while a request waits, the pool can serve it, or another request is at
work and will release its connection, or every connection was abandoned by `getConnection`. So no path through
`singleQuery`, `multipleQueries` and `transaction` keeps a connection, and no two requests wait for each other. `EveryStepProgresses`,
a theorem, says that each step takes one request further along its first or second try and none back: retrying ends, and the pool can only
come to rest where `QueueServed` says. The liveness property `AnsweredUnlessPoolBroken`: every request is answered, unless `getConnection`
itself went wrong. There are two ways, both in the model: it settles nothing when the pool refuses a connection
(`Refused`, which ends in `hung`), and a connection is never released when a set-up query failed (`SetupFails`).

Fairness (`FairSpec`): weak fairness of each request's steps (the database answers a query or fails
it, and a settled promise runs its callbacks) and of the pool serving its queue. Nothing is assumed of
which fault occurs.

### AddressBook, Accounts, MemAccounts

`AddressBook` says what both stores promise about email addresses: an address belongs to one account at a time,
an account can promote its own addresses only, it keeps its primary one until it closes, and a verified address
stays verified while it is kept.

`Accounts` has the seven tables. A procedure whose reads lock is one action. `deleteEmail_3` (SELECT COUNT, then
DELETE, outside a transaction) and `createRecoveryKey_3` (SELECT COUNT, then INSERT, in a transaction whose plain SELECT
takes no lock) are two actions each, on a connection that may be lost between them. That `setPrimaryEmail_2` can run in
the gap is the hazard; that the DELETE asks for `isPrimary = false` once more is what saves it
(`DeleteEmail_Trusting` does not). `createEmail_2`, the creation of tokens and of TOTP rows do not look at the account,
so the model lets them come after `deleteAccount_15`. `forgotPasswordVerified_7` uses a token that its caller read
some time ago, and makes an account-reset token whether or not the former is still there.

`MemAccounts` is `lib/db/mem.js`. What a function does before it returns is one step. What it does in the callback
of `getAccountByUid(...).then` waits in `queue`: bluebird collects callbacks while request handlers run, then
drains the queue in order, and no handler runs before it is empty (`draining`, `Handler`, `Turn`). The callback of
`deleteAccount` keeps the account's object, and deletes its address from the index without looking at it again:
two closures in one drain, or one that follows a reset, must not hit another account's entry.

What is checked and why:

- `OnePrimary`, `OnePrimaryUnlessForeign`: `accountRecord_3`, `consumeSigninCode_4` and `sessionWithDevice_16` join
  with the primary row and find nothing, or two rows, unless there is exactly one. The in-memory `setPrimaryEmail` accepts
  an address of another account, and promises nothing from then on (`foreign`).
- `RecordsAgree`: three collections of the in-memory store say whose an address is. `emailRecord` and
  `accountRecord` never name different accounts for one address. (In PostgreSQL they may: `createEmail_2` does
  not look at `accounts.normalizedEmail`.)
- `OutdatedTokensGone`, `TokensCurrent`: a token that a reset or closure ended never comes back, in whatever order
  tokens were made, replaced, exchanged, deleted and pruned; in memory an account also has one of each kind.
- `NothingLeft`: nothing ties the tables to `accounts`, yet when an account goes everything of it goes in
  the same step. `DELETE FROM emails` came into `deleteAccount` 45 patches after the procedure. (In `Accounts` a theorem, in
  `MemAccounts` also a property of its run.)
- `BookSpec`, `BookUnlessForeign`: the refinement of `AddressBook`.

### DeviceCommands

`createDevice` and `updateDevice` send a list of statements through `writeMultiple`: the device, for an update
that gives commands a purge, and one `upsertAvailableCommand_1` per command. The list runs inside `transaction`, which tries it
once more after a lock error. But `upsertAvailableCommand_1` has a `START TRANSACTION` of its own, which commits what
came before: a request that fails is left half done, and one that is retried meets what its first try has
committed. `calls[c].at` is the statement sent next, `left` the commands not yet stored, `named` says that this
request has inserted the name of a command and not committed it, which other requests wait for.

- `OkMeansExactly`: in spite of that, a request answered "ok" that no other overlapped leaves the device with exactly
  the commands it gave.
- `ErrorMeansPart`: one answered with an error did nothing or a part of what it was asked, never a mix with
  what was there before; and "duplicate" and "notFound" say truly whether the device is there.
- `ReadsAgree`: `aggregateNameValuePairs` merges neighbouring rows with one id. Over every order that the
  SELECTs leave open, what it returns is what the tables hold, with each session without a device apart.
- `WaitsEnd`: requests wait for each other's rows and names, and nothing orders these locks but the sequence of the
  statements. Still they never wait in a circle: who is waited for is at work, and a chain has two links at most, because a
  request gives up its device's row before it inserts a name, and asks for the row alone while it has the name.
- `OnlyForward`: a request goes from look to store again and again and may start over after a lock error. Each
  of its steps takes it to its second try, past a command, or to the next statement, and no other request sets it back. (A theorem.)
- `EveryCallAnswered`, under weak fairness of each request's statements: what the two above amount to.

### Prune

The timer of `lib/db/postgres.js` on any connection of any server, and `prune_7` statement by statement:
`GET_LOCK`, the two SELECTs that find the window of `createdAt`, the DELETE, the COMMIT with `RELEASE_LOCK`. Clients create, use,
leave and delete sessions in between. The DELETE locks what it removes and what it looked at in `devices` until COMMIT (`Doomed`).
The exit handler rolls back and leaves the named lock with the connection, which goes back to the pool (`StatementFails`).
`LocksNest` says whether a connection that takes the lock twice must release it twice: MySQL does so from 5.7, while
`.travis.yml` tests with 5.6; the proofs are for both, the runs for 5.6. `BurstAssumption` is what the code
needs and nobody promises: when as many sessions as the LIMIT (10000) are created in one millisecond, the window never gets past
them (see `WindowAdvances`).

- `NothingSkipped`: `prunedUntil` lets a run skip what earlier ones have seen. It passes no session but those a device
  used when their window was swept, wherever runs fail or stop. (Callers set `createdAt` by their own
  clocks; the model takes them to be less than `pruneTokensMaxAge` apart.)
- `OnlyOldAndUnused`: at the moment a session is pruned, not just when the run began, it is old and no device uses it.
- `WindowMovesOn`: runs of several servers never move the window back. This is what the lock is for (`GetLock_Unchecked`).
- `WindowAdvances`: a run looks from `prunedUntil` on (`>=`) and sweeps beyond it (`>`), so it meets the sessions of that
  millisecond again which devices kept. They never fill its LIMIT: the window ends beyond `prunedUntil` unless nothing
  old is left there. (The comment in `patch-068-069.sql:58`, "we will definitely be able to increase", forgets that case:
  when only kept sessions of the last moment are left, a run commits the window it found.)
- `OldSessionsGo`, under weak fairness of the timer and of each connection's statements: every session that is
  old enough goes, unless it was kept for a device or a failed run has left the lock with an idle connection.

## Runs

| Run | Instance | Shows |
|---|---|---|
| `TokensTwoAccounts` | 2 accounts with a session each, 1 key-fetch token, 1 device id, 1 connection | `UnverifiedRowsOwned`, `OneAccountPerStep`, the refinement |
| `TokensOneAccount` | 1 account, 2 sessions, 1 key-fetch token, 2 device ids, 2 connections, 2 events; sessions, devices and connections are interchangeable (symmetry) | agreement of the copies, devices, events |
| `MemTokens` | in memory: 1 account, 2 sessions, 1 key-fetch token, 1 device, 1 verification id, 1 code, 1 event, 2 requests (sessions and requests are interchangeable) | events, `DeviceKeysPointBack`, `MethodOnlyWhenVerified`, `MustVerifyKept`, the refinement, under overlap |
| `AccountCodes` | 2 accounts, 3 recovery codes, 1 sign-in and 1 unblock code, 3 requests (accounts, codes of a kind and requests are interchangeable) | `SingleUseCodes`, `AcceptedCodesGone` |
| `MemRecoverySerial` | 2 accounts, 4 codes, 1 request at a time | `SingleUseCodes` |
| `MemRecoveryTwice` | 1 account, 2 codes, 2 requests | violated: one code is consumed twice |
| `Pool` | 1 request of queries and 2 transactions, 2 connections, queue of 1, every fault, fair | safety of the pool, liveness |
| `Accounts` | 2 accounts, 2 addresses, 2 tokens, 1 connection, all interchangeable | one primary address, tokens, `AddressBook` |
| `MemAccounts` | in memory: 2 accounts, 2 addresses, 2 tokens (interchangeable), 2 callbacks that wait, 1 second factor | agreement of the collections, tokens, closures, `AddressBook` |
| `DeviceCommands` | 2 requests, 2 devices, 2 names of commands, every error, fair | types (which have the foreign keys), what answers mean, reading back, who waits for whom, no request waits for ever |
| `Prune` | 3 sessions, 2 connections (both interchangeable), LIMIT 2, 5 moments, 1 lost connection | what is skipped, what is removed, the window moves on |
| `PruneProgress` | 2 sessions, 2 connections, LIMIT 2, 4 moments, 1 lost connection, fair | old sessions go |

Why the bounds are enough for what they show. The token procedures relate a session, its unverified
row, its device and the rows with the same `tokenVerificationId`: two sessions and a key-fetch token give two of each,
in one account and across two; two connections give every pair of interleaved procedures. In memory the
same, in one account; that another account's tokens stay out of it rests on the proofs. A third
request adds a consumption to two replacements of recovery codes, or the reverse. One sign-in and one unblock code can be
accepted by each of three requests, next to recovery codes of the same accounts; that two codes of one
of these kinds do not disturb each other rests on the proof of `AcceptedCodesStayGone`. The pool has more requests than
connections and more than the queue holds, so that requests wait and are refused; two transactions, so that one meets what the
other's failed ROLLBACK left. Two addresses are a primary
and another one, of one account or of two; one connection is enough for `deleteEmail_3`, whose gap every other procedure
may use. Two waiting callbacks of `MemAccounts` are two closures, or a closure and anything else, in one drain.
Two requests on two devices with two names are enough to be retried after either name, to insert the same
name at once, and to have two devices' rows in one result. A chain of waiting may have a third
request (`WaitsEnd`); that it has no more, and no circle, for any number of requests is `WaitsAlwaysEnd`. Three sessions and a LIMIT of two are what it
takes for the LIMIT to cut a window short, and for a window to begin at a session that an earlier one kept; a second run comes
during, after and instead of the first. Three sessions are too many to check liveness, so `PruneProgress` has two, which are
in one window or each in its own.

Bounds: `MaxEvents` (distinct events), `Counts` (codes per replacement), `MaxQueue` (waiting callbacks), `MaxFactors` (TOTP
tokens and recovery keys), `MaxTime`, `MaxLosses`, the sets of ids. Histories are bounded by the ids, which are
used once each. `CHECK_DEADLOCK FALSE` stands where the system may stop: when every request of the pool or every request
for devices was answered, and in the in-memory recovery codes, when all accounts are deleted.

Fairness is assumed in three runs: `Pool`, `DeviceCommands` and `PruneProgress`. In each it is weak fairness of what the
database or the event loop does next for a request that has been sent; no client has to make a request, no fault has to
occur or to stay away. In `PruneProgress` also of the timer, which the code sets again after each run, whatever came of it.
The other modules state no liveness property: an HTTP client may always stop.

Disagreements between the code and its documentation or tests are in `PROJECT.json` under
`findings`, with the run that shows it. More were met and are not runs of their own. In what a module models:

- two overlapping replacements of recovery codes leave the codes of both (`ReplaceDelete` twice, then
  `ReplaceInsert` twice), although `replaceRecoveryCodes` "Replaces user's recovery codes with new ones"
  (`docs/DB_API.md:914`);
- two overlapping requests both consume one sign-in code (`ConsumeSigninSelect` twice), although it is
  "single-use" (`docs/DB_API.md:720`). `AcceptedCodesGone` is what holds instead;
- when a set-up query fails, `getConnection` rejects without `connection.release()` (`postgres.js:1163`,
  `SetupFails`): requests behind it may wait for ever; and when the pool refuses a connection, it settles nothing
  (`postgres.js:1150`), although `docs/DB_API.md:905` has "any error from the underlying storage system" rejected;
- an event that `createSecurityEvent_3` inserts between the two statements of `verifyToken_3` stays unverified for ever,
  although "should get event after session verified" (`db_tests.js:1278`): `VerifyTokenEvents`, `SecurityEventInsert`,
  `VerifyTokenRows`;
- the in-memory `updateDevice` makes the device's old session forget it before it knows whether the new one is free.
  Refused, it leaves a session that a second device may take, although "should fail add multiple device to session"
  (`db_tests.js:1006`);
- `deleteDevice_3` answers with the session id of a SELECT that precedes its DELETE, so after an
  overlapping `updateDevice` it is not "the associated session token, which was also deleted"
  (`docs/DB_API.md:829`); in the model, `UpdateDevice` between `DeleteDeviceSelect` and
  `DeleteDeviceRows`.
- `replaceRecoveryCodes` inserts for an account deleted meanwhile (`ReplaceInsert` after
  `DeleteAccount`), although "should remove codes when account deleted" (`db_tests.js:2242`).
- `setPrimaryEmail` of an address that is not the account's answers duplicate in PostgreSQL (`setPrimaryEmail_2`'s SIGNAL), notFound
  in memory and in `docs/DB_API.md:445`; in memory another account's address is accepted (`foreign`);
- `createDevice` may answer duplicate for a device that did not exist: its own first try was committed half-way and then
  retried, or another request inserted the same name first (`InsertName`). `docs/DB_API.md:743` has duplicate only
  "if a device already exists";
- two unblock codes of one account can both be accepted (`ConsumeUnblockSelect` twice, then
  `ConsumeUnblockDelete` twice), although "should fail to consume old unblock code"
  (`db_tests.js:1474`).

The two stores differ in answers that the modules leave out:

- `updatePasswordForgotToken` of a missing token is notFound in memory and a success in PostgreSQL. So is
  `updateTotpToken`, whose affected rows are those of the UPDATE of `accounts` that comes last;
- `forgotPasswordVerified` verifies the address that is primary by then in PostgreSQL, the one the account was created with in
  memory (both are modelled);
- reads of a password-forgot, password-change or account-reset token or of a sign-in code whose account is gone throw a TypeError in memory;
- `deleteAccount` leaves unblock codes and reminders in memory, `verificationReminders` in PostgreSQL;
- `verifyTokensWithMethod` with the method `email` is rejected, since its number is 0 and `0 || undefined` is taken for none;
- `updateTotpToken`, `verifyTokens`, `verifyTokenCode`, `verifyTokensWithMethod` and `consumeSigninCode` write
  through the pool of the read replica.

## Proofs

Every theorem is proved for all values of the constants that satisfy the assumption named in the
module: ids of the two kinds differ, ids have an account, `NULL` and `None` are no values, the faults
are among those named, `pruneTokensMaxAge` is positive and fewer sessions than the LIMIT share a millisecond.
The sets need not be finite, except where a theorem says so.

- `SessionTokens_proofs`: `IInv` is inductive. It adds two conjuncts to the properties.
  `TokensOwned` (the uid of a row is the id's owner) is what makes a DELETE by uid delete a
  token together with its unverified row. `DevicesOwnSessions` (a device uses a session of its own
  account, shared with no other device) is why deleting a session through its uid finds its devices. One lemma per
  group of procedures, one step per action. From `IInv` follow the invariants
  (`UnverifiedRowsAlwaysOwned`, `MustVerifyAlwaysAgrees`, `MethodAlwaysVerified`), the action properties
  (`MustVerifyMonotone`, `DevicesGoWithSessions`, `EventsGoWithTokens`, and `OneAccountAtATime`, for which each action
  names the account whose rows it touches and `TokensOwned` does the rest), and the refinement `TablesImplementLifecycle`:
  each action is an Issue, a Verify, a Revoke, an Expire, or leaves every status alone. What the abstract steps imply
  then holds of the tables (`LifecycleKeeps`): `VerifiedStaysVerified` and `VerifiedWithinAccount`.
- `MemTokens_proofs`: what a step may do is first said without naming the function (`TokensKept`,
  `EventsKept`, `WaitsKept`, `StatusKept`, `MethodsKept`, `MustKept`), proved once per action, and the
  conjuncts of `IInv` follow from those. `IInv` adds `IdsIssued` (an id in use will not be minted again, so
  no event or waiting callback can meet another token under its id), `UnverifiedTokensExist`,
  `VerifiedFirst` (what a waiting `verifyTokensWithMethod` read is still right when it continues),
  `MustVerifyRecorded` and `DevicesOwnSessions`. `DeviceKeysAlwaysPointBack` rests on `DeletionGoesOn`: a
  deletion that has begun ends with the session gone. Then the refinement `MemImplementsLifecycle`, and from it the
  same two consequences.
- `AccountCodes_proofs`: the kinds of codes share only the accounts and the requests, so each action is shown to
  leave the other kinds' tables and histories alone (`OneTimeActions`, `RecoveryActions`). For recovery codes `IInv` has
  `CodesUnused`: stored and pending codes were never consumed, and a code is pending for one replacement. With it every
  step maps to `SingleUseCodes` (`RecoveryCodesSingleUse`), and no code is accepted twice (`RecoveryCodesAcceptedOnce`). For the others it has `CreatedOnce` and `CallsMatch` (a
  request that will accept a code will also delete it), from which `AcceptedCodesStayGone`.
  The same module proves what holds of the in-memory store, as an instance `Mem` of `RecoveryCodesMem`: its types, for
  any number of requests (`MemTypeCorrect`), and for one request at a time the refinement (`MemSingleUse`) and that no
  code is consumed twice (`MemConsumedOnce`). There
  `Serial` says that the index which a consumption found still points at the code it compared.
  All three need finitely many codes, or the new codes could not be put in an array (`ArraysAssumption`).
- `DeviceCommands_proofs`: `IInv` says what a request that is alone has done so far (`AloneWork`): sent again, it finds its
  device as it was or with some of its own commands; past its first commit, the device has exactly the commands it has
  not left to send. Of other requests only `RowLocks`, `NameLocks` and `Sent` are needed: a step changes the device of the
  acting request alone, and a request that is alone shares its device only with finished ones (`OthersDone`), so the
  lemmas `OwnStep`, `FinishKeeps`, `GoOn` and `CommitKeeps` look at the acting request and the rest follows. From it
  `OkAlwaysMeansExactly` and `ErrorAlwaysMeansPart`. `WaitsAlwaysEnd` needs of it only where a request can be that
  has a name or a row (`Sent`), and `OnlyEverForward` that the command being stored is one of those left: the statements that commit
  leave fewer, all others come later in `Order`. `ReadsAlwaysAgree` is about reading back, for finitely many devices and
  names: the fold and the flattening are unfolded for one row and one device more (`AggregateAppend`, `FlattenAppend`),
  the rows of one device make one item however they are ordered (`BlockMakesItem`), and a list in which no device follows
  itself makes one item of each (`ResultsRead`). No induction theorem can be used for that; each claim is proved on
  the least length for which it would fail (`Least`).
- `ConnectionPool_proofs`: `IInv` adds `QueueMatches` (the requests in the queue are those that wait, once
  each, so a granted request holds nothing and none is forgotten), `NoneLost` (a connection in use is some request's or was
  abandoned, and one that is being set up has not served before), `AppliedIsFinal` (what was committed is answered, or is
  being rolled back for a lost connection, which is not retried) and `OpenOnce` (what is open is open on one connection and not
  committed; what a failed ROLLBACK left is of an answered request, so whoever commits it, it is once). From it the four invariants of the pool
  (`TheQueueIsServed` among them), and `RetryingEnds`, for which each action raises the `Effort` of the request that takes it.
- `Accounts_proofs`: `IInv` has `OnePrimary` and what makes it inductive. `AtMostOnePrimary` says the same of what is
  left for a uid whose account is gone, which `CreateEmail` may still add to; `NothingForUnknown` is why
  `CreateAccount` makes the only primary row. The two halves of `deleteEmail_3` need no conjunct, because the DELETE checks again.
  `TokensIssued` (a stored token was issued to its account) is why ending an account's tokens ends all it ever
  had. Then the refinement of `AddressBook`, action by action (`ImplementsAddressBook`).
- `MemAccounts_proofs`: `QueueOK` is the invariant of the queue. While a closure waits, the address it
  remembers is its account's, or another closure in the same drain has already removed both; no handler runs
  in between, so the entry it deletes from the index is nobody else's. `RecordsAgree` rests on that. For tokens,
  `TokensIssued` also says that an id is in one collection at most. The refinement holds until `foreign`.
- `Prune_proofs`: `RunOK(c)` is what a run relies on from one statement to the next. A run past `GET_LOCK` has the lock, so
  it is the only one, so the window it has found starts where `prunedUntil` still is and reaches further; and at COMMIT
  every session in the window is doomed or spared. From it the first three safety properties. `TheWindowAdvances` adds
  `Spread` (no more sessions than `Burst` have one `createdAt`): if the oldest sessions from `prunedUntil` on all were of that
  one moment and cut short by the LIMIT, they would be more than `Burst`.

Only model-checked: the liveness properties `AnsweredUnlessPoolBroken`, `EveryCallAnswered` and `OldSessionsGo`, because fairness
and ENABLED are beyond the prover's reach. What makes them true is proved: nobody waits for a connection, a row or a name that
will not be released (`QueueServed`, `WaitsEnd`), no request goes round for ever (`EveryStepProgresses`, `OnlyForward`), and no
window stands still (`WindowAdvances`). What stays with TLC is the step from there to "eventually": that fair steps are
enabled, and that a rank cannot rise for ever. Every other property of a passing run is a theorem. The converse does not hold: the type
invariants but that of `DeviceCommands`, `NothingLeft` of `Accounts`, `EveryStepProgresses` and `OnlyForward` are proved and in no run.
That the recovery codes kept in memory are *not* consumed once when requests overlap is shown by the run
`MemRecoveryTwice`.

## Not modelled, and why

- Verification reminders: `fetchVerificationReminders_2` reads, deletes and returns under a named lock which it releases
  before COMMIT. Whether a second fetch sees the rows of the first depends on the isolation level, which the code does not
  set: `CREATE TEMPORARY TABLE ... SELECT` locks what it reads under REPEATABLE READ and not under READ COMMITTED.
- Read replicas: how far one is behind is not in the code.
- In memory: sign-in and unblock codes (one step each, no interleaving), the tries of a password-forgot token, whether
  a TOTP token is verified.
- `profileChangedAt`, which `deleteEmail_3`, `deleteTotpToken_2` and `updateTotpToken_2` stamp in a statement of its
  own after their work; hashes, keys and locale of an account: no property tells their values apart.
- Two updates of one device that overlap may leave a mix of their commands; no document says what they should leave.
- What is created for an account after it is deleted: nothing prevents it, in either store, and it is in the models.
- HTTP routing and conversion of arguments (stateless), schema migrations (they need the history of all
  179 patches), start-up, configuration, logging, metrics, scripts, and superseded versions of procedures.

Left for later: accounts composed with the token tables; reminders for each isolation level.
