# Verification of the MrWebDefence console backend

The repository is the backend of a web-application-firewall console
(`src/apps/backend`): a NestJS application in TypeScript, run by one Node
process.  This directory holds TLA+ models of it, the TLC configurations that
check them on small instances, and TLAPS proofs of what matters most for every
instance.

There is one thread: code runs without interruption from one `await` to the next, and
everything that is pending elsewhere may happen in between.  **One action is the code
between two awaits**, whichever they are:

- An `await` of something outside the program (a driver, Redis, bcrypt's thread pool, a
  timer) is a point of interleaving in every model.
- An `await` of a repository, which is a map in memory, is settled before the event loop
  takes up another callback.  Two requests still go on in turns, one await each, when
  they resume together: the token check of each request waits for Redis, and answers that
  arrive in one packet resume all their requests in one go.  So these awaits are points of
  interleaving too; any order of such steps contains the orders that occur.

## Inventory

Paths are relative to `src/apps/backend/src`.

| Component | State it keeps | Operations | What is hard |
|---|---|---|---|
| Connection pool (`infrastructure/connection-pool`, `infrastructure/connections`) | lists of connections and idle connections, the queue of waiting requests and their timers, the driver's pool | initialize, getConnection, releaseConnection, processWaitingQueue, the monitor's two cleanups and top-up, destroy | every operation awaits the driver in the middle of its work on shared lists; timeouts; retries; failing close(); shutdown |
| Pool configuration and status (`domain/value-objects/connection-pool-*`, `presentation/database.module.ts`) | none | create, validation, parsing of the environment | limits; `NaN` passes every `<` test |
| Multi-factor authentication (`*mfa*`, `generate-backup-codes`) | secret and backup codes per user, `mfaEnabled` in the user record | setup, verify-setup, verify, disable, regenerate | user records and code records are read, bcrypt is awaited, and then they are written back or marked |
| User accounts (`user.entity`, `user.repository`, the user use cases) | map of users, index by e-mail | create, update, change role, delete, find | check-then-act on the e-mail around a hash; `save` recreates what was deleted |
| Passwords (`change-password`, `password-history.repository`, policy) | history of hashes per user | change, validate, the policy | stale record written back; bounded history |
| Sessions (`login`, `logout`, `jwt.service`, blacklist, `jwt-auth.guard`) | blacklist with expiry in Redis | login, logout, guard | token made from a record read before bcrypt; a blacklist that fails open |
| API tokens (`api-token*`) | map of tokens | create, revoke, delete, list, authenticate | authentication compares hashes of a snapshot, one await each; revoke saves what was deleted |
| Access control (`roles.guard`, guards of the modules) | none | the decision per route | routes with no role; order of guards |
| FQDN and customer registries | maps of entities | create, update, status, delete, list | uniqueness by check-then-act |
| Engine configuration | none of its own | read active FQDNs and customers | repositories of the module's own; a fetch limit |
| Dashboard, IP allow list, pages | none | read | arithmetic at the borders |
| Migrations, bootstrap, scripts | none | library calls | - |

Controllers call use cases, use cases call repositories through interfaces, and
all requests share the repositories' maps.  The pool is shared by the use cases
that need a database connection, its own monitor (a `setInterval`), and Nest's
start and stop hooks.  Access control and sessions stand before every controller.

What makes each component correct:

- **Pool**: a request that waits is answered once (with a connection, a timeout or
  a cancellation) and never forgotten; a connection has one holder; no slot is
  lost; the limit is kept; an idle connection beside a waiting request is given to
  it; shutdown ends and leaves nobody waiting.
- **MFA**: a backup code lets in once; `mfaEnabled` and the stored secret agree;
  after disabling no code is left.
- **Users**: e-mails are unique, the index agrees with the map, a deleted user
  stays deleted, a finished change is not undone.
- **Passwords**: none of the last N is taken again; the history is bounded.
- **Sessions and tokens**: what was revoked is refused from then on.
- **Registries**: names are unique among the records that exist; status changes
  follow the allowed transitions.

`PROJECT.json` lists each part's hazards at their lines and the properties aimed at
them.

## Plan

1. `ConnectionPool` with `MCConnectionPool`, its runs and proofs, and the abstract `PoolDesk`,
   the pool as its clients see it, which it implements - **done**.
2. `Account` with the abstract `CodeLedger`: one user's record, MFA stores and password
   history under overlapping requests; its runs, proofs and refinement - **done**.
3. `UserDirectory`: the user map and the e-mail index under create, update, delete and
   stale writes; its run and proofs - **done**.
4. `Sessions` and `ApiTokens`: sessions with the expiring blacklist (which fails open) and
   the guards, API tokens whose guard compares a snapshot while they are revoked and
   deleted; their proofs - **done**.
5. `FqdnRegistry` and `CustomerRegistry`: unique names, stale records; their proofs - **done**.
   `Console` puts 4 and 5 together with the engine's configuration and the pages; one run
   for what holds, one for what does not; proofs that it implements its parts, and about
   the pages and the configuration - **done**.
6. Pure algorithms as operators: pages (checked against the list they cut), the password
   policy, the limits of the pool's configuration and its status, the guards' decision per
   route - **done**, in the modules that use them.

## The connection pool

`ConnectionPool.tla` models `database-connection-pool.ts`, `connection.ts` and
`connection-pool-monitor.ts`; `PoolDesk.tla` is what it promises its clients;
`ListLemmas.tla` holds facts about the list operators it uses, `ConnectionPoolProofs.tla`
its theorems.

### State

| Variables | Code |
|---|---|
| `connections`, `idle` | `connections` (a set: every push is guarded or of a new object), `idleConnections` |
| `waitingQueue`, `timer` | `waitingQueue`, the request's `setTimeout`; a request is named by its client |
| `srv`, `srvConn` | the async block of `processWaitingQueue` that has shifted a client's request, and its connection |
| `pc`, `conn` | where a client's `getConnection` or `releaseConnection` stands, and the connection it handles |
| `creating`, `att` | a `createConnection` in progress: waiting for the driver or for the retry delay, and its attempt |
| `left`, `init` | the fill loops of `initialize` and `ensureMinConnections`; `_isInitialized` and a failed start |
| `ticking`, `mpc`, `sweep`, `todo`, `sweeping` | the interval, each `monitor()` run, the cleanup it is in, its snapshot, the connection being closed |
| `made`, `released`, `closed`, `out` | Connection objects, those whose driver handle was released, `_isClosed`, handles the driver counts as lent |
| `dpc`, `dpending` | `destroy()` and the `close()` calls in its `Promise.all` |

### Actions

`Get...` are the segments of `getConnection` (`CheckIdle`, `CreateNew`, `Wait` its
three branches), `Put...` of `releaseConnection`, `Serve...` of the async block,
`Boot...` and `Initialize` of `initialize`, `Tick`, `Sweep...`, `EnsureMin`, `Fill...`
of a monitor run, `Destroy...` of `destroy`.  `...Drop`, `...Release`, `...Dropped`,
`...DropFails` are `removeInvalidConnection` inside each of them: on a closed
connection `close()` returns at once, otherwise `release()` is called, and when it
returns or rejects `_isClosed` is set; only a return goes on to the removal.

`release()` is treated as the code and its tests treat it, as a promise.  In the
current mysql2 it returns at once, and the continuation follows in the same
callback; the model contains those behaviours.  Two `close()` calls on one
connection overlap even then, when one socket error rejects two pings.

`ValidConfig` is what `ConnectionPoolConfig.create` lets through; `GetStatus` is the status
an operator is shown, through which `pool_max` looks at the limit.  It looks when nobody has
called a `release()` whose removal is to follow (`Releasing`): until then the pool counts a
connection whose handle the driver has already.

Abstracted: time (an armed timer may fire at any moment, a connection may or may
not be past `idleTimeout` or `maxLifetime` when that is asked), identifiers,
logging, error classes.  The cleanups close their snapshot in any order.  A
snapshot is any subset of the list.  mysql2 is external: it lends at most
`MaxConnections` handles, keeps a request waiting without a timeout, and may reject
anything.  Clients release what they were handed, once; whether they ever do is not
assumed.

### What a client may rely on

`PoolDesk` is a desk with one line.  A client is away, asking, in the line, at the counter,
holding a connection or returning it.  Who asks is granted a connection, refused, or joins
the end of the line; the head of the line is called to the counter, at most one with each
step that frees a connection; who was called is granted, refused, or sent back to the head
of the line.  A timeout and the shutdown reach those in the line only, never one at the
counter.  It knows no connections, pings, attempts or monitor.

`Desk` in `ConnectionPool` is its instance: the line is `waitingQueue`, and where a client
is follows from its call (`pc`) and the block that serves it (`srv`) by `PlaceOf`.  A client
whose promise was settled under such a block would be `astray`, which is no place of the
desk.  `KeepsDesk` says that every step of the pool is one of the desk's or one its clients
do not see.  What the desk does not promise is what the code does not keep: that a client
is called in the end, and that two clients hold different connections.

### Runs

| Run | Instance | Question |
|---|---|---|
| `pool` | 2 clients, 1 monitor run, limit 1, 2 connections, failing releases; clients, connections symmetric; 1.0 M states | are requests, the idle list, the slots and who has a connection consistent in every interleaving? |
| `pool_live` | 2 clients, limit 1, one retry, under `FairSpec`, no symmetry; 0.2 M states | do shutdown and releases end?  do the clients see the desk? |
| `pool_exclusive` | 2 clients, limit 2 | refuted: one connection has one holder |
| `pool_max` | 2 clients, 1 monitor run, limit 1, minimum 1 | refuted: the limit is kept |
| `pool_timeout` | 2 clients, limit 1 | refuted: a queued request times out |
| `pool_destroy` | 2 clients, limit 1, under `QuietShutdown` | refuted: destroy leaves nobody waiting whom no timer takes out of the queue |

What the last three show, in the order of their traces:

- `pool_max`: a `getConnection` pings the idle connection; the monitor's cleanup closes and
  removes it; a second `getConnection` finds the pool below its limit and gets a new one,
  with the handle the driver got back; the ping has answered, and the first call puts the
  removed connection back (line 182) and hands it out: two of one.
- `pool_timeout`: a request that was shifted lost its timer (line 460), its connection is
  invalid, and it is put back at the head of the queue without one (line 474).
- `pool_destroy`: the same request, shifted before `destroy()` is called, is not among
  those that `destroy()` rejects, and is put back into the queue of a destroyed pool.  The
  action constraint `QuietShutdown` keeps other causes away: `destroy()` comes while
  whoever is served waits for a ping, and nobody calls `getConnection` from then on,
  although line 169 would let him until the end of `destroy()`.

Bounds: `Conns` bounds the Connection objects made over the pool's life.  With a
limit of 1, two objects already overrun the limit, let one be replaced by the
other, and have two clients share one while the second is made; two clients give
one holder and one waiter, or two holders.  `RetryAttempts` is 0 where retries only
multiply waiting states and 1 in the liveness run.  The proofs have no bounds.
Deadlock is not checked: a pool whose start failed, that is destroyed, or that has
used up `Conns` stops.

Properties that hold, and what would break them:

- `NoRequestLost`: waiting clients are exactly those queued or served, each once.
- `KeepsDesk`: clients are called in the order in which they joined the line, or were put
  back at its head; whoever was called is answered by the block that serves him and by
  nothing else.  A timer left armed when its request is shifted would break it.
- `IdleOnce`: a connection given back by two holders is listed once.
- `OnlyFillStrands`: only `ensureMinConnections` leaves a waiting request beside an
  idle connection; all other steps end by pairing them.  That it does is a defect:
  it does not call `processWaitingQueue` (line 552), and the request waits for some
  other release although `sequence-diagrams.md` has it served.
- `OnlyFailedCloseLeaks`: a slot is lost only where a client's `close()` rejects
  (line 410: the removal after it is skipped), against the documents' promise that
  resources do not leak; no interleaving loses one.
- `OnlyLateReturnUnlists`: an idle connection that is not in `connections` comes only from
  `releaseConnection`, whose check (line 225) is out of date when its ping has answered
  (line 243): a monitor run or another holder removed the connection meanwhile, and it is
  listed as idle all the same.  No cleanup, top-up, retry or shutdown makes one.
- `OnlyPingedIsShared`: a connection that one client at most has to do with comes to be
  shared in one way only: it is taken from the idle list while a `getConnection` validates
  it there (line 175 reads it, line 182 takes it out).  `ExclusiveUse` is refuted; this is
  the whole cause, and everything else that happens to a connection keeps it with the one
  who has it.
- `CallsSettle` (liveness): `destroy` returns or fails, and `releaseConnection` settles.

What the runs refute are defects of the code against its documents and tests; the
findings in `PROJECT.json` give the lines of both sides.  Two consequences have no
run of their own: `getStatus` can report a negative number of active connections (the
late return of `OnlyLateReturnUnlists`, for which one client and one monitor run are
enough), and `close()` called by two holders releases the handle twice.

### Fairness

`FairSpec` assumes weak fairness of the steps of `releaseConnection`, of the async
block and of `destroy`: mysql2 answers or rejects every ping, release and end, and
the event loop runs a continuation that is ready.  Nothing is assumed of clients,
of new connections, of ticks or of a shutdown coming.

### Proofs

`ConnectionPoolProofs.tla`, for every number of clients, monitor runs and
connections and every configuration that `ConnectionPoolConfig.create` lets through:

- `Typing`: `Spec => []TypeOK`.
- `RequestsNeverLost`, `TimersMeanQueued`: `Spec => []NoRequestLost`, and an armed timer
  means a queued request (`TimerMeansQueued`).  The two are proved together as `Requests`:
  neither is inductive alone, since the timeout removes the request from the queue and must
  not find it being served, and the service must find no timer armed.  The
  invariant is `TypeOK /\ Quiet /\ Requests`; `Quiet` says that nobody is in a call
  before the pool is ready.
- `OnlyTopUpStrands`: the action property, by the same invariant.
- `IdleListedOnce`: `Spec => []IdleOnce`.  It needs `Pooled` beside it: what is listed or
  handled was made before, so a connection that is new is in no list yet.
- `OnlyFailedClosesLeak`: `Spec => OnlyFailedCloseLeaks`.  Every step keeps what is idle, in
  a client's hand or under a block (`Kept`), or takes it out of `connections`.  It needs
  `HandOnly`: who handles no connection has none in `conn`, so nothing is dropped when the
  hand is filled; and `Requests`, by which a block that starts replaces no other.
- `OnlyLateReturnsUnlist`: `Spec => OnlyLateReturnUnlists`, by `Pooled`: whoever removes a
  connection removes its first place in the idle list, which is the only one.
- `OnlyPingedAreShared`: `Spec => OnlyPingedIsShared`, by `Requests`, `HandOnly` and
  `Pooled`.  `GotoSole` is about the client that a step moves, `ProcessSole` about what
  `processWaitingQueue` then takes from the idle list; `EndSole` joins them.
- `ExclusiveWithoutOverlap`: `ExclusiveUse`, which the run `pool_exclusive` refutes, holds of
  every behaviour without a step `TakenTwice`, that is one in which nobody takes a connection
  from the idle list while a `getConnection` validates it there.  No step but that one makes
  two clients hold one connection.
- `TimedUnlessRequeued`: `QueuedCanTimeOut`, refuted as well, holds of every behaviour without
  a step `ServeDropped`: only a block that puts its request back queues one without a timer.
- `PoolKeepsDesk`: `Spec => KeepsDesk`, the refinement, one lemma for each handler
  (`GetAtDesk`, `ServeAtDesk`, `PutAtDesk`, `DestroyAtDesk`).  `Requests` is what maps the
  steps: who is served was waiting and has left the line, who times out is in it, and who
  is in the line has no block.

They rest on the lemmas of `ListLemmas.tla` about `RemoveFirst`, `Append`, `Cons` and
`Tail` of injective sequences, and on the assumptions `ConfigAssumption` and
`NamesAssumption` alone.  `CallsSettle` is model-checked only; liveness under fairness is out
of the prover's reach.

## The account

`Account.tla` models one user's record in `user.repository.ts`, the user's entries in
`mfa.repository.ts` and `password-history.repository.ts`, and every handler that writes
them, cut at each of its awaits.  A handler goes on with the record it has read, whatever
the other requests of the same user have done since.

### State

| Variables | Code |
|---|---|
| `user` | the record in `users`: the password, and the MFA fields (`mfa` is the secret, None when MFA is off); None after deletion |
| `secret`, `unused` | the entries in `secrets` and `backupCodes` (those with `usedAt === null`) |
| `history` | the entry in `historyStore`, newest first |
| `at`, `snap` | each open request: what it does when its await is over, and the record it has read or, between the two writes of a setup or a disable request, the one it has saved |
| `code`, `new` | the backup code that matched, the password that will be set |
| `drawn`, `accepted` | codes generated, codes a verification succeeded with: history variables |

### Actions

| Action | Code |
|---|---|
| `FindById` | the first await of every handler, and the checks of the record it returns |
| `RecordEnabled`, `SecretSaved`, `UserLookedUp`, `BackupCodesSaved` | verify in the SETUP context: `save` of the record (:124), `saveSecret` (:127), then the codes are made: the user is looked for, they are hashed and stored |
| `CodeMatches`, `CodeMarked` | verify in the LOGIN context: the records are read and one of them will match; bcrypt has compared them all, the code is marked and accepted |
| `RecordDisabled`, `SecretDeleted`, `BackupCodesDeleted` | disable: `save` of the record, `deleteSecret`, `deleteBackupCodes` |
| `BackupCodesDeleted`, `UserLookedUp`, `BackupCodesSaved` | the controller's regeneration |
| `CheckPasswordInHistory`, `PasswordSaved`, `OldHistoryDeleted`, `UserUpdated` | change of the password: the history is read and compared; the hash is pushed; the history is cut; `update` of the record |
| `FindById`, then `UserUpdated` | change of the address or the role: the record is written back as it was read, as far as this model keeps it |
| `Refused` | bcrypt has answered: the password is wrong, or no record has the code |
| `DeleteUser` | the record goes, the other stores stay |

`Validate` is `PasswordPolicy.validate` over the length of a password and the kinds of
characters in it, `Allowed` what a change may ask for; the policy is a parameter within
the limits of `PasswordPolicy.create` (`ValidPolicy`).  Creating a user does not ask the
policy, so an account may start with a password it refuses.

Passwords and codes stand for their hashes.  A request that is refused without having
waited for bcrypt changes nothing and is left out, and so are `SetupMfaUseCase`, which
stores nothing, and a login by TOTP.  Verification of a setup takes the secret from its
caller, so it is any of `Secrets`.  The history is sorted by the milliseconds of its
entries; two changes whose hashes are pushed in the same millisecond are left out.

### Runs

| Run | Instance | Question |
|---|---|---|
| `account` | 3 requests, a password the policy allows and one it refuses, 2 secrets, 2 codes in batches of 1, history of 1; all symmetric; 1.34 M states | are codes spent?  where do the two places of the secret part, and what brings a deleted account back? |
| `account_code` | 2 requests, 3 passwords | refuted: a backup code is accepted once |
| `account_reuse` | 2 requests, 3 passwords | refuted: a password is changed to one that is new |

Three requests are two that race on one thing and a third that replaces it; two codes are
a batch and the one that replaces it, and a batch of 1 makes every code the last of its
batch; two secrets are that of a setup and that of another.  With one allowed password two
changes that overlap still fill the history past its bound until it is cut.  Requests may
stop coming, so deadlock is not checked.

- `TypeOK` bounds the history: it exceeds `historyCount` at most by the changes that have
  pushed and not yet cut it (`Trimming`).
- `AcceptedIsSpent`: what let somebody in is never unused again, although setups and
  regenerations whose hashes arrive late replace all codes.
- `KeepsLedger`: the account implements `CodeLedger`, the abstract specification of
  one-time codes, under the mapping `live <- unused`, `spent <- accepted`, `claim <- code`:
  a verification claims a live code when it reads the records and redeems it when bcrypt
  has answered.  The ledger allows several claims of one code, and that is what
  `account_code` shows: two verifications in flight both succeed.
- `OnlyOutdatedUnhinge`: `mfaSecret` of the record and the secret in the MFA store agree,
  but for the await between the two writes of a setup or a disable request (`InStep`).
  They part in two ways only.  An update (of password, address or role) writes back MFA
  fields read before they were switched; or a setup or a disable request is overtaken
  between its writes, and stores or deletes the secret of a record that is no longer
  there.  That they can is a defect: MFA enabled during a password change is off
  afterwards, while its secret and codes remain.
- `OnlySaversRevive`: `save` creates what it does not find (`user.repository.ts:173`), so a
  deleted account comes back; but only by the `save` of a setup verification or a disable
  request that had read it, and while the account is deleted no request becomes one of
  these.  Updates, regenerations and logins never bring it back.

The violation runs use `FairSpec`, weak fairness of every request's next step: bcrypt
and the repositories answer.

### Proofs

`AccountProofs.tla`, for any number of requests, passwords, secrets and codes:

- `AccountTyping`: `Spec => []TypeOK`, with the bound of the history, and with it that no
  password the policy refuses is ever changed to.
- `AcceptedStaysSpent`: `Spec => []AcceptedIsSpent`.  A new batch is fresh with respect
  to the codes that were drawn, so the inductive invariant `Spending` adds that
  everything stored, accepted or being verified was drawn.
- `AccountKeepsLedger`: `Spec => KeepsLedger`, by initial states and steps, under
  `TypeOK /\ Spending`.
- `OnlyOutdatedWritesUnhinge`: `Spec => OnlyOutdatedUnhinge`.  The invariant adds
  `Disabled`: who is about to delete the secret has saved a record without MFA.
- `OnlySaversBringBack`: `Spec => OnlySaversRevive`.

They rest on `PolicyAssumption` (the policy is within the limits of
`PasswordPolicy.create`) and `DataAssumption` (None is no datum, codes and requests are
finite sets, and every password has a length and kinds of characters).

## The user directory

`UserDirectory.tla` models `user.repository.ts` with several users: the map `users`, the
index `emailToIdMap`, `findByEmail`, `create`, `update`, `save` and `delete`, and the use
cases that call them.  A record is its address, role and `mfaEnabled`; `Lower` is
`toLowerCase`, so one address may be written in two ways.

| Variables | Code |
|---|---|
| `users`, `emailToIdMap`, `drawn` | the two maps, and the ids that `randomUUID` gave out |
| `at`, `id`, `rec` | each open request: what it waits for, whose record it is, the record it will write |
| `clear` | history: the index let the request have its address when it was asked |

| Actions | Code |
|---|---|
| `CreateUser`, `UserCreated` | the address is looked up, the password hashed; the user is stored |
| `UpdateUser`, `EmailLookedUp`, `UserUpdated` | the user is read; the new address is looked up; the record is written |
| `ChangeUserRole`, `ChangePassword`, then `UserUpdated` | the user is read; `update` writes the copy, and throws if the user is gone |
| `EnableMfa`, `DisableMfa`, then `UserSaved` | the user is read; `save` writes the copy, and creates the user if it is gone |
| `DeleteUser` | `delete`, which looks for itself |

Addresses are validated to have no surrounding blanks, so the `trim` of `findByEmail` does
nothing.

The run `directory` has the constructor's user and one to be created, two addresses, one
in two spellings, two roles and two requests; 270,117 states.  Two users are enough for one
to take what another has checked or had; two requests for both kinds of stale write at
once.

- `IndexTrue`: the user an address leads to exists and has it.
- `OnlyOvertakenCollide`: as long as every user is found by its address (`Findable`, which
  makes addresses unique), that changes only when a request writes an address that was
  free when it asked and that somebody has taken meanwhile.  `CreateUserUseCase` checks before
  the hash and not after it, and a stale password change takes an old address back; two
  users then share an address, and one of them cannot log in any more.

`UserDirectoryProofs.tla` proves `DirectoryTyping`, `IndexAlwaysTrue` and
`OnlyOvertakenRequests` for any number of users, addresses and requests.  `IndexTrue` is
inductive with `TypeOK`: a creation takes an id no entry names, and an update removes the
one entry that can name its user.  The third needs `Cleared` beside them: every request that
is about to write was let have its address.  The assumptions are named in the module:
`Lower` is idempotent, None is none of the ids, addresses or records, the constructor's ids
are ids.

## Sessions

`Sessions.tla` models one account's sessions: `login.use-case.ts`, the guards
`jwt-auth.guard.ts` and `roles.guard.ts`, `logout.use-case.ts`, and
`redis-token-blacklist.repository.ts` with the Redis behind it.

| Variables | Code |
|---|---|
| `clock` | seconds; `VerifyJwt` and Redis compare with it |
| `account` | the user's role and whether MFA is on; None when deleted.  Changed at will by `ChangeAccount`, since other modules model who changes it |
| `issued` | the tokens signed.  A token is its role and the second of its issue |
| `blacklist` | for each token the second at which Redis drops its key |
| `sessionCalls` | each request: what it waits for, its token, its route, Redis's answer |
| `ended`, `earlier` | history: tokens whose logout was answered; logins that were waiting for bcrypt when MFA was enabled |

| Actions | Code |
|---|---|
| `Login`, `LoginAnswered` | the user is read; bcrypt has answered: a token of the record that was read, or none |
| `MfaVerified` | a code was right: a token of the record as it is now |
| `Present`, `RedisExists`, `GuardPasses` | the guard sends EXISTS; Redis executes it; the answer has come: listed, verified, role compared with the route's (`Required`) |
| `Handled` | any other handler is answered |
| `Logout`, `RedisSet`, `LogoutAnswered` | the time to live is computed and SET is sent; Redis executes it; the answer has come |
| `RedisFails` | a command ends in an error, whether it was executed or not |

Redis is external.  It executes a command at any time after it was sent, counts the time
to live from then, may execute SET again when a lost connection made the client resend
it, and may answer with an error in either case; EXISTS's error is read as "not listed".
Loss of Redis's data is not modelled.

The run `console` has two requests, one token, lifetime and clock of two seconds, and a
route for both roles beside one for administrators.

- `EndedIsListed`: a session whose logout was answered is listed until its token expires by
  itself.  The time to live is computed before the command travels and is counted after
  it, so the key outlives the token, never the reverse.
- `OnlyOutageReadmits`: a token that had ended when the request came passes the guard only
  when Redis fails during that check: the price of the blacklist that fails open.
- `OnlyEarlierLoginsSkipCode`: a password alone earns a token of an account with MFA only in
  a login that had begun when MFA was enabled (`login.use-case.ts:50` asks the record that
  was read before bcrypt).

`SessionsProofs.tla` proves all three and the types for any lifetime and any number of
requests and tokens, from `LifeAssumption`, `SessionNoneAssumption` and `RoutesAssumption`.
The inductive invariants add what is in flight: `Covers` (a SET that will be executed makes
the key outlive the token, one that was executed has), `Refused` (for a token that was over,
Redis's answer "free" means that it has expired), `Noted` (a waiting login that holds a
record without MFA of an account with it is in `earlier`).

## API tokens

`ApiTokens.tla` models `api-token.entity.ts`, `api-token.repository.ts`,
`api-token.service.ts`, the four use cases and `api-token-auth.guard.ts`.

| Variables | Code |
|---|---|
| `tokens`, `tokenOrder`, `hashToId` | the map, the order of its keys, the index of hashes (a hash stands for its id) |
| `tokenDrawn`, `now` | ids given out; the time that expiry is compared with |
| `tokenCalls` | each request: what it waits for, the record it will save, for the guard the token shown and the copies still to be compared |
| `dead` | history: ids whose revocation or deletion was answered |

| Actions | Code |
|---|---|
| `CreateApiToken`, `ApiTokenCreated` | the secret is hashed; the entity is validated and saved |
| `RevokeApiToken`, `ApiTokenRevoked` | the token is read; its revoked copy is saved |
| `DeleteApiToken`, `ApiTokenDeleted` | the token is looked for; it is deleted |
| `ShowApiToken`, `GuardCompare`, `TokenAnswered` | the guard splits what it is shown and takes the tokens of that prefix; compares one hash and judges the copy; the request is answered |

Tokens are strings over three characters, since the prefix is told from the secret by an
underscore that a base64url secret may hold as well: `BuildFullToken`, `ExtractPrefix` and
`ExtractSecret` are the code's functions on them.  Of names and descriptions the lengths
are kept.  bcrypt reads 72 bytes of a secret; these stand for it, and no two tokens share
them.

The run has two tokens (one with underscores at the beginning and in the middle of its
secret), two requests, three moments of time, a legal and an illegal text.

- `TokenTypeOK`: the map, its order and the index agree on what is stored.
- `DeadStaysDead`: once a revocation or deletion was answered, the token is never stored as
  a usable one again.  It may be stored again: a revocation that read the token before it
  was deleted brings it back, as a revoked one.
- `OnlyLiveAdmitted`: who is admitted showed a token that nobody had been told was dead when
  the guard began, and that has not expired at the verdict.
- `LiveAdmitted`: who is refused showed a token that was unknown or dead then, or has
  expired, wherever its secret has underscores and whatever is stored or deleted while the
  hashes are compared.

`ApiTokensProofs.tla` proves all four for any tokens, secrets, prefix, texts and requests.
The inductive invariant `TokenIInv` has the types and `DeadStaysDead`, and besides
`AliveStored` (what was drawn and is not dead is stored and not revoked) and `Guarding`
(among the copies still to be compared the one shown is usable if and only if it was alive
when the guard began, and if it was, it is among them).  `ShownIsTold` is the lemma about
strings: what `BuildFullToken` joined, the extraction parts again.  The assumptions:
secrets and the prefix are not empty, secrets differ, the prefix has its one underscore at
the end (`SecretAssumption`, `PrefixAssumption`), None is no datum.

## The registries

`FqdnRegistry.tla` models `fqdn.entity.ts`, `fqdn.repository.ts` and the use cases of
`FqdnController`; `CustomerRegistry.tla` the same for customers, which have no index: an
address is looked for by a scan that ignores case.

| Variables | Code |
|---|---|
| `fqdns`, `fqdnToIdMap`, `fqdnOrder` | the map, the index of names, the order of the map's keys |
| `customers`, `customerOrder` | the map and its order |
| `fqdnCalls`, `customerCalls` | each request: what it waits for, the id, the record it will write, the new name it looks for |
| `fqdnClash`, `customerClash` | history: a request has written a name that was free when it looked and taken when it wrote |

`CreateFqdn` looks the name up, `FqdnCreated` validates and stores; `UpdateFqdn` reads,
`FqdnRenamed` looks the new name up and validates, `FqdnWritten` writes; `UpdateFqdnStatus`
reads and goes on to `FqdnWritten`; `DeleteFqdn`, `FqdnDeleted`.  The customers' actions
are named alike; `ToggleCustomerStatus` and an edit are told apart, and `stale` says that
somebody wrote the customer after the request read it.  A name is its normal form
(`Normal`), the lengths of its labels (`Labels`) and whether its characters are legal
(`Clean`); the lengths of the other texts are kept.

The run `console` has two ids, two requests, names in two spellings, an illegal name and
an illegal description, legal and illegal details.

- `FqdnTypeOK`, `CustomerTypeOK`: whatever is stored passed the validation, however stale;
  and so, for customers, did the records that edits and status changes will write back.
- `IndexLeads`: an entry of the index leads to an FQDN of that name.
- `OnlyOvertakenClash`, `OnlyOvertakenShare`: names are unique (and every FQDN is found by
  its name) until a request is overtaken between its look-up and its write; the look-ups
  fail in no other way.
- `DeletedFqdnStays`, `DeletedCustomerStays` (`DeletedStays` in `Console`): no write in flight brings back what was
  deleted.
- `OnlyStaleEditsToggle`: a customer's status changes unasked only by an edit that writes
  back the status it read.

`RegistryProofs.tla` proves all of them for any ids, names, details and requests.  Beside
the types (`FqdnIInv`, `CustomerIInv`: what a request holds is of a record that has been
created) the uniqueness needs `Watched` and `CustomerWatched`: until a request is overtaken,
what is about to be written was free when it was checked, so that a write that collides is
one that `fqdnClash` notes.  `OnlyStaleEditsToggle` needs `Fresh`: an edit nobody overtook
holds the status that the customer has.  The assumptions: normal forms are idempotent,
None is no datum, texts have lengths.

## The console as a whole

`Console.tla` has the four parts side by side, `EngineModule`'s own instances of the
registries (`EF`, `EC`), the pages and `GetEngineConfig`.  The parts share no variable and
call no handler of each other, so `focus` picks in the initial state the one that moves;
every property speaks of one part and the engine's view of it, and the states of the parts
add up instead of multiplying.

| Run | Instance | Question |
|---|---|---|
| `console` | all parts; FQDN ids and requests symmetric; 640,776 states | the properties above, and the pages |
| `engine_told` | the registries | refuted: engines fetch what the management API wrote |

- `PagesTileLists`: the pages of a list are the list, for every filter and each of `Limits`:
  entry `j` of page `p` is entry `(p - 1) * limit + j`, every entry is on its page, and the
  list shows each record that fits once and nothing else, whatever was created, renamed and
  deleted before.  The filter is `AtPositions` of `Common`, `Array.filter` by the positions
  it keeps; `MCConsole` assumes it equal to `SelectSeq` on all lists up to length 4, and TLC
  evaluates that.
- `EngineIsTold` is refuted: `EngineModule` provides `FqdnRepository` and
  `CustomerRepository` by `useClass` again (`engine.module.ts:21`), so engines read maps that
  nobody writes; the design document has them fetch the current configuration.

Deadlock is not checked: ids, tokens and seconds run out.  No liveness is stated here:
every handler ends with its awaits, and nobody waits for anybody.

### Proofs

`ConsoleProofs.tla` extends the proofs of the parts.

- `ConsoleRunsParts`: `Spec => FqdnSpec /\ CustomerSpec /\ TokenSpec /\ SessionSpec`.  The
  console implements each of its parts: its steps are steps of one and leave the variables
  of the others alone.  `ConsoleSafety` and `ConsoleSteps` carry the invariants and the
  action properties of the parts over to it.
- `EveryPageTiles`: `Spec => []PagesTileLists`, for any ids, names, addresses and legal
  limits.  The arithmetic of the pages is in `PageSpan` and `PageEntries`; that the list
  shows each record once is `AtPositionsElements` (the positions that are kept have ranks
  `1 .. n`, each one) with the invariant `DrawnOnce`: an id is drawn once, so the order of
  the map's keys is injective.
- `EngineConfigIsEmpty`, `EngineToldOnlyNothing`: the engine's repositories stay as they were
  made, so that the configuration is empty for ever, and `EngineIsTold` holds exactly while
  nothing that is registered is active.  The run shows one counterexample, the theorem that
  every other state with an active FQDN or customer is one.

`LimitsAssumption` says that the limits are those the use cases let through (1 to 100).

Met on the way, without a property of their own:

- `CustomerController` has no `@Roles`; `RolesGuard` refuses every caller of a route without
  roles (`Required` of a "bare" route), although the design (MWD-34) asks for a JWT only.
- `ApiTokenAuthGuard` guards no route, although `engine-config.controller.ts:31` names an API
  key as one way to authenticate.
- After two FQDNs came to share a name and one was deleted, the other is not found by its
  name (`DeleteRow` removes the index entry), and the name can be taken a third time.
- Whoever logs in again in the second of a logout is given the same token, which is listed
  (tokens of one user, role and second are equal).

## What is proved, what is only checked

Proved for every value of the constants, under the named assumptions: every type
invariant, every invariant and every action property of the passing runs, that the pool
implements `PoolDesk` and the account `CodeLedger`, and that the console implements its
parts.  Only model-checked:

- `CallsSettle`, the liveness of the pool: a proof needs ENABLED and fairness, which are out
  of this prover's reach;
- what the violation runs refute, by their counterexamples (`EngineIsTold`,
  `ExclusiveUse` and `QueuedCanTimeOut` apart, of which the proofs say when they hold).

`Common.tla` declares the None that the parts share and the filter of lists, `ListLemmas.tla` the facts about lists
that several proofs cite.

## Not modelled

- The dashboard reads one user and the IP allow list, which is a stub without a store;
  neither writes anything.
- Migrations and bootstrap call libraries and keep no state; scripts, deployment and issue
  automation are no part of the running system.
- The frontend, data transfer objects and the validation of their fields, except where the
  entities repeat it.
- Parsing of the environment: `parseInt` may give `NaN`, which passes every `<` test of the
  two configuration objects; the models take integers.
- The strength score of a password, the secrets of TOTP and their QR codes, the texts of
  errors and logs.
- Loss of Redis's data, and crashes: everything but the blacklist is in memory and starts
  anew with the process.
