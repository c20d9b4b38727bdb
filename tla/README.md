# A verification project for User_Service

User_Service is a C++ gRPC service for accounts: registration, login by
password or by SMS code, refresh-token sessions, user administration.  It keeps
its rows in MySQL, its short-lived counters and captchas in Redis, and
registers itself in ZooKeeper.  This directory holds TLA+ models of its state
machines, TLC instances that check them, and TLAPS proofs of their main
properties for every number of threads, connections, accounts and tokens.

`PROJECT.json` lists the runs, the faulty variant that shows each property can
fail, the source lines of each definition, the hazards and the theorems.

## Inventory

| Component | State | Operations | Interacts with | Hard behaviour | Correct when |
|---|---|---|---|---|---|
| ConnectionPool (`include/pool/connection_pool.h`) | deque of free connections, mutex, condition variable | InitPool, Acquire, Release, guard | every request thread; MySQLConnection's constructor | lost wakeups, timeouts, nested Acquire, reconnects that fail with the mutex held | one owner per connection, no lost wakeup, no leak, Acquire returns |
| MySQLConnection, MySQLResult (`src/db/mysql_*.cpp`) | one MySQL session | connect with retries, query, execute | pool, UserDB, TokenRepository | dies at any time | failures surface as exceptions |
| UserDB (`src/db/user_db.cpp`) | table `users` | Create, Find*, Update, FindAll, Count | pool; AuthService, UserService | whole-row UPDATE from a row read earlier; zero affected rows | one account per number; no foreign column overwritten |
| TokenRepository (`src/auth/token_repository.cpp`) | table `user_sessions` | save, check, delete one, delete all of a user, clean up | AuthService, UserService, cleanup task | statements of concurrent requests interleave | a removed token stays dead; revocation is complete |
| AuthService (`src/services/auth_service.cpp`) | none of its own | Register, LoginByPassword, LoginByCode, ResetPassword, RefreshToken, Logout, LogoutAll, ValidateAccessToken | all of the above, Redis | multi-statement requests without a transaction | see TokenRepository and the counters |
| UserService (`src/services/user_service.cpp`) | none | UpdateUser, ChangePassword, DeleteUser, SetUserDisabled, ListUsers | UserDB, TokenRepository, SmsService | read-modify-write | as UserDB |
| Login failure counter (in AuthService) | Redis key per mobile with a TTL | check, record, clear | Redis | GET, INCR, PTTL, PEXPIRE and DEL are separate commands; any may fail; the process may die between them | bounded tries, no false lock, the lock ends |
| SmsService (`src/auth/sms_service.cpp`) | Redis keys for code, counter, lock, interval | SendCaptcha, VerifyCaptcha, ConsumeCaptcha | Redis; AuthService, UserService | as above, with four keys of different lifetimes | bounded guesses; a guessed-out code is unusable; one message per interval |
| RedisClient (`src/cache/redis_client.cpp`) | redis++ connection pool (`redis_client.cpp:80`) | one method per command | counters, captchas | a command fails, executed or not | a failure is reported, not swallowed |
| JwtService (`src/auth/jwt_service.cpp`) | secret, generator for token ids | create and parse access and refresh tokens | AuthService, JwtAuthenticator | unsynchronised generator; access tokens outlive revocation | distinct refresh tokens; expiry and uid are kept |
| JwtAuthenticator, handlers (`src/handlers/*.cpp`) | none | authenticate, check the role, convert | services | stale role in the token | only the permitted calls get through |
| TokenCleanupTask (`src/auth/token_cleanup_task.cpp`) | thread, flag, mutex | Start, Stop, periodic DELETE | TokenRepository, GrpcServer | Stop joins with the mutex held | Stop returns, the thread ends |
| GrpcServer, ServerBuilder (`src/server/*.cpp`) | running and shutdown flags, monitor thread | Initialize, Start, Wait, Shutdown | everything | signals, Shutdown before or during Start | every resource started is stopped |
| ZooKeeperClient (`src/discovery/zk_client.cpp`) | session, watches, callbacks | Connect, CreateNode, WatchChildren, events | ZooKeeper; registry, discovery | one-shot watches, session expiry, callbacks on another thread | no change missed for good |
| ServiceRegistry, ServiceDiscovery (`src/discovery/*.cpp`) | own node; cache of instances | Register, Unregister, Subscribe, select | ZooKeeperClient | stale cache; registration lost with the session | cache converges to the registry |
| Config (`src/config/config.cpp`), ServerBuilder | the settings | LoadFromFile, ValidateConfig, LoadFromEnv, Build | every component reads it | validated before the environment overrides it | what the services rely on holds in the settings they get |
| Logger, validators, UUID, time, clients | – | formatting, form checks, stubs | – | – | – |

A request runs on one gRPC thread from handler to service to repository; there
is no lock and no transaction above one SQL statement or one Redis command.
What makes the system hard is therefore what happens *between* two statements
or commands of a request: other requests, failures, expiry, and the death of
the process.

## Modules

### ConnectionPool, PoolCustody

`ConnectionPool` has one action per critical section of the header.  `pool` is
`pool_`, `guard[t][i]` the connection inside guard `i` of thread `t` (a second
guard exists only inside `UserDB::Create`, which calls `FindByUUID` while its
own guard lives), `pc` where a thread is, `todo` the Acquire calls its request
still makes, `expired` the deadlines that have passed, `broken` the connections
whose `Valid()` is false.  The mutex is held across a step only during a
reconnect (`rebuildA`, `rebuildR`), because every other critical section is one
action.  `cond_.wait_for` is `Enter`, `Deadline`, `SpuriousWakeup`, `Recheck`:
the predicate is evaluated again with the mutex held, even after the deadline.
`createConnFunc_` may give a connection, `nullptr`, or throw.  In Release a
throw leaves a `noexcept` destructor, so `process` becomes `terminated`.

A connection is named by its slot; a rebuilt connection is the same slot.

`PoolCustody` is the abstract specification: connections move from the front of
the deque into an empty guard and from a guard to the back, and are lost only
when a reconnect can fail.  `CustodySpec` states that the pool implements it.

### UserSessions

Tables `users` and `user_sessions` and the twelve requests that write them.
One action is one SQL statement (`UserDB` and `TokenRepository` run each in
autocommit mode); `req[p]` is the request of thread `p` with its step and its
local variables, among them the `row` it read and will write back.  `Insert`,
`Reread`, `FindByMobile`, `FindById`, `FindByUUID`, `Update`, `CheckToken`,
`DeleteToken`, `SaveToken`, `Revoke`, `CleanExpired` are the statements;
`AfterFind`, `AfterUpdate`, `AfterRevoke` say which statement each request runs
next.  `FatalFault`, `IgnoredDeleteFault`, `IgnoredSaveFault` are the
exceptions a statement may throw, by what the service does with them: it
returns an error, or it logs and goes on.

Passwords and captchas: whether the client presents the right one is a free
choice, because nothing modelled here depends on which password it is; a new
hash differs from every hash in use (it has a fresh salt).  `Written` is the
UPDATE's column list, which does not contain the mobile.  Tokens issued are
distinct; that the generator delivers this is an assumption.

`NextId` is the key that AUTO_INCREMENT gives a new row.  A statement that was
executed and whose answer was lost leaves what a fault at the next step leaves,
so it needs no action of its own.

The history variables `dead`, `old`, `crossed`, `oldTokens`, `escaped`,
`refreshes` record what the properties speak of; no guard reads them.

### LoginGuard

The Redis key `login:fail:<mobile>` of one mobile number: value `count`, TTL
kind `ttl`; one action per command of `CheckLoginFailedAttempts`,
`RecordLoginFailure`, `ClearLoginFailure`.  `CommandFails` has the consequence
the code gives each failure: a failed GET lets the login go on, a failed PTTL
counts as "no expiry", a failed INCR or PEXPIRE ends the counting.
`IncrReplyLost` is an INCR that Redis executed and whose reply was lost, which
the code takes for a failed one: the key it created has no expiry.  `Crash` is
the death of the process between two commands.  `tries` counts the wrong
passwords really examined, `failed` remembers what went wrong, so that each
property says exactly which failures it survives.

### Captcha

`SmsService` for one mobile number: per scene a code, a counter and a lock, and
one interval key for all scenes, each with the ticks it has left.  One action
per command of `SendCaptcha` and `VerifyCaptcha`.  `GenerateCaptcha` returns a
constant, so only "equal or not" matters of a code.  `AfterFailure` says where
the code goes on when a command fails; `ReplyLost` is a command that was
executed although it is reported as failed, for the two after which the request
does not go on.

### ServerLifecycle

One server process from `Initialize` to its end.  `at` holds the step of every
*frame*: main, and each activation of the signal handler, which calls
`Shutdown` on the thread the signal was delivered to and suspends it (`stack`).
The threads are main, the monitor, the cleanup thread and one of gRPC's; SIGINT
and SIGTERM may nest in one of them, and a second SIGINT goes to another.
`server_->Shutdown` waits for gRPC's threads, its deadline only cancels the
calls: `GrpcThreadsEnd` keeps it, and the monitor, from returning while a
handler sits on an rpc thread.  `CheckRunning`, `Request`, `IsRegistered`, `LockForUnregister`,
`DeleteNode`, `StopCleanup`, `JoinCleanup`, `ShutdownGrpc` are the steps of
Shutdown, which main takes too in the server's destructor; the members'
destructors follow.  `registryMutex` and `cleanupMutex` are the two mutexes
(not recursive), `monitor` and `cleanup` the two threads.  Initialisation with
the creation of the cleanup thread, `BuildAndStart`, ZooKeeper commands and the
creation of the monitor thread may fail.  A ZooKeeper command that fails may have been executed.

### Discovery

The client's side of ZooKeeper for one service: application threads subscribe
and unsubscribe, the library's event thread runs `HandleSessionEvent` and
`HandleChildEvent`.  A refresh is `BeginRefresh`, `GetChildren`, one `GetData`
per child, `StoreInstances`, and the log line, which touches the map without
its lock.  `armed` is the one-shot watch; `Change`, `Disconnect`, `Reconnect`,
`Expire` are ZooKeeper, modelled from what the code relies on.  `stale` records
in which copies a change is missing that no event will announce, `unarmed` that
the last attempt to set the watch came to nothing.

### Registration

The server's side of ZooKeeper, for one server of one service: `znode` is the
ephemeral node of this address in the ensemble with its `owner`, a session, and
its `data`; `live` the sessions the ensemble keeps, `self` and `link` the
client's session and whether it is connected; `pc` is the step of Register,
Update or Unregister, `isRegistered` and `instance` the members of
`ServiceRegistry`.  `Exists`, `MakeComponent`, `CreateInstanceNode`, `DeleteOld`,
`Recreate`, `SetOld`, `Update`, `Unregister` are one ZooKeeper command each: it
is answered, or not sent because `IsConnected` is false, or its answer is lost
and it may have been executed or not.  `Crash` is the death of the process,
`Start` a new process at the same address, which meets the node of the old
session until ZooKeeper ends it (`ExpireSession`).  `inherited`, `lostReply` and
`lostUpdate` remember that SetData took over a node of an earlier session and
that an answer was lost.

### AccessTokens

JwtService, JwtAuthenticator and the handlers: `users` with role and status,
the `tokens` issued with the time they have `left`, and requests in three
steps (authenticate or find, then issue, serve or write).  Authority is decided
by the claims, so the module counts for each account how long ago it was an
administrator and was enabled (`sinceAdmin`, `sinceActive`) and gives each
token and request the delay (`lag`) at which its row was read.  Requests of a
client that shows no access token of the account (`ServiceOps`: ResetPassword,
and SetUserDisabled in both directions) read the row and write all of it back
like the others; an account that was deleted may be enabled again.  Nothing in
the service changes a role; `SetRole` is an operator at the database.  A tick does
not let a request take longer than `MaxLag`, the server's and the client's
deadlines.

### Listing

`ListUsers`: `Count` and `FindAll` are two statements, `rows` the table in the
order of the query, newest first.  A client asks for one page or walks from
page to page until one is not full.  A new row may get a place below the newest
ones, because an INSERT with an earlier `created_at` may end later (`Recent`).
`Offset` is an int of at most `MaxInt`: beyond its range it wraps or, as the
compiler may, does not.

### JwtCodec, Selection, SqlBuilder, MySQLConnect, Settings

Five parts that compute something without partners, checked together in
`MCOperators`; each initial state is the input of one of them (and one more is
the empty table of Listing).

- `JwtCodec`: BuildJson, ParseJson, Base64UrlEncode, Base64UrlDecode on texts
  of bytes, with an `int` of `IntSpan` values that wraps; references are the
  bits of the text cut into groups of six, and the claims that were signed.
  Loops are recursive functions as in `SqlBuilder`; ParseJson's cursor is an
  automaton.
- `Selection`: SelectInstance and SelectInstanceWeighted, whose fallback reads
  the cache a second time; the reference is how many draws each instance gets.
- `SqlBuilder`: BuildSQL and Escape; the reference is what MySQL's lexer
  (external) reads in the text.  Loops over a text are recursive functions of
  the number of bytes done, so that they can be proved about.  The lexer reads
  adjacent literals (`'a''b'`) as two where MySQL reads one; no template of the
  repositories puts two side by side.
- `MySQLConnect`: the constructor of MySQLConnection with ConnectWithRetry,
  which ConnectionPool sees as one step with an outcome.
- `Settings`: LoadFromFile with ValidateConfig, LoadFromEnv, and the builder's
  overrides, for one setting of each kind of check.

### MC modules and proofs

`MCConnectionPool`, `MCUserSessions`, `MCCaptcha` add the symmetry sets;
`MCDiscovery`, `MCLoginGuard` and `MCAccessTokens` add none, because their runs
check liveness.  `MCServerLifecycle` puts ServerLifecycle and Registration side
by side: an initial state chooses one of them, the other stays where it is and
is owed no fairness.  `MCOperators` adds the inputs of the five parts above and
of Listing.  Eight modules hold the theorems:

| Proof module | About |
|---|---|
| `ConnectionPool_proofs` | ConnectionPool, PoolCustody, MySQLConnect, SqlBuilder, JwtCodec |
| `UserSessions_proofs` | UserSessions |
| `LoginGuard_proofs` | LoginGuard |
| `Captcha_proofs` | Captcha |
| `ServerLifecycle_proofs` | ServerLifecycle |
| `Discovery_proofs` | Discovery, Selection |
| `Registration_proofs` | Registration |
| `AccessTokens_proofs` | AccessTokens, Listing |

`TypeOK` states the shape of each module's state; it is proved there.  A
definition commented "Faulty variant of X" is a plausible mistake in X, used to
show that a property can fail; no specification uses it.

## Runs

| Run | Instance | Shows |
|---|---|---|
| pool_safety | 4 threads, 2 connections, reconnects succeed / nullptr / throw | OnePlace, NoLostWakeup, refinement of PoolCustody |
| pool_liveness | 2 threads, 2 connections, all outcomes | AcquireReturns and RequestsEnd, although both threads may hold one connection and wait for a second: the deadline breaks the cycle |
| sessions_safety | 2 threads, 2 accounts that compete for 1 number, 4 tokens; 10 requests (LoginByCode runs the statements of LoginByPassword, UpdateUser those of ChangePassword); any statement may fail | DeadTokenRejected, RevocationHolds, OneAccountPerMobile, RefreshesBounded |
| login_safety | 2 threads, limit 3, every command may fail, the reply to an INCR may be lost, processes may die | TriesBounded, NoFalseLock, CounterExpires, LockEndsUnlessBroken |
| captcha_safety | 2 threads, limit 2, every command may fail, processes may die | GuessesBounded, SpentCodeLocked, MessagesBounded |
| server_safety | 2 signals on 4 threads, every step of initialisation, start and ZooKeeper may fail; and 3 sessions, a path of 2 components, 2 descriptions with lost answers, broken connections, expiry, crashes and restarts | NodeGoneFirst, ThreadsEndFirst, SignalEndsProcess; RegisteredIsAnnounced, AnnouncedIsCurrent, NoGhost, StoppedServerLeaves |
| discovery_safety | 2 servers, 1 application thread, disconnects, expiry, failing reads | CacheCurrentUnlessStale, WatchComesBack |
| access_safety | 2 threads, 1 account that is user or admin, ListUsers, GetCurrentUser, UpdateUser, DeleteUser, ResetPassword, SetUserDisabled and refreshes, access tokens of 1 tick and refresh tokens of 2, a delay of 1, 4 tokens | AdminActsFresh, AccountActsFresh, AuthorityEnds |
| operators_safety | texts of up to 3 bytes out of 13, up to 3 weights, 2 parameters out of 94, up to 2 retries; a table of 3 rows, ints of 4 bits, pages 0, 2, 7 and sizes 0, 1, 5 (below, inside and beyond the limits), 2 filters | PayloadIsBase64, ClaimsSurvive, DrawsFollowWeights, StatementMeansTemplate, OneHandle, AttemptsBounded; WalkMissesNothing, WalkRepeatsNothing, PagesAgree |

Three runs refute what a comment or a document says:

- *pool_terminate*: a rebuild in Release may throw, out of the guard's
  destructor, which ends the process; `connection_pool.h:358` says that it
  throws nothing.
- *deleted_number*: DeleteUser renames the mobile to release it
  (`user_service.cpp:195`, `include/service/README.md:373`), but the UPDATE has
  no such column, so the number stays taken.
- *config_merged*: the environment and the builder's overrides are applied
  after ValidateConfig, and nothing is validated again, although
  `server_builder.h:487` says that Build throws when the configuration is
  invalid and `include/config/README.md:29` draws the check behind the merging.
  `SMS_LOCK_SECONDS=1` gives a lock that ends before the code it guards, and an
  unreadable number counts as 0.

Further disagreements with the documentation: a nickname update writes back the
password hash, `disabled` and `role` of the row it read, so it undoes a
ResetPassword in between (`api/README.md:861` says that no other field is
touched); a signal between `running_ = true` and `shutdown_requested_ = false`
in Start stops gRPC, then its request is erased and main waits for the monitor
thread for ever (`grpc_server.h:83` says that Run ends with a signal); the list
of instances is read before the watch is set, and a server that registers in
between stays unknown (`include/discovery/README.md:233` promises updates in
real time; `CacheCurrentUnlessStale` allows exactly this); the same whole-row
UPDATE lets a nickname update re-enable an account that was deleted in between;
`DeleteUser` deletes the sessions *before* it disables the account, so a login
in between leaves a session;
`DeleteByTokenHash`'s failure is ignored in RefreshToken, so a token whose
DELETE failed can be used again, and two refreshes at once both pass with one
token (`RefreshesBounded` counts them: at most one per thread until a DELETE
fails); an UPDATE that changes nothing affects no row and is
reported as UserNotFound; a stale PTTL answer can replace the 30-minute lock by
the 15-minute window; a reconnect that fails in Acquire loses the slot;
`max_sessions_per_user` is read by no service; the handlers
check passwords and codes against the default policy, the services against the
configured one; a timeout below 1000 ms becomes 0 s in InitAndSetOptions;
`TokenValidationResult::role` is never set by ValidateAccessToken; the jti of a
refresh token comes from a generator that threads share without a lock, and two
equal draws for one user in one second are one token, whose second INSERT
`uk_token_hash` refuses.

What the conditions of the passing properties leave out is as real: a
RefreshToken past its check stores a session after ResetPassword deleted all of
them (`RevocationHolds` allows exactly that, `auth_service.cpp:288` does not); a
process that dies between INCR and PEXPIRE, a PEXPIRE that fails, or an INCR
whose reply is lost leaves a lock without end (`LockEndsUnlessBroken`, against
`api/README.md:475`); two SendCaptcha calls
send two messages in one interval (`MessagesBounded` says how many are
possible, `sms_service.cpp:271` says one); no service calls `ConsumeCaptcha`,
so a code is good until it expires (`sms_service.cpp:199`); a second signal
while Shutdown runs in a handler of the same thread waits for a mutex that
thread holds (`SignalEndsProcess` speaks of one signal); a handler on one of
gRPC's threads waits in `server_->Shutdown` for the thread it sits on, and one
on the cleanup thread joins itself (`SignalEndsProcess` speaks of the other
threads); a signal before
`running_` is true is ignored; the monitor thread stops gRPC while Shutdown is
still deleting the node; a session that expires is never opened again
(`zk_client.h:22` promises reconnection); a path that does not exist yet cannot
be watched, so who subscribes before the first server ever registered is never
told; a refresh under way stores its list after Unsubscribe has erased it; an
administrator who was demoted keeps acting as one until the access token ends
(`AdminActsFresh` says how long), and a write of the account's own row that was
read before may give the role back; a server that took over the node of its own
earlier session by SetData loses it when that session ends, and believes in it
on (`RegisteredIsAnnounced` excepts it); a client that stops at `total_pages`
misses a row if an account was created between Count and FindAll (the walk of
`WalkMissesNothing` stops at a page that is not full); a row that is disabled or
enabled while a filter on `disabled` is in use moves the pages; an issuer that
begins with a digit and contains a comma is cut, and every token is then
refused (`ClaimsSurvive` says: refused, never misread).

### Bounds, and why they are enough

- *Pool*: 4 threads on 2 connections give sleepers, awake threads, a newcomer
  and a holder at once, the cast of every lost-wakeup scenario; the theorems
  cover every size.
- *Sessions*: 2 threads interleave any two requests, a third adds no new
  pairwise race; two accounts and one number, to collide on it;
  two hashes, since no property compares passwords: what matters is that a
  new hash is another one (a writer that finds both in use waits until the
  other thread has written); four tokens let the first login
  and refreshes of refreshes happen around a revocation, and one token be
  refreshed more often than there are threads, which `RefreshesBounded`
  forbids; one token expires (`StaleBound`), the others do not.  `TokensLeft`
  keeps a token for every issuing request under way, so no request gets stuck.
- *Login*: `TriesBound` = 6 is above the value 3 - 1 + 2 that `TriesBounded`
  forbids to exceed, so the bound never hides a violation.
- *Captcha*: `GuessBound` = 5 is above 2 - 1 + 2 likewise; a code and a lock of
  two ticks and a counter of one let each expire before, with and after the
  others.  `MessagesBounded` needs no bound on messages, `sent` is reset with
  the key.
- *Server*: two deliveries give two handlers side by side or nested, each at
  every step of main; both signals and each kind of thread to run them on.
- *Discovery*: two servers, so that a list can be partly out of date; three
  undelivered events let a disconnect, a reconnect and a change queue up behind
  one that is being handled.  One application thread and the event thread
  already overlap in every step of a refresh.
- *Registration*: three sessions are a server, its restart before the old
  session ends, and one more restart that meets either node; two components,
  so that the second can fail after the first; two descriptions to tell.
- *Access*: one account suffices, because tokens of different accounts never
  meet; the lifetimes and the delay are small but different, and each bound in
  `AdminActsFresh` and `AccountActsFresh` is reached.  `MaxTokens` leaves room
  for a pair per request under way.
- *Listing*: three rows and pages of 1, 2 (the default) and 3 (the maximum) rows
  give pages that fill, end and overlap; a largest int of 7, so that the offset
  overflows with page numbers that exist.
- *Operators*: the bytes are all that JSON, Base64 or the SQL lexer treats in
  its own way, and one plain; three bytes are one group of Base64, and the
  payload around them is longer than the ints.  One
  setting at a time is given in operators_safety, where no property is about
  them, two in config_merged.
- Symmetry sets contain only model values that no property or guard tells
  apart; runs with liveness use none.

### Fairness

- *Pool*: time passes (`Deadline`); a reconnect ends, because
  `ConnectWithRetry` has a bounded number of attempts and the sockets have
  timeouts; the statements of `UserDB::Create` end.  Strong fairness of
  `Enter`, `Recheck`, `BeginRelease`: a thread that wants the mutex infinitely
  often when it is free gets it eventually, as `std::mutex` on the platforms
  used provides.  New requests, dying connections and spurious wakeups are not
  fair.
- *Login*: each request sends its next command (every command has a socket
  timeout) and a key with a TTL expires.  New logins and crashes are not fair.
- *Server*: main, the two threads and each handler go on when they can; the
  cleanup thread looks at its flag once a second, gRPC's Shutdown cancels the
  calls at its deadline and returns once no thread of gRPC's is held up.
  Signals are not fair.
- *Registration*: ZooKeeper ends a session without heartbeats (`ExpireDead`);
  nothing else is fair.
- *Access*: time passes, and a request goes on (statements have timeouts).
- *Discovery*: threads go on and ZooKeeper's commands return.  Subscriptions,
  changes, reconnects and expiry are not fair.

## Proofs

All for arbitrary constants, under the assumptions named in the modules (finite
sets of threads, positive limits as `config.cpp` validates them, what faults
may occur).

- *ConnectionPool*: the inductive invariant `Shape` is `TypeOK` and
  `GuardDiscipline`; types alone are not inductive, because that a guard index
  stays in {1, 2} follows from how many Acquire calls are left.  From it follow
  `ImplementsCustody`, step by step (each action is a HandOut, GiveBack, Lose
  or stutters); `ConnectionsInOnePlace` is proved on the abstract steps alone.
  `NoWakeupIsLost` is a counting argument over the threads awake: a step that
  grows `pool_` wakes a sleeper if there is one, and a thread leaves `Awake`
  only with a connection or when there is none.
  `OnlyFailedReconnectsLose` is an action property: a step after which a
  connection is neither in `pool_` nor in a guard is a reconnect that failed,
  whatever reconnects may do.
- *UserSessions*: `WellFormed` adds to the types what a request record holds at
  each step (`Fits`) and that owners of tokens exist (`OwnersExist`).
  `SessionInv` adds, for every request, how its flags relate to its token and
  its step (`Tracked`): a refresh past its check that began with a removed
  token is impossible, a request of a revoked login past its check is
  `crossed`.  `RevocationIsComplete` and `DeadTokensStayDead` follow from it
  for every set of failing statements.  `RotationIsBounded` needs `RotationInv`:
  while a token is in the table, each refresh that has passed its check is still
  about to delete it (`Deleting`), so there are at most as many as threads, and
  once it is gone none passes any more; a DELETE that fails starts the count
  anew.  `NumbersAreUnique` rests on `WellFormed`.
- *LoginGuard*: `NoFalseLock` is inductive with the types.  `TriesBounded` is
  not: it needs that every examined password is counted or about to be
  (`Accounted`), and that counter and requests in flight stay within the limit
  plus the threads (`Slack`), both until a GET, an INCR or a process fails.
  `CounterExpires` is inductive because the INCR that creates the key goes on to
  PTTL or to the lock, unless its reply is lost.

- *Registration*: the invariant says, per step of Register, what the node and
  the history can be (a server past CreateNode owns the node or its session is
  not alive, or an answer was lost).  `RegistrationHolds`, `DescriptionHolds`
  and `GhostsNeedLoss` follow for any number of sessions and descriptions.
- *AccessTokens*: `AdminActsFresh` is not inductive.  `RowAges` relates the
  ages to the row, `TokensInv` bounds the age of each token's claim by the time
  it has been out plus its delay, `RequestsInv` does so for a request's copy of
  the row and for the claims it acts on.
- *MySQLConnect*: `ConnectInv` counts the handles at each stage; for every
  value of `max_retries`.
- *Captcha*: `SpentCodesStayLocked` is inductive with the types.
  `BoundOnMessages` needs `MessageInv`: messages sent and requests about to send
  are together at most the threads, because once the key is there only
  requests that looked before can still send.
  `BoundOnGuesses` needs `Accounted` (every wrong input is counted or about to
  be) and `Covered` (counter and inputs about to be counted stay within the
  limit plus the requests under way), both until an INCR or the DEL of a full
  counter is lost.
- *ServerLifecycle*: `NodeInv` relates the node to the registry's flag and to
  where main and every frame of Shutdown stand, `ThreadInv` says from which
  steps on the two threads are joined, `HolderInv` that whoever is in a locked
  section holds its mutex, however handlers nest.  `OnlySelfJoinTerminates` is
  an action property: the one step that ends in `std::terminate` is a handler's
  join on the thread it runs on.  For any number of handlers.
- *Discovery*: `CacheInv` says that every list under way is current or has a
  reason not to be (`ListsCurrent`), and that a cache that differs from ZooKeeper
  has news coming: an undelivered event, a refresh under way or a watch to be
  set.  For any number of instances and threads, queue bounds and faults.
- *Selection*: the sums of the weights grow along the list (`SumsGrow`), so the
  draws that end the loop at an instance are an interval as long as its weight.
  The proof attempt showed that `DrawsFollowWeights` was stated too strongly:
  with negative weights a partial sum may overflow although the total does not,
  so it now asks every sum of the loop to be an int.
- *Listing*: `ListingInv` relates the ids that a walk has shown to the ranks of
  the rows now.  Pages cut the list by rank; a row that matched all the time
  only moves down when others enter (`RankGrows`) and so cannot fall behind the
  walk, unless one left (`MissInv`); `RepeatInv` is the same the other way
  round, and `CountInv` keeps the total that the pages are computed from.  For
  any table, page sizes and filters.
- *SqlBuilder*: the lexer reads a text byte by byte (`LexAppend`), reads back
  each escaped byte as the byte (`LexEscaped`), hence a literal as its value
  (`LexString`); `LoopCounts` says at which byte of the template the loop is at
  which parameter, and `LoopReads` puts these together.  For every template
  without apostrophes (the repositories write none) and all parameters.

- *JwtCodec*: `JwtInv` says that payload and what was read are what the
  functions make of the claims; the work is in the lemmas about those.
  *Base64*: `Encoded` and `Decoded` say which bits of the text have been put out
  after n bytes or digits and that the lowest bits of val are the last byte or
  digit; no shift reaches beyond twelve bits (`LowBits`), so every overflow of
  val is harmless.  *JSON*: `ParsesTo` follows the reader through the text that
  BuildJson writes: keys (`KeyRead`), strings with their escapes (`StringRead`),
  numbers (`NumberRead`), pairs (`PairRead`).  A string comes back but for
  backspace and form feed, which the reader does not undo (`Mangled`); that is
  an issuer the check refuses.  If the issuer begins like a number and a byte in
  it ends one, the rest of it is read as JSON and may hold anything, an issuer
  too.  `CutState`, kept by every byte, says that whatever is or will be stored
  as the issuer is shorter than the bytes of the issuer that were read;
  `LostState` that behind the next comma and quote no key can be the issuer's
  any more.  So what is read differs from what was signed in its length, and the
  token is refused.  Assumed of the constants: subjects are letters other than
  the one that stands for the issuer's key, users are hexadecimal digits and
  hyphens.

Selection, SqlBuilder and JwtCodec need induction over lists and texts. It is
done with sets: the numbers for which a formula does not hold have no least
element (`SetInduction`, `BoundedInduction`, from the well-foundedness of `<`),
and that a recursive function exists is proved the same way (`SumsExist`,
`LoopExists`).

Only model-checked: liveness (`AcquireReturns`, `RequestsEnd`,
`LockEndsUnlessBroken`, `SignalEndsProcess`, `WatchComesBack`,
`StoppedServerLeaves`, `AuthorityEnds`), which the prover does not handle.
Every invariant that a passing run checks has a theorem.

## Not modelled

YAML and JSON libraries (`thirdparty/json/json.hpp` is vendored code), logging
and ToString, hash and signature algorithms, the form checks of `validator.h`,
gRPC and protobuf conversion, AuthClient and UserClient (each method sends one
call and converts its answer; they keep no state and retry nothing), the Redis
hashes, scans and SETNX, ConsumeCaptcha, `UserDB::Delete` and `ExistsByMobile`,
TokenRepository's read-only queries (no caller in the services), MySQLResult
(reads a stored result).
