# Verification of the NestJS / Prisma / MongoDB starter

TLA+ models of the parts of this repository that are easy to get wrong and hard to test,
TLC runs over small instances of them, and TLAPS proofs that hold for every value of the
constants. Every definition is translated from the TypeScript under `src/src` (and one
migration); `PROJECT.json` names the lines of each. Code outside the repository (MongoDB,
the Prisma engine, jsonwebtoken, `@casl/ability`, the Nest framework, sqs-consumer, SQS) is
modelled by how this code uses it and marked external there.

## 1. The system

A REST service with e-mail/password accounts. A sign-in stores a pair of JWTs in a
*whitelist* collection; a request passes the guard only while its access token is listed.
Handlers are then protected by a CASL guard. Everything thrown on the way is answered by
one of seven exception filters. An SQS client library is shipped beside the application.

| part | state it keeps | operations | talks to |
|---|---|---|---|
| `TokenService`, `TokenRepository` | whitelist rows: user, token, link to the refresh row, `expiredAt` | `sign`, `refreshTokens`, `logout`, the three lookups | MongoDB, JwtService |
| `AuthGuard` | none | lookup in the whitelist, then `verifyAsync` | `TokenService` |
| TTL migration | an index on `expiredAt` | mongod deletes expired rows | whitelist |
| `AuthService`, `UserRepository` | `User` documents, unique e-mail | `singUp`, `signIn` | Prisma, hashing middleware, `TokenService` |
| CASL module | `request.casl`: user, subject, conditions | `canActivateAbility`, `hasAbility`, `assertAbility`, proxies | hooks, which read the database |
| filters, interceptors, pipes | none (one request) | guards, pipes, handler, interceptors or filter | all controllers |
| `main.ts`, `*.module.ts` | the injector's instances, CASL's root options, Prisma middlewares and connection, consumers | `bootstrap`, constructors, factories, `onModuleInit`, `app.close` | every module |
| `SqsService` | consumers and producers by name | `onModuleInit`, `onModuleDestroy`, `send`, `purgeQueue` | SQS |
| user, health controllers | none | reads | Prisma |
| S3, configuration, Swagger | none | pass-through | |

What is hard in it:

* **Interleaving between awaits.** One Node process serves many requests and yields at
  every `await`. Nothing here is transactional: a pair is two inserts, a logout two deletes
  under `Promise.all`, a sign-up a lookup, a hash and an insert.
* **Partial failure.** The second insert or one of the deletes fails; a call is executed
  and its answer lost; the process dies in between; a response never arrives.
* **Time.** `iat` has a resolution of one second; the same lifetime is read in two units;
  rows go when the TTL monitor comes round, not when they expire.
* **Stale reads.** The guard looks a token up, then awaits; the CASL guard decides in the
  name of a user and a subject that hooks have read from a database that goes on changing.
* **Order of registration** of filters, interceptors and permission rules, where a
  permutation compiles, starts and answers most requests correctly.
* **Start-up.** The injector makes providers in any order their injections allow; one
  registration that is wrong shows only at a hook, or never; consumers take messages and
  query the database while other modules wait for their own hooks.
* **Redelivery.** SQS shows a message again unless it is deleted in time, and a long poll
  that is under way when the service stops still brings messages to the handlers.

What makes each part correct: pairs stay paired and logout ends exactly the session it was
called for; accounts are unique and an acknowledged one can sign in; what the guard matched
is what the handler gets, and the guard agrees with the rules; the client can tell what
happened from the envelope and is never sent a password hash; no message is lost; an application
that listens has given every service its options. The
`hazards` of `PROJECT.json` list the places one by one, with the properties that watch them.

## 2. Modules

```
SessionLifecycle  <== implements ==  TokenService -> TokenRepository -> Jwt
AccountRegistry   <== implements ==  UserAccounts
AtLeastOnceQueue  <== implements ==  SqsService
                                     CaslAccess   -> CaslAbility
                                     Application  -> HttpPipeline
                                                  -> Startup -> Providers
                                                            (-> : EXTENDS)
```

Each `MC...` module gives an instance for TLC (symmetry, options of the application); each
`..._proofs` module holds the theorems about its component.

Common conventions. A database call is one atomic action, together with the synchronous
code that resumes on its answer; between two actions anything else may happen. A failing
call is `DbError` (or a disjunct of the step); an insert that was executed and whose answer
was lost is the insert followed by the failure of the next step, or an action of its own
(`CreateUnanswered`). `Crash` forgets all requests in flight and keeps the database. New
ObjectIds come from `NewId`, a CHOOSE among the unused: ids are never compared for order.
Definitions that differ from their neighbour by a plausible bug are marked `Mutant`; no
specification uses them. Each checked property is violated when its mutant is put in place.

### Jwt, TokenRepository, TokenService

| model | code |
|---|---|
| `Tokens`, `AccessToken`, `RefreshToken` | `createJwtAccessToken`, `createJwtRefreshToken`: a token is user, kind and the *second* of signing, for the payload has no nonce |
| `ExpiresIn`, `Verifies` | jsonwebtoken reads a number as seconds, while `expiredAt` adds the same number to `Date.now()` |
| `row`, `whitelist` | documents ever inserted, and those still stored |
| `Sign`, `SaveRefresh`, `SaveAccess`, `Respond` | `sign`, and the tail of `refreshTokens`; both tokens are minted before the first await, each `expiredAt` when its insert is called |
| `Refresh`, `RefreshLookup`, `RefreshVerify` | `POST /auth/token/refresh` |
| `Present`, `GuardLookup`, `GuardVerify` | `AuthGuard` before a logout or any other route |
| `LogoutLookup`, `LogoutDelete`, `Settle`, `Outcome` | `logout`: `findFirst`, then two concurrent deletes; the response is decided by the first failure, and the other delete runs on |
| `TtlSweep`, `Tick`, `Crash`, `DbError` | the TTL monitor, the clock, the environment |

Prisma's `delete` by id is taken as atomic: it removes the row or fails with P2025.
Roles and e-mail in the payload are abstracted, a request without bearer header (401 at
once) is left out. `closed` is a history variable: sessions whose logout was answered 204.

**SessionLifecycle** is the promise behind it, with neither tokens nor database: each
session has a capability to refresh and one to access, granted once and in that order to
one owner, revoked for good, and acknowledged as closed at most once. The refinement maps
a session to its refresh row.

### UserAccounts

`SignUp`, `SignUpLookup`, `HashPassword`, `Create`/`CreateConflict`/`CreateUnanswered`
follow `singUp` through the repository and the middleware (which rewrites the arguments of
the query), `SignIn`, `SignInLookup`, `Compare`, `SignTokens` follow `signIn`. A stored
password is `Hash(p)`, a record, so that hashing twice shows. DTO validation stands in front
and changes no state. Nothing in the program changes or deletes an account. The token half
of sign-in is one step here and call by call in TokenService.

**AccountRegistry**: each e-mail is a write-once register holding a password; only the
writer is told 201, and only who presents the content is granted tokens.

### CaslAbility, CaslAccess

`CaslAbility` is pure: the rules `AbilityFactory` collects for a user, the decision rule of
`@casl/ability` (the last matching rule wins; for a class, inverted rules with conditions do
not count) and `hasAbility`. Conditions are the set of instances they match.
A query (`ToMongo`) is the set of instances it selects, or `Null` where the code gives
`undefined`: `rulesToQuery` goes back from the last rule to the first without conditions
(`Unshadowed`, `Opens`), alternatives are joined by `$or`, exclusions by `$nor`. It forgets
the order of the rules, so it may select less than `can()` allows (`QueryFindsAllowed` says
when it does not); the property is that it never selects more.
`CaslAccess` is one request through `canActivateAbility` and the handler: superuser
shortcut, class check, subject hook, user hook, `Match`, and then what `UserProxy`,
`SubjectProxy` and `ConditionsProxy` hand over. Between awaits the stored user and subject
change (`Elsewhere`). The permissions of `forFeature` modules are one function, `extend` is
inlined; `toSql`, `toAst`, `get`, contexts other than HTTP and `assertAbility`, which nothing
calls, are left out.

### HttpPipeline

One request: body parser and routing, `AuthGuard`, `AccessGuard`, pipes, handler,
interceptors or filter. Guards and handlers are reduced to their outcomes, *all* of them at
any time. A message is reduced to what the filters do with it, the number of parts
`split(':')` gives and the number `parseInt` finds in the first. `GlobalFilters`, `Catch`
and `FilterFor` reproduce the selection: from the last registered filter to the first, by
`instanceof`. `Serialize` and `ClassSerialize` are the interceptors that remove the hash.

### Providers, Startup, Application

`Providers` is pure: for each way a module can be registered (`Registrations`: plain,
`register`/`forRoot`, and asynchronously with `useFactory`, `useClass`, `useExisting` or
none of them) the providers it hands to Nest, as records of the token, what is injected and
what is made: what the author gave, nothing, a default, or an object around another token.
`calls` marks the providers that run code of the author or of a library, which may throw.
`Merged` is Nest's rule that the providers of a dynamic module replace those of the
decorator, on which `forRoot` and `forFeature` rely.

| `Startup` | code |
|---|---|
| `BootInit` | `app.module.ts` is loaded; `CaslModule.forRoot` has set its metadata |
| `Resolve` | one provider is made, its constructor run: `PrismaService` installs its middlewares, the factory of `CASL_ROOT_OPTIONS` sets the metadata |
| `CannotResolve`, `S3Throws` | a token nobody provides; `S3Service` without configuration |
| `Configure` | `main.ts` between `NestFactory.create` and `app.listen`, which awaits nothing: pipes, interceptors, filters |
| `PrismaOnModuleInit`, `SqsOnModuleInit` | the hooks, in any order |
| `SqsInitThrows` | the hook finds no options, or a consumer or producer named twice (`sqsRepeats`) |
| `Listen`, `Reject` | the port is open; the author's code, a library, the database or the port refuses |
| `Query`, `Close` | handlers of messages and requests query at once; `app.close` |

`Bootable` says, one by one, which registrations work; the property `FailsForAReason`
compares that list with what the providers lead to. Which of the hooks runs first depends
on the distance of the modules from the root, and is left open. `Application` puts
`HttpPipeline` behind it: a request is served from `Listen` on and may query (`MayQuery`).
Its steps are steps of `HttpPipeline`.

### SqsService

`onModuleInit` builds consumers (only for queues with a handler) and producers and throws on
a repeated name; the process may end at any moment and start again. The queue and the
consumer library are external, modelled by how the service uses them. A consumer asks by a
long poll (`Poll`) when its last one was answered and its handlers are done (`Idle`);
between the request and its answer (`Receive`, or `Unanswered`, after which SQS may take for
delivered what did not arrive) anything may happen. A received message is hidden, reappears
after its visibility timeout, and is deleted once its handler has acknowledged it; a batch
handler may acknowledge a part of what it was called with, and a deletion may fail.
`onModuleDestroy` calls `stop()` without abort: no poll follows, but the one under way is
answered and its messages go to the handler (`requested` outlives `polling`). The module is
not registered in `AppModule`; it is modelled as the library it is.

**AtLeastOnceQueue** is what its users rely on: a message that was put is present until a
handler of its queue has done it, or the queue is purged; it may be present longer and be
done again. Which process holds it, its visibility and the state of consumers are hidden.

## 3. Runs

| run | instance | what it shows |
|---|---|---|
| `TokenService_lifecycle` | 1 user, 2 requests, 2 pairs, TTL, 2 instants | types; the whitelist implements `SessionLifecycle` |
| `TokenService_users` | 2 users, 2 requests, 2 pairs | links of pairs are right, delivered tokens were stored, rows are removed by expiry or by their owner only |
| `TokenService_race` | 1 user, 3 requests, no clock | racing logouts: one wins; after its 204 both rows are gone and no lookup accepts a token that only closed sessions carry |
| `TokenService_live` | 1 user, 2 requests, 1 pair, fairness | every request ends, every expired row is swept |
| `TokenService_logout_e2e` | as race, 2 sign-ins in one second | **violation**, see findings |
| `TokenService_expiry` | 2 ticks per second, no TTL index | **violation**, see findings |
| `UserAccounts` | 3 requests, 2 e-mails, 2 passwords, 4 ids | implements `AccountRegistry`, unique e-mails, acknowledged users can sign in |
| `CaslAccess` | all permission sets of up to one rule for everyone, two for customers, one for editors; with and without user hook | guard and proxies agree with the rules; the conditions select nothing the rules refuse |
| `CaslAccess_superuser` | the permissions and routes of the application | **violation**, see findings |
| `HttpPipeline` | `Application`: 54 registrations, and every route, every outcome, mapped and unmapped Prisma codes | start-up ends, only for a reason in failure, and the injector never waits for what cannot come; services have their options, middlewares and pool in time; right filter, envelope, code, nothing private sent |
| `HttpPipeline_codes` | the same | **violation**, see findings |
| `SqsService` | 3 messages, 2 queues (one without handler), batch and single, good and bad options | implements `AtLeastOnceQueue`, nothing lost; a stopped service asks no more and falls silent; eventual processing |

**Bounds.** `MaxTime` stops the clock; `RoomForPair` and `RoomForAccount` let a request
that may insert start only when ids are left for it. They restrict the instances, not the
properties, and the proofs hold for any value. Two requests are enough for every pair of
racing operations, three for two racers and a bystander (two logouts and a refresh, two
sign-ups and a sign-in). Four rows are two sessions: enough to confuse one with the other.
A second has two ticks where the difference between the clock and `iat` matters, and the
lifetimes are chosen so that expiry falls inside the run. In the life-cycle run
`JwtExpRefresh = 0` makes a refresh row expire while its access row is alive; a refresh can
then never succeed, and the success of refreshes is exercised by the other runs. Three
messages let one batch fail while another message waits. `MCRegistered` takes the
registration of `app.module.ts` and changes one module at a time, since modules meet only
through the injector and the database: each way of registering SQS, Prisma, a custom client,
S3 and CASL, with and without the import that provides the factory, and options of SQS that
repeat a name. SQS and Prisma, whose
hooks meet at `app.listen`, are varied together. The proofs take any registration.

Safety runs use symmetry over requests, users, e-mails, passwords or ids where these are
interchangeable; the runs with liveness use none.

`CHECK_DEADLOCK FALSE` is set in all of them: the models stop when a request has its
response, or when ids, clock and requests are used up.

**Fairness.** `TokenService`: weak fairness of `Serve(r)` (an awaited database call settles,
with an answer or an error, for the drivers have timeouts), of `TtlSweep` (mongod runs its
monitor every minute) and of `Tick`. No fairness of arrivals, and `Crash` is free to happen
at any time. `SqsService`: weak fairness of starting the service, of each consumer's next
poll, of the end of a poll (SQS answers a long poll after its waiting time, or the request
fails) and of the visibility timeout; strong fairness of receiving a given message and of a
handler acknowledging it.
The latter is an assumption about handlers, not about this code: one that rejects a message
for ever is stopped by no one, unless the queue has a dead-letter policy. What the property
then says is that no step of this code (start, stop, duplicate check, skipping of consumers
without handler) leaves a message unattended. `Application`: weak fairness of `Bootstrap` as
a whole, for what the injector and the hooks await resolves or rejects; none of requests,
queries and `app.close`.

## 4. Findings

Four statements of the repository are not what the code does; each has a run of its own.

1. *"should delete tokens from whitelist"* (e2e `auth-logout.ts:17`). Two sign-ins of one
   user in one second give equal access tokens in two rows; logout deletes one of them,
   answers 204, and the token still passes. `OnlyTwinsPass` proves that there is no other
   way in: the token of a closed session is refused unless another row carries it too.
2. *"5m"* (`jwt.config.ts:7`). The number is milliseconds for `expiredAt` and seconds for
   the signature, so an access token outlives its row's `expiredAt` until the TTL monitor
   comes or, if the migration was not run, until the signature ends it after 300000 s.
3. *"Role to grant full access"* (`app.module.ts:38`). The superuser shortcut returns before
   the conditions are set, and `PATCH /users/me` of an admin ends in a TypeError and 500.
   `AdmittedAreServed` proves that nobody else, and no route that does not ask for
   conditions, is admitted and then answered 500.
4. *"401001: Invalid credentials"* (`auth.service.ts:75`). The filter answers 401000.
   `OtherCodesAreAnswered` proves that every other coded exception keeps its code.

Noticed while reading, without a run:

* `auth.service.ts:65` says 404001 of an exception thrown with the constant of 404000.
* `access.service.ts:104` says the class is checked when no rule has conditions; line 106
  does it when *some* rule has none. The model follows the code.
* `assertAbility`, which nothing calls, looks the rules up by `subject.constructor`
  (`access.service.ts:56-59`), which is `Object` for the plain rows Prisma returns: for a row
  it finds no rule with conditions, and its 404 (61) cannot be reached.
* `prisma-client-exception.filter.ts` answers 400023 for every mapped code, whatever the
  status, and unmapped codes without the envelope; both are exceptions that the properties
  of HttpPipeline name. `catchNotFoundError` (119) trims an undefined part when a message
  has no colon; only the `...OrThrow` queries, which nothing calls, could raise it.
* A refresh token whose signature has expired is answered 500: nothing catches the
  rejection of `verifyAsync` at `token.service.ts:64`, and no filter knows its class.
* `sqs.module.ts:150-156` drops what `createOptions` returns: registered with `useClass` or
  `useExisting`, the application never listens (`SqsInitThrows`). The model follows the code.
* `custom-prisma.module.ts:76` logs that no client was given and provides a service that
  injects it; the application fails at start with the injector's message.
* `conditions.proxy.ts:28` returns undefined when no rule allows the action and when none
  has conditions alike, and `get` (54) mixes conditions of inverted rules with the others.
* Every module that reads `CaslConfig` shares one metadata slot: a second `forRoot` replaces
  the options of the first.
* `castom-message.ts` reads `body` where a received message has `Body`; `s3.service.ts:91`
  uploads `file.buffe`; `sqs.service.ts:93` binds event listeners to the instance of the
  message handler.
* `enableShutdownHooks` is called nowhere, so hooks of destruction run only on `app.close()`,
  and nothing disconnects the Prisma client. The e2e context builds the application without
  the pipes and filters of `main.ts`.

## 5. Proofs

All theorems are checked by TLAPS for every set of users, requests, ids and options that
satisfies the named assumptions. The assumptions say that lifetimes and ticks are numbers,
that `Null` and the other markers are not data, that options and routes have their types,
and that permissions define lists of rules; TLC evaluates each of them in a passing run. No proof uses the bounds of the runs or
assumes that a set of users, ids or requests is finite. Every module has its type invariant
proved as well.

* **TokenService** (`TokenService_proofs`, `TokenService_steps`). What the runs check is not
  inductive: that a logout removes the right row depends on what the request in flight
  remembers of a row that others may have deleted. `IInv` is `TypeOK /\ DataInv /\
  RequestOK /\ SavedDistinct /\ OneLogoutWins`. `DataInv` says what every row ever inserted
  looks like and what `closed` and `delivered` imply of it; `RequestOK` says, for each label
  of a request, what its memory knows (the refresh row it has just saved has its own token
  and no access row yet; the target of a logout is an access row of the token's user; a
  delete that is no longer pending has happened); `SavedDistinct` that no two requests hold
  the same saved row. `Invariance` gives `TypeCorrectness`, `PairsStayLinked`,
  `LogoutRevokesBothTokens`, `AtMostOneLogoutWins` and `NoUnstoredTokenIsDelivered`. From
  the same invariant follow the action properties `RemovalsAreByOwnerOrExpiry` and
  `ClosedSessionsAreRefused`, and the refinement `WhitelistRefinesLifecycle`, one lemma per
  action: each maps to a step of the life cycle or to a stutter.
  `OnlyTwinsPass` is `ClosedSessionsAreRefused` for a token that one row carries. `StoredRowsAreFinal`
  follows from the inserts taking a fresh id; `RowsLiveNoLonger` needs `ExpiryInv`: an expiry
  that a request has computed but not stored yet is at most one lifetime from now, and stays
  so because the clock only moves forward. `RequestsAreShort` counts the calls a request
  still awaits (`StepsLeft`, at most five) and shows that each step of its own lowers the
  number, that no other process raises it, and that no stage is a dead end.
* **SessionLifecycle** (`SessionLifecycle_proofs`): an acknowledged logout is final, which
  with the refinement is a fact about the whitelist.
* **UserAccounts** (`UserAccounts_proofs`). The unique index gives `UniqueEmails`;
  `AcknowledgedAreRecognised` needs in addition that an acknowledged pair is stored under
  its e-mail, and that a request that compares or signs holds the one account of its
  e-mail. `AccountsRefineRegistry` maps the e-mail to the password of its account.
  `StoredAccountsAreFinal` says that no step touches a stored account; with it
  `GrantedIsStored` is inductive and `OneOwnerPerEmail` follows: one password per e-mail is
  ever answered 201.
* **CaslAccess** (`CaslAccess_proofs`). `InstanceImpliesClass` is the lemma everything rests
  on: whoever may do an action on some instance may do it on the class, for any list of
  rules (by the position of the deciding rule; no induction). From it `GuardNarrowsClass`,
  `GuardIsHasAbility`, `InstancesAreMatched` and `MatchedSubjectIsHandled`. The invariant adds
  what each stage of the request has fixed already (`Control`) and decided (`Results`).
  `QuerySelectsAllowed` and `QueryIsDefined` relate the query to `can()` for any list of
  rules (the second by the last rule without conditions, which exists because `<` is
  well-founded); with `Conditions`, which says that who is admitted by rules may do the
  action to the class, they give `ConditionsAreSound`. `QueryFindsAllowed` is the converse:
  the query misses nothing `can()` allows if rules with conditions that forbid are defined
  after those that allow. `AdmittedAreServed` needs `ConditionsLeft`, what the guard has left
  in the request at each stage.
* **HttpPipeline** (`HttpPipeline_proofs`): `MostSpecific`, `Envelopes`, `CodesAgree`,
  `PrivateFieldsStay`, for any set of Prisma codes. `Stands` records which exceptions a
  stage can throw; with `WrongAtSignIn` (only the sign-in throws the wrong password) it gives
  `OtherCodesAreAnswered`.
* **Application** (`Application_proofs`), for any set of registrations. `RequestsOfPipeline`
  carries the theorems of HttpPipeline over. The start-up needs `BootInv`, that is
  `BootTypeOK /\ Holding /\ Going`: `Holding` says of each token what it holds once it is
  made, given the registration (the providers of a registration are computed one module at
  a time), and `Going` what each phase has behind it (all tokens made, all hooks run, the
  pool connected, or a reason to have failed). From it `OptionsReachServices`,
  `MiddlewaresFirst`, `PoolFirst` and `StartsOrFails`. `InjectorNeverWaits`
  rests on the injected tokens being in three layers, none of which waits for itself or for
  a later one: the lowest layer that is not made can be made, or lacks a token and fails.
  `StartupIsBounded` adds up the providers, hooks and phases ahead (`Ahead`, finite because
  the tokens of the program are). `ApplicationAnswers` restates the pipeline's invariants of
  the composed application.
* **SqsService** (`SqsService_proofs`): `AtLeastOnce`, for any number of messages and
  queues, needs that a message being worked on was sent (`Placed`); `StopIsOrderly` that a
  stopped service has no consumer started (`NoneStarted`), so that its polls under way only
  become fewer and each call of a handler uses one up. `Implements` is the refinement: a batch
  is of one queue (`OneQueue`), so what a handler acknowledges is one `Finish`. `MessagesStayReachable`
  and `CallsAreOwn` need `Started`: a running service, and no other, polls all the
  queues that have a handler, and only one that passed the duplicate check has sent anything.

Only model-checked: liveness (`EveryRequestEnds`, `ExpiredRowsAreSwept`,
`SentIsProcessed`, `StoppedFallsSilent`, `StartupEnds`), which TLAPS does not reason about under fairness. What
fairness has to work on is proved, however, for every value of the constants:

| liveness, by TLC | what is proved of it | what fairness adds |
|---|---|---|
| `EveryRequestEnds` | `RequestsAreShort`: no dead end, at most five steps | awaited calls settle |
| `ExpiredRowsAreSwept` | `RowsLiveNoLonger`: every row expires in time; `StoredRowsAreFinal`: an expired row stays removable, a removed one stays away | the clock and the TTL monitor run |
| `SentIsProcessed` | `MessagesStayReachable`: a message not yet processed is visible or will be again, in a queue that is polled | it is received and a handler resolves |
| `StoppedFallsSilent` | `StopIsOrderly`: after the stop no poll begins, and a call only with one that ends | polls are answered and handlers finish |
| `StartupEnds` | `InjectorNeverWaits`, `StartupIsBounded`: always a next step, finitely many of them | hooks and factories settle |

That these steps are ENABLED is not stated in the theorems as such, but by what their guards
ask for. Every invariant, action property and refinement of a passing run is proved.

## 6. Not modelled

Swagger decorators, the logging middleware, `S3Service.upload` and most of the configuration
have no state of their own, or only forward a call. What the factories of an author return
is not looked into. `CustomMessage` builds plain objects. `custom-prisma.module.ts` beside
`custom/` is an unused copy. `src/*.ts` beside `src/src` are drafts nobody imports. The
`where` and `orderBy` pipes come from a package and are kept as the two errors they can
throw. Hashing is a constructor: bcrypt's strength is no subject of these models.

Hazards without a property: roles copied from an old refresh token stay until the next
sign-in (`token.service.ts:68`), as in any system of self-contained tokens, and no route
changes roles; `ACCESS_TOKEN_EXP` is a string (`jwt.config.ts:7`), a matter of configuration
values, and lifetimes are numbers here; a subject that appears after the guard has decided by class (`access.service.ts:116`)
does not exist in this application; the listeners at `sqs.service.ts:93` have no state of the
service to change. Some hazards are bounded rather than excluded, because the code does not
exclude them: a refresh or a request that is past its lookup when the session is closed, a
sign-up repeated after a lost answer, codes of Prisma outside the mapping, the code of a
quoted colon, and conditions of a token's user whom the hook has replaced. The notes of
`PROJECT.json` say for each what is permitted and what a property would catch.

## 7. Plan

Done, in this order: whitelist, its abstract life cycle, proofs; accounts, registry, proofs;
CASL; HTTP pipeline; SQS and its abstract queue; registration of modules and start-up,
composed with the pipeline; queries made of conditions. Next:

1. A composition of UserAccounts, TokenService and CaslAccess: one request from sign-up to
   a guarded handler, with the answers of each model as the outcomes of HttpPipeline, in
   place of "every outcome at any time".
2. UserAccounts with requests whose answer is lost and which the client repeats, and the
   pair that `SignTokens` grants tied to the rows of TokenService.
3. SqsService started by Startup: its consumers at work while hooks of other modules wait,
   with the messages in place of the bare `Query`.
4. The theorems of these compositions, carried over from the modules as
   `RequestsOfPipeline` does.
