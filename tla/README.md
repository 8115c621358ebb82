# ZTALeaks: TLA+ models, model checks and proofs

ZTALeaks puts a small web application (a fictitious nuclear plant) behind a
zero-trust gate. This directory models the parts of it whose behaviour is decided
by concurrency, failure, order and time: the second factor and the ceremonies before it,
the accounts, the login limiter, the trust in signing keys, the authorization policy
and its mirrors, the evaluation of a request, the records behind it and how they are
seeded and deleted, and the way of intrusion alerts. Paths below are relative to `src/`.

## 1. The system

| Component | State | Operations | Talks to |
|---|---|---|---|
| Envoy (`infra/envoy`) | held requests | holds a request, asks `ext_authz`, forwards or denies; 5 s timeout, fails closed | orchestrator, business API, IAM |
| Security orchestrator (`services/security-orchestrator`) | JWKS cache, alert cache | `BuildEvaluateHandler`: verify token, look up device, score, ask OPA, answer, let the model learn | Envoy, IAM (JWKS), MongoDB, anomaly model, OPA, parsers |
| OPA policy (`infra/opa/policy.rego`) | none | `allow` | orchestrator |
| IAM: password login and OTP (`services/iam-service/internal/handler`, `db`) | `otp_sessions`, `identity_users`, `rate_limits` | login, verify-otp, register, cleanup, TTL indexes | MongoDB, SMTP |
| IAM: WebAuthn (`internal/webauthn`) | `webauthn_challenges`, `device_fingerprints`, the flag `has_tpm` | begin/finish of registration and login | MongoDB, SMTP |
| IAM: accounts (`internal/handler/register.go`, `db/user_repo.go`) | `identity_users` under two unique indexes | register; roles given by the seeder | MongoDB, seeder |
| IAM: signing keys (`internal/crypto`) | one RSA key for each run | issue tokens, publish the JWKS | orchestrator |
| Business API (`services/business-logic`) | four collections; sleeping goroutines of the trusted guard | list, get, create, delete; delayed sanitized deletion | MongoDB, behind Envoy |
| Pages (`static/js/app.js`) | token in the browser | show what the role may do (`ROUTE_RULES`) | everything, through Envoy |
| Snort parsers (`infra/snort*/parser.go`, three identical files) | rate limiters, a channel, a connection | read alert lines, limit, queue, send, reconnect | orchestrator, TCP 9000 |
| Listener and cache (`internal/snortlistener`, `internal/cache`) | alerts per address, one expiry each | `SetAlert`, `GetAlerts` | parsers, request evaluation |
| Profile tailer (`infra/databases/common`) | a time watermark | copy new profiler entries to a log | MongoDB |
| Seeder (`tools/seeder`) | none of its own | fill seven business collections, upsert the default users; run at each start of the compose file, after a reset, and by hand | MongoDB |
| nftables, Splunk forwarder, certificates, Kubernetes/Compose files | configuration | none at run time that changes shared state | |

Where it is hard:

* **Many goroutines on one document.** Every HTTP request is a goroutine; a MongoDB
  call is atomic, a handler that makes several is not (verify-otp, the limiter, the
  WebAuthn ceremonies, registration).
* **Calls that fail after they were applied.** Every database and HTTP call has a
  timeout, and many of their errors are ignored.
* **Background work that outlives its request.** `last_login_info`, the update of the
  anomaly model, the deletion of the trusted guard; all are lost when the process stops.
* **Uniqueness that only an index keeps.** Registrations, enrolments, creations and runs
  of the seeder look first and write later; where no index is unique, nothing keeps it.
* **Batches that stop in the middle.** The seeder inserts a collection in one ordered
  `InsertMany`, undoes nothing, and takes a part of a collection for a whole one.
* **Time kept by somebody else.** TTL indexes are applied by a monitor of MongoDB, once
  a minute; caches expire lazily.
* **Keys that die with a process**, and a cache elsewhere that does not know.
* **One table in three languages.** The matrix of the policy, `ROUTE_RULES` of the pages
  and `aiResourceBases` of the orchestrator are kept by hand.
* **A policy that judges single requests**, while what it is for is a property of
  sequences of them.

The whole list, each at its line and with the properties that would notice, is
`hazards` in `PROJECT.json`.

What makes each component correct, in short:

* OTP: no more comparisons than allowed, no replay, honest answers, every request ends.
* WebAuthn: one login for each challenge, growing sign counts, a credential belongs to who
  registered it.
* Accounts: who was told "created" keeps the account; default users have their role.
* Business records: an answer is about the record that was named, and what is gone was
  asked away.
* Seeder: what is stored names what is stored, "done" means complete, runs that meet do not
  all fail, nothing is doubled.
* Limiter: a bound on the failures of an address, no lost counts, no eternal block.
* Keys: an old key is trusted for a bounded time, a current one is not refused for long.
* Policy: no information flows down except through the guard; anomalies close doors from
  the top down; the tables agree.
* Evaluation: only requests that are permitted as described to the orchestrator are served
  or learnt from, a fate is decided once, every request is settled.
* Alerts: at most once, visible while recent, bounded queue, order lost only at a
  reconnect.

## 2. Modules

| Module | Models | Extended or instanced by |
|---|---|---|
| `OtpSessions` | collection `otp_sessions`, verify-otp, `last_login_info` | `OtpSessionsProofs`, `MCOtpSessions` |
| `LoginRateLimit` | collection `rate_limits` and its three users | `IdentityProofs`, `MCLoginRateLimit` |
| `WebAuthn` | challenges, devices, flags, both ceremonies | `SignatureProofs`, `MCWebAuthn` |
| `Accounts` | collection `identity_users`, registrations, default users | `IdentityProofs`, `MCAccounts` |
| `JwksTrust` | keys of the identity service and `Verifier` | `SignatureProofs`, `MCJwksTrust` |
| `SnortAlerts` | parsers, connections, listener, cache | `SnortAlertsProofs`, `MCSnortAlerts` |
| `Policy` | `policy.rego`, as operators | `Decisions`, `InfoFlow`, `Orchestrator` |
| `Decisions` | one session against the three tables | `PolicyProofs`, `MCDecisions` |
| `InfoFlow` | many users, many allowed requests | `PolicyProofs`, `MCInfoFlow` |
| `BusinessStore` | the four collections of the business API, the sleeping guard | `BusinessStoreProofs`, `MCBusinessStore` |
| `SeedData` | the seeds, as keys and references | `MCSeeder` |
| `Seeder` | runs of `tools/seeder` on the business database | `SeederProofs`, `MCSeeder` |
| `AuthGate` | the abstract promise of gate and decision point | `Orchestrator` (`INSTANCE ... WITH`) |
| `Orchestrator` | Envoy, `BuildEvaluateHandler`, model update, restarts | `OrchestratorProofs`, `MCOrchestrator` |

A proof module is about one component, or about two that belong together: `PolicyProofs`
extends both `InfoFlow` and `Decisions`, `IdentityProofs` both `LoginRateLimit` and
`Accounts`, `SignatureProofs` both `JwksTrust` and `WebAuthn`. The second of each pair
therefore has a prefix in the names of its specification (`SessionSpec`, `AccountsSpec`,
`CeremonySpec`, with `...Init`, `...Next`, `...Vars`), where the others say `Spec`.

Each module also holds a few definitions named after a fault (`SkipClean`,
`OpensOnTimeout`, ...): what the neighbouring definition would be with a plausible bug.
Nothing uses them; they are what the properties are tested against (`mutants` in
`PROJECT.json`: with the fault put in, TLC finds the property violated).

### OtpSessions

`otp[s]` is the document of session token `s` (`unborn`, `live`, `gone`; a deleted one
keeps its last contents so that properties can speak of it). `req[r]` is the goroutine of
one verify-otp request; its `pc` names the call it makes next:

| Action | Code |
|---|---|
| `Create` | `OTPRepository.Create`, at the end of `Login` or `FinishLogin` |
| `Arrive`, `BadRequest` | `VerifyOTP`, decoding |
| `ConsumeAttempt` | `FindOneAndUpdate` with the filter `attempts < max`; it may fail before or after it was applied |
| `Lookup`, `Purge` | the follow-up `FindOne`; the deletion on `ErrAttemptsExceeded` |
| `CompareOTP`, `Clean`, `FindUser`, `Issue` | the rest of the handler; `Clean` ignores its error |
| `UpdateLastLogin` | the background goroutine; its timestamp is taken when it is started |
| `TtlDelete`, `Tick`, `Restart` | TTL monitor, clock, end of the process |

A code is right or wrong; `Arrive` chooses. `got` is the count the update returned, and 0
before. The ghosts `kept` and `late` say that a deletion failed and that a request arrived
after its session had been redeemed.

The token of a password login is random and stored once (`FreshTokens`). The token of a
session in `EarlyTokens` is the `session_id` of a WebAuthn ceremony, which the client knows
before anything is stored, and `FinishLogin` stores it again if two of its calls find one
challenge, or the deletion of the challenge failed (`webauthn/login.go:195`, `:237`, `:243`):
`Create` allows that once the earlier document is gone, as the unique index does. A session
stored anew has its attempts back and may be redeemed again, so what is said about counting
and replay is said of `FreshTokens`.

### WebAuthn

`challenge[s]` is the document of a `session_id` (a removed one keeps its contents),
`device[c]` that of a credential, `flagged` the users with `has_tpm`, `otp` the ids under
which `FinishLogin` opened an OTP session. `authent[c]` is the authenticator itself, which
counts its signatures or does not, and `signed` what authenticators have made; a client
sends any of it, or nothing that is right, as often and in whatever order it likes.

| Action | Code |
|---|---|
| `BeginRegistration`, `BeginLogin`, `BeginFakeLogin` | the two begin handlers; the last one is the decoy for unknown users, users without device, and errors |
| `Attest`, `Sign` | the client's authenticator |
| `Arrive`, `FindChallenge`, `RefuseDecoy` | the beginning of both finish handlers |
| `VerifyLogin`, `RefuseClone`, `SaveCount`, `DeleteChallenge`, `CreateOTP` | the rest of `FinishLogin`, in its order; the errors of the last three are dropped by the handler |
| `VerifyRegistration`, `Enroll`, `Flag`, `CleanRegistration` | the rest of `FinishRegistration`; `Enroll` is refused by the unique index |
| `TtlDelete`, `Restart` | expiry of a challenge, end of the process |

`FindBySessionID` does not compare `expires_at`, so a challenge is good until the TTL
monitor comes: there is no clock. The ghosts `saved`, `kept`, `cloned`, `after` and `back`
remember what was stored, what failed and who was accepted before.

### Accounts

`accounts` holds the documents with their owner: the registration or the run of the seeder
whose password they have. `CountName` and `Insert` are the two calls of
`UserRepository.Create`; `CountName` answers "conflict" for its own error too, as
`register.go` does. `Upserted` is one `UpdateOne` of `SeedUsers`: it sets the role of
whatever account has the name and sets everything else only on insertion. `missed` says
that a call of a run failed, which the run only logs.

### LoginRateLimit

`limit[ip]` is the record of an address, with the time left until `expires_at` instead of
a clock. `work[w]` is one handler of kind `login`, `begin` or `finish`. `Examine` stands
for everything between the check of the limit and its update; `Outcomes` says to which of
"count a failure", "forget the failures", "neither" each handler can come. `streak` is a
ghost: the failures written since the address last had no live record. A read that fails
answers 500 in `Login`, and is ignored by the WebAuthn handlers; `FailingReads` are the
kinds of handlers whose reads can fail.

### JwksTrust

Keys are numbered by the run of the identity service that made them. `call[c]` is a call
of `Verify` in the orchestrator: `Verify` (cache hit, or start of a download), `JWKSHandler`
(the other side), `RefreshFails`, `Refresh` (stored under the write lock), `GetKey` (the
second look, under the read lock). What is verified is a token that was issued (`Issued`)
or one that was not (`Forged`), with the kid of some key or of none: it is refused at the
end, but an unknown kid, or a stale cache, has it start a download like any other.
Computation takes no time and a download at most `Timeout`, which is what the guard of
`Tick` says.

### SnortAlerts

An alert passes `Alert` (`isAllowed`, then `Send`, which drops it if the channel is full),
`Write` (`writeLoop`: taken off the channel, then encoded), the connection (`flight`, one
sequence for each connection that was dialled), `HandleConn` and `SetAlert`. `Break` loses
a suffix of what is under way; on a dead connection one write more may succeed unnoticed
(`broken`). `StopOrchestrator` empties the cache.

### Policy, Decisions, InfoFlow

`Policy` translates the rules one by one. A path is the sequence of its segments, so
"equal or starts with p/" is "p is a prefix of the sequence"; `rotta_base` is the longest
row that fits. Decimal fractions are hundredths; `ScoresAssumption` says that `Scores`, the
scores the anomaly model may give, lie in `0 .. 100`.

`Decisions` is one browser session: it logs in and out, presents certificates, is scored,
asks. Every combination of these is a reachable state, so its invariants are statements
about all requests; what they compare are the policy, `ROUTE_RULES` and `normalizeAIPath`.

`InfoFlow` takes from `Policy` the set `Allowed` of requests that somebody can get through
with some certificate and some score, and follows information: reading adds what the
collection holds to what the user knows, writing adds what the user knows to the
collection (and, as its answer tells whether a record was there, the other way too). The
trusted guard takes the knowledge of the administrator down to the personnel, later, and
that is recorded in `released`.

### BusinessStore

A document is known by the request (or the seed) that inserted it, so two records of one
name are different documents: that is what the properties tell apart. `req[r]` has what is
asked (`op`, `label`), the document that was found or removed (`doc`), and the documents
which had the name when the request arrived (`saw`, a ghost). `Create` is one `InsertOne`
against `IndexAllows` (the name, and for personnel and nuclear materials a second name:
badge, serial number), `Get` one `FindOne`, `Delete` one `DeleteOne`, which takes any
one where several match. `Guard` answers 202 before it has looked at anything; `Wake`
is the deletion two to six hours later, with one attempt, which removes a record, finds
none, or fails; it has a context of its own, since that of the request is cancelled by then.
`Restart` loses handlers and sleepers. Every failing call may have been applied.

### SeedData, Seeder

`SeedData` has the 44 documents that `tools/seeder/seeders` inserts, in their order, each
with the keys it names among those inserted before it. `Seeder` takes any such sequences:
a run (`Start`) goes through the collections, `Count`s, skips what is not empty, inserts
one document after the other (`InsertOne`, refused by the unique index: `log.Fatalf`), and
is killed or fails anywhere (`Die`). A `CountDocuments` that fails leaves a count of zero,
which the run takes for an empty collection (`blind`). `cut` has the collections a run died
in; `alone` tells whether another run was active at any time of this one.

### AuthGate, Orchestrator

`AuthGate` promises: a request is served only if it is permitted as it was described to the
decision point, its fate is decided once, and the model learns from such requests only.
`Orchestrator` has the steps of `BuildEvaluateHandler` for each request (`Verify`, `TPM`,
`Infer`, `EvalOPA`, `Respond`), Envoy's side (`Receive`, `GiveUp`), the goroutine `Update` and
the end and start of the process. `Gate == INSTANCE AuthGate` maps Envoy's view of a request
to its fate; a request that Envoy gave up counts as refused.

What is judged is a description of the request, not what Envoy holds. `JudgedPath` and
`JudgedMethod` prefer three headers to the path and method of the call
(`handler.go:67`-`76`): `X-Original-Uri`, then `X-Authz-Request-Path`, and
`X-Authz-Request-Method`. Envoy passes them on as they came (`envoy.yaml:254`-`256`). The
`x-original-uri` that Envoy adds itself (`:175`) is part of the route configuration and is
added by the router, after `ext_authz`, although the comment above it (`:168`) means it for
the orchestrator. So an `ask` has both, what is held and what the headers say, and:

* `Permitted`, which the refinement is about, says that the token is genuine and the policy
  allows the request *as described*, at some score the model gives or at the fallback. That
  is all that the code decides.
* `ServedAsPermitted` says that a request which is served is permitted *as held*, if its
  description is true (`Truthful`: the headers are absent or agree). Without that condition
  it does not hold of the code, since nothing compares the two.

`InfoFlow` and `Decisions` are about the policy: "a request that is allowed" is there one
whose description is what is served.

## 3. Runs

All run with TLC as the `.cfg` files stand. Deadlock is checked in each but
`MCBusinessStore`, where a behaviour may end because all its requests are answered.

| Run | Instance | Shows | Distinct states |
|---|---|---|---|
| `MCOtpSessions` | 1 session, 3 requests, 2 attempts, fair | no overshoot, no double answer, true 403, no replay; every request answered, the session goes | 178,196 |
| `MCWebAuthn` | 2 users, 2 challenges, 1 authenticator, 2 finish requests | one login for a challenge, growing counts, no false clone, a credential has the owner who was told so | 519,380 |
| `MCAccounts` | 3 registrations and 2 runs of the seeder, 2 default users | accounts are kept; a default user is there or its email is taken | 343,476 |
| `MCLoginRateLimit` | 2 addresses, 2 handlers, 3 kinds, failing reads of password logins, fair | bounded overshoot, counts survive, blocks lift | 235,009 |
| `MCJwksTrust` | 2 calls, 2 keys, clock to 5, issued and other tokens | bounds on old keys and on refusals | 821,141 |
| `MCSnortAlerts` | 2 sensors, 1 address, 2 connections each | at most once, spacing, order, visible exactly while recent | 218,030 |
| `MCDecisions` | 4 roles, all paths and methods, 10 scores | agreement of the three tables | 40,500 |
| `MCInfoFlow` | one user of each role | no flow but through the guard | 86,248 |
| `MCBusinessStore` | 3 requests of all kinds, 4 collections, fair | answers about the record that was named; removals on request; the guard's deletion is done or lost for a reason | 399,534 |
| `MCSeeder` | 2 runs, the 44 documents of the source | references, completeness, survival, no doubles, each with its exceptions | 41,065 |
| `MCOrchestrator` | 2 requests of 10 kinds, fair | refinement, learning, settling | 166,120 |

One run keeps a counterexample to a comment of the code (`findings` in `PROJECT.json`):
`MCJwksRestart`: `jwt.go:48` says that the tokens issued before a restart are invalidated.
In TLC's trace the key is downloaded, the identity service stops and starts, and a call of
`Verify` that begins only then finds the old key in the cache (`verifier.go:87`) and accepts
a token of the old process. `RestartInvalidates` demands nothing while the service is down,
nor of calls that were under way or keys that were stored after the restart.

Smaller disagreements between the code and its comments, tables or data, seen while
modelling. The models have them as the code has them, and no run is spent on them:

* *OTP.* 403, and the deletion of a session, although no attempt was used: for a token
  known before it is stored, as the `session_id` of WebAuthn is, `ConsumeAttempt` may find
  nothing and its `FindOne` the session that was stored in between (`otp_repo.go:36`
  against `:75`). `ExceededIsTrue` is therefore stated for the tokens of password logins.
  The same `session_id` may be stored and redeemed a second time, if its challenge is still
  there (`webauthn/login.go:237` drops the error of the deletion).
  A code is accepted after the five minutes its mail speaks of, until the TTL monitor comes
  (`otp_repo.go:58`, `mailer.go:40`).
* *Limiter.* A single failure after an expired block blocks again, as the old count is taken
  up (`rate_limit_rego.go:41` against `:56`).
* *WebAuthn.* `FindBySessionID` does not test the expiry either. After a lost
  `OTP.Create` the client is told to enter a code for a session that does not exist.
* *Accounts.* A default user whose email somebody has registered is never created; an
  account registered under a default name keeps its password and gets the default role.
* *Keys.* A call of `Verify` that downloaded its key can be told that the key is unknown, if
  an older download is stored in between (`verifier.go:101`); `UnknownSettles` bounds it.
  `jwt.go:29` says that the orchestrator checks the issuer; `verifier.go` does not.
* *Policy and pages.* The pages offer writes that the policy never allows (`app.js:89`,
  `:102`). `aiResourceBases` promises the longest base (`handler.go:565`) and takes the
  first that fits (`:584`), so `auth/login/begin` is learnt as `auth/login`.
* *Alerts.* An alert far past the TTL is returned beside a fresh one of another sensor
  (`cache/snort.go:59`). The backoff "capped at 30 seconds" becomes 32 s (`parser.go:112`,
  `154`); `TypeOK` of `SnortAlerts` says how far it goes.
* *Business API.* The deletion of the guard runs with `context.Background()`, so the
  comment that the audit log of the database shows names no user (`api.go:340`,
  `audit.go:13`). `log_action` writes "success" before the outcome is known. A deletion by
  `reactor_id` removes one of the readings of a reactor, any one. The integrity hashes are
  written and never compared.
* *Seeder.* It prints that all is done also when an earlier run left a collection cut short
  (`main.go:83`). Its own order names badges in personnel, which come later; procedures
  "PROC-MNT-…" of the orders name no stored document; two employees cleared for SECRET are
  granted a zone that requires TOP_SECRET, and a log entry shows a tablet in a zone that
  allows terminals only.

### Bounds, and why they are enough

* *OTP*: the session is that of a password login. Two attempts instead of three, three requests: two comparisons and a loser.
  Sessions share nothing but the user, so one is enough; two logins of a user meet when
  two requests pass the comparison before either deletes the session. The clock starts at
  1 and `Ttl = 1`, `MaxNow = 2` let the session expire at every point of a request.
* *WebAuthn*: one authenticator is what two users, or two requests, contend for; two
  challenges are one login for each of two requests, or one registration and one login.
  Two finish requests interleave at every call, and may send the same answer or each
  other's. `MaxCount = 2`: a first signature and a later one.
* *Accounts*: an account of a default name, and one that takes its email, need two
  registrations; the third contends with one of them. Two default users: one shadowed, one
  not. Two runs meet at every call.
* *Limiter*: the counter stops at `Cap`, above every value that `GuessesBounded` allows,
  so no state that could violate it is cut off. Two addresses are what one login could
  wrongly do to another. Two failures block, as five do: the code
  compares with the constant only.
* *Keys*: two keys give one restart; the theorem covers any number. Token lifetime 5,
  cache 2, timeout 1 keep the order 15 min > 5 min > 3 s of the code.
* *Alerts*: two connections are what it takes for one to overtake the other, two sensors
  for one to renew the other's expiry; addresses share only the channel. A channel of one
  fills at once; the clock goes past the rate interval and past the TTL. `MaxConns` only
  stops dialling.
* *Policy*: nothing is bounded but the path parameters (one) and the scores, which lie on
  both sides of each threshold of the matrix.
* *Flow*: a user of each role, which symmetry of the policy in users makes enough; two
  scores, below every threshold and in the middle. One waiting deletion at a time.
* *Business records*: three requests are a removal, a creation of the same name, and
  somebody who looked before; one name in each collection lets all of them meet, and
  collections share nothing, so several names would add only products. Two second names: a
  clash with and without one of names. Two readings of one reactor are there before.
* *Seeder*: the seeds are those of the source, whole. Two runs; the theorems hold for any
  number of runs and any seeds in the order of their references.
* *Orchestrator*: two requests share the process; their kinds are permitted, permitted at
  a low score only, or never, with and without token, with a forged one and with another
  role's certificate. Three of the ten kinds have headers in the place of path and method:
  one that agrees with them, one that differs in both, and one with both headers for the
  path, of which the first counts.

Symmetry is used where only invariants and action properties are checked, never with
liveness.

### Fairness

`OtpSessions.Fairness`: goroutines proceed, since each of their calls has a timeout of 3 s
(`otp_repo.go`); the TTL monitor runs and the clock moves. Clients, crashes and failing
calls are not fair. `LoginRateLimit.FairSpec`: handlers proceed and time passes; the
removal of stale records is not relied on. `BusinessStore.FairSpec`: handlers run, and a
sleep ends, for it has a length; a restart may take both away, and `GuardedGoes` says so.
`Orchestrator.Fairness`: Envoy's timeout comes, and each call of the handler has one (3 s
JWKS, 2 s device, 5 s model, 2 s OPA). No property needs that a stopped process starts again.

## 4. Proofs

TLAPS checks these for every value of the constants that satisfies the module's
assumption:

| Theorem | States |
|---|---|
| `OtpSessionsProofs!TypeCorrect`, `AttemptLimit`, `RemainingAttempts` | `[]TypeOK`, `[]ComparisonsBounded`, `[]RemainingToldOnce` |
| `OtpSessionsProofs!ExceededJustified` | `[]ExceededIsTrue` |
| `OtpSessionsProofs!NothingReplayed`, `LastLoginTrue` | `[]NoReplay`, `[]LastLoginIsALogin` |
| `OtpSessionsProofs!NothingRetried` | a request never goes back, and makes each call at most once |
| `IdentityProofs!TypeCorrect`, `CountsKept` | `[]TypeOK`, `CountsSurvive` |
| `IdentityProofs!FailureLimit` | `[]GuessesBounded`, if only reads of password logins fail |
| `IdentityProofs!BlockWearsOff` | only who was let through before a block prolongs it, once each; same condition |
| `IdentityProofs!NamesUnique` | types of `Accounts`, and its two unique indexes (`UniqueIn`) |
| `IdentityProofs!AccountKept`, `DefaultsSeeded` | `[]CreatedIsKept`, `[]SeededOrShadowed` |
| `SignatureProofs!TypeCorrect`, `StaleKeys`, `UnknownKeys` | `[]TypeOK`, `[]StaleKeyBounded`, `[]UnknownSettles` |
| `SignatureProofs!CeremonyTypeCorrect`, `ChallengeOnce`, `CountsGrow` | types of `WebAuthn`, `[]ChallengeUsedOnce`, `[]CountsIncrease` |
| `SignatureProofs!WarningsExplained`, `RegistrationBinds` | `[]CloneWarningExplained`, `[]RegisteredIsBound` |
| `SignatureProofs!NothingTakenBack` | no step of a ceremony takes back what is stored (`DocumentsGrow`) |
| `SnortAlertsProofs!TypeCorrect`, `AlertsVisible` | `[]TypeOK`, `[]VisibleWhileRecent` |
| `SnortAlertsProofs!DeliveredOnce`, `RateKept`, `OrderKept` | `[]StoredOnce`, `[]WaitingSpaced`, `OvertakenOnReconnect` |
| `PolicyProofs!TypeCorrect`, `NoOtherLeak` | `[]TypeOK`, `[]LeaksOnlyThroughGuard` |
| `PolicyProofs!SessionTypeCorrect`, `PagesHideNothing`, `LearntUnderItsRoute` | types of `Decisions`, `[]ShownIfAllowed`, `[]LearntWhereDecided` |
| `PolicyProofs!ClosesFromTheTop`, `NeverLockedIn`, `OutageIsSafe` | `[]LostFromTheTop`, `[]CouldStart`, `[]OutageClosesAll` |
| `OrchestratorProofs!TypeCorrect`, `LearningOrder`, `Implements` | `[]TypeOK`, `[]LearntUnlessGivenUp`, `ImplementsGate` |
| `OrchestratorProofs!HeldAsDescribed` | `[]ServedAsPermitted` |
| `OrchestratorProofs!NothingRetried` | neither an evaluation nor the fate of a request goes back |
| `BusinessStoreProofs!TypeCorrect`, `RightRecord`, `OnlyOnRequest` | `[]TypeOK`, `[]AnswersForTheName`, `[]RemovedOnRequest` |
| `BusinessStoreProofs!GuardKeepsItsWord` | what a guard has seen is gone when it reports a removal, or that there is nothing |
| `SeederProofs!TypeCorrect`, `References`, `Completion` | `[]TypeOK`, `[]DanglingExplained`, `[]DoneMeansComplete` |
| `SeederProofs!Survival`, `NoDoubles` | `[]SomebodySurvives`, `[]DoubledOnlyInARace` |

The arguments:

* **AttemptLimit.** The requests charged on a session got pairwise different counts, each
  between 1 and the count in the document, which is at most the limit. So the map from
  charged requests to counts is an injection into `1 .. MaxAttempts`. The counts stay
  different because the increment returns a value above all earlier ones. A deleted
  document keeps its count; it is never charged again, unless it is stored again, which a
  session of `FreshTokens` is not.
* **ExceededJustified** adds that a request that got past its arrival names a session that
  was stored, so that a `FindOneAndUpdate` that matches nothing means "used up" or "gone",
  and neither of the two changes back. That needs a session whose token is told after it
  was stored, hence `FreshTokens`.
* **NothingReplayed.** A session of `FreshTokens` whose deletion went well is gone for good,
  and a request that arrives after that (`late`) never gets past the charge.
* **LastLoginTrue.** A waiting update belongs to a request that was given a token, and its
  time is that of the request.
* **NothingRetried**, of `OtpSessions` and of `Orchestrator`. Each place in the handler has a
  rank, and every step of a request, and every failure, raises it.
* **AccountKept.** The unique indexes as an invariant (`UniqueIn`), and that an upsert leaves
  every account its name, email and owner (`UpsertKeeps`).
* **DefaultsSeeded.** A run under way has settled the users before the one it is at
  (`SettledSoFar`). No later write unsettles one: a role is given by name, the names of the
  default users differ, and no account is removed, so what shadows one goes on to do so.
* **FailureLimit.** `GuessesBounded` counts requests, the code tests a counter;
  `StreakCounted` joins them: the counter of a live record is at least the streak. So a
  request is admitted while the streak is below the limit, and the admitted ones are never
  more than there are handlers. Writing a failure moves a request from the admitted to the
  streak and leaves the sum alone.
* **BlockWearsOff.** While an address is blocked the handlers that were let through for it
  only grow fewer, and each failure they write, which sets the expiry anew, is the end of
  one. So a block is over after `BlockDuration` for each of them and once more.
* **StaleKeys.** The key in the cache was in use no longer ago than `Timeout` before it was
  stored (`CacheRecent`), because a download about to be stored holds a key that was in use
  since it was sent (`FetchRecent`) and is stored within the client's timeout.
* **UnknownKeys** follows from the same invariant: who misses a current key found a cache
  stored at that moment, holding a key used within the timeout, and keys retire in the
  order they are made (`RetiredInOrder`).
* **ChallengeOnce, CountsGrow.** They rest on what no step takes back (`DocumentsGrow`,
  `RequestsGrow`), so that an action has to be examined for the one request it moves, at the
  place it moves it to. Who arrives after an accepted login cannot find the challenge if that
  login deleted it (`Spent`), and passes the check only with a count above the stored one,
  which is no lower than what that login saved unless an overtaken save has lowered it
  (`CountStored`).
* **WarningsExplained.** A stored count above zero was saved by a login (`DeviceOK`): a
  credential is enrolled before its authenticator has signed a login (`AuthenticatorOK`).
* **RegistrationBinds.** The unique index gives a credential its owner once, and `Flag`
  follows `Enroll` in the same request.
* **AlertsVisible.** The expiry of a record is the storing time of its latest slot plus the
  TTL (`ExpiryIsLast`).
* **DeliveredOnce, RateKept.** An alert is in the channel, on one connection, or stored, and
  in one of these only (`Once`); what is left of a sequence after a step is a *piece* of it,
  so nothing can be there twice that was not. The limiter has seen whatever waits or was
  stored (`Limited`), so a new alert is an interval later than all of them.
* **OrderKept.** A channel is sorted by time, and so are the connections, by connection and
  place; what is on a connection is earlier than what is in the channel (`InOrder`). The alert
  of a slot is no later than anything of its address that waits, but for what waits on
  earlier connections (`SlotsInOrder`).
* **RightRecord, OnlyOnRequest.** A document goes from not stored to stored to removed and
  keeps its name; where the name is unique at most one stored document has it
  (`OneOfAName`). What a request saw at its arrival is therefore what it finds, as long as
  that is stored.
* **GuardKeepsItsWord** is the safety half of `GuardedGoes`. Of what the guard saw when it was
  accepted, what is not the record it removes is gone already: that is `RightRecord`, at the
  step in which it wakes.
* **References, Completion.** What is stored of a collection is a prefix of its seeds
  (`PrefixClosed`); in a uniquely indexed one only a single run gets past the first
  document (`Sole`); and what a run has passed, or what lies before a collection that has
  anything, is complete, cut, or being filled by who began it (`HeldIsDealt`,
  `PassedIsDealt`).
* **Survival.** As long as no run died, some run is beyond the first document of each
  collection that has one (`Front`), and a run is refused only where there is one
  (`RefusedByHeld`). When none is running any more, who is beyond it is done.
* **NoOtherLeak.** The invariant adds `HeldIsLow`: every role that dominates a collection
  dominates the origin of all it contains, or that was released. Who reads a collection
  dominates it (`ReadersDominate`, simple security); who writes one dominates it and is
  dominated by everybody who dominates it, as far as the collections go
  (`WritersDominated`, the *-property). Both are shown for the finite matrix, not for
  Bell-LaPadula in general.
* **Implements.** Each action of the orchestrator is a step of the gate or leaves `ask`,
  `fate` and `memory` alone; the invariant says that an evaluation that will be answered
  with "allowed", and a request waiting to be learnt from, are permitted ones (`Sound`), as
  described.
* **HeldAsDescribed.** By `Sound` what was forwarded is permitted as described, and a true
  description has the same path and method as what Envoy holds.
* **PagesHideNothing** and the other four about `Decisions`. A session can be in any state of
  its type (`SessionTypeOK`), so the invariants are lemmas about the tables, proved row by row
  from the matrix of the policy, for all scores of the assumption and all path parameters; the
  run has ten scores and one parameter.

Only model-checked: what is about liveness (`RequestsAnswered`, `SessionsExpire`, `BlockLifts`,
`RequestsSettled`, `GuardedGoes`), since TLAPS reaches neither `ENABLED` nor fairness. For
four of them a safety half is proved: `NothingRetried` leaves to `RequestsAnswered` and
`RequestsSettled` only that some step of a request goes on being possible and is taken;
`BlockWearsOff` leaves to `BlockLifts` that time passes and handlers end (if the reads that
fail stop the request, as in the run); `GuardKeepsItsWord` leaves to `GuardedGoes` that a
guard wakes. Every invariant and action property of a passing run is stated by a theorem.

## 5. Not modelled

* Cryptography, hashes, JSON: a token is genuine or not, a code right or not. Of the HTTP
  headers, all but the token, the certificate and the three that describe a request.
* The features sent to the anomaly model and the device fingerprinting in the handler,
  which only writes log lines. `tpm_verified`, `confidence` and `context` are part of what
  OPA is sent, and no rule of `policy.rego` reads them, although `internal/opa/client.go`
  speaks of a fallback in the policy: in the model they influence nothing either.
* Certificates with two OUs, for which `cert_ou` of the policy has no single value.
* Exact decimal against binary fractions at the thresholds.
* The header signatures, input validation, mailer, logging: stateless or pure output.
* The contents of records: fields, hashes, validation rules; the lists, which name nothing;
  the `Update` functions of the repositories, which no handler calls.
* The profile `reset-db` of the compose file, which empties the collections and runs the
  seeder again: the seeder itself is modelled, the emptying is one more way to come to its
  initial state, or, beside a run, to what `cut` describes.
* The tailer of the database profile (`profile-tailer.js`) and the restart of a parser;
  see the plan.
* The time a single evaluation takes: that a call ends by a timeout is modelled, that the
  budgets add up to more than Envoy waits is not.
* nftables, deployment, certificates: they run outside or before the system.
* `ai-inference` is another repository; a score is any of a set.

## 6. Plan

Done, in this order, because the login and the decision are what the system is for:
OtpSessions, LoginRateLimit, JwksTrust, SnortAlerts, Policy with Decisions and InfoFlow,
AuthGate with Orchestrator; then what these rest on: Seeder with SeedData, Accounts,
WebAuthn, BusinessStore; then the proofs for OtpSessions and SnortAlerts that were left; then
those for Decisions, Accounts and WebAuthn, and the safety halves of the liveness properties.

Next:

1. `ProfileTailer`: an abstract "every entry once" and the watermark, with restarts and
   equal timestamps.
2. Time budgets of one evaluation: JWKS 3 s, device 2 s, model 5 s, OPA 2 s under Envoy's
   5 s, and what the fallback score can still achieve.
3. Restart of a parser (`tail -F` replays lines, limiters are empty again).
4. `WebAuthn` composed with `OtpSessions` on the collection they share, so that the early
   tokens of the latter come from the former.
