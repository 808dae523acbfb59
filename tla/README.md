# Verification of the Keycloak API key bridge

TLA+ models of `src/keycloak_api_key_bridge`, model-checked with TLC and proved
with TLAPS. Paths below are relative to the package unless they start with
`docs/`.

## The system

The bridge issues API keys for Keycloak users and tells a gateway, for each
request that presents a key, who is behind it and what they may do. Several pods
share one PostgreSQL database. A pod runs request handlers on a pool of worker
threads and one background thread. All interaction between pods goes through the
database; all interaction between threads of a pod goes through two in-memory
caches, their locks and the HTTP client.

| Component | State | Operations | Interacts with | What is hard, and what makes it correct |
| --- | --- | --- | --- | --- |
| Key table, `config/database.py` `ApiKey` | rows of `api_keys`, advisory locks, transactions | `create_key`, `revoke_key`, `revoke_key_as_admin`, `list_keys`, `get_key` | handlers of every pod | Count and insert are two statements, revocation is a read and a delete; statements fail, pods die, commit answers get lost. The quota holds, no lock is left behind, every method takes effect at one instant. |
| Signing keys, `lib/jwks.py` | `_keys`, `_refresh_lock`, the thread and its stop event | `start`, `stop`, `refresh`, `_run`, `get_key`, `is_available`, `invalidate` | `_verified_token`, probe, entitlement handler, lifespan, HTTP client | Refreshes from several threads, invalidation between them, shutdown in the middle of a fetch. Keys are bounded in age, a failure stands, a refresh never goes backwards, `stop` returns, the cache recovers. |
| Entitlements, `lib/keycloak.py` | `_entitlement_cache`, `_client_ids` | `get_principal_entitlements`, `mark_unavailable`, the requests in between | validation, creation, `/permissions` | Fetches overlap and store out of order, a discard races them, the clock is read before the lock is waited for, groups come in pages. Staleness is bounded; outages end. |
| Service token, `lib/keycloak.py` | `_token`, `_token_expiry` | `_get_token`, `_acquire_token`, `mark_unavailable` | every Keycloak call of the client | The client's lock is held over an HTTP request; the token is reused until shortly before its expiry. No call leaves with an expired token, the wait is bounded. |
| Validation, `controllers/api_keys.py` | none of its own | `/validate/*`, `/gateway/caller-permissions` | all of the above, the connection pool | Each check is made at an instant of its own; a connection is kept over Keycloak calls; a credential is tried as a key and then as a token. What is accepted was justified at some instant of each check; what is refused had a cause. |
| Management, `controllers/api_keys.py` | none | `/api_keys`, `/permissions`, `/me` | JWT verification, entitlements, key table | Only an administrator targets others; a grant is part of the target's permissions. |
| Managed keys, `lib/managed_api_keys.py` | files of each slot | `match`, `metadata` | validation | A slot is two files, slots are read one by one while they are replaced. A torn pair needs an owner who replaces the grant first; a broken slot refuses all. |
| Connections and bootstrap, `config/database.py` | pool of five, the schema | `get_session_factory`, `bootstrap_schema`, `_verify_schema` | handlers, deployment | Pool exhaustion; several pods bootstrap at once, one dies, the commit's answer gets lost. The schema comes at once or not at all, and pods serve in the end. |
| Health, `controllers/health.py` | none | `/live`, `/health` | all dependencies | A failing probe invalidates the signing keys. |
| Lifespan, `main.py` | none | start, stop, close | JWKS thread, HTTP client | The client is closed after the thread is joined. |
| Settings, permission names | constants | validation at start | all | Ranges become assumptions on constants. |
| Release script | none | tag verification | CI | No part of the service. |

`PROJECT.json` lists the same components with their status, and the hazards of the
code at their lines with the properties that cover them.

## Modules

| Module | Models | Main correspondence |
| --- | --- | --- |
| `KeyLedger` | what the key table promises | one action per outcome of a method, taking effect at one instant |
| `ApiKeyStore` | the statements of `ApiKey`'s methods over all pods | `pc[r]` is the statement request `r` sends next, `lock` the advisory locks, `draft` the row built and not committed |
| `ApiKeyStore_proofs` | its theorems | |
| `JwksCache` | `JWKSCache`, `_verified_token` up to the signing key, the lifespan | `lock` is `_refresh_lock`, `keys` is `_keys`, `pc[Refresher]` follows `_run`; accesses under `_lock` are atomic |
| `JwksCache_proofs` | its theorems | |
| `EntitlementCache` | `get_principal_entitlements` with its requests, `mark_unavailable` | `entry` is `_entitlement_cache`, `known` is `_client_ids` for the gateway client, `found[t]` what thread `t` has read |
| `EntitlementCache_proofs` | its theorems | |
| `EntitlementPromise` | what `get_principal_entitlements` promises its callers | answers made of claims that were `lately` true, each on its own, or none |
| `EntitlementPromise_proofs` | that `EntitlementCache` implements it | |
| `ManagedKeys` | `match()` over the files of all slots while they are replaced | `reading[t]` is the loop of `_load`: slot, grant read so far, entries, error |
| `Requests` | every handler of `controllers/api_keys.py` and the readiness probe | `pc[t]` is the next check of request `t`; uses `KeyLedger`, `EntitlementPromise` and `ManagedKeys` as components; `holding` is the connection pool, `open` is `is_available()`, `known` is `_client_ids` for the clients of managed keys, whose names (`holder`) and accounts (`account`) Keycloak may change |
| `Requests_proofs` | its theorems about the course of a request | places, statuses and connections |
| `RequestsAnswers_proofs` | its theorems about answers, and about the components together | |
| `ServiceToken` | `_get_token`, `_acquire_token`, `mark_unavailable` and the calls around them | `token` is `_token` with `_token_expiry`, `lock` the client's `_lock` while a request is sent under it |
| `ServiceToken_proofs` | its theorems | |
| `SchemaPromise` | what the start-up promises the database | one action: an empty database gets one release's schema |
| `Bootstrap` | `bootstrap_schema`, `_verify_schema`, the attempts of `create_engine_and_session_factory` over all pods | `pc[p]` is the statement pod `p` sends next, `created` and `inserted` what its transaction has done, `lock` the advisory lock |
| `Bootstrap_proofs` | its theorems | |
| `MC*` | the instances for TLC | symmetry sets, and which users share an advisory lock |

Definitions that start with a comment "A slip:" are not part of any
specification. Each is a definition of the code with one plausible mistake, and
shows that a property would notice it.

### Abstractions

* A key's secret, digest and identifier are one value; grants are opaque. Digests
  are unique because secrets are not guessed twice.
* The column `revoked` is never set by the code: revocation deletes the row.
* The advisory lock exists only on PostgreSQL. With another dialect (the unit
  tests use SQLite) creations are not serialised; the models describe PostgreSQL.
* `get_key` reads the clock after its query; both are one step, which loses no
  answer because expiry goes only from no to yes.
* A principal is two facts, enabled and entitled. Roles stand for groups too,
  which are read after them; the last page of groups decides when the entry is
  stored.
* Time in the two caches is counted in ticks: ages and remaining waits instead of
  a clock. A thread that can run does so before the clock moves, so the bounds on
  staleness are those of HTTP timeouts, waits for locks, and lives of entries,
  and leave out the time a thread takes to run.
* `CallTime` and `LockWait` of `EntitlementCache` and `MarkDelay` of `JwksCache`
  bound waits that include the client's lock, which is held over token requests.
  `CallTime` has the two waits for it around the look-up of the gateway client
  (`lib/keycloak.py:216` and 235) in it, which have no place of their own.
  The code bounds a single request with `keycloak_timeout_seconds`; what a wait
  for the lock adds is `WaitIsPaidFor` of `ServiceToken`: a timeout for each token
  request ahead. `LockWait` and `MarkDelay` are that for the pod's threads.
* `ServiceToken` counts what is left of a token by Keycloak's clock; the pod's
  clock differs from it by a skew that stays what it is.
* A request's `form` in `Requests` is the status that what is checked first deserves:
  the headers, and whether the body can be read at all. After the gate comes the rest
  of a management request, its `token`: a header that names no signing key is 0, a
  401 before the keys are looked at (`controllers/api_keys.py:128`); else it is 200,
  the 401 of a bad signature, audience or expiry (line 142), or the 422 of a body
  that FastAPI can read and the handler's model refuses, which it reports after
  the token's dependency. Of the token that a gateway's caller may present for himself
  only its verdict and its roles are left: his 401 comes after the look-up as well, or
  before it as a credential that is no token.
* `_client_ids` is in `EntitlementCache` for the gateway client and in `Requests` for
  those of managed keys. (A managed key of the gateway client itself would find what
  the other use has kept; that was once true too, which is all that the properties
  need.) `Requests` lets Keycloak give a
  name to another client (`ChangeHolder`), with the old one renamed or deleted, and a
  client an account or none (`ChangeAccount`). `named[c]` remembers which clients have
  had the name `c` since the pod started, for the properties alone.
* `Requests` asks of its constants what the program gives: the three kinds of
  credential are disjoint, a token's own verdict is 200, 401 or 403 and its roles are
  permissions (`CredentialAssumption`); a well-formed query names a user, a key or a
  credential, as its operation has it (`QueryAssumption`); a file's ways of being wrong
  differ from contents and, as far as the code tells them apart, from each other
  (`FileAssumption`). The slots start with any files of `InitialFiles`: the
  proofs take any set of them, the instance has one, and replaces them.
* A managed key's verifier, the digest of a secret, is identified with the secret.
  A slot with neither path set is no slot; one with a single path has a file that
  is missing. Contents are a descriptor or a secret, or one of the ways in which a
  file can be wrong.
* The background thread and the requests of other pods appear in `Requests` as
  changes of `open`, of the files, of Keycloak and of the clock. `JwksCache` and
  `ApiKeyStore` have them in full. `SettleAll` lets everything recent pass at once;
  `EntitlementPromise` allows any part of it (`Settle`), which only lets callers be
  told more of the past at a time.
* `Bootstrap` compares tables by one of three shapes: not there, as the models
  have it, altered. Columns, types, constraints and indexes are all one comparison.
  PostgreSQL's transactional DDL and its advisory locks are external: what is
  committed appears at once, a lock ends with its transaction, and a dead client's
  after a while. The pause of a second and the connection timeout between attempts
  are part of `TryAgain`. A client that is killed while it waits for the lock leaves
  nothing behind that others could see.
* A pod may start with the service: the deployment leaves the order to its
  manifests.
* The requests a stopping server still has are drained before `stop()`, as
  uvicorn does before it runs the end of the lifespan.

## What is checked

| Run | Instance | Shows |
| --- | --- | --- |
| `store_safety` | 3 requests, 2 users with a lock each, 2 keys, quota 1 | `TypeOK`, `QuotaHeld`, `LocksFollowTransactions`, the inductive `IInv`, and `ImplementsLedger`: `ApiKeyStore` implements `KeyLedger` under the identity on its five variables |
| `store_liveness` | 2 requests, 2 users with one lock | `EveryCallAnswered` |
| `jwks_safety` | 2 request threads, 2 key identifiers, interval 1, retry 3, timeout 1 | `TypeOK`, `FailedRefreshStands`, `OnlyLatestReplyStored`, `KeysAreRecent`, `NoFetchAfterClose`, the inductive `IInv` |
| `jwks_liveness` | 1 request thread, interval 2, retry 1 | `StopTerminates`, `Recovers` |
| `jwks_refused` | 2 request threads, interval 2, retry 1 | a violation, see the findings |
| `entitlements_safety` | 2 threads, 1 principal, life 2, negative life 1, one page | `TypeOK`, `DisablingTakesEffect`, `GrantsTakeEffect`, `EnablingTakesEffect`, the inductive `IInv` |
| `entitlements_recovery` | 1 thread, life 1, negative life 2, two pages, client recreated once | `LookupsRecover`, and `ImplementsPromise`: `EntitlementCache` implements `EntitlementPromise`, with its three bounds as what "lately" means |
| `entitlements_outage`, `entitlements_discard` | 1 thread and a client recreated once; 2 threads; life 2, negative life 1 | violations, see the findings |
| `requests` | 2 threads (gateway, owners), pool of 1, quota 1, 1 personal key, 2 slots, 2 clients for one name, 2 changes elsewhere | `TypeOK`, `AcceptedWasJustified`, `KeptKeyNeverRefused`, `UnavailabilityHasCause`, `BrokenSlotRefusesAll`, `TornOnlyIfGrantFirst`, `GrantsWithinTarget`, `OnlyValidationsWaitConnected` |
| `token` | 2 threads, timeout 1, leeway 2, skew up to 1 either way, lives 1 and 4 | `TypeOK`, `CachedTokensArriveInTime`, `WaitIsPaidFor`, `LatestTokenStored`, `LookupsRecover` |
| `bootstrap` | 2 pods, 2 releases, any database, 2 kills | `TypeOK`, `ServesOnlyItsSchema`, `RefusalsAreJustified`, the inductive `IInv`, `EveryPodServes`, and `ImplementsPromise`: `Bootstrap` implements `SchemaPromise` |

What the three composite runs ask, in words:

* `requests`: the checks of one request happen at different times, and anything may
  change in between. `ever[t]` and `steady[t]` remember what was true at some time,
  or all the time, of a request. A positive answer must rest on things that were
  each true at some time; a 401 must not hit a key whose every condition held all
  the time, whatever other slots and Keycloak went through; a 503 must have a cause
  that the rest of the pod sees too. `OnlyValidationsWaitConnected` says who keeps a
  connection of the pool while Keycloak is asked: validations of personal keys and
  the fallback to a token, and nobody else.
* `token`: the lock is held over the request on purpose; the properties say what
  that buys (tokens are stored in the order Keycloak gave them) and what it costs
  (a timeout per request ahead).
* `bootstrap`: every pod runs the initialization and then the service, is killed at
  any statement and replaced by a pod of either release, while PostgreSQL goes
  away, perhaps between a commit and its answer.

### Why the bounds are enough

* Store: three requests let two creations race while a third revokes, lists or
  validates; with a quota of one and two identifiers a quota can be filled,
  emptied and filled again. The clock goes to 1, so a key of one day expires. The
  bound on identifiers only stops further creations. Own locks are the harder
  case for the quota, one lock for two users the harder one for waiting. The
  proofs cover all other sizes.
* Signing keys: two request threads and the background thread are enough for a
  thread that waits for the lock while another one has an overtaken reply. The two
  intervals are independent, by their ranges in `config/settings.py:52`, 1 to 300 and
  1 to 60 seconds. In `jwks_safety` the retry is the longer one, the harder case for
  the age: a request thread that was queued behind the background thread's failure
  puts keys back, and nobody refreshes them for the retry interval. With the refresh
  interval alone in the bound the run finds keys that are older. In `jwks_liveness` and
  `jwks_refused` the refresh interval is the longer one. Ages are followed to one tick
  beyond the bound.
* Entitlements: two threads let a fetch be overtaken by a discard and by another
  fetch's store. The ages reach one tick beyond the largest bound. The three
  bounds are met exactly on this instance: with one tick less each is violated. The
  two lives are independent as well (`config/settings.py:54`, 1 to 300 and 1 to 60):
  negative entries live less long in `entitlements_safety` and longer in
  `entitlements_recovery`.
* Requests: one thread serves the gateway, the other one the owners of keys and the
  probe, so that a validation meets a creation, a revocation and a failing probe.
  `Room` spends one bound either on two changes elsewhere during a request or on a
  second request at the same time (`Weight` 2, `MaxChanges` 2): two files replaced
  while they are read, or a file and the signing keys; two requests that change each
  other's world. TLC therefore never sees two requests at once after a change
  elsewhere, nor a third change; the proofs know no such bound. A pool of one is at
  its limit as soon as two requests need it.
  The slots start with one in use, by a secret that is not asked for, and one
  disabled: one change gives either of them the secret that is, or breaks it. The other
  change may then take the name from the client the pod knows, with or without its
  account, during the request or between two: 1,036,031 states.
  `Written` and `Varying` leave out contents and facts that behave as one which is
  there: an unreadable file as a malformed one, a second permission as the first.
* Service token: two threads queue for one lock in both orders. A life of one tick
  is never usable from the cache, a life of four is usable for one tick or two,
  depending on the skew. Timeout and skew use up the leeway exactly. The bound on
  requests ahead (`MaxAhead` 2) exceeds the other threads, since the lock is not
  fair and one of them may come back.
* Bootstrap: two pods of two releases start on each of the possible databases:
  empty, complete, in part, altered, somebody else's, without or with several version
  markers. Two kills take either pod, or one twice. Attempts at verification are the
  code's three.
* Liveness of the signing keys is checked with one request thread. With two and
  no fairness among requests a run exists in which requests always follow one
  another without time passing, which says nothing about the code.

### Fairness

* `ApiKeyStore`: weak fairness for the next statement of a worker thread and for
  its return; strong fairness for the advisory lock, because PostgreSQL queues
  waiters in order of arrival. `Begin`, `Fail` and the clock have none.
* `JwksCache`: weak fairness for threads (an HTTP call ends, by answer or by
  timeout, as time passes), for `start`, `close` and a pending invalidation;
  strong fairness for time, because an unbroken stream of requests does not stop
  it. None for Keycloak, for requests, or for who gets the refresh lock: Python's
  locks do not promise an order.
* `EntitlementCache`: weak fairness for a lookup's steps and for the next call,
  none for Keycloak and none for time. The recovery properties assume that
  Keycloak stays up.
* `ServiceToken`: weak fairness for a thread's next step, none for Keycloak, for
  calls, for time or for who gets the lock. `LookupsRecover` assumes that Keycloak
  stays up and that its tokens live longer than two calls and the skew.
* `Bootstrap`: weak fairness for each pod's next step, which includes that the
  cluster restarts an ended container, and for PostgreSQL noticing a dead client.
  None for kills, roll-outs or for PostgreSQL coming back: `EveryPodServes` assumes
  that these have come to rest.
* `Requests` states safety only and has none. That a request ends is for the
  components (`EveryCallAnswered`, `Recovers`, `LookupsRecover`) and the pool's
  timeout.

## What is proved

For every value of the constants, from the assumptions named in the modules
(`MaxKeysAssumption`, `DaysAssumption`, `LockAssumption`, `NullAssumption`;
`IntervalAssumption`, `ThreadAssumption`; `TimeAssumption`; `BootstrapAssumption`;
`SizeAssumption`, `CredentialAssumption`, `FileAssumption`, `QueryAssumption`,
`FactAssumption` and `NullAssumption` of `Requests`):

* **Key table.** `Quota`, `LockDiscipline`, `TypeCorrect`, `Implementation`,
  `Permanence`.
  The quota alone is not inductive: a commit adds a row it does not count.
  `IInv` adds that between count and commit the owner's rows stay below the quota
  (`ChecksStillHold`). It needs the lock to be held exactly by creations in their
  transaction (`LocksFollowTransactions`), because only then no second creation
  of that owner can be between the two; it needs distinct drafts
  (`DraftsDistinct`), so that a commit adds one row and replaces none. Revocations
  only make room. The commit step is the only one that uses cardinalities: the
  owner's set gains one member, everyone else's stays. `Implementation` maps every
  statement to an action of the ledger or to a stutter, and uses `IInv` for the
  room at the commit and for the owner check, which is old by the time of the
  delete but still true: owners never change and identifiers never come back.
  `Permanence` says so on its own, from the ledger's steps: a row is stored once, never
  rewritten, and not again once it is gone.
* **Signing keys.** `Invariance`, `Recency`, `FailureStands`, `LatestStored`, `NoLateFetch`,
  `TypeCorrect`. `KeysAreRecent` bounds the age at any time; inductively it must
  be balanced with the time left: while the background thread waits, `age + left` is
  at most `LongestKept`, under the lock at most one call more, and after a failure
  one wait for the client more (`AgesBounded`). `LongestKept` is the longer of two: a
  call and the refresh interval, for keys the thread fetched itself, and the retry
  interval, for keys that were put back when it began to wait (`Keeping`). Nothing
  is assumed of which is longer. A free lock finds the background
  thread in its wait, since it would otherwise take the lock before time passes;
  the queue for the lock does not add to the bound because every successful
  refresh ahead in the queue renews the keys and every failed one clears them.
* **Entitlements.** `Invariance`, `Disabling`, `Granting`, `Enabling`, `TypeCorrect`,
  whichever of the two lives is longer. `IInv`
  follows, for every place of a fetch and every entry, how far what was read may
  be behind: the steps taken since, less the time left to the present one. A
  change in Keycloak starts at zero, a step hands the sum on with the length of
  the next one, `Store` hands it to the entry, `Lookup` takes it from the entry
  together with the wait its clock reading is late by.

* **What the entitlement cache promises.** `Implementation`: every step of
  `EntitlementCache` is one of `EntitlementPromise` or a stutter. The bounds of
  `IInv` say that what a lookup returns was true within them; what they do not say
  is that an absent principal's answer holds nothing, which is an invariant of its
  own (`AbsentHoldNothing`).
* **Service token.** `Arrival`, `WaitPaid`, `Order`, `TypeCorrect`. The invariant
  (in `ServiceToken_proofs`) says that the lock is held by the thread whose token
  request is under way and by nobody without one, that a waiting thread has paid for all
  of the requests ahead except what is left of the present one, and that a cached
  token has more left than the call that brings it. The last one rests on
  `TimeAssumption`: timeout and skew together are within the
  leeway. Settings allow a timeout of five seconds at most, of the 60; the clocks
  are the deployment's. (The HTTP client applies its timeout to each phase of a
  call, so a call is a few of them at worst, still far from 60 seconds.)
* **Bootstrap.** `Serving`, `Refusals`, `Implementation`, `TypeCorrect`. Nobody but
  the lock's holder is past the start of a transaction (`LockFollowsWork`). The
  holder has uncommitted work only on an empty database (`Worked`). On an empty
  database no other pod can have verified anything, so a commit takes nothing away
  that somebody has seen (`Seen`), and afterwards nobody ever writes again. The
  commit step is therefore the only one that changes the database, and it finds it
  empty and leaves it complete.
* **Requests, where they are.** `RequestsTypeCorrect`, `Connections`. `Control` says
  of each request, apart from all others (`OthersStill`), which operations come to its
  place, when it has a call of the key table and a connection, and that past the slots
  its search is complete and names at most one entry. It is inductive together with
  the types, and implies `OnlyValidationsWaitConnected`.
* **Requests, what they answer.** `Justified`, `TornGrants`, `BrokenSlots`, `KeptKeys`,
  `Unavailability`, `GrantsWithin`. None of these properties is inductive: they speak
  of the answer, and the checks are long over by then. `History` says what each check
  leaves behind, in terms of what the request remembers. `Remembers`: what is true now
  has been true, and what has stayed true is true now. `Evidence`: past the
  gate Keycloak was available (`Gated`), a row that was found was live then
  (`KeyChecked`), the client a managed key was resolved to has had its name (`Resolved`,
  from `NamesKept`: what the pod keeps was once true), a principal was that client's
  account (`AccountFound`), what was told had been so lately (`ToldTruth`), a creation
  on its way is allowed (`GrantAllowed`). Memory only gains such facts, so nothing that happens elsewhere
  takes them away. `SlotsRead` is about the reader in the middle of the files: each
  entry it has, and the grant it holds without its verifier, is explained by the files
  as they were or by the order in which they have been replaced since, with one part
  for each of the four properties about slots (`TornRead`, `BrokenRead`, `KeptRead`,
  `CauseRead`). An answer is frozen with the memory it was given from, so `IInv` has
  the properties beside `History`, and a step needs an argument only where it answers.
* **Requests and their components.** `Composition`: every step of `Requests` is a step
  of `KeyLedger` or leaves it alone, and the same for `EntitlementPromise`. With the
  two theorems `Implementation`, what `ApiKeyStore` and `EntitlementCache` do is what
  the handlers' theorems suppose. `RevocationIsFinal`: once a key is out of the table,
  no request that arrives from then on is accepted with it. It rests on `Justified` (an
  accepted key was seen live during the request), on the ledger (what is gone stays so)
  and on a request's empty memory at its start. `DisablingHolds` is the same for
  accounts: once the cache tells nothing else of an account than that it is disabled
  (after the bound of `Disabling`), no request that arrives is accepted for it with a
  key as long as it stays so; a Keycloak token is Keycloak's own affair.
  `RowsAreAsked` goes further than `GrantsWithinTarget`, which is about the answer 200:
  a key whose commit was not confirmed is in the table as well, and it too has only what
  its owner held.

Only model-checked are the liveness properties, which need fairness and `ENABLED`,
beyond the prover's reach, and the three violated properties. That the managed files
are read as `ManagedKeys` says needs no theorem: `Requests` takes its actions as
they are.

## Findings

* `jwks_refused`: after its own refresh succeeded, a request looks its key up
  again without asking whether the cache is still filled. If another failure has
  emptied it in between, a token with a published key is answered 401 instead of
  503 (`controllers/api_keys.py:139`, `docs/architecture/README.md:58`).
* `entitlements_outage`: the identifier of the gateway client is kept for the life
  of the process, also by `mark_unavailable`. After the client has been recreated
  each lookup that has to fetch an enabled principal ends in 503, with Keycloak
  up (`lib/keycloak.py:217`, `docs/architecture/README.md:60`). `LookupsRecover`
  shows that nothing else keeps lookups from recovering.
  Managed keys are resolved through the same identifiers (line 128), and there the
  consequence is another one. After a managed client has been deleted and made again,
  or another client has been given its name, the pod asks for the service account of
  the old identifier: that is a 404, hence no account, and the key is answered 401
  until the pod is restarted, with client, account and key all there
  (`docs/architecture/README.md:60` has 401 for "a missing/disabled principal"). If
  the old client was renamed and still exists, its account is accepted for a key whose
  grant names another client (line 33: "The bridge resolves the client's
  service-account user"). Both are behaviours of `Requests`, and are why the managed
  halves of `KeptKeyNeverRefused` and `AcceptedWasJustified` speak of the clients
  that have had the name since the pod started (`named`) rather than of the one that
  has it now: with the latter TLC finds the refusal in the instance of `requests`.
* `entitlements_discard`: a fetch that began before `mark_unavailable` stores its
  result after it, for a full life (`lib/keycloak.py:123`, its docstring at 96).
  The bounds above hold all the same: they count from the read.

Three smaller disagreements with the documentation came up without a run of their
own. A grant file that is not UTF-8 raises `UnicodeDecodeError`, which
`lib/managed_api_keys.py:91` does not catch: the request ends in 500 where
`docs/architecture/README.md:35` says 503 (`Garbled` and "decoding" in
`ManagedKeys`, the 500 of `BrokenSlotRefusesAll`). And line 46 of that page names the
header `X-Neurwerk-Authorization` where the code reads `Authorization`. The third came from
the proof of `BrokenSlotRefusesAll`, whose first form did not go through: line 35 of
the same page says that one valid slot does not conceal another broken slot. A slot
with a valid grant and a malformed verifier, whose owner replaces the grant by a
malformed one and then the verifier by a valid one, is broken all the while, but a
reader that takes the old grant and the new verifier sees nothing wrong. Hence the
exception for `GrantFirst`, the same order that `TornOnlyIfGrantFirst` is about.

## What is not modelled

* Usage metadata: its use of the service token is in `ServiceToken`; the join of
  the requested identifiers with rows and descriptors reads only and keeps nothing.
* The contents of group pages go into the gateway's context and decide nothing
  here; that the pages arrive one after the other is in `EntitlementCache`.
* Settings are constants, and the assumptions on them ask no more than their ranges:
  positive intervals, lives and timeouts, in any order. Only `ServiceToken` asks for
  more, of the clocks, see above. What
  `_parse_jwks` refuses is a failed fetch.
* The connection pool of the HTTP client: its timeouts are those of a call.
* Logging, metrics, response formatting and the wiring of the application keep no
  state the properties are about. The release script runs outside the service.

## Plan

Done: the key table, the signing keys, the entitlements and what they promise, the
service token, the handlers with managed keys and pool, the bootstrap; each with its
proofs, and the theorems that put them together.

Left, in this order:

1. The quota through the handlers: that `KeyLedger` alone keeps it, so that
   `Composition` carries it to `Requests`.
2. `DisablingHolds` with the number of ticks of `EntitlementCache` in it: it needs the
   clock of the cache in the composition, where now `SettleAll` may come at any time.
