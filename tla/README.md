# Formal model of the reverse proxy

TLA+ modules that model the concurrent and failure-prone parts of this
repository, TLC configurations that check them on small instances, and TLAPS
proofs of their safety properties for every value of the constants. Paths are
relative to the repository, Go files to `internal/` unless they start with
`main.go` or `docs/`. `PROJECT.json` maps every definition to the lines it
models.

## 1. The system

One Go process with two HTTP servers: the proxy, which matches a request to a
route, selects a target of the route's upstream pool and forwards the request;
and the dashboard, which shows the configuration in use and changes it. The
configuration is a directory of JSON files, one per namespace, and is reloaded
as a whole after every change.

| Component | State | Operations | Talks to |
|---|---|---|---|
| upstream pool (`upstream/upstream.go`, `balancer.go`) | health of each target (under `mu`), published list of healthy indexes (`atomic.Value`), in-flight counters, ticket `next` | `NextTarget`, `HashTarget`, `LeastConnectionTarget` and its release, `SetTargetHealthy/Unhealthy`, `SnapshotStates` | called by the proxy handler and by the checker, concurrently |
| health checker (`upstream/health.go`, `registry.go`) | one goroutine per health-checked pool: its place in the round, its ticker, its context | `Start`, `runPoolCheck`, `CheckTargets`, `CheckTarget` | backends, pool |
| registry (`registry.go`, `compile.go`) | pools by global id, immutable after it is built | `BuildRegistry`, `Get`, `All` | built by every reload |
| proxy handler (`proxy/reverse_proxy.go`) | cache of `ReverseProxy` values per address (`sync.Map`); the cookies its clients keep | `ServeHTTP`: resolve route and pool, select, forward, release | runtime state, registry, pool |
| application (`app/*.go`, `main.go`) | `runCtx`, `healthCtx`, `healthCancel`, `healthChecker` under `App.mu` | `New`, `Run`, `Reload`, `ReloadFromFile`, `Shutdown` | everything |
| runtime state (`runtime/state.go`) | the snapshot in use, under an `RWMutex` | `Snapshot`, `Swap` | all readers take one copy |
| admin service (`admin/service.go`) | `service.mu`; the namespace files on disk | create and delete namespaces; create, update, delete routes and pools; list and get | `ReloadFromFile` |
| config API (`dashboard/config_api.go`) | none | HTTP methods to service calls | admin service |
| config files (`proxyconfig/`) | none | `LoadDir`, `Decode`, `Validate` | disk |
| route table (`route/`) | immutable sorted list | `BuildTable`, `Sort`, `Resolve` | built by every reload, read by the proxy handler |
| dashboard views, app config, transport, middleware | none | rendering, loading, constants | - |

What is hard to get right, and hard to test:

- **Lock-free selection.** Requests read the list of healthy targets and the
  counters without a lock while the checker replaces the list and other requests
  move the counters.
- **Two lives of a pool.** A reload replaces every pool. Requests that resolved
  the old one keep using it, while its checker is cancelled with a probe in
  flight.
- **Two locks, one change.** A reload swaps the snapshot under one lock and the
  checker under another, and may meet the start, the signal, or the end of a
  shutdown that did not wait for it.
- **Files and memory.** An admin call changes a file, tries to load the whole
  directory, and rolls the file back if that fails, while the process may die
  and the disk may refuse.

- **What outlives a snapshot.** Cookies in browsers and the cache of proxies
  survive every reload, and name targets of configurations that are gone.
- **An order made of three keys.** Which route answers depends on a sort whose
  depth counts segments in one way while matching counts slashes in another.

`PROJECT.json` lists these as hazards, each at its line, with the properties
that would catch it.

What makes each component correct, in one line each:

- *pool*: a counter is the number of requests in flight, a request goes to a
  target that was listed as healthy since it arrived, the published list is the
  set of healthy targets, least connection means least loaded;
- *checker*: it follows its backends, and ends when it is cancelled;
- *application*: exactly one live checker, that of the snapshot in use, and none
  after the end; reloads take effect in the order in which they are built;
- *proxy handler*: a request never mixes two snapshots, a sticky client stays
  where it is while its target is there and healthy, one proxy per address;
- *admin service*: an operation happens at once or not at all, on the disk and in
  memory;
- *route table*: resolution does not depend on the order of files, and the most
  specific route wins;
- *config files*: a config that is applied loads, and every route has its pool.

## 2. Modules

| Module | Models | Runs |
|---|---|---|
| `Pool` | one pool, its requests and its checker, every atomic operation a step | `pool_safety`, `pool_liveness`, `pool_panic` |
| `PoolSpec` | the abstract promise: a selection is one step, a load is a plain number | refined by `Pool` in `pool_safety`, and by the pools of `AppRuntime` in `runtime_pool` |
| `PoolRotation` | `Pool` with a history of the tickets drawn | `pool_least_connection` |
| `PoolProofs` | proofs about `Pool` | |
| `PoolRotationProofs` | proofs about `PoolRotation` | |
| `AppRuntime` | process life, reloads, checkers and requests across generations of the snapshot | `app_runtime`, `app_runtime_liveness` |
| `RuntimePool` | `AppRuntime` with a look at the pool of one generation, to show that it keeps the promise of `PoolSpec` | `runtime_pool` |
| `AppRuntimeProofs` | proofs about `AppRuntime` and `RuntimePool` | |
| `ConfigData` | configs, operations on them, what validates and what loads (pure definitions) | with the next two |
| `ConfigStore` | the abstract promise: a store on which operations take effect at once | refined by `AdminService` in `admin_service` |
| `AdminService` | admin calls over files, with failures, rollback, crash and restart, and what reads see meanwhile | `admin_service`, `admin_service_panic` |
| `AdminServiceProofs` | proofs about `AdminService` | |
| `RouteTable` | files of routes, their compilation into a sorted table, matching and resolution | `route_table` |
| `RouteTableProofs` | proofs about `RouteTable` | |
| `ProxyHandler` | requests between snapshot, registry, cookie and cache, under reloads and failing targets | `proxy_handler`, `proxy_sticky` |
| `ProxyHandlerProofs` | proofs about `ProxyHandler` | |
| `OrderFacts` | lemmas the other proofs share: least elements, remainders, the ranks of a finite ordered set | |
| `PoolMC`, `AppRuntimeMC`, `AdminServiceMC`, `RouteTableMC`, `ProxyHandlerMC` | symmetry, constants and sample configurations for TLC | |

How they fit together: `RouteTable` says which route a request matches,
`ProxyHandler` takes that as given and says which pool and address it ends with,
`Pool` says how the address is picked among concurrent requests and checks.
`AppRuntime` says when snapshots and checkers are replaced, `AdminService` what
they are made of. Where one module needs another's behaviour it takes a coarser
version of it: a pool is one target in `AppRuntime`, and a set of unhealthy
targets in `ProxyHandler`.

Definitions whose comment starts with "Mutant of" are faulty versions of the
definition below them. They are not used by any specification; each shows that
some property would notice that fault.

### Pool

A request moves through `pc`: `Arrive` (it has resolved this pool), for a sticky
route whose cookie names a target of the pool `StickyHit` or `StickyMiss` under the
read lock (a request without such a cookie asks for no lock), `LoadHealthy` (the atomic
load and the test for an empty list), then `TakeTicket`, `HashTarget`, or for
least connection `ReadFirst`, one `Scan` per element of the list,
`PickCandidate`, and `Acquire`. `Finish` and `Release` are the deferred release;
`Leave` ends a 502 or a recovered panic. The checker moves through `checkerPc`:
`Probe`, `SetTargetState` (lock taken, state written), `StoreHealthyIndexes`
(list published, lock released), `Tick`, `StopChecker`.

Abstractions: a list of indexes is the set of its elements (it is always
ascending); what a cookie names, and what a hash gives, is chosen from all
possible values; `uint64` wraps at `Modulus`; time is left out, so a tick, a
timeout or an answer may come at any moment. `seenHealthy` (the targets that were
on the list at some moment since the request arrived) and `moved` (how often each
counter moved since the request's first read, counted up to `MaxMoves`) are history
variables, read by properties and by the refinement only.

`PoolSpec` is the pool as its users may think of it: `Ask`, then in one step
`Give` a target offered at some moment since, or `Refuse` while none is offered, or
`Break`; `Leave` gives it back; `Offer` changes what is offered. `Pool` implements
it with `offered <- healthyCache`, `load <- active`, `choices <- seenHealthy`:
`Acquire` (or the step that picks the target of an uncounted request) is the
`Give`, `StoreHealthyIndexes` the `Offer`, an empty `LoadHealthy` the `Refuse`, and
`DivideByZero` the `Break`.

### AppRuntime

A *generation* is a snapshot with its registry and its checker. `Swap` and
`SwapHealthChecker` are the two halves of `Reload`; an admin call holds
`service.mu` from `BeginCall` to `EndCall`. `Done(g)` is the state of the context
of a checker: cancelled, or child of a cancelled parent. A pool is reduced to
one target, with the health its checker last found and its counter; `Pool` has the
rest. The answer of a probe (`CheckTarget`) and the state it sets (`SetTargetState`)
are two steps, as in the code: the context may be cancelled, and the pool replaced,
between them. The signal may come at any time until the end, also while `Run` already
drains because a server failed. `StopHealthChecker` may come while an admin call is at any step, because
the shutdown waits five seconds only.

`RuntimePool` adds what joins this to `PoolSpec`: one generation, `Observed`, and the
history `offeredTo`, whether its pool listed its target since a request resolved
it. Seen from the requests on that generation, `Resolve` is the `Ask`,
`SelectTarget` the `Give` or the `Refuse`, `Finish` the `Leave`, a
`SetTargetState` that changes its health the `Offer`; and everything else, among it
building, swapping and cancelling a generation, this one included, is a stutter. So the
same promise is kept by `Pool` for one pool in all detail, and by `AppRuntime`
for a pool that reloads replace while requests hold it.

### ConfigData, ConfigStore, AdminService

A config says which route names which pool, and of which kind the settings of a
pool are: `good`; `unparsable`, which validation lets through and the registry
refuses (`localhost:http` is such an upstream: `net.SplitHostPort` takes it and
`url.Parse` does not); `zeroInterval`, which loads and then panics. A file holds
a config, is `Absent`, or is `Torn`: caught after the truncation that
`os.WriteFile` begins with. A call is `BeginCall`, `Load`, `Save`, `Reload`,
and on failure `ReloadFails`, `Restore`, `Rewrite`. The process may die at any
step (`Crash`, `TickerPanics`) and comes back only if every file loads
(`Restart`). Temporary files are not modelled: `LoadDir` reads `.json` only.
Files change only through the service; an operator who edits them by hand is
outside the model. Reads take no lock and one look, so they are operators on the
state: `GetNamespaceConfig` on the files, `ListNamespaces` on the snapshot.

`ConfigStore` is what a client of the API may rely on: a store that goes from one
loadable configuration to the next by one permitted operation. `AdminService`
implements it with `store <- applied` and `faulty <- restoreFailed`: an operation
happens when its reload succeeds, or, when the process dies after the save, at the
restart. A rollback that the disk refuses makes the store faulty: it keeps its
content until a reload or a restart succeeds, and that may bring any content that
loads.

### RouteTable

The state is the content of the files, `configs`, and the `table` made of them by
the last reload. Admin calls append, replace and delete routes; `ReorderFile` is an
operator who writes the same routes in another order. Everything else is a pure
definition with the name it has in the code: `BuildTable` puts each compiled route
at its `Place` in the stable order of `Less`, `Resolve` takes the first that
matches. A path is a record of the further slashes in front, the segments
(of which inner ones may be empty) and the slashes at the end, because that is what
`prefixDepth` and `MatchSegmentPrefix` treat differently: the first trims both
ends, the second the right end only. A regular expression is the set of paths it
matches; the order of global ids, which compares strings, is a constant. A host has a
name, brackets or none, and a port, an empty port or none, so that `NormalizeHost`
keeps what `net.SplitHostPort` does not split.

### ProxyHandler

A request moves through `pc`: `Send`, `ResolveRoute` (one copy of the snapshot),
`ResolvePool`, for a sticky route `StickyCookieTarget`, then `NextTarget` or
`NoHealthyTarget`, `CachedProxy`, `StoreProxy` if the cache had none, and `Respond`
or `Fail`. A *layout* is a configuration that passes validation; `Reload` puts a
new one in use with all targets healthy, while requests of older generations go
on. `jar` holds the cookies of a client, `home` is a history variable: where its
last answer on each sticky route came from. Cookies may be there from an earlier
life of the process, any in any browser. Clients are one connection each, so their requests follow one
another; other connections are other clients. Those outside `Browsers` keep no
cookies and are there for the interleavings in cache and snapshot.

## 3. What the runs check

| Run | Instance | Shows |
|---|---|---|
| `pool_safety` | 2 targets, one flaky; 2 requests; all algorithms; `Modulus` 3 | counters are exact; no request is sent to a target that was not listed since it arrived; the list agrees with the states; a cancelled checker only excludes; a selection is never stuck, save in finding 1, and never starts again; refinement of `PoolSpec` |
| `pool_least_connection` | 2 targets, 3 requests, round robin and least connection, no checker; `Modulus` 5, `MaxMoves` 2 | the choice is no busier than another target but by the moves of the two counters meanwhile; the panic needs the first target to move; no target is drawn by round robin more than once more than another, the wrap aside |
| `pool_liveness` | 2 flaky targets, 1 request, fair | selections end; the list follows backends that settle; a cancelled checker ends |
| `pool_panic` | 1 target, 2 requests | **violated**, finding 1 |
| `app_runtime` | 2 requests, 2 admin calls, 2 reloads that succeed | one live checker, that of the snapshot; no reload overtakes; none live after the end; the pool in use is not poisoned by a cancelled probe; counters count where requests are served |
| `runtime_pool` | 1 request, 1 admin call, 2 reloads that succeed | the pool of generation 1 refines `PoolSpec` |
| `app_runtime_liveness` | as `app_runtime` without requests, fair | superseded checkers end; the pool in use recovers with its backend |
| `admin_service` | 2 namespaces, 1 route and 1 pool each, 2 calls, all failures | files match memory; a failed call leaves no trace; a successful one did its operation and nothing else; a crash leaves one namespace in doubt; what is in use loads, and no file but that of the call fails to; an unlocked read differs by one call; refinement of `ConfigStore` |
| `admin_service_panic` | as `admin_service`, rollbacks succeed | **violated**, finding 2 |
| `route_table` | 2 files with up to 2 and 1 routes, 12 kinds of route, 11 paths, 6 hosts | the narrowest route answers; an edit moves only requests it is about, a reordering none |
| `proxy_handler` | 2 routes, 2 pools, 2 addresses, 3 layouts, 2 clients, 1 reload, at most 1 target down at a time | no request without a pool; the target is one of the request's snapshot; proxies are shared; the cache is bounded by what was configured; stickiness |
| `proxy_sticky` | 2 sticky routes with one cookie name, 1 client | **violated**, finding 3 |

Why the bounds are enough to meet the interesting cases: two targets give a
partly healthy list and a scan whose first read may be stale at its second; two
requests race for a ticket and for a counter, three let two of them move counters
inside the selection of the third. `MaxMoves` bounds the count of those moves: where
it is reached the property claims nothing, and two is the most that the bound in
it adds up to when each of the two counters moves once; the proof is for any
`MaxMoves`. `Modulus` is larger than the number of requests, as 2^64
is, and small enough for `next` to wrap; in `pool_least_connection` it is, as 2^64
may be, no multiple of the number of targets, so that the skew at the wrap is
met and measured; no process lives long enough for 2^64 tickets, and what counts in
practice is the bound of one before the wrap. Two successful reloads give a generation that is both superseding
and superseded, which is the one `Observed`; `MaxGen` bounds them. `runtime_pool` has one
request, since the requests of `AppRuntime` meet in the counters only, which
`app_runtime` checks with two. Two calls over two namespaces give conflicts on the same
file and on different files. A mutex makes more callers redundant there, and the
proofs cover them. In `route_table` every pair of kinds meets in both orders of
files and of ids, since the file that is listed first sorts last by global id;
the prefixes have slashes too many in front, inside and at the end; `MaxRoutes`
bounds the files. In `proxy_handler` the reload may take a route away with its pool, move
it to another pool, take an address away, list one twice, and turn stickiness off;
where the process starts without one of the addresses, cookies may still name it;
one of the two clients keeps cookies, which may name any address at the start. `MaxSick` bounds the targets that are down together.
Requests, callers and namespaces are symmetric, and TLC uses it in the runs of
safety properties only.

Deadlock is checked, except in the admin runs, where a process that cannot be
started again is a state the system really ends in. Where backends may change for
ever it says little; there `SelectionCanGoOn` and the liveness properties say
what has to go on.

### Fairness

Only what the Go runtime and the code owe is assumed. Weak fairness of a
goroutine that can take a step (`Select`, `Check`, the rest of an admin call).
Strong fairness for a reader of a `sync.RWMutex`, which a writer cannot starve
(`Sticky`), and for the `Done` case of a `select` that is ready again and again
next to the ticker (`StopChecker`), since `select` picks at random. Nothing is
assumed of clients, backends, signals, operators or the end of a proxied response.
A probe ends because it has a timeout, so it is a step of `Check`.

### Findings

1. `pool_panic`: `lowestActiveIndexes` reads the counter of the first healthy
   target twice. If the counter grows in between, and nothing else is as low, the
   list of candidates is empty and `nextHealthyIndex` divides by zero
   (`upstream/balancer.go:75`). The request panics although a target is healthy.
   `PanicNeedsFirstTargetToMove` is the proved converse: there is no other way.
2. `admin_service_panic`: a health check interval of `0s` is accepted, applied,
   and ends the process; `AppliedConfigRuns` says what is applied can run.
3. `proxy_sticky`: `stickyCookieName` joins source and route id with `_`, which both
   may contain, and puts `_` in the place of `:`, `/` and blanks
   (`proxy/reverse_proxy.go:166`). Route `b_c` of `a.json` and route `c` of `a_b.json`
   share `rp_sticky_a_b_c`; on one host the answers of one overwrite the cookie of
   the other, and a client is moved away from a healthy target. With distinct names
   stickiness holds (`StickySessions`, proved).

Not findings, since no document speaks of them, but worth knowing:

- Cancelling the old checker makes its probe in flight fail, which marks a target of
  the replaced pool unhealthy. A request that resolved that pool just before gets a
  502 although the backend is up. Requests that arrive later are safe
  (`CurrentPoolNotPoisoned`, proved), because the snapshot is swapped first.
- Round robin, sticky misses and least connection of all routes on a pool draw from one
  ticket, so the rotation is that of the pool, not of a route.
- A file is saved before the reload tries it, and the rollback rewrites it in
  place, so a process that dies in between may leave a file that the next start
  refuses. `OneNamespaceInDoubt`, proved, says that the damage is one file.
- Every reload starts new counters, so least connection does not see the requests
  that are still being served through the replaced pool
  (`docs/architecture/architecture.ko.md:184` describes what in-flight includes, not
  what a reload does to it). `CountsPerGeneration`, proved, says that each
  pool at least counts its own.
- When an address is listed twice in a pool, a cookie means its first place only,
  so a client is moved although the second place is healthy; `StickyWhileHealthy`
  asks for all places to be healthy.

## 4. What is proved

All with TLAPS, for any number of targets, requests, admin calls, generations,
namespaces, routes, pools, paths and clients, from the named assumptions of the
modules: there is a target and a namespace, the algorithms are the four of the code,
a `uint64` counts all requests in flight, layouts and path matches are what the
validation lets through, global ids are distinct (so they are for names the admin API
accepts, which have no `:`; a file `a:b.json` put there by hand with a route `c` could
share one with a route `b:c` of `a.json`), and model values differ from data.

**PoolProofs.** `TypeCorrect`; `CountersAreExact`; `NeverServedByUnhealthy`;
`CacheIsCoherent`; `CancelledOnlyExcludes` (an action property);
`LeastConnectionIsLeast`; `PanicOnlyByRace`; `SelectionNeverStuck`;
`SelectionTakesFewSteps` (an action property); and `PoolImplementation`: `Pool`
implements `PoolSpec`. The invariants are not inductive
alone. For the counters one adds that the counter equals the cardinality of
the set of counted requests, which is smaller than `Modulus`, so that neither
`Inc` nor `Dec` wraps. For the served target one adds what a request already
knows: its list, and its candidates, consist of targets it has seen listed. For least
connection one adds what the loop has established about the prefix of the list it
has read: the lowest value it found is that of its candidates, and no other read
is lower, each but for the moves of its counter since. A move adds one to the count
and changes the counter by one, and that is why the bound is the sum of two
counts. That a selection is never stuck needs the list a request holds to be
non-empty after its test, and the remainder of a ticket to be the place of an element in
it. `SelectionTakesFewSteps` is the half of the termination of selections that
needs no fairness: a measure of at most N + 5 that every step of a selection
decreases; what fairness adds, that the steps are taken, `pool_liveness` checks.
The refinement rests on the first two: a counter that does not wrap is a number, and a chosen target is among the choices.

**PoolRotationProofs.** `RotationFair`: while every target is listed, tickets
drawn in a row give counts that differ by one, by two where the ticket wraps once;
`UncheckedRotationFair`: without a health check that is always so. The history keeps
the counts less the least of them, and the inductive invariant says what they look
like: one row, in which the targets from some `s` round to the one whose turn it is
have one draw more than the others (`OneRow`), or, after the wrap, a row that began
with target 0 on top of such counts (`TwoRows`). That the turn passes from each target
to the next is the successor of a remainder (`NextRemainder`).

**AppRuntimeProofs.** `TypeCorrect`; `AtMostOneChecker`; `CheckerIsCurrent`;
`NoReloadOvertakes`, and of these two `ReloadsAreWhole`; `CheckersEndWithRun`;
`ReloadDoesNotPoison`; `CountersSurviveReload`; and `PoolOfAGeneration`: the pool of
any one generation implements `PoolSpec`. The inductive invariant ties the place of the one admin call that holds the mutex to the
snapshot, to the generation of the checker and to `healthCancel`, says that every
generation but that of `healthCancel` is done or was never started, and that a
pool can only be unhealthy, or about to be set so, if its checker was cancelled or the
backend failed. The
refinement adds what a request knows of the pool it resolved: while that lists its
target, a request that is about to select has seen it listed (`OfferInv`). It rests on `CountersSurviveReload`: the load of the abstract pool is
the counter, so a release must find there what its selection left.

**AdminServiceProofs.** `TypeCorrect`; `FilesMatchRuntime`;
`FailureLeavesNoTrace`; `NoLostUpdates`; `CrashLeavesOneInDoubt`; `AllButOneFileLoad`;
`ReadsAreRecent`; and
`Implementation`: `AdminService` implements `ConfigStore`, whatever the disk
refuses. The inductive invariant `IInv` says, for each step of the holder
of the mutex (`Progress`), how the files and the snapshot differ from those it
found; that those agreed (`InSync`) unless a rollback had failed; and that a
dead process left one namespace in doubt. The refinement then maps `Reload`, and
`Restart` after a crash, to one `Commit`, to `Heal` or to a stutter, `RestoreFails` to
`DiskRefuses`, and every other step to a stutter. `AllButOneFileLoad` is the reason
why a call cannot fail for the fault of another: what is in use was loaded
(`AppliedLoads`, an invariant of its own), and the files are what is in use but for one.

**RouteTableProofs.** `TypeCorrect`; `NarrowestRouteAnswers`;
`EditsMoveNothingElse` (an action property); `AnswerIsFirst`, about the pure
functions `BuildTable` and `Resolve`. `Less` is shown to be a strict order that
is total on routes with different global ids, so that in a set of valid files every
route has a place of its own (`Ranking`), the table is sorted (`TableIsSorted`), and
the answer is the first matching route by `Less`, whatever the order of files
(`AnswerIsFirst`). For the narrowest route one needs that a prefix which matches a
path in common with another and has more segments matches a part of what the
other does (`LongerPrefixIsNarrower`).

**ProxyHandlerProofs.** `TypeCorrect`; `PoolIsThere` and `TargetIsConfigured`, and of
these two `OneSnapshotPerRequest`;
`OneProxyPerAddress`; `CacheIsBounded`; and `StickySessions`, which assumes that the
cookie names of routes are tokens and differ. The inductive invariant adds that
a request keeps the route and the generation it resolved, whose layout no reload
touches (`Bound`). For stickiness it adds that the cookie of a route names the
target of the last answer (`HomeInv`), and that a request which sets no cookie was
sent to the target of the one it has (`UsedCookie`); that is where two routes with
one name break it.

**OrderFacts** holds what several of these need and no theory of the prover has: a
non-empty set of numbers has a least one, remainders and their successors, and
that the elements of a finite set in a strict total order have the ranks 1 to its
cardinality, each once.

Model-checked only: liveness under fairness and everything that rests on
`ENABLED`, which are out of the prover's reach. Every invariant and every action
property that a passing run checks, and every refinement, is also proved, `RotationIsFair`
while every target is listed, `StickyWhileHealthy` for distinct cookie names. No module that is proved about
reaches a `RECURSIVE` operator.

## 5. What is not modelled

- The key of `5_tuple_hash` (`trustedClientAddress`, `requestDestination` in
  `proxy/reverse_proxy.go`): parsing of headers; in `Pool` a hash is any sum.
- HTTP forwarding itself, the transport, the error handler, the decoding of requests
  and the status codes of both servers, and JSON.
- The dashboard views and the runtime API: they render one copy of the snapshot and
  of the pools' states. Of the reads of the admin service, the time `AppliedAt`, and
  the entry `ListNamespaces` adds when there is no `default` file.
- In the route table, which paths a regular expression matches. In validation, the rules for regular expressions, hosts and health checks.
- The duplicate check of the registry: a global id is file name and key of a JSON
  object, so two pools cannot share one unless a name contains `:`.
- Files edited by hand while the process runs, except for the order of routes.
- The app config, beyond that loading it may fail.
- The test server, the compose files and the scripts: not part of the program.

## 6. Plan

Done, in this order: `Pool`, `AppRuntime`, `ConfigData`, `ConfigStore`,
`AdminService` with its refinement, the reads of the admin service, `RouteTable`,
`ProxyHandler`, `PoolSpec` with its refinement by `Pool` and by the pools of
`AppRuntime`; each with its proofs.

What is left, most important first:

1. `ProxyServer`: `Pool` with several targets inside the generations of
   `AppRuntime`. `RuntimePool` shows that what the two have in common, `PoolSpec`, is
   kept by both; what is left is one model with both. Instance: two targets, two
   generations, one request.
2. The abstract promise of the proxy handler, one request and one answer per client
   with a home per sticky route, and a proof that `ProxyHandler` implements it.
3. The key of `5_tuple_hash` as a function of the headers, the remote address and the
   destination, and that requests with equal keys meet the same target while the
   list does not change.
4. The status codes of the config API, as a function of the step at which a call
   fails.
