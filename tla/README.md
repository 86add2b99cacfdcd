# go-stealth in TLA+

TLA+ models of the stateful parts of `go-stealth`, an HTTP client library that
imitates a browser's TLS fingerprint and rotates proxies.  `PROJECT.json` lists
the components, the runs, the lines every definition stands for, the
divergences found, the hazards and the theorems; this file explains them.

## 1. The system

A `BrowserClient` owns a backend (`HTTPDoer`: the tls-client, or net/http) and
optionally a proxy pool.  Callers on any goroutine call `Do`/`DoCtx`; each
attempt draws a proxy from the pool, switches the *shared* backend to it, and
sends the request through a chain of middleware.  Around that core are pools
with credential refresh and health tracking, rate limiters, Cloudflare
handling, caches, retry helpers and sessions.

| Component | State | Operations | Interacts with |
|---|---|---|---|
| Browser client (`client.go`, `client_ctx.go`, `roundtripper.go`) | backend's proxy, lazily built handler, close-once | `Do`, `DoCtx`, `DoWithHeaderOrder(Ctx)`, `SetProxy`, `Use`, `Close`, `RoundTrip` | pool (`Next`, `ReportAuthFailure`), backend, allowance, middleware |
| Backends (`backend_*.go`) | proxy, transport, connections | `Do`, `SetProxy`, `Close` | transports of other packages |
| Proxy allowance (`proxy_allow.go`) | ordered set of proxy endpoints, published snapshot | `apply`, `remember`, `forget`, `publish`, `allows` | `SetProxy`; every dial reads the snapshot without a lock |
| Webshare pool (`proxypool/webshare*.go`) | proxy list, counter, trigger time, `closed`, wait group, singleflight | `Next`, `ReportAuthFailure`, periodic loop, `refresh`, fetch, `Close` | Webshare API; the client reports 407s |
| Healthy pool (`proxypool/healthy.go`, `healthstore.go`) | health record per proxy | `Next`, `RecordSuccess/Failure`, `ActiveCount`, `AllStats` | wraps any pool; callers report results |
| Static pool (`proxypool/static.go`) | list, counter | `Next` | client, healthy pool |
| Limiter (`ratelimit/ratelimit.go`, `store.go`) | count, window start, blocked-until per key; cap overrides | `Allow`, `UpdateLimit`, `MarkRateLimited`, `IsRateLimited`, `AvailableAt` | domain limiter, rate-limit middleware |
| Domain limiter (`ratelimit/domain.go`) | limiter and last request per domain | `Allow`, `Wait`, `MarkRateLimited` | limiter |
| Generic pool (`pool/`) | active flag and reactivation time per item, health tracker | `Next`, `NextWithWait`, `DeactivateItem`, `SoftDeactivate`, `AvailableIn`, `Add` | callers' identities |
| Cloudflare (`cloudflare.go`, `middleware_oxbrowser.go`, `solver_*.go`) | clearance cookie per domain | detect, inject, solve and retry, smart fetch | client's handler chain, solver services |
| Site intelligence (`site_intel.go`) | cache per domain, singleflight | `Get` | ox-browser service |
| Retry (`retry*.go`) | tracker entry per URL | `RetryDo`, `RetryHTTP`, `ShouldRetry`, `RecordAttempt` | middleware, callers |
| Sessions (`session/`) | counters; one JSON file each | `Do`, `Save`, `Load`, `List`, `Delete` | client, file system |
| SSRF guard (`ssrf.go`) | none | classification of addresses | client, dials, redirects |
| Built-in middleware (`middleware_builtin.go`) | none of their own | logging, retry, rate limit, client hints | limiter, retry |
| Profiles, header orders, decompression, fingerprint data and tools | tables | pure | client |

What is hard in it, and what makes each part correct:

* **Client.**  Nothing locks the backend between the switch and the request, so
  calls interleave; a 407 may be a response or an error; the caller of `DoCtx`
  may be gone when the answer comes.  Correct: never without a proxy when the
  pool has one (an empty pool sends every request out directly), no repeated request after a final answer, every 407 reported, no
  goroutine or caller left hanging.
* **Webshare.**  Triggered refreshes, the periodic loop, `Close` and readers run
  at once; a fetch may fail, hang, or read two pages across a rotation of the
  credentials.  Correct: one fetch at a time, no older list put back, readers
  always served, `Close` leaves nothing running and does return, credentials
  become fresh.
* **Allowance.**  Two critical sections with a lookup in between, a snapshot read
  without a lock, an eviction bound, a backend that refuses.  Correct: list, map
  and snapshot agree; the proxy in use is never evicted.
* **Healthy pool.**  A counter shared outside the health lock, a time read once,
  results that come late, a list swapped underneath.  Correct: cooldowns are kept,
  a reactivated proxy starts afresh, fallback only when all are down.
* **Limiter.**  `Allow` is three critical sections.  Correct: no window above its
  cap, a block holds until its end, `IsRateLimited` agrees with `Allow`, and `AvailableAt`
  sends nobody away for longer than `Allow` would.
* **Domain limiter.**  Per-domain delay under one lock, a limiter used outside it,
  polling `Wait`.  Correct: admissions at least `MinDelay` apart.
* **Generic pool.**  Permanent against temporary deactivation, boundary of a
  cooldown.  Correct: what is removed stays removed, waiting gets an item.
* **Cloudflare.**  Order of middleware, concurrent solves, expiring cookies.
  Correct: no challenge reaches the caller as a page, a block is left alone,
  every cookie middleware of the chain retries once, with no cookie older than the solved one.
* **Site intelligence.**  Two cache checks around a singleflight.  Correct: no
  stale entry served, an entry replaced only when it has expired.
* **Retry, sessions.**  Overflowing waits, a permanent mark that a later transient
  failure clears, check-then-act of concurrent workers, a crash during `Save`.
  Correct: a session comes back as it was last saved or not at all, no request uncounted.
* **Construction.**  Options build pools and choose backends in any order.  Correct:
  `Close` stops the pool the client uses, closes nothing twice and nothing of the caller's.
  (Not all that the client owns: see section 5.)

## 2. Modules

| Module | Models | Checked by |
|---|---|---|
| `Webshare` | the Webshare pool, all of its state-changing operations | `MCWebshare`: `webshare`, `webshare_live` |
| `FreshList` | abstract: what a refreshed pool promises the callers of `Next` | `webshare` (refinement) |
| `WebshareProofs` | theorems about `Webshare`, the refinement among them | TLAPS |
| `Client` | `doWithRetry` with its pool and backend, `DoCtx` | `MCClient`: `client`, `client_own_proxy` |
| `ClientProofs` | theorems about `Client` | TLAPS |
| `Limiter` | `Limiter` over the in-memory store | `MCLimiter`: `limiter`, `limiter_available_at` |
| `LimiterProofs` | theorems about `Limiter` | TLAPS |
| `HealthyPool` | `HealthyProxyPool` over a pool that may be refreshed | `MCHealthyPool`: `healthy_pool` |
| `HealthyPoolProofs` | theorems about `HealthyPool` | TLAPS |
| `ProxyAllowance` | `proxyAllowance.apply` and the tls-client's `SetProxy` | `MCProxyAllowance`: `allowance` |
| `ProxySwitch` | abstract: what switching a backend to a proxy promises | `allowance` (refinement) |
| `ProxyAllowanceProofs` | theorems about `ProxyAllowance` | TLAPS |
| `Cloudflare` | the middleware chain: detection, cookie middleware, SmartFetch, `Use` | `MCCloudflare`: `cookie_solver`, `ox_rendered`; `MCPackages` |
| `CloudflareProofs` | theorems about `Cloudflare` | TLAPS |
| `SiteIntel` | `SiteIntel.Get` | `MCPackages` |
| `ItemPool` | `pool.Pool` | `MCPackages` |
| `HealthTracker` | `pool.HealthTracker` and `BackoffConfig.Duration` | `MCPackages` |
| `RetryTracker` | `RetryTracker` | `MCPackages`; `tracker_permanent` |
| `RetryTrackerProofs` | theorems about `RetryTracker` | TLAPS |
| `RetryPipeline` | retry middleware over rate-limit middleware over `DomainLimiter` | `MCPackages` |
| `Session` | `session.Session` and `session.FileStore` | `MCPackages` |
| `Construction` | options, `NewClient`, `Close` | `MCPackages` |
| `PackageProofs` | theorems about `SiteIntel`, `ItemPool`, `HealthTracker`, `RetryPipeline`, `Session`, `Construction`, and all packages together | TLAPS |

Conventions.  Variables keep the code's names.  A `pc` per goroutine says where
it is between two critical sections; each critical section, atomic operation or
external call is one action.  Histories (variables marked *history*) are
written, never read, by the actions.  A definition introduced by "Plausible
slip" is a wrong version of the definition that follows it; it is not part of
the model and serves to show that a property notices that slip.

**Webshare.**  `list` is the atomic list, an entry being the version of the
credentials in the URL; the account's version `cred` is rotated by
`RotateCreds`.  Threads are the loop and the triggered refreshes (a report
under `triggerMu` is `ReportTriggers`); `Lead`/`Join` are `singleflight.Do`;
`FetchMore`/`FetchLast`/`FetchError` are the pages; `SetProxies` the swap;
`Finish` the end of the singleflight call, which releases all who joined;
`WgDone` the deferred `wg.Done`.  `Close` is `CloseFirst`, `CloseStop`,
`CloseWait`, or `CloseAgain`.  `Next` is `NextLoad` and `NextIndex`, with a
counter that wraps.  `mode` covers the three constructors.  The counters of
`Stats` and the text of URLs are left out.

**Client.**  `pool` is `NoPool` for a nil `proxyPool`, else the list of its proxies, which
may be empty: `Next` then returns the empty URL (`Drawn`), which `SetProxy` takes for no
proxy.  `proxy` is the backend's, `picked[c]` what the call drew, `via[c]`
what the request in flight left through.  `SwitchOk`/`SwitchFails` are
`SetProxy`, one step here because `proxyAllowance.mu` or `proxyMu` is held over
it.  `Answer(c, e)` is the backend's return, with the kinds of ends the loop
tells apart; `Retries` is the loop's decision.  `Start`, `Leave`, `Receive`,
`Deliver` are `DoCtx` and its goroutine, `ch` its one-place channel.  Left out:
headers, bodies, the 100-300 ms pause before a retry (a step between two
attempts is always possible), middleware (see Cloudflare), the race in
`tls_client` itself between `SetProxy` and `Do` (the request leaves through the
proxy of one moment between the two).

**Limiter.**  `entry` is the store's map, `override` the per-key caps.  `Begin`
reads the clock, `Pass`/`Refuse` the block, `Increment` is the store's critical
section, `Decide` reads the cap.  `marked` (history) is the last block set on a key, and `early`
the calls that were inside `Allow` when it was.  `IsRateLimited` and `AvailableAt` only read;
they are operators on a state.

**HealthyPool.**  `Begin` reads `Len()` and the time; `Draw` advances the shared
counter; `TakeActive`, `TakeCooled`, `Skip` are the critical section with its
three ends; `Fallback` the draw after the loop; `RecordSuccess`/`RecordFailure`
come later, when the caller has its answer.  `Refresh` swaps the list below.
Rates are compared in percent without division.

**ProxyAllowance.**  `Look` is the first critical section of `apply`, `Resolve` the
lookup outside the lock, `Allow` the second section up to `set`, and
`SetOk`/`SetFails` its end, `mu` being held in between.  `snap` is the published
slice as a set.  Two proxies may resolve to one endpoint.

**FreshList.**  `served`, `account` and `stopped` are the pool; each client takes the
list and is given one of its entries.  `Webshare` maps `list`, `cred`, "the Close
that found the pool open has returned", `held` and `result` to it; every refresh
between `Lead` and `SetProxies` is a stutter, `SetProxies` a `Replace`.

**ProxySwitch.**  `guard` is the map, `backend` the current proxy, `trying` what the holder
of the mutex switches to, `familiar` its `wasKnown`.  The list, the snapshot, the
lookups and their order are hidden.

**Cloudflare.**  A call goes down its chain to the next cookie middleware, which adds
the cached cookie (`Inject`), and past the last of them to the site (`Send`); it comes up
from one middleware that acts to the next (`Climb`).  A cookie middleware is its place in
the chain, and `retrying` holds those that have solved and are in their retry: the inner
ones start afresh in it, so retries of several cookie middlewares nest.  `sentAs` and
`retried` (histories) keep from which retries each request of an attempt was sent, and the
cookies of the last retry.  All of them share one solver.  A response is the facts
`DetectCloudflare` looks at.  `Report` is the detect middleware,
`SmartGivesUp`/`SmartAnswers` SmartFetch, `SolveFails`/`SolveAndRetry` the cookie
middleware; the two solvers have the same cache, modelled for one domain.  Solving
and caching are one step, as nothing but the cache is shared.  `Use` is one step
between calls of `Do`; the unlocked write of the handler by two first calls of `Do`
builds the same chain twice and is one step too.

**SiteIntel.**  An entry is its `FetchedAt`.  `Ask` is the first look, `Fly` is
`singleflight`, `LookAgain`, `Analyzed` and `Store` the flight.

**ItemPool.**  Each of `Next`, `AvailableIn` and the deactivations is one step under
the pool's lock; `NextWithWait` is `First`, `Look`, `Wake` or `CancelWait`.  The timer
may fire late, and not early.

**HealthTracker.**  One item; a worker told that the item tripped reads `TripCount` and
calls `SoftDeactivateBackoff`, in separate steps.  Multiplier is 2;
`JitteredWaits` are the durations `BackoffConfig.Duration` may draw: the jitter, a share
`JitterNum`/`JitterDen`, comes after the cap.

**RetryTracker.**  One URL; `GoAhead` is a `ShouldRetry` that answers true (the false one
changes nothing) and `RecordAttempt`/`RecordSuccessOf` the record that follows.

**RetryPipeline.**  One domain with a rule, requests that pass
`Attempt` → `Admit`/`Poll`/`Overdue` → answer → `Fail`.  `Admit` is an `Allow` that
answers true, under the domain lock, which also covers its inner `Limiter`; `Mark`
sets the block by a later step than the one that computed it.  `Backoffs` is the float
arithmetic of `retryDo`: what fits a Duration is capped, what does not fit is converted
to whatever the platform makes of it.  Jitter is 0, as in `DefaultRetryConfig`;
left out are the retry hook and `resetFn`, which belong to the caller.

**Session.**  One ID; `Stamp` and `Count` are the two steps of `Do`, `Save` truncates the
file and `Written` completes it, with a crash or a full disk in between, which leave it torn.  `saved` (history) is the
snapshot of the last `Save` that returned without an error.

**Construction.**  An option is a step on `cfg`; pools are numbered as they are built.
`Enter` is `closeOnce.Do`, which makes a second caller wait.

## 3. The runs

| Run | Question, and what it shows |
|---|---|
| `webshare` | All interleavings of two triggered refreshes, the loop, two callers of `Close` and a reader, in the three modes: `SingleFlight`, `WaitGroupExact`, `QuietAfterClose`, and `ImplementsFreshList`: the pool is a `FreshList`. |
| `webshare_live` | `CloseReturns` under fairness of goroutines only; `EventuallyFresh` when also the timer fires and the API answers. |
| `client` | Two calls, one of them cancelled at any time, without a pool, with an empty one, and with one of two proxies of which one may be refused: `RightProxy`, `RetryDiscipline`, `AuthReported`, and liveness `CancelledReturns`, `GoroutineEnds`. |
| `client_own_proxy` | *Divergence.*  A request leaves through the proxy of another call. |
| `limiter` | Two callers, two keys, cap changes and blocks: `AdmissionCap`, `BlockHolds`, `AnswersRight`. |
| `limiter_available_at` | *Divergence.*  `AvailableAt` names a time at which the key is still blocked. |
| `healthy_pool` | Two callers, a list that is swapped: `SoloFallback`, `FreshStart`, `CooldownHeld`. |
| `allowance` | Three callers, a bound of three remembered URLs, one URL always and one sometimes refused: `Coherent`, `DialAllowed`, `RejectedForgotten`, and `ImplementsProxySwitch`: the calls of `apply` are as if one followed the other. |
| `packages` | The eight components that share no state, one after the other (below). |
| `cookie_solver` | *Divergence.*  A client with a cookie solver reports a challenge without asking the solver: the detect middleware is inside the cookie middleware and leaves it nothing but an error. |
| `ox_rendered` | *Divergence.*  The page ox-browser rendered carries the challenge's headers and is reported as a challenge. |
| `tracker_permanent` | *Divergence.*  A transient failure recorded after a permanent one clears the mark. |

**The run `packages`.**  `MCPackages` puts eight specifications side by side, with a
variable `part` that names the one whose actions a behaviour takes; the others stay in
an initial state.  The state spaces are thus added, not multiplied, and each
component is explored as it would be in a run of its own.

| Component | Instance | Properties |
|---|---|---|
| `Cloudflare` | two calls of two attempts; no options, a solver with logging, ox-browser; `Use` adds nothing, or a detect outside a cookie middleware, or (without options) one cookie middleware right outside of another; four pages, three cookies | `ChallengeHandled` (no challenge passes as a page, no solver is asked about a block), `ChainFaithful` (each cookie middleware retries once by itself, up to four requests in an attempt, none twice from the same retries, nothing older than its cookie, `Use` applies) |
| `SiteIntel` | three callers, TTL 2, clock 4 | `AnalyzedOnExpiry`, `FreshWhenAsked` |
| `ItemPool` | one item and one added, one waiter, two filters, clock 4 | `StaysOut`, `WaitIsRewarded` |
| `HealthTracker` | two workers, nine requests, waits from 4 to 14, jitter 0.3 | `BackoffSound` |
| `RetryTracker` | three workers, limit 2, TTL 1, clock 4 | `Overshoot` |
| `RetryPipeline` | two requests, three retries, a window of two, waits from 2 to 3, Duration's limit at 4, clock 5 | `SendsInTime`, `RetriesBounded` |
| `Session` | two objects of one ID, two callers of `Do`, two requests | `CountExact`, `RestoredIsSaved` |
| `Construction` | three options, two callers of `Close` | `Ownership` |

`TypeOK` is the conjunction of the components' type invariants.

`CHECK_DEADLOCK FALSE` everywhere: clocks and numbers of calls are bounded, and
a system all of whose calls have returned stops.

**Bounds.**
`Webshare`: two triggered refreshes and the loop are three refreshers, so that one
can lead while two join or come late; two pages let credentials rotate in the
middle of a fetch; the counter wraps at 4.  `MaxClock` 2 with `MinGap` 1 lets a
second trigger through and suppresses others.
`Client`: one retry gives all pairs of ends of consecutive attempts; a second call
is what is needed to race with.
`Limiter`: three ticks with a window of one hold a full window, its boundary and a
reset; caps 1 and 2 and three calls on two callers exceed every bound that could
be exceeded (the bound of `AdmissionCap` is the largest cap the key has had, since a cap
that moves within a window leaves open which one the window is held to; that a lowered cap
is obeyed from then on is `LimitedMeansRefused`); a limit of 0 is one that `UpdateLimit` ignores.
`HealthyPool`: five calls deactivate (two results needed), cool, reactivate and fail
again; three proxies in lists of two let a refresh replace one.
`ProxyAllowance`: four proxies fill a set of three and evict; callers, endpoints and
ordinary proxies are symmetric.
`packages`: three callers of `SiteIntel` are a leader, one who joins and one who misses
the entry just before it is stored; clock 4 is twice its TTL.  Two items of which one is
added give a scan an item to bring back and one to pass over.  Nine requests reach a
second trip by either threshold and a cooldown at its ceiling.  Waits of
the retries are 2, 3 (4, capped) and one that overflows (8, with the limit of Duration at
4): a wait grows, meets the ceiling, and exceeds what fits.  A jitter of 0.3 on waits of 4
to 14 moves them by one to four ticks.  Three cookies are what
an attempt with four requests (two cookie middlewares, no detect between) solves.  Three options
give every pair of options that can undo each other, and a third.
Symmetry is used in runs without liveness properties only, between values that every
constant they occur in treats alike.

**Fairness.**  `CloseFairness` (Webshare): a goroutine that can run does; a fetch
whose context is cancelled returns (`http.Client` honours the request's
context); and the `select` that ends the loop's sleep, entered again and again
with a cancelled context, does not choose the timer for ever (Go chooses
uniformly), which is the one strong fairness.  Nothing is assumed of a fetch that
is not cancelled.  `RefreshFairness`, assumed by `EventuallyFresh` alone: the timer
fires, and a fetch that is begun again and again succeeds at last.
`Client`: goroutines run; `DoCtx`'s select takes a ready case.  `GoroutineEnds`
alone assumes that requests end, which the backend's timeout guarantees.

## 4. The theorems

Every invariant, action property and refinement that a passing run checks is a theorem,
for all values of the constants that the named assumptions of the modules admit:
no theorem has a hypothesis of its own.  `TypeOK` is one conjunct among others of
each inductive invariant below.

`WebshareProofs`, for every number of refreshers, closers and readers, every
page count, gap, counter width and bound, from `ThreadsAssumption` and
`BoundsAssumption` of `Webshare`:

* `TypesHold`, `NextServesHolds`: from the inductive `TypeInv`, which adds to the
  types that a list about to be stored, held by a reader or served is not empty
  (`Shape`).  `PickInList` is the arithmetic of the index.
* `SingleFlightHolds`: needs `Owner` (a goroutine is inside the fetch exactly when
  the singleflight group knows it as the runner); mutual exclusion alone is not
  inductive, as `Lead` only looks at the group.
* `WaitGroupHolds`: the counter is the cardinality of the live goroutines.
  `LiveChanges` says how a change of one `pc` changes that cardinality.
* `QuietAfterCloseHolds`: needs `Closing` (who found the pool open, and that no
  trigger starts afterwards), and `WaitGroupHolds` for "zero means none alive".
* `ListAdvancesHolds`: needs `Recent`: no list holds a version newer than the
  account's, and what a fetch has collected is at least as recent as the list
  it will replace, which is true only because fetches do not overlap (`Owner`).
* `Implementation`: `Spec => ImplementsFreshList`.  The initial state maps to one of
  `FreshList`; `SetProxies` is a `Replace` by `Recent` (the new list is at least as recent
  as the old one and no newer than the account) and by `QuietAfterClose` (no refresher is
  left to store one after `Close`); `NextIndex` is a `Give` by `HeldInside` and
  `PickIsEntry` (the index lies in the list that was taken); `CloseWait` is a `Stop`; all
  other steps change nothing the abstract list has.

`RetryTrackerProofs`, for every finite set of workers, every limit and every TTL, from
`RetryTrackerAssumption`:

* `TrackerTypesHold`, and `OvershootHolds`: attempts on record plus workers under way
  never exceed the limit by as much as there are workers.  It is inductive with the
  types: `GoingAhead` and `ComingBack` say how the number of workers under way changes.

`ClientProofs`, for every set of calls, pool of proxies and number of retries:

* `ClientTypes`, `RetryDisciplineHolds`: from `CoreInv`.  That a block or an error is
  returned from the last attempt only needs `AttemptsCounted` (the loop counter is the
  number of attempts that have ended) and `AllRetried` (every earlier attempt of the call
  ended in a kind that `Retries` accepts); a caller that gave up its context before it
  called has no goroutine (`NotStarted`).
* `RightProxyHolds`: from `OnPool`, which follows the proxy from the draw over the switch
  to the request.  The backend's proxy is one that `Next` may return (`Drawable`: one of
  the list, or none if the list is empty) for whoever is past its switch, its
  own only while no other call has switched: the switches of other calls are what makes
  the weaker half necessary.
* `AuthReportedHolds`: the reports are the cardinality of the set of attempts that ended in
  a 407 (`ReportsCounted`).  Each answer adds one element to that set or none.

`LimiterProofs`, for every window length, caps, keys and callers, with `UpdateLimit` and
`MarkRateLimited` at any moment:

* `AdmissionCapHolds`: a call holds its ticket (number, window) over a gap between two
  critical sections, so the invariant speaks of tickets in hand as well as of granted
  ones.  `AllIssued`: each was handed out by the entry as it is or before a reset;
  `AllApart`: two of one key differ in number, or their windows do not overlap.  A window's
  grants are then distinct numbers up to the cap, which bounds their count
  (`UnderTopCap`), and a span of the window's length meets two windows at most.
* `BlockHoldsAlways`: from `MarksKept`: the block in the entry is the last one that was
  set, through increments and resets of the window, and whoever is past the check while it
  lasts was inside when it was set.
* `AnswersRightHolds`: from `EntriesSound`: no entry starts in the future.

`HealthyPoolProofs`, for every list, threshold, minimum and cooldown:

* `FreshStartHolds`, `CooldownIsHeld`: from `EvidenceKept` and `CallsSound`.
* `SoloFallbackHolds`: from `SoloInv`: a call that nobody overlaps has found down exactly
  what the counter has drawn since it began.  `EveryRemainder` says that as many
  consecutive numbers as the list is long leave every remainder, so that this is the
  whole list, wherever the counter stood.

`ProxyAllowanceProofs`, for every set of URLs, endpoints and callers and every size:

* `CoherentHolds`, `RejectedForgottenHolds`: from `HolderSound` (what the
  call between `Allow` and the end of `set` knows about its URL) and `RejectedOnTrial`.
  The lemmas on `Without` and `Trim` say what the ordered set keeps, and in what order.
* `DialAllowedHolds`: the proxy in use is not the oldest entry when another is evicted,
  since what is more recent is flaky or on trial (`OnlyRefusedSince`), and there are
  too few of those to push it out: a counting argument on an injective sequence.  This is
  why `MaxRemembered` must exceed the number of flaky proxies by two, which is a condition
  of the property and not of the model.

* `SwitchImplemented`: `Spec => ImplementsProxySwitch`.  `Allow` is a `Try`, the end of `set`
  a `Switch` or a `GiveUp`, everything outside the second critical section a stutter.
  That a full guard loses exactly one proxy needs `EvictsOne` and `GuardedIsListed` (the list
  is as long as the set of guarded proxies is large); that a failed call without an
  endpoint has nothing to take back needs `NothingAdded`.

`CloudflareProofs`, for chains of any length and order:

* `ChallengeHandledHolds`, `ChainFaithfulHolds`: the invariant is about each call alone
  (`CallSound`), and only `ChainCurrent` relates it to the shared chain.  `ActsHere`: on the
  way up every middleware below the one that acts has let the response pass, thus none is
  a detect.  That no two requests of an
  attempt are sent from the same retries is an order: with every middleware that is in its
  retry or has yet to act, the sets of retries so far come lexicographically before what is
  still to be sent, since a retry is added at the place that acts, everything outside of it
  is as it was, and everything inside starts afresh.  A retry's header begins with the cookie
  just issued, and what is injected behind it was cached later.  The climb goes to the *greatest* place that
  acts: `GreatestNumber` gives the existence that this CHOOSE needs, by well-founded
  induction.

`PackageProofs`, for every value of the constants of each component:

* `CountExactHolds`, `RestoredIsSavedHolds` (`Session`): only a live session has calls that
  are yet to be counted (`CountedAlive`); `OneMoreToCount` and `OneLessToCount` follow the
  number of those.  A file that can be read is the one of the last successful `Save`
  (`FileSaved`): one that is truncated stays unreadable until the next.
* `FreshWhenAskedHolds`, `AnalyzedOnExpiryHolds` (`SiteIntel`): whoever is inside the flight
  is its leader (`OnlyLeader`), a joiner is answered as of the flight's beginning
  (`JoinedSince`), and what the leader is about to store is newer than the entry by the
  TTL (`InTime`).
* `BackoffSoundHolds` (`HealthTracker`): trips are paid for by successes (`TripsPaid`).  The
  cooldown is a power of two, of which the prover knows nothing: `PowerOfTwo` derives
  that it grows from the number of subsets of an interval; `WaitRange` and `JitterRange` put
  the wait between the first and the ceiling, and what is drawn between those less and
  plus their jitter.
* `OwnershipHolds` (`Construction`): from what the options leave behind (`Configured`), and
  how far the one inside `Close` is (`OneInside`, `ClosedSoFar`).
* `RetriesBoundedHolds`, `SendsInTimeHolds` (`RetryPipeline`): `BackoffsKept` ties the wait in
  force to the number of the attempt, as far as it fits a Duration; `BlockHolds` says that
  the block lasts at least as long as each request's own `Retry-After`, as far as no other
  answer has moved the block since.
* `StaysOutHolds`, `WaitIsRewardedHolds` (`ItemPool`): a caller that sleeps undisturbed has an
  item to wake for (`WorthWaiting`), and the scan reaches it (`SlotsGoRound`).  The time
  that `AvailableIn` names is a least one: `LeastNatural`, by well-founded induction.
* `PackagesTyped`: the composition that TLC explores keeps `TypeOK`: a step of one
  component is one of its own specification and leaves the others' invariants alone.

**Assumptions.**  Beside sizes and bounds, the modules assume that the value which
stands for "none" is not a member of the set it completes (`NoOne` in `Session`, `Nobody`
in `SiteIntel`, "new" and "over" in `Construction`, `None` in `ProxyAllowance`), and that
`Triggered`, `Workers`, `Users` and `Flaky` are finite.  They are named where the constants
are declared, and TLC evaluates them on every run.

**Model-checked only.**  Liveness (`CloseReturns`, `EventuallyFresh`, `CancelledReturns`,
`GoroutineEnds`): fairness and ENABLED are outside the prover.  The expected violations
are counterexamples, which a run shows and a proof does not.

## 5. Not modelled, and why

Statistics and latencies (nothing reads them back), the text of URLs, headers,
bodies and log lines, classification of addresses (`ssrf.go`: pure), country codes
(pure), profile tables, fingerprints, decompression, the REST calls of ox-browser (an
answer or a failure wherever they are made), the choice of a rule for a domain
(`matchRule`: pure), the capture command.  Of the options, those that set a field which
only the backend reads; of the client, `CloseIdleConnections` and a program's own
`SetProxy` (with a pool, every attempt switches anyway).  `PROJECT.json` lists each part.

**Differences between code and documentation that are stated but have no run.**  The
modules state them as properties that the code does not have.  TLC finds each violated when it
is listed as an INVARIANT of the component's instance in section 3 (`SlidingCap` with a window
of 2 and clock 4):

* `Webshare.EveryCloseWaits`: "waits for in-flight refreshes" (`webshare_refresh.go:123`);
  the second of two concurrent `Close` calls returns before the refreshes have ended.
* `Limiter.SlidingCap`: "sliding window" (`ratelimit.go:44`); the window is fixed, so a
  span shorter than a window can hold twice the cap.
* `Limiter.ZeroMeansAvailable`: "Returns zero time if available right now"
  (`ratelimit.go:150`); at the very moment an exhausted window ends, `Count` and `Increment`
  still take it for current (`store.go:63` and `:81` ask for *more* than its length) while
  `AvailableAt` asks for an end that is still ahead: it returns the zero time, and `Allow`
  refuses.
* `Limiter.OnlyAdmittedCounted`: "incrementing the counter when it does"
  (`ratelimit.go:108-109`); `Allow` increments before it compares, so a refused call uses
  up budget that a later `UpdateLimit` grants.
* `HealthyPool.FallbackMeansAllDown`: "if all proxies are unhealthy" (`healthy.go:95`); a
  concurrent call takes the healthy proxy's turn on the shared counter, and the call falls
  back although that proxy is up.
* `Session.SavedTogether`: "updated atomically" (`session.go:86`); a `Save` between the two
  steps of `Do` writes the time of a request that the saved count leaves out.
* `Construction.OwnBackendClosed`: "owns every doer it builds itself (... and WithStdHTTP)"
  (`client.go:157`); with `WithBackend` before `WithStdHTTP`, `Close` leaves the net/http
  backend open.
* `Construction.OwnPoolsStopped`: "call BrowserClient.Close to stop the pool's periodic
  credential refresher" (`client_options_webshare.go:9-10`); a second Webshare option
  replaces the pool of the first, which keeps refreshing after `Close`.
* `Client.ExhaustedMeansRefused`: "without sending any request" (`client.go:373-374`);
  the error is also returned when an earlier attempt was sent and only the last switch
  failed, and that attempt's answer is lost.
* `ItemPool.RemovedForGood`: "permanently removes" (`pool.go:87`); a later
  `SoftDeactivate` gives the item a time to come back.

Differences that no module states as a property:

* a proxy whose failure rate is exactly the threshold stays active (`healthstore.go:86`),
  while `healthy.go:40` calls the threshold the rate *at which* a proxy is deactivated
  (and `healthstore.go:78` says *exceeded*);
* `WithProfile` after `WithIdentity` leaves the identity of the one with the TLS profile of
  the other, while `client_options.go:89-90` says that `WithIdentity` wins for the profile
  when both are passed;
* the test comment at `site_intel_hard_test.go:179-181` speaks of a check-then-act window,
  which `Get` has closed with its second look inside the singleflight (`site_intel.go:57`
  and `AnalyzedOnExpiry`): the comment is stale.

Known behaviours on which the repository is silent: a failure
reported late extends a cooldown; `ActiveCount` subtracts proxies a refresh has removed; a URL the backend refuses
evicts a remembered one; `Wait` may starve; when `NewClient` fails, the
refresher of a pool that an option built keeps running; a retry whose wait does not fit a
Duration follows at once; a failed `Save` loses the session that was saved before.

## 6. Plan

1. An abstract cache (an entry is replaced by a newer one once it has expired, and callers
   get an entry of a moment of their call) that `SiteIntel` implements.
2. Safety halves of the liveness properties: where a closer or a caller of `DoCtx` waits,
   somebody whose step is enabled will release it (`CloseReturns`, `GoroutineEnds` then
   need fairness alone).
3. The hazards without a property, where the repository settles what should happen.
