------------------------------ MODULE Webshare ------------------------------
(***************************************************************************)
(* The API-backed proxy pool of proxypool/webshare.go and                  *)
(* proxypool/webshare_refresh.go: a list of proxy URLs that readers walk   *)
(* round-robin without a lock, a periodic refresher goroutine, refreshes   *)
(* triggered by HTTP 407 answers, a singleflight group that merges them,   *)
(* and Close.                                                              *)
(*                                                                         *)
(* A proxy URL is abstracted to the version of the credentials it carries: *)
(* `list' is the sequence of the versions of the URLs being served, and    *)
(* `cred' is the version the account has at Webshare.                      *)
(***************************************************************************)
EXTENDS Integers, Sequences, FiniteSets

CONSTANTS
    Loop,        \* the goroutine of refreshLoop
    Triggered,   \* goroutines ReportAuthFailure may start
    Closers,     \* callers of Close
    Readers,     \* callers of Next
    NoThread,    \* nobody runs the singleflight function
    NoCloser,    \* nobody has called Close
    MinGap,      \* RefreshMinGap
    MaxPages,    \* webshareMaxPages
    PageSize,    \* most proxies one API page holds
    CounterMod,  \* 2^64, the width of the round-robin counter
    MaxClock,    \* bound: the clock stops here
    MaxCred      \* bound: credential rotations

Threads == Triggered \cup {Loop}
NoURL == -1      \* the empty string Next returns for an empty list
NoTime == 0      \* the zero time.Time

ASSUME ThreadsAssumption ==
    /\ Loop \notin Triggered /\ IsFiniteSet(Triggered)
    /\ NoThread \notin Threads /\ NoCloser \notin Closers
ASSUME BoundsAssumption ==
    /\ MinGap \in Nat /\ MaxPages \in Nat \ {0} /\ PageSize \in Nat
    /\ CounterMod \in Nat \ {0}
    /\ MaxClock \in Nat /\ MaxCred \in Nat

VARIABLES
    mode,         \* how the pool was built: see Modes
    clock,        \* time.Now()
    cred,         \* credential version at the API (external)
    list,         \* Webshare.proxies
    counter,      \* Webshare.counter
    lastTrigger,  \* Webshare.lastTrigger
    closed,       \* Webshare.closed
    cancelled,    \* Webshare.ctx is cancelled
    wg,           \* Webshare.wg
    sf,           \* the thread running the function given to sf.Do
    pc,           \* where each goroutine is
    acc,          \* proxies a fetching goroutine has collected
    pages,        \* pages it has read
    closer,       \* where each caller of Close is
    first,        \* the caller of Close that found the pool open
    held,         \* the list a caller of Next has loaded
    rpc,          \* where each caller of Next is
    result        \* what it returned last

poolVars   == <<mode, list, counter, lastTrigger, closed, cancelled, wg, sf>>
threadVars == <<pc, acc, pages>>
readerVars == <<held, rpc, result>>
vars == <<mode, clock, cred, list, counter, lastTrigger, closed, cancelled, wg,
          sf, pc, acc, pages, closer, first, held, rpc, result>>

(***************************************************************************)
(* "static": no fetch function (NewWebshareRotating).  "triggered": fetch  *)
(* is wired but RefreshInterval <= 0, so there is no loop.  "periodic":    *)
(* both.                                                                   *)
(***************************************************************************)
Modes == {"static", "triggered", "periodic"}
FetchPCs == {"fetch", "store", "finish"}
PCs == FetchPCs \cup {"idle", "sleep", "call", "joined", "done"}

Live == {t \in Threads : pc[t] # "idle"}

\* A list of n URLs that carry credential version c.
URLs(n, c) == [i \in 1..n |-> c]

TypeOK ==
    /\ mode \in Modes
    /\ clock \in Nat /\ cred \in Nat
    /\ list \in Seq(Nat) /\ list # << >>
    /\ counter \in 0..CounterMod - 1
    /\ lastTrigger \in Nat
    /\ closed \in BOOLEAN /\ cancelled \in BOOLEAN
    /\ wg \in Int
    /\ sf \in Threads \cup {NoThread}
    /\ pc \in [Threads -> PCs]
    /\ acc \in [Threads -> Seq(Nat)]
    /\ pages \in [Threads -> 0..MaxPages]
    /\ closer \in [Closers -> {"idle", "cancel", "wait", "returned"}]
    /\ first \in Closers \cup {NoCloser}
    /\ held \in [Readers -> Seq(Nat)]
    /\ rpc \in [Readers -> {"idle", "loaded"}]
    /\ result \in [Readers -> Nat \cup {NoURL}]

(***************************************************************************)
(* newWebsharePool and enableRefresh: the constructor has fetched once     *)
(* (fetchAllProxies refuses an empty answer), and has started the loop     *)
(* when the interval is positive.                                          *)
(***************************************************************************)
Init ==
    /\ mode \in Modes
    /\ clock = 1 /\ cred = 0
    /\ list = URLs(1, 0)
    /\ counter = 0 /\ lastTrigger = NoTime
    /\ closed = FALSE /\ cancelled = FALSE
    /\ wg = IF mode = "periodic" THEN 1 ELSE 0
    /\ sf = NoThread
    /\ pc = [t \in Threads |-> IF t = Loop /\ mode = "periodic" THEN "sleep" ELSE "idle"]
    /\ acc = [t \in Threads |-> << >>]
    /\ pages = [t \in Threads |-> 0]
    /\ closer = [c \in Closers |-> "idle"]
    /\ first = NoCloser
    /\ held = [r \in Readers |-> << >>]
    /\ rpc = [r \in Readers |-> "idle"]
    /\ result = [r \in Readers |-> 0]

-----------------------------------------------------------------------------
(* The environment: time passes, the account's credentials are rotated.    *)

Tick ==
    /\ clock < MaxClock
    /\ clock' = clock + 1
    /\ UNCHANGED <<cred, poolVars, threadVars, closer, first, readerVars>>

RotateCreds ==
    /\ cred < MaxCred
    /\ cred' = cred + 1
    /\ UNCHANGED <<clock, poolVars, threadVars, closer, first, readerVars>>

-----------------------------------------------------------------------------
(* ReportAuthFailure.  A report that finds no fetch function, a closed pool *)
(* or a trigger within minGap is only counted, which changes nothing here. *)

\* Plausible slip: the pool's state is not looked at once more under the lock.
TriggerAllowedAfterClose ==
    lastTrigger = NoTime \/ clock - lastTrigger >= MinGap

TriggerAllowed ==
    /\ ~closed
    /\ lastTrigger = NoTime \/ clock - lastTrigger >= MinGap

\* Plausible slip: the goroutine is not registered with the wait group.
ReportTriggersUncounted(t) ==
    /\ mode # "static" /\ TriggerAllowed
    /\ pc[t] = "idle"
    /\ lastTrigger' = clock
    /\ pc' = [pc EXCEPT ![t] = "call"]
    /\ UNCHANGED <<mode, clock, cred, list, counter, closed, cancelled, wg, sf, acc, pages,
                   closer, first, readerVars>>

\* The report starts goroutine t, registered with the wait group first.
ReportTriggers(t) ==
    /\ mode # "static" /\ TriggerAllowed
    /\ pc[t] = "idle"
    /\ lastTrigger' = clock
    /\ wg' = wg + 1
    /\ pc' = [pc EXCEPT ![t] = "call"]
    /\ UNCHANGED <<mode, clock, cred, list, counter, closed, cancelled, sf, acc, pages,
                   closer, first, readerVars>>

-----------------------------------------------------------------------------
(* refreshLoop: a jittered sleep between refreshes, ended by the context.  *)

\* The timer fires; it may win the race against a cancelled context.
LoopWake ==
    /\ pc[Loop] = "sleep"
    /\ pc' = [pc EXCEPT ![Loop] = "call"]
    /\ UNCHANGED <<clock, cred, poolVars, acc, pages, closer, first, readerVars>>

LoopExit ==
    /\ pc[Loop] = "sleep"
    /\ cancelled
    /\ pc' = [pc EXCEPT ![Loop] = "done"]
    /\ UNCHANGED <<clock, cred, poolVars, acc, pages, closer, first, readerVars>>

-----------------------------------------------------------------------------
(* refresh, through singleflight.Do("credentials").                        *)

\* Plausible slip: refresh calls fetch directly, without the group.
LeadAlways(t) ==
    /\ pc[t] = "call"
    /\ sf' = t
    /\ pc' = [pc EXCEPT ![t] = "fetch"]
    /\ acc' = [acc EXCEPT ![t] = << >>]
    /\ pages' = [pages EXCEPT ![t] = 0]
    /\ UNCHANGED <<mode, clock, cred, list, counter, lastTrigger, closed, cancelled,
                   wg, closer, first, readerVars>>

\* No call is in flight: t runs the function.
Lead(t) ==
    /\ pc[t] = "call"
    /\ sf = NoThread
    /\ sf' = t
    /\ pc' = [pc EXCEPT ![t] = "fetch"]
    /\ acc' = [acc EXCEPT ![t] = << >>]
    /\ pages' = [pages EXCEPT ![t] = 0]
    /\ UNCHANGED <<mode, clock, cred, list, counter, lastTrigger, closed, cancelled,
                   wg, closer, first, readerVars>>

\* A call is in flight: t waits for its end.
Join(t) ==
    /\ pc[t] = "call"
    /\ sf # NoThread
    /\ pc' = [pc EXCEPT ![t] = "joined"]
    /\ UNCHANGED <<clock, cred, poolVars, acc, pages, closer, first, readerVars>>

(***************************************************************************)
(* fetchAllProxies: one request per page, until a page has no successor or *)
(* MaxPages are read.  A page carries the credentials of the moment it is  *)
(* served, so the account may be rotated between two pages.                *)
(***************************************************************************)
FetchMore(t) ==
    /\ pc[t] = "fetch" /\ ~cancelled
    /\ pages[t] + 1 < MaxPages
    /\ \E n \in 0..PageSize : acc' = [acc EXCEPT ![t] = @ \o URLs(n, cred)]
    /\ pages' = [pages EXCEPT ![t] = @ + 1]
    /\ UNCHANGED <<clock, cred, poolVars, pc, closer, first, readerVars>>

\* Plausible slip: an empty account is not an error.
FetchLastUnchecked(t) ==
    /\ pc[t] = "fetch" /\ ~cancelled
    /\ \E n \in 0..PageSize : acc' = [acc EXCEPT ![t] = @ \o URLs(n, cred)]
    /\ pages' = [pages EXCEPT ![t] = @ + 1]
    /\ pc' = [pc EXCEPT ![t] = "store"]
    /\ UNCHANGED <<clock, cred, poolVars, closer, first, readerVars>>

\* The last page: the loop ends with at least one proxy.
FetchLast(t) ==
    /\ pc[t] = "fetch" /\ ~cancelled
    /\ \E n \in 0..PageSize : acc' = [acc EXCEPT ![t] = @ \o URLs(n, cred)]
    /\ acc'[t] # << >>
    /\ pages' = [pages EXCEPT ![t] = @ + 1]
    /\ pc' = [pc EXCEPT ![t] = "store"]
    /\ UNCHANGED <<clock, cred, poolVars, closer, first, readerVars>>

\* A failed request, a cancelled context or an account without a proxy.
FetchError(t) ==
    /\ pc[t] = "fetch"
    /\ pc' = [pc EXCEPT ![t] = "finish"]
    /\ UNCHANGED <<mode, clock, cred, list, counter, lastTrigger, closed, cancelled,
                   wg, sf, acc, pages, closer, first, readerVars>>

\* setProxies swaps the list (the counters of Stats are left out).
SetProxies(t) ==
    /\ pc[t] = "store"
    /\ list' = acc[t]
    /\ pc' = [pc EXCEPT ![t] = "finish"]
    /\ UNCHANGED <<mode, clock, cred, counter, lastTrigger, closed, cancelled, wg, sf,
                   acc, pages, closer, first, readerVars>>

\* Plausible slip: the loop ends after its first refresh.
AfterRefreshEnds(t) == "done"

\* Where a goroutine goes when refresh returns.
AfterRefresh(t) == IF t = Loop THEN "sleep" ELSE "done"

\* The call leaves the group and every goroutine that joined it returns.
Finish(t) ==
    /\ pc[t] = "finish"
    /\ sf' = NoThread
    /\ acc' = [acc EXCEPT ![t] = << >>]
    /\ pages' = [pages EXCEPT ![t] = 0]
    /\ pc' = [u \in Threads |-> IF u = t \/ pc[u] = "joined" THEN AfterRefresh(u) ELSE pc[u]]
    /\ UNCHANGED <<mode, clock, cred, list, counter, lastTrigger, closed, cancelled, wg,
                   closer, first, readerVars>>

\* The deferred wg.Done() of refreshLoop and of a triggered refresh.
WgDone(t) ==
    /\ pc[t] = "done"
    /\ wg' = wg - 1
    /\ pc' = [pc EXCEPT ![t] = "idle"]
    /\ UNCHANGED <<mode, clock, cred, list, counter, lastTrigger, closed, cancelled, sf,
                   acc, pages, closer, first, readerVars>>

-----------------------------------------------------------------------------
(* Close.                                                                  *)

\* The caller that finds the pool open closes it, under triggerMu.
CloseFirst(c) ==
    /\ closer[c] = "idle" /\ ~closed
    /\ closed' = TRUE
    /\ first' = c
    /\ closer' = [closer EXCEPT ![c] = "cancel"]
    /\ UNCHANGED <<mode, clock, cred, list, counter, lastTrigger, cancelled, wg, sf,
                   threadVars, readerVars>>

\* A later caller returns at once.
CloseAgain(c) ==
    /\ closer[c] = "idle" /\ closed
    /\ closer' = [closer EXCEPT ![c] = "returned"]
    /\ UNCHANGED <<clock, cred, poolVars, threadVars, first, readerVars>>

\* Plausible slip: the refresher is never told to stop.
CloseStopForgotten(c) ==
    /\ closer[c] = "cancel"
    /\ closer' = [closer EXCEPT ![c] = "wait"]
    /\ UNCHANGED <<clock, cred, poolVars, threadVars, first, readerVars>>

\* stop(), when there is one, after triggerMu is released.
CloseStop(c) ==
    /\ closer[c] = "cancel"
    /\ cancelled' = (mode # "static")
    /\ closer' = [closer EXCEPT ![c] = "wait"]
    /\ UNCHANGED <<mode, clock, cred, list, counter, lastTrigger, closed, wg, sf,
                   threadVars, first, readerVars>>

\* Plausible slip: no wg.Wait().
CloseNoWait(c) ==
    /\ closer[c] = "wait"
    /\ closer' = [closer EXCEPT ![c] = "returned"]
    /\ UNCHANGED <<clock, cred, poolVars, threadVars, first, readerVars>>

\* wg.Wait() returns.
CloseWait(c) ==
    /\ closer[c] = "wait"
    /\ wg = 0
    /\ closer' = [closer EXCEPT ![c] = "returned"]
    /\ UNCHANGED <<clock, cred, poolVars, threadVars, first, readerVars>>

-----------------------------------------------------------------------------
(* Next: load the list once, then index it with the shared counter.        *)

NextLoad(r) ==
    /\ rpc[r] = "idle"
    /\ held' = [held EXCEPT ![r] = list]
    /\ rpc' = [rpc EXCEPT ![r] = "loaded"]
    /\ UNCHANGED <<clock, cred, poolVars, threadVars, closer, first, result>>

\* Plausible slip: the index is not reduced by the length of this list.
PickUnreduced(l, n) == IF n + 1 \in DOMAIN l THEN l[n + 1] ELSE NoURL

\* Next indexes the list l it loaded; the counter wraps at its width.
Pick(l, n) == IF l = << >> THEN NoURL ELSE l[(n % Len(l)) + 1]

NextIndex(r) ==
    /\ rpc[r] = "loaded"
    /\ counter' = IF held[r] = << >> THEN counter ELSE (counter + 1) % CounterMod
    /\ result' = [result EXCEPT ![r] = Pick(held[r], counter')]
    /\ rpc' = [rpc EXCEPT ![r] = "idle"]
    /\ held' = [held EXCEPT ![r] = << >>]
    /\ UNCHANGED <<mode, clock, cred, list, lastTrigger, closed, cancelled, wg, sf,
                   threadVars, closer, first>>

-----------------------------------------------------------------------------
CloseStep(c) == CloseFirst(c) \/ CloseAgain(c) \/ CloseStop(c) \/ CloseWait(c)

Next ==
    \/ Tick \/ RotateCreds \/ LoopWake \/ LoopExit
    \/ \E t \in Threads : Lead(t) \/ Join(t) \/ FetchMore(t) \/ FetchLast(t)
                          \/ FetchError(t) \/ SetProxies(t) \/ Finish(t) \/ WgDone(t)
    \/ \E t \in Triggered : ReportTriggers(t)
    \/ \E c \in Closers : CloseStep(c)
    \/ \E r \in Readers : NextLoad(r) \/ NextIndex(r)

Spec == Init /\ [][Next]_vars

(***************************************************************************)
(* Fairness.  Goroutines that can run do run; a fetch whose context is     *)
(* cancelled returns; the select in Sleep does not prefer the timer to a   *)
(* cancelled context for ever.  A fetch that nobody cancels may hang, so   *)
(* nothing is assumed of it here.                                          *)
(***************************************************************************)
CloseFairness ==
    /\ SF_vars(LoopExit)
    /\ \A t \in Threads :
          /\ WF_vars(Lead(t) \/ Join(t))
          /\ WF_vars(cancelled /\ FetchError(t))
          /\ WF_vars(SetProxies(t) \/ Finish(t) \/ WgDone(t))
    /\ \A c \in Closers : WF_vars(CloseStop(c) \/ CloseWait(c))

\* The timer of the loop fires, and the API does not fail every fetch: assumed by
\* EventuallyFresh only.
RefreshFairness ==
    /\ WF_vars(LoopWake)
    /\ \A t \in Threads : SF_vars(FetchLast(t))

LiveSpec == Spec /\ CloseFairness

-----------------------------------------------------------------------------
(* Safety.                                                                 *)

\* At most one goroutine is inside the function given to sf.Do: a 407 trigger
\* during a periodic refresh joins the API call instead of doubling it
\* (refresh, webshare_refresh.go:65-70).
SingleFlight ==
    \A t, u \in Threads : pc[t] \in FetchPCs /\ pc[u] \in FetchPCs => t = u

\* The refresher goroutines the wait group counts are exactly the ones alive,
\* so that Wait can neither return early nor block for ever.
WaitGroupExact == wg = Cardinality(Live)

\* When the Close that found the pool open has returned, no refresher is left:
\* neither the loop nor a refresh a late 407 report started.
QuietAfterClose ==
    first # NoCloser /\ closer[first] = "returned" => Live = {}

\* Any Close that returned has waited for the in-flight refreshes (the comment
\* above Close).  The second of two concurrent calls does not.
EveryCloseWaits ==
    \A c \in Closers : closer[c] = "returned" => Live = {}

\* Next never returns the empty string: whatever the refreshes do, including
\* failing fetches and an account that was emptied, a list that is served has
\* an entry at the index the shared counter selects.
NextServes == \A r \in Readers : result[r] # NoURL

\* A refresh never puts older credentials back: every URL of the new list is
\* at least as recent as every URL of the list it replaces.
ListAdvances ==
    [][\A i \in DOMAIN list, j \in DOMAIN list' : list' # list => list[i] <= list'[j]]_vars

-----------------------------------------------------------------------------
(* The abstract pool this one implements.                                  *)

\* The pool has stopped when the Close that found it open has returned.
Stopped == first # NoCloser /\ closer[first] = "returned"

Fresh == INSTANCE FreshList WITH
    Clients <- Readers, served <- list, account <- cred, stopped <- Stopped,
    holding <- held, answer <- result

\* However refreshes, reports, readers and Close interleave, callers of Next see
\* a FreshList: an entry of a list that was served while they asked, lists that
\* only become more recent, and no change after Close (Next, setProxies, Close).
ImplementsFreshList == Fresh!FreshSpec

-----------------------------------------------------------------------------
(* Liveness.                                                               *)

\* Every call of Close returns, even with a fetch of the API hanging.
CloseReturns ==
    \A c \in Closers : closer[c] # "idle" ~> closer[c] = "returned"

\* With the periodic refresher running, and RefreshFairness of timer and API,
\* rotated credentials reach the served list unless the pool is closed.
EventuallyFresh ==
    RefreshFairness =>
        [](mode = "periodic" => <>(closed \/ \A i \in DOMAIN list : list[i] = cred))
=============================================================================
