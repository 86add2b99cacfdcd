-------------------------------- MODULE Client --------------------------------
(***************************************************************************)
(* BrowserClient: DoCtx starts a goroutine that runs Do, and doWithRetry   *)
(* draws a proxy, switches the backend to it, and sends the request, up to *)
(* 1 + blockRetries times.  All calls share one backend and one pool, and  *)
(* nothing holds a lock from the switch to the request.  SetProxy is one   *)
(* step here: ProxyAllowance looks inside it.  A plain Do is modelled as a *)
(* DoCtx whose context is never cancelled.                                 *)
(***************************************************************************)
EXTENDS Integers, Sequences, FiniteSets

CONSTANTS
    Calls,        \* calls of Do or DoCtx
    Cancellable,  \* the calls of DoCtx whose context may be cancelled
    Proxies,      \* proxy URLs
    Direct,       \* no proxy: the empty URL, and what Next of an empty pool returns
    Pools,        \* proxy pools, empty ones too, and NoPool
    NoPool,       \* proxyPool is nil
    Refusable,    \* proxies the backend may refuse
    BlockRetries  \* WithRetryOnBlock

ASSUME ClientAssumption ==
    /\ Direct \notin Proxies /\ NoPool \notin Seq(Proxies)
    /\ Pools \subseteq Seq(Proxies) \cup {NoPool} /\ Refusable \subseteq Proxies
    /\ Cancellable \subseteq Calls
    /\ BlockRetries \in Nat

VARIABLES
    pool,     \* BrowserClient.proxyPool
    counter,  \* its round-robin counter
    proxy,    \* the proxy the backend is on
    pc,       \* where the goroutine of each call is
    attempt,  \* attempts it has finished
    picked,   \* the proxy it drew last
    via,      \* the proxy its request in flight left through
    outcome,  \* what doWithRetry returned
    ctxDone,  \* the call's context is cancelled
    caller,   \* where the caller of DoCtx is
    ch,       \* the result is in the channel (of capacity 1)
    reports,  \* calls of the pool's ReportAuthFailure
    tries,    \* history: how each attempt of a call ended
    raced     \* history: another call switched the backend since this one did

retryVars == <<attempt, picked, via, outcome, tries>>
ctxVars == <<ctxDone, caller, ch>>
vars == <<pool, counter, proxy, pc, retryVars, ctxVars, reports, raced>>

\* How an attempt ends: SetProxy refuses; the answer has a block status
\* (403, 429, 502, 503), status 407, or another one; the backend returns an
\* error, one that says 407 or one that wraps ErrSSRFBlocked.
Answers == {"ok", "block", "auth"}
Errors == {"failed", "authFailed", "ssrf"}
Ends == {"refused"} \cup Answers \cup Errors

InSeq(s) == {s[i] : i \in DOMAIN s}
Pooled == pool # NoPool
MaxAttempts == IF Pooled THEN 1 + BlockRetries ELSE 1

TypeOK ==
    /\ pool \in Pools /\ counter \in Nat /\ reports \in Nat
    /\ proxy \in Proxies \cup {Direct}
    /\ pc \in [Calls -> {"idle", "pick", "switch", "handle", "wait", "deliver", "done"}]
    /\ attempt \in [Calls -> 0..BlockRetries]
    /\ picked \in [Calls -> Proxies \cup {Direct}]
    /\ via \in [Calls -> Proxies \cup {Direct}]
    /\ outcome \in [Calls -> {"none", "exhausted"} \cup Answers \cup Errors]
    /\ ctxDone \in [Calls -> BOOLEAN]
    /\ caller \in [Calls -> {"out", "waiting", "left", "got"}]
    /\ ch \in [Calls -> BOOLEAN]
    /\ tries \in [Calls -> Seq(Ends)]
    /\ raced \in [Calls -> BOOLEAN]

Init ==
    /\ pool \in Pools
    /\ counter = 0 /\ reports = 0
    /\ proxy = Direct
    /\ pc = [c \in Calls |-> "idle"]
    /\ attempt = [c \in Calls |-> 0]
    /\ picked = [c \in Calls |-> Direct]
    /\ via = [c \in Calls |-> Direct]
    /\ outcome = [c \in Calls |-> "none"]
    /\ ctxDone = [c \in Calls |-> FALSE]
    /\ caller = [c \in Calls |-> "out"]
    /\ ch = [c \in Calls |-> FALSE]
    /\ tries = [c \in Calls |-> << >>]
    /\ raced = [c \in Calls |-> FALSE]

-----------------------------------------------------------------------------
(* DoCtx.                                                                  *)

Cancel(c) ==
    /\ c \in Cancellable /\ ~ctxDone[c] /\ caller[c] \in {"out", "waiting"}
    /\ ctxDone' = [ctxDone EXCEPT ![c] = TRUE]
    /\ UNCHANGED <<pool, counter, proxy, pc, retryVars, caller, ch, reports, raced>>

\* A context that is already cancelled: no goroutine.
Refuse(c) ==
    /\ caller[c] = "out" /\ ctxDone[c]
    /\ caller' = [caller EXCEPT ![c] = "left"]
    /\ UNCHANGED <<pool, counter, proxy, pc, retryVars, ctxDone, ch, reports, raced>>

Start(c) ==
    /\ caller[c] = "out" /\ ~ctxDone[c]
    /\ caller' = [caller EXCEPT ![c] = "waiting"]
    /\ pc' = [pc EXCEPT ![c] = "pick"]
    /\ UNCHANGED <<pool, counter, proxy, retryVars, ctxDone, ch, reports, raced>>

\* Plausible slip: the goroutine is waited for although the context is done.
LeaveAtEnd(c) ==
    /\ caller[c] = "waiting" /\ ctxDone[c] /\ pc[c] = "done"
    /\ caller' = [caller EXCEPT ![c] = "left"]
    /\ UNCHANGED <<pool, counter, proxy, pc, retryVars, ctxDone, ch, reports, raced>>

\* The select of DoCtx: either case, when both are ready.
Leave(c) ==
    /\ caller[c] = "waiting" /\ ctxDone[c]
    /\ caller' = [caller EXCEPT ![c] = "left"]
    /\ UNCHANGED <<pool, counter, proxy, pc, retryVars, ctxDone, ch, reports, raced>>

Receive(c) ==
    /\ caller[c] = "waiting" /\ ch[c]
    /\ caller' = [caller EXCEPT ![c] = "got"]
    /\ ch' = [ch EXCEPT ![c] = FALSE]
    /\ UNCHANGED <<pool, counter, proxy, pc, retryVars, ctxDone, reports, raced>>

\* Plausible slip: a channel without a buffer.
CanDeliverUnbuffered(c) == caller[c] = "waiting"

\* The channel has room for the one result.
CanDeliver(c) == ~ch[c]

\* The goroutine ends whether or not the caller is still there.
Deliver(c) ==
    /\ pc[c] = "deliver" /\ CanDeliver(c)
    /\ ch' = [ch EXCEPT ![c] = TRUE]
    /\ pc' = [pc EXCEPT ![c] = "done"]
    /\ UNCHANGED <<pool, counter, proxy, retryVars, ctxDone, caller, reports, raced>>

-----------------------------------------------------------------------------
(* doWithRetry: the ways an attempt ends.                                  *)

\* Plausible slip: one attempt too many.
LastAttemptLate(c) == attempt[c] = MaxAttempts

\* maxAttempts iterations, counted from 0.
LastAttempt(c) == attempt[c] = MaxAttempts - 1

\* The attempt's locals are gone.
Ended(c, e) ==
    /\ tries' = [tries EXCEPT ![c] = Append(@, e)]
    /\ picked' = [picked EXCEPT ![c] = Direct]
    /\ via' = [via EXCEPT ![c] = Direct]

\* The next iteration of the loop.
Again(c) ==
    /\ attempt' = [attempt EXCEPT ![c] = @ + 1]
    /\ pc' = [pc EXCEPT ![c] = "pick"]
    /\ UNCHANGED outcome

Give(c, result) ==
    /\ outcome' = [outcome EXCEPT ![c] = result]
    /\ pc' = [pc EXCEPT ![c] = "deliver"]
    /\ UNCHANGED attempt

-----------------------------------------------------------------------------
\* Static.Next: the pool's proxies in turn, the empty URL when it has none.
Drawn(p) ==
    IF pool = << >> THEN counter' = counter /\ p = Direct
    ELSE counter' = counter + 1 /\ p = pool[(counter' % Len(pool)) + 1]

\* pool.Next(), when there is a pool.
Pick(c) ==
    /\ pc[c] = "pick"
    /\ \/ /\ Pooled
          /\ \E p \in Proxies \cup {Direct} :
                Drawn(p) /\ picked' = [picked EXCEPT ![c] = p]
          /\ pc' = [pc EXCEPT ![c] = "switch"]
       \/ /\ ~Pooled
          /\ UNCHANGED <<counter, picked>>
          /\ pc' = [pc EXCEPT ![c] = "handle"]
    /\ UNCHANGED <<pool, proxy, attempt, via, outcome, tries, ctxVars, reports, raced>>

\* Plausible slip: the backend, once on a proxy, takes any other for the same.
SwitchedOnce(c) == IF proxy = Direct THEN picked[c] ELSE proxy

\* The proxy the backend is on after an accepted SetProxy.
Switched(c) == picked[c]

SwitchOk(c) ==
    /\ pc[c] = "switch"
    /\ proxy' = Switched(c)
    /\ raced' = [d \in Calls |-> d # c /\ (raced[d] \/ pc[d] = "handle")]
    /\ pc' = [pc EXCEPT ![c] = "handle"]
    /\ UNCHANGED <<pool, counter, retryVars, ctxVars, reports>>

\* Plausible slip: the request is sent although its proxy was refused.
NextProxySendsAnyway(c) ==
    /\ pc' = [pc EXCEPT ![c] = "handle"]
    /\ UNCHANGED <<attempt, outcome>>

\* A refused proxy costs the attempt, and the call when it was the last one.
NextProxy(c) == IF LastAttempt(c) THEN Give(c, "exhausted") ELSE Again(c)

\* The backend keeps its proxy; an unchanged one is never refused.
SwitchFails(c) ==
    /\ pc[c] = "switch"
    /\ picked[c] \in Refusable \ {proxy}
    /\ NextProxy(c)
    /\ Ended(c, "refused")
    /\ UNCHANGED <<pool, counter, proxy, ctxVars, reports, raced>>

\* baseHandler's check of the target, before the backend sees the request (it
\* resolves the host, so that attempts of one call may differ).
GuardRefuses(c) ==
    /\ pc[c] = "handle"
    /\ Ended(c, "ssrf") /\ Give(c, "ssrf")
    /\ UNCHANGED <<pool, counter, proxy, ctxVars, reports, raced>>

\* The request leaves through the proxy the backend is on by now.
Send(c) ==
    /\ pc[c] = "handle"
    /\ via' = [via EXCEPT ![c] = proxy]
    /\ pc' = [pc EXCEPT ![c] = "wait"]
    /\ UNCHANGED <<pool, counter, proxy, attempt, picked, outcome, tries, ctxVars, reports,
                   raced>>

\* Plausible slip: only a 407 response is reported, not the transport error.
ReportResponsesOnly(e) == reports' = IF Pooled /\ e = "auth" THEN reports + 1 ELSE reports

\* A 407 is reported to the pool, response or transport error.
ReportAuth(e) ==
    reports' = IF Pooled /\ e \in {"auth", "authFailed"} THEN reports + 1 ELSE reports

\* Plausible slip: a 407 is taken for a block, and retried.
RetriesAuth(c, e) == ~LastAttempt(c) /\ Pooled /\ e \in {"block", "failed", "authFailed", "auth"}

\* Blocks and errors are retried; a target refused by the SSRF guard never is.
Retries(c, e) == ~LastAttempt(c) /\ Pooled /\ e \in {"block", "failed", "authFailed"}

\* The backend's answer, or its error (the redirect guard may refuse late).
Answer(c, e) ==
    /\ pc[c] = "wait"
    /\ Ended(c, e)
    /\ ReportAuth(e)
    /\ raced' = [raced EXCEPT ![c] = FALSE]
    /\ IF Retries(c, e) THEN Again(c) ELSE Give(c, e)
    /\ UNCHANGED <<pool, counter, proxy, ctxVars>>

DoStep(c) == Pick(c) \/ SwitchOk(c) \/ SwitchFails(c) \/ GuardRefuses(c) \/ Send(c)
Answered(c) == \E e \in Answers \cup Errors : Answer(c, e)

Next ==
    \E c \in Calls :
        \/ Cancel(c) \/ Refuse(c) \/ Start(c) \/ Leave(c) \/ Receive(c)
        \/ DoStep(c) \/ Answered(c) \/ Deliver(c)

Spec == Init /\ [][Next]_vars

(***************************************************************************)
(* Goroutines that can run do run.  Nothing is assumed of the server here: *)
(* the timeout of the backend ends a request, but may be long.             *)
(***************************************************************************)
Fairness ==
    \A c \in Calls : WF_vars(DoStep(c)) /\ WF_vars(Deliver(c)) /\ WF_vars(Leave(c) \/ Receive(c))

LiveSpec == Spec /\ Fairness

-----------------------------------------------------------------------------
(* Safety.                                                                 *)

\* What Next of the pool may return.
Drawable == IF pool = << >> THEN {Direct} ELSE InSeq(pool)

\* With a pool that has proxies no request is sent without one: a proxy SetProxy
\* refused is skipped, and the backend still is on one of the pool.  With a pool
\* that is empty every request is sent directly.
ThroughPool == Pooled => \A c \in Calls : pc[c] = "wait" => via[c] \in Drawable

\* A request leaves through the proxy its call drew, unless another call has
\* switched the backend between the switch and the request.
OwnProxyUnlessRaced ==
    Pooled => \A c \in Calls : pc[c] = "wait" /\ ~raced[c] => via[c] = picked[c]

\* Requests go out through what the pool has to offer, each through what its call
\* drew but for the known race (doWithRetry, SetProxy).
RightProxy == ThroughPool /\ OwnProxyUnlessRaced

\* No request is repeated after an answer that is not a block (a 407 is not),
\* nor after an SSRF verdict; and what a call returns is a block or an error
\* only when no attempt is left.
RetryDiscipline ==
    \A c \in Calls :
        /\ \A i \in 1..Len(tries[c]) - 1 : tries[c][i] \notin {"ok", "auth", "ssrf"}
        /\ outcome[c] \in {"block", "failed", "authFailed", "exhausted"} =>
              Len(tries[c]) = MaxAttempts

\* Every 407, as a response or as a transport error, reaches the pool, once.
AuthReported ==
    Pooled => reports =
        Cardinality({x \in Calls \X (1..BlockRetries + 1) :
                        /\ x[2] \in DOMAIN tries[x[1]]
                        /\ tries[x[1]][x[2]] \in {"auth", "authFailed"}})

-----------------------------------------------------------------------------
(* Liveness.                                                               *)

\* A caller whose context is cancelled returns, however long the server takes.
CancelledReturns == \A c \in Calls : caller[c] = "waiting" /\ ctxDone[c] ~> caller[c] # "waiting"

\* No goroutine is left behind by callers that gave up, provided that requests
\* end (they have a timeout).
GoroutineEnds ==
    (\A c \in Calls : WF_vars(Answered(c))) =>
        \A c \in Calls : pc[c] = "pick" ~> pc[c] = "done"

-----------------------------------------------------------------------------
(* What the comments and messages say and the code does not do.            *)

\* "each call rotates to the next proxy": the request goes out through it.
OwnProxy == Pooled => \A c \in Calls : pc[c] = "wait" => via[c] = picked[c]

\* "proxy pool exhausted: all %d proxies failed SetProxy".
ExhaustedMeansRefused ==
    \A c \in Calls : outcome[c] = "exhausted" => InSeq(tries[c]) = {"refused"}
=============================================================================
