----------------------------- MODULE HealthyPool -----------------------------
(***************************************************************************)
(* proxypool.HealthyProxyPool over its in-memory health store: Next skips  *)
(* deactivated proxies of the pool it wraps, and the results of requests   *)
(* deactivate them.  The wrapped pool is one that can be refreshed: its    *)
(* list may be swapped between two draws, and its round-robin counter is   *)
(* shared by every caller and taken outside the health lock.               *)
(***************************************************************************)
EXTENDS Integers, Sequences, FiniteSets

CONSTANTS
    Proxies,      \* proxy URLs
    Lists,        \* lists the wrapped pool may serve
    NoProxy,      \* no proxy drawn
    Callers,      \* goroutines that call Next and then report the result
    Threshold,    \* HealthyConfig.FailureThreshold, in percent
    MinRequests,  \* HealthyConfig.MinRequests
    Cooldown,     \* HealthyConfig.Cooldown
    MaxClock,     \* bound: the clock stops here
    MaxCalls      \* bound: calls of Next

ASSUME HealthyAssumption ==
    /\ Lists \subseteq Seq(Proxies) /\ << >> \notin Lists /\ Lists # {} /\ NoProxy \notin Proxies
    /\ Threshold \in 1..100 /\ MinRequests \in Nat \ {0} /\ Cooldown \in Nat \ {0}
    /\ MaxClock \in Nat /\ MaxCalls \in Nat

VARIABLES
    clock,
    list,      \* what the wrapped pool serves
    counter,   \* its round-robin counter (64 bits: it never wraps here)
    health,    \* the health store; an absent key reads as zeros
    pc,        \* where each caller is
    left,      \* iterations of Next's loop it still has, from poolLen
    now,       \* the time it read once, at the start of Next
    proxy,     \* the proxy it drew, and later uses
    calls,     \* calls of Next so far
    reports,   \* history: results recorded for a proxy since it was last activated
    skipped,   \* history: proxies this call found deactivated
    alone,     \* history: no other call of Next or refresh overlapped this call
    allDown    \* history: every served proxy was deactivated during this call

callVars == <<pc, left, now, proxy, calls>>
history == <<reports, skipped, alone, allDown>>
vars == <<clock, list, counter, health, callVars, history>>

Zero == 0   \* the zero time.Time: the proxy is active
Health == [succ : Nat, fail : Nat, off : Nat]
NoHealth == [succ |-> 0, fail |-> 0, off |-> Zero]
InNext == {"draw", "look", "fallback"}

Serving == {list[i] : i \in DOMAIN list}

TypeOK ==
    /\ clock \in Nat /\ list \in Lists /\ counter \in Nat /\ calls \in Nat
    /\ health \in [Proxies -> Health]
    /\ pc \in [Callers -> InNext \cup {"idle", "using"}]
    /\ left \in [Callers -> Nat]
    /\ now \in [Callers -> Nat]
    /\ proxy \in [Callers -> Proxies \cup {NoProxy}]
    /\ reports \in [Proxies -> Nat]
    /\ skipped \in [Callers -> SUBSET Proxies]
    /\ alone \in [Callers -> BOOLEAN]
    /\ allDown \in [Callers -> BOOLEAN]

Init ==
    /\ clock = 1 /\ list \in Lists /\ counter = 0 /\ calls = 0
    /\ health = [p \in Proxies |-> NoHealth]
    /\ pc = [c \in Callers |-> "idle"]
    /\ left = [c \in Callers |-> 0]
    /\ now = [c \in Callers |-> Zero]
    /\ proxy = [c \in Callers |-> NoProxy]
    /\ reports = [p \in Proxies |-> 0]
    /\ skipped = [c \in Callers |-> {}]
    /\ alone = [c \in Callers |-> FALSE]
    /\ allDown = [c \in Callers |-> FALSE]

Down(p) == health[p].off # Zero
AllServedDown == \A p \in Serving : Down(p)

\* The wrapped pool's Next, for the counter value n after the atomic add.
Drawn(n) == list[(n % Len(list)) + 1]

-----------------------------------------------------------------------------
Tick ==
    /\ clock < MaxClock
    /\ clock' = clock + 1
    /\ UNCHANGED <<list, counter, health, callVars, history>>

\* The wrapped pool swaps its list.
Refresh(l) ==
    /\ l # list
    /\ list' = l
    /\ alone' = [c \in Callers |-> FALSE]
    /\ allDown' = [c \in Callers |->
                      allDown[c] \/ (pc[c] \in InNext /\ \A i \in DOMAIN l : Down(l[i]))]
    /\ UNCHANGED <<clock, counter, health, callVars, reports, skipped>>

-----------------------------------------------------------------------------
(* Next.                                                                   *)

Begin(c) ==
    /\ pc[c] = "idle" /\ calls < MaxCalls
    /\ pc' = [pc EXCEPT ![c] = "draw"]
    /\ left' = [left EXCEPT ![c] = Len(list)]
    /\ now' = [now EXCEPT ![c] = clock]
    /\ calls' = calls + 1
    /\ skipped' = [skipped EXCEPT ![c] = {}]
    /\ alone' = [d \in Callers |-> d = c /\ \A e \in Callers : pc[e] \notin InNext]
    /\ allDown' = [allDown EXCEPT ![c] = AllServedDown]
    /\ UNCHANGED <<clock, list, counter, health, proxy, reports>>

\* pool.Next() inside the loop, before the health lock is taken.
Draw(c) ==
    /\ pc[c] = "draw"
    /\ counter' = counter + 1
    /\ proxy' = [proxy EXCEPT ![c] = Drawn(counter')]
    /\ pc' = [pc EXCEPT ![c] = "look"]
    /\ UNCHANGED <<clock, list, health, left, now, calls, history>>

\* Plausible slip: the cooldown is over in the tick in which it ends.
CooledAtBoundary(c) == Down(proxy[c]) /\ now[c] >= health[proxy[c]].off + Cooldown

\* now.After(h.DeactivateAt.Add(Cooldown)), with the time of the call's start.
Cooled(c) == Down(proxy[c]) /\ now[c] > health[proxy[c]].off + Cooldown

\* Next returns the proxy drawn last; its locals are gone.
Return(c) ==
    /\ pc' = [pc EXCEPT ![c] = "using"]
    /\ left' = [left EXCEPT ![c] = 0]
    /\ now' = [now EXCEPT ![c] = Zero]
    /\ skipped' = [skipped EXCEPT ![c] = {}]
    /\ alone' = [alone EXCEPT ![c] = FALSE]
    /\ allDown' = [allDown EXCEPT ![c] = FALSE]

\* An unknown or active proxy is returned.
TakeActive(c) ==
    /\ pc[c] = "look" /\ ~Down(proxy[c])
    /\ Return(c)
    /\ UNCHANGED <<clock, list, counter, health, proxy, calls, reports>>

\* Plausible slip: a reactivated proxy keeps the failures it was judged by.
ReactivatedWithPast(h) == [h EXCEPT !.off = Zero]

\* Both counters start again.
Reactivated(h) == [h EXCEPT !.off = Zero, !.succ = 0, !.fail = 0]

\* A proxy whose cooldown has expired is reactivated and returned.
TakeCooled(c) ==
    /\ pc[c] = "look" /\ Cooled(c)
    /\ health' = [health EXCEPT ![proxy[c]] = Reactivated(@)]
    /\ Return(c)
    /\ reports' = [reports EXCEPT ![proxy[c]] = 0]
    /\ UNCHANGED <<clock, list, counter, proxy, calls>>

\* Plausible slip: the loop stops one iteration early.
LoopOverEarly(c) == left[c] <= 2

\* Plausible slip: the test comes too late.
LoopNeverOver(c) == left[c] < 0

\* poolLen draws have been made.
LoopOver(c) == left[c] <= 1

\* A deactivated proxy is skipped; after poolLen of them the loop is over.
Skip(c) ==
    /\ pc[c] = "look" /\ Down(proxy[c]) /\ ~Cooled(c)
    /\ left' = [left EXCEPT ![c] = @ - 1]
    /\ pc' = [pc EXCEPT ![c] = IF LoopOver(c) THEN "fallback" ELSE "draw"]
    /\ skipped' = [skipped EXCEPT ![c] = @ \cup {proxy[c]}]
    /\ UNCHANGED <<clock, list, counter, health, now, proxy, calls, reports,
                   alone, allDown>>

\* The raw rotation.
Fallback(c) ==
    /\ pc[c] = "fallback"
    /\ counter' = counter + 1
    /\ proxy' = [proxy EXCEPT ![c] = Drawn(counter')]
    /\ Return(c)
    /\ UNCHANGED <<clock, list, health, calls, reports>>

-----------------------------------------------------------------------------
(* The result of the request, whenever it comes.                           *)

RecordSuccess(c) ==
    /\ pc[c] = "using"
    /\ health' = [health EXCEPT ![proxy[c]].succ = @ + 1]
    /\ reports' = [reports EXCEPT ![proxy[c]] = @ + 1]
    /\ pc' = [pc EXCEPT ![c] = "idle"]
    /\ proxy' = [proxy EXCEPT ![c] = NoProxy]
    /\ UNCHANGED <<clock, list, counter, left, now, calls, skipped, alone,
                   allDown>>

\* total >= MinRequests && SuccessRate() < 1 - FailureThreshold.
TooManyFailures(h) ==
    /\ h.succ + h.fail >= MinRequests
    /\ 100 * h.succ < (100 - Threshold) * (h.succ + h.fail)

Failed(h) == [h EXCEPT !.fail = @ + 1]

RecordFailure(c) ==
    /\ pc[c] = "using"
    /\ LET p == proxy[c]
           h == Failed(health[p])
           trips == TooManyFailures(h)
       IN  /\ health' = [health EXCEPT ![p] = IF trips THEN [h EXCEPT !.off = clock] ELSE h]
           /\ reports' = [reports EXCEPT ![p] = @ + 1]
           /\ allDown' = [d \in Callers |->
                             \/ allDown[d]
                             \/ /\ pc[d] \in InNext /\ trips
                                /\ \A q \in Serving : q = p \/ Down(q)]
    /\ pc' = [pc EXCEPT ![c] = "idle"]
    /\ proxy' = [proxy EXCEPT ![c] = NoProxy]
    /\ UNCHANGED <<clock, list, counter, left, now, calls, skipped, alone>>

NextStep(c) == Begin(c) \/ Draw(c) \/ TakeActive(c) \/ TakeCooled(c) \/ Skip(c) \/ Fallback(c)
Report(c) == RecordSuccess(c) \/ RecordFailure(c)

Next ==
    \/ Tick
    \/ \E l \in Lists : Refresh(l)
    \/ \E c \in Callers : NextStep(c) \/ Report(c)

Spec == Init /\ [][Next]_vars

-----------------------------------------------------------------------------
(* Safety.                                                                 *)

\* A call of Next that no other call and no refresh overlaps falls back only
\* after it found every proxy of the pool deactivated.
SoloFallback ==
    \A c \in Callers : pc[c] = "fallback" /\ alone[c] => skipped[c] = Serving

\* A deactivated proxy comes back only when more than Cooldown has passed since
\* its last stamp, although Next compares with a time it read earlier.
CooldownHeld ==
    [][\A p \in Proxies :
          Down(p) /\ health'[p].off = Zero => clock > health[p].off + Cooldown]_vars

\* A proxy is deactivated on the evidence of MinRequests results of its own
\* since it was last activated, whatever late results are still to come.
FreshStart ==
    \A p \in Proxies : Down(p) => reports[p] >= MinRequests

-----------------------------------------------------------------------------
(* What the comments say and the code does not do.                         *)

\* "Falls back to the underlying pool's Next() if all proxies are unhealthy."
FallbackMeansAllDown == \A c \in Callers : pc[c] = "fallback" => allDown[c]
=============================================================================
