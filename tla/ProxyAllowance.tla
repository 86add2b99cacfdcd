--------------------------- MODULE ProxyAllowance ---------------------------
(***************************************************************************)
(* proxyAllowance (proxy_allow.go): the proxy endpoints the dial guard of  *)
(* a BrowserClient lets through, and apply, which switches the backend to  *)
(* a proxy.  Concurrent calls of BrowserClient.SetProxy run apply; dials   *)
(* read the published snapshot without a lock.                             *)
(***************************************************************************)
EXTENDS Integers, Sequences, FiniteSets

LOCAL INSTANCE SequencesExt

CONSTANTS
    URLs,           \* proxy URLs SetProxy is called with
    Direct,         \* the empty URL, or one that cannot be parsed: no endpoint
    Endpoints,      \* what the host names resolve to
    None,           \* a nil endpoint
    Callers,        \* goroutines that call SetProxy
    Nobody,         \* the mutex is free
    Rejected,       \* URLs the backend always refuses
    Flaky,          \* URLs the backend may refuse (backends of other packages)
    MaxRemembered   \* maxRememberedProxies

ASSUME AllowanceAssumption ==
    /\ None \notin Endpoints /\ Nobody \notin Callers
    /\ Direct \in URLs /\ Direct \notin Rejected
    /\ Rejected \subseteq URLs /\ Flaky \subseteq URLs /\ IsFiniteSet(Flaky)
    /\ MaxRemembered \in Nat \ {0}

VARIABLES
    order,     \* proxyAllowance.order, oldest first
    entries,   \* proxyAllowance.entries; None is an absent key
    snap,      \* proxyAllowance.snap, as a set
    mu,        \* the holder of proxyAllowance.mu
    pc,        \* where each call of apply is
    url,       \* its argument
    ep,        \* the endpoint it found or resolved
    wasKnown,  \* what it read under the second lock
    current,   \* tlsClientDoer.proxy
    dialed     \* history: the endpoint `current' was last switched to with

callVars == <<pc, url, ep, wasKnown>>
vars == <<order, entries, snap, mu, callVars, current, dialed>>

MaybeEndpoint == Endpoints \cup {None}
Known(u) == entries[u] # None

TypeOK ==
    /\ order \in Seq(URLs)
    /\ entries \in [URLs -> MaybeEndpoint]
    /\ snap \subseteq Endpoints
    /\ mu \in Callers \cup {Nobody}
    /\ pc \in [Callers -> {"idle", "resolve", "lock", "set"}]
    /\ url \in [Callers -> URLs]
    /\ ep \in [Callers -> MaybeEndpoint]
    /\ wasKnown \in [Callers -> BOOLEAN]
    /\ current \in URLs
    /\ dialed \in MaybeEndpoint

-----------------------------------------------------------------------------
(* remember, forget and publish on the ordered set.                        *)

\* append(order[:i], order[i+1:]...) for the first i at which u is.
Without(s, u) ==
    IF \E i \in DOMAIN s : s[i] = u
    THEN RemoveAt(s, CHOOSE i \in DOMAIN s : s[i] = u /\ \A j \in 1..i - 1 : s[j] # u)
    ELSE s

\* Plausible slip: a URL that is known keeps its place.
NewestKeepsPlace(s, u) == IF \E i \in DOMAIN s : s[i] = u THEN s ELSE Append(s, u)

\* u becomes the most recent.
Newest(s, u) == Append(Without(s, u), u)

\* The last MaxRemembered stay.
Trim(s) == IF Len(s) > MaxRemembered THEN SubSeq(s, Len(s) - MaxRemembered + 1, Len(s)) ELSE s
Evictees(s) == {s[i] : i \in 1..Len(s) - MaxRemembered}

Publish(s, e) == {e[s[i]] : i \in DOMAIN s}

\* Plausible slip: an evicted URL stays in the map.
RememberNoDelete(u, e) ==
    /\ order' = Trim(Newest(order, u))
    /\ entries' = [entries EXCEPT ![u] = e]
    /\ snap' = Publish(order', entries')

\* Plausible slip: the snapshot is left as it was.
RememberUnpublished(u, e) ==
    /\ order' = Trim(Newest(order, u))
    /\ entries' = [v \in URLs |-> IF v \in Evictees(Newest(order, u)) THEN None
                                  ELSE IF v = u THEN e ELSE entries[v]]
    /\ UNCHANGED snap

Remember(u, e) ==
    /\ order' = Trim(Newest(order, u))
    /\ entries' = [v \in URLs |-> IF v \in Evictees(Newest(order, u)) THEN None
                                  ELSE IF v = u THEN e ELSE entries[v]]
    /\ snap' = Publish(order', entries')

\* Plausible slip: the URL stays in the order.
ForgetKeepsOrder(u) ==
    /\ entries' = [entries EXCEPT ![u] = None]
    /\ snap' = Publish(order, entries')
    /\ UNCHANGED order

Forget(u) ==
    /\ order' = Without(order, u)
    /\ entries' = [entries EXCEPT ![u] = None]
    /\ snap' = Publish(order', entries')

-----------------------------------------------------------------------------
\* newProxyAllowance: the initial proxy, if its host resolves, is remembered.
Init ==
    /\ current \in URLs \ Rejected
    /\ dialed \in IF current = Direct THEN {None} ELSE MaybeEndpoint
    /\ order = IF dialed = None THEN << >> ELSE <<current>>
    /\ entries = [u \in URLs |-> IF u = current THEN dialed ELSE None]
    /\ snap = IF dialed = None THEN {} ELSE {dialed}
    /\ mu = Nobody
    /\ pc = [c \in Callers |-> "idle"]
    /\ url = [c \in Callers |-> Direct]
    /\ ep = [c \in Callers |-> None]
    /\ wasKnown = [c \in Callers |-> FALSE]

\* The first critical section of apply.
Look(c, u) ==
    /\ pc[c] = "idle" /\ mu = Nobody
    /\ url' = [url EXCEPT ![c] = u]
    /\ ep' = [ep EXCEPT ![c] = entries[u]]
    /\ pc' = [pc EXCEPT ![c] = IF Known(u) THEN "lock" ELSE "resolve"]
    /\ UNCHANGED <<order, entries, snap, mu, wasKnown, current, dialed>>

\* resolveProxyEndpoint, outside the lock: the lookup may fail, and may answer
\* something else than it did before.
Resolve(c) ==
    /\ pc[c] = "resolve"
    /\ \E e \in IF url[c] = Direct THEN {None} ELSE MaybeEndpoint :
          ep' = [ep EXCEPT ![c] = e]
    /\ pc' = [pc EXCEPT ![c] = "lock"]
    /\ UNCHANGED <<order, entries, snap, mu, url, wasKnown, current, dialed>>

\* Plausible slip: the map is asked only after the endpoint was remembered.
AllowAsksLate(c) ==
    /\ pc[c] = "lock" /\ mu = Nobody
    /\ mu' = c
    /\ IF ep[c] # None THEN Remember(url[c], ep[c]) ELSE UNCHANGED <<order, entries, snap>>
    /\ wasKnown' = [wasKnown EXCEPT ![c] = entries'[url[c]] # None]
    /\ pc' = [pc EXCEPT ![c] = "set"]
    /\ UNCHANGED <<url, ep, current, dialed>>

\* The second critical section up to set: the endpoint is allowed first.
Allow(c) ==
    /\ pc[c] = "lock" /\ mu = Nobody
    /\ mu' = c
    /\ wasKnown' = [wasKnown EXCEPT ![c] = Known(url[c])]
    /\ IF ep[c] # None THEN Remember(url[c], ep[c]) ELSE UNCHANGED <<order, entries, snap>>
    /\ pc' = [pc EXCEPT ![c] = "set"]
    /\ UNCHANGED <<url, ep, current, dialed>>

\* apply returns and releases the mutex; its locals are gone.
Return(c) ==
    /\ mu' = Nobody
    /\ pc' = [pc EXCEPT ![c] = "idle"]
    /\ url' = [url EXCEPT ![c] = Direct]
    /\ ep' = [ep EXCEPT ![c] = None]
    /\ wasKnown' = [wasKnown EXCEPT ![c] = FALSE]

\* The backend is on the new proxy (it already was when the URL is current).
SetOk(c) ==
    /\ pc[c] = "set"
    /\ url[c] \notin Rejected
    /\ current' = url[c]
    /\ dialed' = IF ep[c] = None /\ url[c] = current THEN dialed ELSE ep[c]
    /\ Return(c)
    /\ UNCHANGED <<order, entries, snap>>

\* Plausible slip: the test is inverted.
MustForgetKnown(c) == ep[c] # None /\ wasKnown[c]

MustForget(c) == ep[c] # None /\ ~wasKnown[c]

\* The backend refuses and stays where it was.
SetFails(c) ==
    /\ pc[c] = "set"
    /\ url[c] \in Rejected \cup Flaky /\ url[c] # current
    /\ IF MustForget(c) THEN Forget(url[c]) ELSE UNCHANGED <<order, entries, snap>>
    /\ Return(c)
    /\ UNCHANGED <<current, dialed>>

Next ==
    \E c \in Callers :
        \/ \E u \in URLs : Look(c, u)
        \/ Resolve(c) \/ Allow(c) \/ SetOk(c) \/ SetFails(c)

Spec == Init /\ [][Next]_vars

-----------------------------------------------------------------------------
(* Safety.                                                                 *)

\* The ordered list, the map and the snapshot the dials read say the same, at
\* every point a dial can look: the list has no URL twice, at most MaxRemembered
\* of them, and the map has exactly these.
Coherent ==
    /\ TypeOK
    /\ \A i, j \in DOMAIN order : order[i] = order[j] => i = j
    /\ Len(order) <= MaxRemembered
    /\ \A u \in URLs : Known(u) <=> \E i \in DOMAIN order : order[i] = u
    /\ snap = Publish(order, entries)

\* The proxy the backend is on stays allowed while other goroutines switch to
\* further ones: neither remembering those nor forgetting them evicts the proxy
\* in use.  More recent than it are only the one being tried and the remembered
\* ones that were refused since.  (Two goroutines that look the same new URL up
\* at once may replace its endpoint by a more recent answer.)
CurrentAllowed ==
    MaxRemembered > Cardinality(Flaky) + 1 /\ dialed # None =>
        Known(current) /\ entries[current] \in snap

\* The endpoint is allowed for the whole time the backend switches to it.
SwitchAllowed == \A c \in Callers : pc[c] = "set" /\ ep[c] # None => ep[c] \in snap

\* No dial of the client to its own proxy is refused, neither to the one in use
\* nor to the one being tried (remember, forget, allows).
DialAllowed == CurrentAllowed /\ SwitchAllowed

\* A proxy the backend refuses leaves no allowance behind.
RejectedForgotten == mu = Nobody => \A u \in Rejected : ~Known(u)

-----------------------------------------------------------------------------
(* What the component promises.                                            *)

\* The proxy that the holder of the mutex switches to.
Trying == {url[c] : c \in {d \in Callers : mu = d}}
TryingFamiliar == \E c \in Callers : mu = c /\ wasKnown[c]

Switching == INSTANCE ProxySwitch WITH
    guard <- entries, backend <- current, trying <- Trying, familiar <- TryingFamiliar

\* However calls of apply overlap, with their lookups outside the lock, the guard
\* and the backend change as they do when one call follows the other, and a call
\* that fails takes back its own allowance and no other (proxyAllowance.apply).
ImplementsProxySwitch == Switching!SwitchSpec

=============================================================================
