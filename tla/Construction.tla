----------------------------- MODULE Construction -----------------------------
(***************************************************************************)
(* NewClient and Close: the options are applied in their order to one      *)
(* clientConfig and may build a Webshare pool on the way; NewClient checks *)
(* the configuration, builds the backend, and keeps what it is to close;   *)
(* Close closes the pool and then the backend, once, whoever calls it.     *)
(***************************************************************************)
EXTENDS Integers, Sequences, FiniteSets

CONSTANTS
    Closers,     \* goroutines that call Close
    MaxOptions   \* bound: options passed to NewClient

ASSUME ConstructionAssumption == MaxOptions \in Nat /\ {"new", "over"} \cap Closers = {}

VARIABLES
    cfg,        \* the clientConfig
    stage,      \* NewClient: applying options, "built" or "failed"
    options,    \* options applied so far
    made,       \* Webshare pools built by options; a pool is its number
    running,    \* those whose refresher runs
    client,     \* what the client keeps: poolCloser and doerCloser
    closer,     \* each goroutine in Close
    once,       \* closeOnce: "new", the goroutine inside, or "over"
    closed      \* history: what Close has closed, in order

buildVars == <<cfg, stage, options, made, running, client, closer, once, closed>>

Families == {"chromium", "other"}   \* of TLS profiles and of identities
NoPool == 0
CallersPool == -1
Unset == "unset"

\* backend: the factory; caller: callerBackend; identity: its browser family
\* and the TLS profile it names, if any.
Config ==
    [pool : Int, poolCloser : Nat, backend : {"default", "std", "caller"}, caller : BOOLEAN,
     profile : Families, identity : Families \cup {Unset}, fetchMode : BOOLEAN,
     errors : BOOLEAN]

DefaultConfig ==
    [pool |-> NoPool, poolCloser |-> NoPool, backend |-> "default", caller |-> FALSE,
     profile |-> "chromium", identity |-> Unset, fetchMode |-> FALSE, errors |-> FALSE]

BuildTypeOK ==
    /\ cfg \in Config
    /\ stage \in {"options", "built", "failed"}
    /\ options \in 0..MaxOptions /\ made \in 0..MaxOptions
    /\ running \subseteq 1..made
    /\ client \in [poolCloser : 0..made, doerCloser : BOOLEAN]
    /\ closer \in [Closers -> {"out", "waiting", "pool", "doer", "returned"}]
    /\ once \in Closers \cup {"new", "over"}
    /\ closed \in Seq({"pool", "doer"})

BuildInit ==
    /\ cfg = DefaultConfig
    /\ stage = "options" /\ options = 0
    /\ made = 0 /\ running = {}
    /\ client = [poolCloser |-> NoPool, doerCloser |-> FALSE]
    /\ closer = [c \in Closers |-> "out"]
    /\ once = "new" /\ closed = << >>

-----------------------------------------------------------------------------
(* The options.                                                            *)

Option == stage = "options" /\ options < MaxOptions /\ options' = options + 1
Closing == <<client, closer, once, closed>>

Set(newCfg) ==
    /\ Option /\ cfg' = newCfg
    /\ UNCHANGED <<stage, made, running, Closing>>

WithProxyPool == Set([cfg EXCEPT !.pool = CallersPool])

\* Plausible slip: the pool is used but not kept to be closed.
WithWebshareUnowned ==
    /\ Option
    /\ made' = made + 1 /\ running' = running \cup {made'}
    /\ cfg' = [cfg EXCEPT !.pool = made']
    /\ UNCHANGED <<stage, Closing>>

\* WithWebshareCountry: the list was fetched, and the refresher runs.
WithWebshareCountry ==
    /\ Option
    /\ made' = made + 1 /\ running' = running \cup {made'}
    /\ cfg' = [cfg EXCEPT !.pool = made', !.poolCloser = made']
    /\ UNCHANGED <<stage, Closing>>

\* WithWebshareRotating: no refresher.
WithWebshareRotating ==
    /\ Option
    /\ made' = made + 1
    /\ cfg' = [cfg EXCEPT !.pool = made', !.poolCloser = made']
    /\ UNCHANGED <<stage, running, Closing>>

\* Either one fails: a bad country, a failed fetch.
WebshareFails == Set([cfg EXCEPT !.errors = TRUE])

\* Plausible slip: the client takes the caller's backend for its own.
WithBackendTaken == Set([cfg EXCEPT !.backend = "caller"])

WithBackend == Set([cfg EXCEPT !.backend = "caller", !.caller = TRUE])
WithNilBackend == Set([cfg EXCEPT !.backend = "default", !.caller = FALSE])
WithStdHTTP == Set([cfg EXCEPT !.backend = "std"])
WithFetchMode == Set([cfg EXCEPT !.fetchMode = TRUE])
WithProfile(f) == Set([cfg EXCEPT !.profile = f])

\* An identity names a TLS profile of its family, or leaves it out.
WithIdentity(f) ==
    \/ Set([cfg EXCEPT !.identity = f, !.profile = f])
    \/ Set([cfg EXCEPT !.identity = f])

-----------------------------------------------------------------------------
(* NewClient.                                                              *)

\* resolveIdentity: without WithIdentity it is that of the TLS profile.
Identity == IF cfg.identity = Unset THEN cfg.profile ELSE cfg.identity

\* checkFetchModeIdentity.
FetchModeFits == cfg.fetchMode => cfg.profile = "chromium" /\ Identity = "chromium"

\* The factory may fail as well: what the options built is left as it is.
NewClientFails ==
    /\ stage = "options"
    /\ stage' = "failed"
    /\ UNCHANGED <<cfg, options, made, running, Closing>>

NewClient ==
    /\ stage = "options" /\ ~cfg.errors /\ FetchModeFits
    /\ stage' = "built"
    /\ client' = [poolCloser |-> cfg.poolCloser, doerCloser |-> ~cfg.caller]
    /\ UNCHANGED <<cfg, options, made, running, closer, once, closed>>

-----------------------------------------------------------------------------
(* Close.                                                                  *)

Step(c, from, to) == closer[c] = from /\ closer' = [closer EXCEPT ![c] = to]
Built == UNCHANGED <<cfg, stage, options, made, client>>

CloseCall(c) ==
    /\ stage = "built"
    /\ Step(c, "out", "waiting")
    /\ Built /\ UNCHANGED <<running, once, closed>>

\* Plausible slip: the pool is nil-checked but nobody is held back.
EnterUnguarded(c) ==
    /\ Step(c, "waiting", "pool")
    /\ once' = c
    /\ Built /\ UNCHANGED <<running, closed>>

\* closeOnce.Do: the first one goes in, the others wait until it is out.
Enter(c) ==
    /\ \/ once = "new" /\ Step(c, "waiting", "pool") /\ once' = c
       \/ once = "over" /\ Step(c, "waiting", "returned") /\ UNCHANGED once
    /\ Built /\ UNCHANGED <<running, closed>>

ClosePool(c) ==
    /\ Step(c, "pool", "doer")
    /\ running' = running \ {client.poolCloser}
    /\ closed' = IF client.poolCloser # NoPool THEN Append(closed, "pool") ELSE closed
    /\ Built /\ UNCHANGED once

CloseDoer(c) ==
    /\ Step(c, "doer", "returned")
    /\ once' = "over"
    /\ closed' = IF client.doerCloser THEN Append(closed, "doer") ELSE closed
    /\ Built /\ UNCHANGED running

BuildNext ==
    \/ WithProxyPool \/ WithWebshareCountry \/ WithWebshareRotating \/ WebshareFails
    \/ WithBackend \/ WithNilBackend \/ WithStdHTTP \/ WithFetchMode
    \/ \E f \in Families : WithProfile(f) \/ WithIdentity(f)
    \/ NewClientFails \/ NewClient
    \/ \E c \in Closers : CloseCall(c) \/ Enter(c) \/ ClosePool(c) \/ CloseDoer(c)

BuildSpec == BuildInit /\ [][BuildNext]_buildVars

-----------------------------------------------------------------------------
(* Properties.                                                             *)

Closed(what) == \E i \in DOMAIN closed : closed[i] = what

\* Whatever the order of the options, Close never closes a backend that came
\* from the caller's factory.
CallersBackendKept == Closed("doer") => cfg.backend # "caller"

\* When any call of Close returns, also one that found another inside, the pool
\* that the client draws from has stopped, if an option built it.
UsedPoolStopped ==
    \A c \in Closers : closer[c] = "returned" => cfg.pool \notin running

\* Two goroutines in Close do not close the pool or the backend twice.
ClosedOnce == \A i, j \in DOMAIN closed : closed[i] = closed[j] => i = j

\* Close stops the client's pool, closes nothing twice and nothing that is the
\* caller's, in any order of the options and of the calls (NewClient, Close).
\* It does not close all that the client owns: see the two claims below.
Ownership == CallersBackendKept /\ UsedPoolStopped /\ ClosedOnce

\* "The client owns every doer it builds itself (the default tls-client backend
\* and WithStdHTTP)."
OwnBackendClosed ==
    \A c \in Closers : closer[c] = "returned" /\ cfg.backend # "caller" => Closed("doer")

\* "The client owns the pool this option builds: call BrowserClient.Close to stop
\* the pool's periodic credential refresher."
OwnPoolsStopped == \A c \in Closers : closer[c] = "returned" => running = {}
===============================================================================
