------------------------------ MODULE Cloudflare ------------------------------
(***************************************************************************)
(* The middleware chain of a client and what it does about Cloudflare: a   *)
(* call goes down the chain to the backend and its response comes back up. *)
(* CloudflareDetectMiddleware turns a challenge into an error, SmartFetch  *)
(* has ox-browser fetch the page instead, and the cookie middleware solves *)
(* the challenge, keeps the cookie for its domain, and sends once more: a  *)
(* chain may hold it several times, and then its retries nest.  They all   *)
(* share one solver and its cookie cache, here of one domain.              *)
(***************************************************************************)
EXTENDS Integers, Sequences, FiniteSets

CONSTANTS
    CfCalls,     \* calls of Do and DoWithHeaderOrder
    Configs,     \* options of NewClient: which of "debug", "solver", "ox" are set
    Used,        \* middlewares that the program adds with Use
    Pages,       \* what the site may answer
    CookieTTL,   \* CacheTTL of the solver
    CfAttempts,  \* attempts of doWithRetry, which sends one Request again and again
    CfMaxClock,  \* bound: the clock
    MaxCookies   \* bound: cookies the solver issues

Middlewares == {"log", "cookie", "detect", "smart"}
Markers == {"block", "turnstile", "platform"}

\* A response: the server header names Cloudflare, cf-mitigated says
\* "challenge", the markers in the body, and the status.
Page == [cf : BOOLEAN, mitigated : BOOLEAN, body : SUBSET Markers, status : {200, 403}]

ASSUME CloudflareAssumption ==
    /\ Configs \subseteq SUBSET {"debug", "solver", "ox"}
    /\ Used \subseteq Seq(Middlewares)
    /\ Pages \subseteq Page
    /\ CookieTTL \in Nat /\ CfAttempts \in Nat \ {0}
    /\ CfMaxClock \in Nat /\ MaxCookies \in Nat

VARIABLES
    config,     \* what the client was built with
    added,      \* the middlewares Use has yet to add
    mws,        \* BrowserClient.middlewares
    built,      \* BrowserClient.handler: the chain it was built from, if any
    call,       \* each call: see CallType
    cookies,    \* the solver's cached cookie for the domain, if any
    issued,     \* cookies issued so far; a cookie is its number
    cfClock     \* time

cfVars == <<config, added, mws, built, call, cookies, issued, cfClock>>

Nothing == << >>
NoPage == [cf |-> FALSE, mitigated |-> FALSE, body |-> {}, status |-> 200]
OwnCookie == 0      \* the caller's cookie header, before any is injected
Kinds == {"block", "js", "managed", "turnstile"}

-----------------------------------------------------------------------------
(* DetectCloudflare.                                                       *)

ChallengeKind(status) == IF status = 200 THEN "managed" ELSE "js"

\* Plausible slip: the header is looked at before the markers of a block.
DetectHeaderFirst(p) ==
    IF ~p.cf THEN "none"
    ELSE IF p.mitigated THEN ChallengeKind(p.status)
    ELSE IF "block" \in p.body THEN "block"
    ELSE IF "turnstile" \in p.body THEN "turnstile"
    ELSE IF "platform" \in p.body THEN ChallengeKind(p.status)
    ELSE "none"

Detect(p) ==
    IF ~p.cf THEN "none"
    ELSE IF "block" \in p.body THEN "block"
    ELSE IF p.mitigated THEN ChallengeKind(p.status)
    ELSE IF "turnstile" \in p.body THEN "turnstile"
    ELSE IF "platform" \in p.body THEN ChallengeKind(p.status)
    ELSE "none"

-----------------------------------------------------------------------------
(* The client.                                                             *)

\* The middlewares NewClient wires, the outermost first.
Wired(opts) ==
    (IF "debug" \in opts THEN <<"log">> ELSE << >>)
    \o (IF opts \cap {"solver", "ox"} # {} THEN <<"cookie", "detect">> ELSE << >>)
    \o (IF "ox" \in opts THEN <<"smart">> ELSE << >>)

CallType ==
    [at : {"new", "down", "up", "done"},
     chain : Seq(Middlewares),   \* the chain it runs
     pos : Nat,                  \* the middleware it is at; 0: doWithRetry
     header : Seq(Nat),          \* the cookies of its Request
     resp : Page,
     err : {"none", "failed", "unsolved"} \cup Kinds,
     retrying : SUBSET Nat,      \* the cookie middlewares that are in their retry
     attempt : Nat,
     current : BOOLEAN,          \* history: it began after Use had returned
     sentAs : Seq(SUBSET Nat),   \* history: `retrying' at each request of this attempt
     retried : Seq(Nat),         \* history: the cookies its last retry carried
     asked : SUBSET Page,        \* history: the pages a solver was asked about
     rendered : BOOLEAN]         \* history: ox-browser's page is its response

NewCall ==
    [at |-> "new", chain |-> << >>, pos |-> 0, header |-> <<OwnCookie>>, resp |-> NoPage,
     err |-> "none", retrying |-> {}, attempt |-> 1, current |-> FALSE, sentAs |-> << >>,
     retried |-> << >>, asked |-> {}, rendered |-> FALSE]

CfTypeOK ==
    /\ config \in Configs
    /\ added \in Seq(Middlewares) /\ mws \in Seq(Middlewares)
    /\ built \in Seq(Seq(Middlewares)) /\ Len(built) <= 1
    /\ call \in [CfCalls -> CallType]
    /\ cookies \in Seq([cookie : Nat, expires : Nat]) /\ Len(cookies) <= 1
    /\ issued \in 0..MaxCookies /\ cfClock \in 0..CfMaxClock

CfInit ==
    /\ config \in Configs /\ added \in Used
    /\ mws = Wired(config)
    /\ built = Nothing
    /\ call = [c \in CfCalls |-> NewCall]
    /\ cookies = Nothing /\ issued = 0
    /\ cfClock = 0

\* The fields of call c change as in f; the rest of the state does not.
Update(c, f) == call' = [call EXCEPT ![c] = f]
Local == UNCHANGED <<config, added, mws, built, cookies, issued, cfClock>>

\* Plausible slip: the chain built before is kept.
UseKeepsHandler ==
    /\ added # << >>
    /\ mws' = mws \o added /\ added' = << >>
    /\ UNCHANGED <<config, built, call, cookies, issued, cfClock>>

\* Use, between two calls of buildHandler.
Use ==
    /\ added # << >>
    /\ mws' = mws \o added /\ added' = << >>
    /\ built' = Nothing
    /\ UNCHANGED <<config, call, cookies, issued, cfClock>>

EnterChain(c, chain) ==
    Update(c, [call[c] EXCEPT !.at = "down", !.chain = chain, !.pos = 1,
                              !.current = (added = << >>)])

\* Do: the chain built by an earlier call, or a new one that is kept.
DoCall(c) ==
    /\ call[c].at = "new"
    /\ LET chain == IF built # Nothing THEN built[1] ELSE mws
       IN /\ built' = <<chain>>
          /\ EnterChain(c, chain)
    /\ UNCHANGED <<config, added, mws, cookies, issued, cfClock>>

\* DoWithHeaderOrder builds a chain of its own and keeps nothing.
DoWithHeaderOrder(c) ==
    /\ call[c].at = "new"
    /\ EnterChain(c, mws)
    /\ Local

-----------------------------------------------------------------------------
(* Down the chain: the middlewares act on the way up only, but for the     *)
(* cookie middleware, which reads the cache of its solver.                 *)

\* GetCookie: good up to and including the moment it expires.
Cached == IF cookies # Nothing /\ cfClock <= cookies[1].expires
          THEN <<cookies[1].cookie>> ELSE << >>

\* The cookie middlewares that call c has yet to pass.
Below(c) == {i \in DOMAIN call[c].chain : i >= call[c].pos /\ call[c].chain[i] = "cookie"}

\* The next cookie middleware: the cached cookie goes behind the cookies that
\* the Request already has, those of an outer retry included.
Inject(c) ==
    /\ call[c].at = "down"
    /\ \E i \in Below(c) :
          /\ \A j \in Below(c) : i <= j
          /\ Update(c, [call[c] EXCEPT !.header = @ \o Cached, !.pos = i + 1])
    /\ Local

-----------------------------------------------------------------------------
(* Up the chain.                                                           *)

\* Plausible slip: a challenge that persists is solved again and again.
ActsAgain(r, i) == r.err = "none" /\ Detect(r.resp) # "none" /\ r.chain[i] # "log"

\* Plausible slip: whatever comes back after the retry passes.
ActsUnlessSolved(r, i) ==
    r.err = "none" /\ Detect(r.resp) # "none" /\ r.chain[i] # "log" /\ r.retrying = {}

\* The i-th middleware does not pass what comes up from below: an error or a
\* page without a challenge passes all of them, and a cookie middleware
\* returns what its one retry brings.
Acts(r, i) ==
    /\ r.err = "none" /\ Detect(r.resp) # "none"
    /\ \/ r.chain[i] \in {"detect", "smart"}
       \/ r.chain[i] = "cookie" /\ i \notin r.retrying

Highest(S) == CHOOSE i \in S : \A j \in S : j <= i

\* r as it arrives at the next middleware that acts on it, or at doWithRetry:
\* the middlewares it has passed have returned, those in their retry included.
Climb(r) ==
    LET acting == {i \in 1..(r.pos - 1) : Acts(r, i)}
        top == Highest(acting \cup {0})
    IN [r EXCEPT !.at = IF acting = {} THEN "done" ELSE "up", !.pos = top,
                 !.retrying = {i \in @ : i < top}]

\* baseHandler: the site answers, or the request fails.
Send(c) ==
    /\ call[c].at = "down" /\ Below(c) = {}
    /\ \E p \in Pages \cup {NoPage}, e \in {"none", "failed"} :
          /\ e = "failed" <=> p = NoPage
          /\ Update(c, Climb([call[c] EXCEPT
                           !.pos = Len(call[c].chain) + 1, !.resp = p, !.err = e,
                           !.sentAs = Append(@, call[c].retrying),
                           !.retried = IF call[c].retrying # {} THEN call[c].header ELSE @]))
    /\ Local

Kind(c) == Detect(call[c].resp)
Up(c, mw) == call[c].at = "up" /\ call[c].chain[call[c].pos] = mw

\* The detect middleware: the challenge becomes an error.
Report(c) ==
    /\ Up(c, "detect")
    /\ Update(c, Climb([call[c] EXCEPT !.err = Kind(c)]))
    /\ Local

\* SmartFetch leaves a block alone; or FetchSmart fails or reports an error.
\* The challenge becomes an error.
SmartGivesUp(c) ==
    /\ Up(c, "smart")
    /\ Update(c, Climb([call[c] EXCEPT
                           !.err = Kind(c),
                           !.asked = IF Kind(c) = "block" THEN @ ELSE @ \cup {call[c].resp}]))
    /\ Local

\* Its page replaces body and status; the headers stay those of the challenge.
SmartAnswers(c) ==
    /\ Up(c, "smart") /\ Kind(c) # "block"
    /\ \E p \in Pages :
          Update(c, Climb([call[c] EXCEPT !.asked = @ \cup {call[c].resp}, !.rendered = TRUE,
                                          !.resp.body = p.body, !.resp.status = p.status]))
    /\ Local

\* The cookie middleware: Solve refuses a block without asking anybody, and
\* may fail otherwise; or a provider finds no cookie and the challenge itself
\* is the error.
SolveFails(c) ==
    /\ Up(c, "cookie")
    /\ \E e \in {"unsolved", Kind(c)} :
          /\ Kind(c) = "block" => e = "unsolved"
          /\ Update(c, Climb([call[c] EXCEPT
                           !.err = e,
                           !.asked = IF Kind(c) = "block" THEN @ ELSE @ \cup {call[c].resp}]))
    /\ Local

\* Plausible slip: the solved cookie goes behind the ones that failed.
RetryHeaderAppended(c, cookie) == Append(call[c].header, cookie)

\* The retry replaces the cookie header.
RetryHeader(c, cookie) == <<cookie>>

\* Solve caches the cookie, and the middleware sends the request once more.
SolveAndRetry(c) ==
    /\ Up(c, "cookie") /\ Kind(c) # "block" /\ issued < MaxCookies
    /\ issued' = issued + 1
    /\ cookies' = <<[cookie |-> issued', expires |-> cfClock + CookieTTL]>>
    /\ Update(c, [call[c] EXCEPT !.at = "down", !.pos = @ + 1, !.retrying = @ \cup {call[c].pos},
                                 !.asked = @ \cup {call[c].resp},
                                 !.header = RetryHeader(c, issued')])
    /\ UNCHANGED <<config, added, mws, built, cfClock>>

\* doWithRetry sends the same Request, with the header as the chain left it.
Again(c) ==
    /\ call[c].at = "done" /\ call[c].attempt < CfAttempts
    /\ call[c].err # "none" \/ call[c].resp.status = 403
    /\ Update(c, [call[c] EXCEPT !.at = "down", !.pos = 1, !.attempt = @ + 1, !.resp = NoPage,
                                 !.err = "none", !.sentAs = << >>, !.asked = {},
                                 !.rendered = FALSE])
    /\ Local

CfTick ==
    /\ cfClock < CfMaxClock
    /\ cfClock' = cfClock + 1
    /\ UNCHANGED <<config, added, mws, built, call, cookies, issued>>

CfNext ==
    \/ Use \/ CfTick
    \/ \E c \in CfCalls :
          \/ DoCall(c) \/ DoWithHeaderOrder(c) \/ Inject(c) \/ Send(c)
          \/ Report(c) \/ SmartGivesUp(c) \/ SmartAnswers(c)
          \/ SolveFails(c) \/ SolveAndRetry(c) \/ Again(c)

CfSpec == CfInit /\ [][CfNext]_cfVars

-----------------------------------------------------------------------------
(* Properties.                                                             *)

Finished(c) == call[c].at = "done"
Ran(c, mw) == mw \in {call[c].chain[i] : i \in DOMAIN call[c].chain}

\* With the detect middleware anywhere in the chain, no page that
\* DetectCloudflare recognises reaches the caller as a success, whatever
\* the solver, the retry and ox-browser did in between.
ChallengeNeverSlips ==
    \A c \in CfCalls :
        Finished(c) /\ Ran(c, "detect") /\ call[c].err = "none" => Kind(c) = "none"

\* A block is not a challenge: neither solver is asked about a page that says
\* the visitor has been blocked, whatever else the page and its headers hold.
BlockLeftAlone ==
    \A c \in CfCalls : \A p \in call[c].asked : "block" \notin p.body

\* A challenge is reported or solved, a block is reported, and neither is taken
\* for the other (DetectCloudflare, the middlewares, Solve).
ChallengeHandled == ChallengeNeverSlips /\ BlockLeftAlone

\* A cookie middleware retries once, however often the challenge comes back: no
\* two requests of an attempt are sent from the same retries, so that a chain
\* with n of them sends at most 2^n (2 as NewClient wires it).
OneRetry ==
    \A c \in CfCalls : \A i, j \in DOMAIN call[c].sentAs :
        call[c].sentAs[i] = call[c].sentAs[j] => i = j

\* A retry carries the cookie solved for it, and nothing older: a stale cookie
\* that was injected from the cache, by this attempt or an earlier one, does not
\* come with it.  (A cookie middleware further in may add what is cached since.)
RetryCookieOnly ==
    \A c \in CfCalls : call[c].retried # << >> =>
        /\ call[c].retried[1] > 0
        /\ \A i \in DOMAIN call[c].retried : call[c].retried[i] >= call[c].retried[1]

\* A call that begins after Use has returned runs the middlewares it added,
\* whether the chain was built before or not.
UseApplies ==
    \A c \in CfCalls : call[c].current => call[c].chain = mws

\* Every call runs the chain as it stands, retries once in every cookie
\* middleware, and takes no stale cookie along (buildHandler,
\* CloudflareCookieMiddleware).
ChainFaithful == OneRetry /\ RetryCookieOnly /\ UseApplies

\* A client that was given a solver gives it every challenge before it reports
\* the challenge to the caller.
SolverIsAsked ==
    \A c \in CfCalls :
        Finished(c) /\ config # {} /\ added = << >> /\ call[c].err \in Kinds \ {"block"}
            => call[c].asked # {}

\* The page that ox-browser rendered is the response, if nothing in the page
\* is a challenge.
RenderedIsReturned ==
    \A c \in CfCalls :
        Finished(c) /\ call[c].rendered /\ call[c].resp.body = {} => call[c].err = "none"
===============================================================================
