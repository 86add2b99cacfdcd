---------------------------- MODULE RetryPipeline ----------------------------
(***************************************************************************)
(* RetryMiddleware over RateLimitMiddleware over the site, in the order    *)
(* that Chain's comment shows, for the calls of one domain: retryDo sends  *)
(* again after a backoff, every attempt first waits for DomainLimiter, and *)
(* a 429 with Retry-After blocks the domain.  Allow holds the domain lock; *)
(* the block is set outside it, by a later step.                           *)
(***************************************************************************)
EXTENDS Integers

CONSTANTS
    Requests,       \* concurrent calls of the handler
    MaxRetries,     \* RetryConfig.MaxRetries
    RetryWait, RetryMaxWait,  \* InitialWait, with Multiplier 2, and MaxWait;
                              \* JitterPct is 0, as in DefaultRetryConfig
    MaxDuration,    \* the largest time.Duration
    MinDelay, RandomDelay,    \* DomainConfig: the delay between two requests
    WindowCap, WindowLength,  \* RequestsPerWindow and WindowDuration
    RetryAfters,    \* what Retry-After says
    PipeMaxClock    \* bound: the clock

NoTime == -1

ASSUME RetryPipelineAssumption ==
    /\ MaxRetries \in Nat /\ RetryWait \in Nat /\ RetryMaxWait \in Nat
    /\ MaxDuration \in Nat
    /\ MinDelay \in Nat /\ RandomDelay \in Nat
    /\ WindowCap \in Nat /\ WindowLength \in Nat
    /\ RetryAfters \subseteq Nat
    /\ PipeMaxClock \in Nat

VARIABLES
    retryCtx,   \* RetryMiddlewareWithContext, not RetryMiddleware
    lastReq,    \* DomainLimiter.lastReq of the domain, or NoTime
    window,     \* its Limiter's entry: count and start of the window
    blocked,    \* its blocked-until time
    job,        \* each request: see Job
    pipeClock,  \* time
    sentAt,     \* history: when the last request of the domain was admitted
    held,       \* history: the time each request's own Retry-After asks it to wait
                \* for, unless another answer has moved the block before that
    late        \* history: requests sent after the context's deadline

pipeVars == <<retryCtx, lastReq, window, blocked, job, pipeClock, sentAt, held, late>>

Job ==
    [at : {"next", "wait", "send", "mark", "sleep", "done"},
     attempt : 0..MaxRetries,
     until : Nat,      \* the block it is about to set
     backoff : Nat,    \* the wait before the next attempt
     wake : Nat,       \* the end of that wait
     last : Nat,       \* history: the backoff before that
     expired : BOOLEAN]   \* its context's deadline has passed

NewJob == [at |-> "next", attempt |-> 0, until |-> 0, backoff |-> 0, wake |-> 0,
           last |-> 0, expired |-> FALSE]

PipeTypeOK ==
    /\ retryCtx \in BOOLEAN
    /\ lastReq \in Nat \cup {NoTime} /\ sentAt \in Nat \cup {NoTime}
    /\ window \in [count : 0..(WindowCap + 1), start : Nat] /\ blocked \in Nat
    /\ job \in [Requests -> Job]
    /\ pipeClock \in 0..PipeMaxClock
    /\ held \in [Requests -> Nat] /\ late \in [Requests -> Nat]

PipeInit ==
    /\ retryCtx \in BOOLEAN
    /\ lastReq = NoTime /\ sentAt = NoTime
    /\ window = [count |-> 0, start |-> 0] /\ blocked = 0
    /\ job = [r \in Requests |-> NewJob]
    /\ pipeClock = 0
    /\ held = [r \in Requests |-> 0] /\ late = [r \in Requests |-> 0]

Move(r, f) == job' = [job EXCEPT ![r] = f]
\* The call returns; its locals are gone.
Returned(r) == [NewJob EXCEPT !.at = "done", !.expired = job[r].expired]

OnlyJob == UNCHANGED <<retryCtx, lastReq, window, blocked, pipeClock, sentAt, held, late>>

-----------------------------------------------------------------------------
(* retryDo.                                                                *)

\* Plausible slip: the context is looked at during the wait alone.
MayGoOnAlways(r) == TRUE

\* ctx.Err at the head of the loop.
MayGoOn(r) == ~(retryCtx /\ job[r].expired)

\* Plausible slip: the limiter is waited for once per call.
EntranceOnce(r) == IF job[r].attempt = 0 THEN "wait" ELSE "send"

\* Every attempt enters the rate limit middleware.
Entrance(r) == "wait"

Attempt(r) ==
    /\ job[r].at = "next"
    /\ Move(r, IF MayGoOn(r) THEN [job[r] EXCEPT !.at = Entrance(r)] ELSE Returned(r))
    /\ OnlyJob

\* Plausible slip: no ceiling.
CappedNot(wait) == wait

Capped(wait) == IF wait > RetryMaxWait THEN RetryMaxWait ELSE wait

\* InitialWait * Multiplier^attempt as a float64, and what it is as a Duration:
\* when it does not fit, the conversion yields the smallest Duration on amd64,
\* which no ceiling applies to and which elapses at once, or the largest one.
Exact(attempt) == RetryWait * 2 ^ attempt
Backoffs(attempt) ==
    IF Exact(attempt) <= MaxDuration THEN {Capped(Exact(attempt))} ELSE {0, RetryMaxWait}

\* r with its attempt failed, retryably: the next one comes after a backoff, if
\* there is one left.
Failing(r, b) ==
    IF job[r].attempt = MaxRetries THEN Returned(r)
    ELSE [job[r] EXCEPT !.at = "sleep", !.until = 0, !.last = job[r].backoff, !.backoff = b,
                        !.wake = pipeClock + b]

Fail(r) == \E b \in Backoffs(job[r].attempt) : Move(r, Failing(r, b))

Awake(r) ==
    /\ job[r].at = "sleep" /\ pipeClock >= job[r].wake
    /\ Move(r, [job[r] EXCEPT !.at = "next", !.attempt = @ + 1, !.wake = 0])
    /\ OnlyJob

\* ctx.Done, which may be ready at the same time as the timer.
CancelSleep(r) ==
    /\ job[r].at = "sleep" /\ retryCtx /\ job[r].expired
    /\ Move(r, Returned(r))
    /\ OnlyJob

-----------------------------------------------------------------------------
(* DomainLimiter.                                                          *)

\* Each check draws a delay of its own.
Delays == {MinDelay} \cup MinDelay..(MinDelay + RandomDelay - 1)
DelayOver(d) == lastReq = NoTime \/ pipeClock - lastReq >= d

\* Increment of the Limiter; counts past the cap are alike.
CountedIn(w) ==
    IF pipeClock - w.start > WindowLength THEN [count |-> 1, start |-> pipeClock]
    ELSE [w EXCEPT !.count = IF @ > WindowCap THEN @ ELSE @ + 1]

Unblocked == blocked <= pipeClock

\* Plausible slip: the time of the request is not noted.
AdmitUnnoted(r) ==
    /\ job[r].at = "wait" /\ Unblocked
    /\ \E d \in Delays : DelayOver(d)
    /\ CountedIn(window).count <= WindowCap
    /\ window' = CountedIn(window)
    /\ sentAt' = pipeClock
    /\ late' = [late EXCEPT ![r] = IF job[r].expired THEN @ + 1 ELSE @]
    /\ Move(r, [job[r] EXCEPT !.at = "send"])
    /\ UNCHANGED <<retryCtx, lastReq, blocked, pipeClock, held>>

\* Allow answers TRUE.  Wait asks it before it looks at its context.
Admit(r) ==
    /\ job[r].at = "wait" /\ Unblocked
    /\ \E d \in Delays : DelayOver(d)
    /\ CountedIn(window).count <= WindowCap
    /\ window' = CountedIn(window)
    /\ lastReq' = pipeClock /\ sentAt' = pipeClock
    /\ late' = [late EXCEPT ![r] = IF job[r].expired THEN @ + 1 ELSE @]
    /\ Move(r, [job[r] EXCEPT !.at = "send"])
    /\ UNCHANGED <<retryCtx, blocked, pipeClock, held>>

\* Allow answers FALSE after it has counted the request; Wait asks again later.
Poll(r) ==
    /\ job[r].at = "wait" /\ Unblocked
    /\ \E d \in Delays : DelayOver(d)
    /\ CountedIn(window).count > WindowCap
    /\ window' = CountedIn(window)
    /\ UNCHANGED <<retryCtx, lastReq, blocked, job, pipeClock, sentAt, held, late>>

\* Wait returns context.DeadlineExceeded, which IsRetryable takes for a timeout.
Overdue(r) ==
    /\ job[r].at = "wait" /\ job[r].expired
    /\ Fail(r)
    /\ OnlyJob

-----------------------------------------------------------------------------
(* The answer.                                                             *)

\* A response, or an error, that is not retryable.
Succeed(r) ==
    /\ job[r].at = "send"
    /\ Move(r, Returned(r))
    /\ OnlyJob

\* A retryable error or status without a Retry-After that counts.
FailPlainly(r) ==
    /\ job[r].at = "send"
    /\ Fail(r)
    /\ OnlyJob

\* What parseRetryAfterValue makes of the header, as a time.
AskedUntil == {pipeClock + s : s \in RetryAfters}

\* A 429 with Retry-After: the time is computed, and then set.
TooMany(r) ==
    /\ job[r].at = "send"
    /\ \E t \in AskedUntil : Move(r, [job[r] EXCEPT !.at = "mark", !.until = t])
    /\ OnlyJob

\* Plausible slip: a block that is in force is left as it is.
MarkOnce(r) ==
    /\ job[r].at = "mark"
    /\ blocked' = IF Unblocked THEN job[r].until ELSE blocked
    /\ held' = [q \in Requests |->
                   IF q = r \/ job[r].until < held[q] THEN job[r].until ELSE held[q]]
    /\ Fail(r)
    /\ UNCHANGED <<retryCtx, lastReq, window, pipeClock, sentAt, late>>

\* MarkRateLimited: the last one to set the block wins.
Mark(r) ==
    /\ job[r].at = "mark"
    /\ blocked' = job[r].until
    /\ held' = [q \in Requests |->
                   IF q = r \/ job[r].until < held[q] THEN job[r].until ELSE held[q]]
    /\ Fail(r)
    /\ UNCHANGED <<retryCtx, lastReq, window, pipeClock, sentAt, late>>

Expire(r) ==
    /\ ~job[r].expired /\ job[r].at # "done"
    /\ Move(r, [job[r] EXCEPT !.expired = TRUE])
    /\ OnlyJob

PipeTick ==
    /\ pipeClock < PipeMaxClock
    /\ pipeClock' = pipeClock + 1
    /\ UNCHANGED <<retryCtx, lastReq, window, blocked, job, sentAt, held, late>>

PipeNext ==
    \/ PipeTick
    \/ \E r \in Requests :
          \/ Attempt(r) \/ Awake(r) \/ CancelSleep(r) \/ Admit(r) \/ Poll(r) \/ Overdue(r)
          \/ Succeed(r) \/ FailPlainly(r) \/ TooMany(r) \/ Mark(r) \/ Expire(r)

PipeSpec == PipeInit /\ [][PipeNext]_pipeVars

-----------------------------------------------------------------------------
(* Properties.                                                             *)

Sends(r) == job[r].at # "send" /\ job'[r].at = "send"

\* A request that was answered with Retry-After is not sent again before that
\* time, unless the answer to another request has moved the block; and whichever
\* call they are of, first attempts or retries, two requests to the domain are
\* MinDelay apart (RateLimitMiddleware, DomainLimiter.Allow).
SendsInTime ==
    [][\A r \in Requests :
          Sends(r) => /\ held[r] <= pipeClock
                      /\ sentAt = NoTime \/ pipeClock - sentAt >= MinDelay]_pipeVars

\* Without jitter, and as long as it fits a Duration, a backoff is no shorter than
\* the one before it and no longer than MaxWait.
BackoffInOrder ==
    \A r \in Requests :
        job[r].at = "sleep" /\ Exact(job[r].attempt) <= MaxDuration
            => job[r].backoff \in job[r].last..RetryMaxWait

\* A retry that respects the context sends at most one request after its
\* deadline: the one that Allow lets through before Wait looks at the context.
StopsAtDeadline == \A r \in Requests : retryCtx => late[r] <= 1

\* Retries neither speed up nor outlive their context (retryDo).
RetriesBounded == BackoffInOrder /\ StopsAtDeadline
===============================================================================
