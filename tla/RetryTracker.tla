----------------------------- MODULE RetryTracker -----------------------------
(***************************************************************************)
(* RetryTracker for one URL: workers ask whether the URL may be tried, try *)
(* it, and record how that went.  Each call holds the lock; between the    *)
(* question and the record the other workers go on.                        *)
(***************************************************************************)
EXTENDS Integers, FiniteSets

CONSTANTS
    Workers,
    MaxAttempts,      \* failed attempts until the URL is given up
    EntryTTL,         \* how long an entry counts
    TrackerMaxClock   \* bound: the clock

ASSUME RetryTrackerAssumption ==
    /\ IsFiniteSet(Workers)
    /\ MaxAttempts \in Nat \ {0} /\ EntryTTL \in Nat /\ TrackerMaxClock \in Nat

VARIABLES
    known,         \* the URL has an entry: ...
    attempts,      \* ... its failed attempts,
    lastAttempt,   \* the time of the last one,
    permanent,     \* and whether that one ended with a permanent error
    trying,        \* the workers that were told to go ahead
    trackerClock,  \* time
    everPermanent  \* history: a permanent error was recorded since the last success

entryVars == <<known, attempts, lastAttempt, permanent>>
trackerVars == <<entryVars, trying, trackerClock, everPermanent>>

TrackerTypeOK ==
    /\ known \in BOOLEAN /\ permanent \in BOOLEAN /\ everPermanent \in BOOLEAN
    /\ attempts \in Nat /\ lastAttempt \in Nat
    /\ trying \subseteq Workers
    /\ trackerClock \in Nat
    /\ ~known => attempts = 0 /\ ~permanent

TrackerInit ==
    /\ known = FALSE /\ attempts = 0 /\ lastAttempt = 0 /\ permanent = FALSE
    /\ trying = {}
    /\ trackerClock = 0
    /\ everPermanent = FALSE

Forget == known' = FALSE /\ attempts' = 0 /\ lastAttempt' = 0 /\ permanent' = FALSE

\* Lazy eviction: never of an entry that is marked permanent.
Expired == known /\ ~permanent /\ trackerClock - lastAttempt > EntryTTL

\* Plausible slip: one attempt too many.
EligibleLate == ~permanent /\ attempts <= MaxAttempts

\* An unknown URL has no attempts.
Eligible == ~permanent /\ attempts < MaxAttempts

\* ShouldRetry: TRUE, with an expired entry evicted.
GoAhead(w) ==
    /\ w \notin trying
    /\ \/ Expired /\ Forget
       \/ ~Expired /\ Eligible /\ UNCHANGED entryVars
    /\ trying' = trying \cup {w}
    /\ UNCHANGED <<trackerClock, everPermanent>>

\* Plausible slip: an entry that was evicted meanwhile is not made anew.
RecordIfKnown(w, perm) ==
    /\ w \in trying /\ trying' = trying \ {w}
    /\ known' = known /\ attempts' = attempts + 1
    /\ lastAttempt' = trackerClock
    /\ permanent' = perm /\ everPermanent' = (everPermanent \/ perm)
    /\ UNCHANGED trackerClock

\* RecordAttempt: the error of this attempt decides whether the URL counts as
\* permanently failed.
RecordAttempt(w, perm) ==
    /\ w \in trying /\ trying' = trying \ {w}
    /\ known' = TRUE /\ attempts' = attempts + 1
    /\ lastAttempt' = trackerClock
    /\ permanent' = perm /\ everPermanent' = (everPermanent \/ perm)
    /\ UNCHANGED trackerClock

\* RecordSuccess, of an attempt that may have begun before later failures.
RecordSuccessOf(w) ==
    /\ w \in trying /\ trying' = trying \ {w}
    /\ Forget
    /\ everPermanent' = FALSE
    /\ UNCHANGED trackerClock

TrackerTick ==
    /\ trackerClock < TrackerMaxClock
    /\ trackerClock' = trackerClock + 1
    /\ UNCHANGED <<entryVars, trying, everPermanent>>

TrackerNext ==
    \/ TrackerTick
    \/ \E w \in Workers : \/ GoAhead(w) \/ RecordSuccessOf(w)
                          \/ \E perm \in BOOLEAN : RecordAttempt(w, perm)

TrackerSpec == TrackerInit /\ [][TrackerNext]_trackerVars

\* Asking and recording are two calls, so concurrent workers exceed the limit,
\* but by no more than the workers there are besides the one that reaches it.
Overshoot == attempts + Cardinality(trying) <= MaxAttempts - 1 + Cardinality(Workers)

\* "If the error is a permanent HTTP status (4xx client errors), the URL is marked
\* as permanently failed and no further retries are allowed".
PermanentStays == everPermanent => ~Eligible
===============================================================================
