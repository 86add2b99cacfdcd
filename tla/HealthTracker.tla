---------------------------- MODULE HealthTracker ----------------------------
(***************************************************************************)
(* pool.HealthTracker of one item, and the use its comments prescribe: a   *)
(* worker whose failure trips the threshold reads TripCount and takes the  *)
(* item out for a cooldown that grows with the trips.  RecordFailure,      *)
(* TripCount and SoftDeactivateBackoff are calls of their own; the other   *)
(* workers run in between.                                                 *)
(***************************************************************************)
EXTENDS Integers

CONSTANTS
    TripWorkers,
    MinRequests, MaxConsecFailures,  \* the thresholds of NewHealthTracker ...
    FailNum, FailDen,                \* ... and failThreshold = FailNum / FailDen
    InitialWait, MaxWait,            \* BackoffConfig, with Multiplier 2 ...
    JitterNum, JitterDen,            \* ... and JitterPct = JitterNum / JitterDen
    MaxRequests                      \* bound: requests on record

ASSUME HealthTrackerAssumption ==
    /\ MinRequests \in Nat /\ MaxConsecFailures \in Nat \ {0}
    /\ FailNum \in Nat /\ FailDen \in Nat \ {0}
    /\ InitialWait \in Nat /\ MaxWait \in Nat
    /\ JitterNum \in Nat /\ JitterDen \in Nat \ {0}
    /\ MaxRequests \in Nat

VARIABLES
    tracker,  \* the counters
    worker,   \* each worker: told that the item tripped, and the trips it read
    cooldown  \* the last cooldown of the item, or NoCooldown

healthVars == <<tracker, worker, cooldown>>

NoCooldown == -1
Tracker == [total : Nat, failed : Nat, consecutive : Nat, trips : Nat, tripped : BOOLEAN]
NewTracker == [total |-> 0, failed |-> 0, consecutive |-> 0, trips |-> 0, tripped |-> FALSE]

HealthTypeOK ==
    /\ tracker \in Tracker
    /\ worker \in [TripWorkers -> [at : {"idle", "told", "read"}, trip : Nat]]
    /\ cooldown \in Nat \cup {NoCooldown}

HealthInit ==
    /\ tracker = NewTracker
    /\ worker = [w \in TripWorkers |-> [at |-> "idle", trip |-> 0]]
    /\ cooldown = NoCooldown

-----------------------------------------------------------------------------
\* Plausible slip: the failures stay on record.
RecordSuccessKeepsStreak ==
    /\ tracker.total < MaxRequests
    /\ tracker' = [tracker EXCEPT !.total = @ + 1, !.tripped = FALSE]
    /\ UNCHANGED <<worker, cooldown>>

RecordSuccess ==
    /\ tracker.total < MaxRequests
    /\ tracker' = [tracker EXCEPT !.total = @ + 1, !.consecutive = 0, !.tripped = FALSE]
    /\ UNCHANGED <<worker, cooldown>>

\* Too many failures in a row, or too large a share once there are enough.
OverThreshold(t) ==
    \/ t.consecutive >= MaxConsecFailures
    \/ t.total >= MinRequests /\ t.failed * FailDen >= FailNum * t.total

\* Plausible slip: every failure over the threshold is a trip.
NewTripAlways(t) == OverThreshold(t)

\* The rising edge: the first failure over the threshold since a success.
NewTrip(t) == OverThreshold(t) /\ ~t.tripped

RecordFailure(w) ==
    /\ worker[w].at = "idle" /\ tracker.total < MaxRequests
    /\ LET t == [tracker EXCEPT !.total = @ + 1, !.failed = @ + 1, !.consecutive = @ + 1]
       IN  /\ tracker' = IF NewTrip(t) THEN [t EXCEPT !.trips = @ + 1, !.tripped = TRUE] ELSE t
           /\ worker' = [worker EXCEPT ![w].at = IF OverThreshold(t) THEN "told" ELSE @]
    /\ UNCHANGED cooldown

Reset ==
    /\ tracker' = NewTracker
    /\ UNCHANGED <<worker, cooldown>>

TripCount(w) ==
    /\ worker[w].at = "told"
    /\ worker' = [worker EXCEPT ![w] = [at |-> "read", trip |-> tracker.trips]]
    /\ UNCHANGED <<tracker, cooldown>>

\* Plausible slip: a trip count that a reset has cleared is not looked out for.
CappedWaitUnguarded(trip) ==
    LET wait == IF trip = 0 THEN InitialWait \div 2 ELSE InitialWait * 2 ^ (trip - 1)
    IN  IF wait > MaxWait THEN MaxWait ELSE wait

\* The wait before the jitter: a trip below 1 counts as 1.
CappedWait(trip) ==
    LET wait == InitialWait * 2 ^ (IF trip < 1 THEN 0 ELSE trip - 1)
    IN  IF wait > MaxWait THEN MaxWait ELSE wait

\* d is w give or take the jitter, without its fraction, and never negative.
Jittered(d, w) ==
    /\ d * JitterDen <= w * (JitterDen + JitterNum)
    /\ (d + 1) * JitterDen > w * (JitterDen - JitterNum)

\* BackoffConfig.Duration: the jitter comes after the cap.
JitteredWaits(trip) ==
    {d \in 0..(CappedWait(trip) * (JitterDen + JitterNum)) : Jittered(d, CappedWait(trip))}

SoftDeactivateBackoff(w) ==
    /\ worker[w].at = "read"
    /\ cooldown' \in JitteredWaits(worker[w].trip)
    /\ worker' = [worker EXCEPT ![w] = [at |-> "idle", trip |-> 0]]
    /\ UNCHANGED tracker

HealthNext ==
    \/ RecordSuccess \/ Reset
    \/ \E w \in TripWorkers : RecordFailure(w) \/ TripCount(w) \/ SoftDeactivateBackoff(w)

HealthSpec == HealthInit /\ [][HealthNext]_healthVars

-----------------------------------------------------------------------------
\* The cooldown grows once per outage, however many workers report it and
\* however long it lasts: a success parts any two trips.
OneTripPerOutage == tracker.trips <= tracker.total - tracker.failed + 1

\* A row of failures that long is always part of a trip: a success that ends an
\* outage clears the row along with the latch.
LatchedInOutage == tracker.consecutive >= MaxConsecFailures => tracker.tripped

\* Every cooldown is that of a first trip at least and a capped one at most, give
\* or take the jitter (with the defaults, 39 minutes for a cap of 30), also one
\* that is computed from a count that a reset has cleared in between.
CooldownInRange ==
    InitialWait <= MaxWait /\ cooldown # NoCooldown =>
        /\ (cooldown + 1) * JitterDen > InitialWait * (JitterDen - JitterNum)
        /\ cooldown * JitterDen <= MaxWait * (JitterDen + JitterNum)

\* What the backoff of an item rests on, with several workers and a Reset among
\* the calls (RecordFailure, RecordSuccess, SoftDeactivateBackoff).
BackoffSound == OneTripPerOutage /\ LatchedInOutage /\ CooldownInRange
===============================================================================
