------------------------------- MODULE Limiter -------------------------------
(***************************************************************************)
(* ratelimit.Limiter over ratelimit.memoryStore: the per-key request cap   *)
(* of a window, the adaptive override of that cap, and blocked-until       *)
(* times.  Each store call is one critical section; Allow makes two of     *)
(* them and then reads the cap, and other callers run in between.          *)
(***************************************************************************)
EXTENDS Integers, Sequences, FiniteSets

CONSTANTS
    Keys,
    Callers,     \* goroutines inside Allow
    Window,      \* Config.WindowDuration
    DefaultCap,  \* Config.RequestsPerWindow
    Limits,      \* values UpdateLimit is called with, non-positive ones too
    MaxClock,    \* bound: the clock stops here
    MaxCalls     \* bound: calls of Allow

ASSUME LimiterAssumption ==
    /\ Window \in Nat /\ DefaultCap \in Nat
    /\ Limits \subseteq Int
    /\ MaxClock \in Nat /\ MaxCalls \in Nat

VARIABLES
    clock,     \* Limiter.clock, which the default store shares
    entry,     \* memoryStore.state
    override,  \* Limiter.perKeyCap
    pc,        \* where each call of Allow is
    key,       \* its argument
    now,       \* the time it read first
    ticket,    \* what Increment returned to it
    calls,     \* calls of Allow so far
    granted,   \* history: the tickets Allow answered true for, per key
    topCap,    \* history: the largest cap each key has had
    marked,    \* history: the end MarkRateLimited named last, per key
    early      \* history: the call began before its key was marked last

callVars == <<pc, key, now, ticket, calls>>
history == <<granted, topCap, marked, early>>
vars == <<clock, entry, override, callVars, history>>

NoTime == 0   \* the zero time.Time
Absent == -1  \* no entry in perKeyCap

\* A store entry; `known' is the presence of the key in the map.
Entry == [known : BOOLEAN, count : Nat, start : Nat, until : Nat]
\* The count and window start Increment returned, and when it ran.
Ticket == [n : Nat, win : Nat, at : Nat]
NoEntry == [known |-> FALSE, count |-> 0, start |-> NoTime, until |-> NoTime]
NoTicket == [n |-> 0, win |-> NoTime, at |-> NoTime]

Times == 1..MaxClock
Ends == 1..(MaxClock + 1)  \* what MarkRateLimited is given: past, present or future

TypeOK ==
    /\ clock \in Nat
    /\ entry \in [Keys -> Entry]
    /\ override \in [Keys -> {Absent} \cup (Nat \ {0})]
    /\ pc \in [Callers -> {"idle", "begun", "passed", "counted"}]
    /\ key \in [Callers -> Keys]
    /\ now \in [Callers -> Nat]
    /\ ticket \in [Callers -> Ticket]
    /\ calls \in Nat
    /\ granted \in [Keys -> Seq(Ticket)]
    /\ topCap \in [Keys -> Nat]
    /\ marked \in [Keys -> Nat]
    /\ early \in [Callers -> BOOLEAN]

Init ==
    /\ clock = 1
    /\ entry = [k \in Keys |-> NoEntry]
    /\ override = [k \in Keys |-> Absent]
    /\ pc = [c \in Callers |-> "idle"]
    /\ key \in [Callers -> Keys]
    /\ now = [c \in Callers |-> NoTime]
    /\ ticket = [c \in Callers |-> NoTicket]
    /\ calls = 0
    /\ granted = [k \in Keys |-> << >>]
    /\ topCap = [k \in Keys |-> DefaultCap]
    /\ marked = [k \in Keys |-> NoTime]
    /\ early = [c \in Callers |-> FALSE]

-----------------------------------------------------------------------------
(* The store.                                                              *)

\* getOrCreate: a new entry's window starts now.
Created(e, t) == IF e.known THEN e ELSE [NoEntry EXCEPT !.known = TRUE, !.start = t]

\* Plausible slip: the count is reset but the window start is kept.
IncrementedKeepsStart(e, t) ==
    LET c == Created(e, t)
    IN  IF t - c.start > Window THEN [c EXCEPT !.count = 1] ELSE [c EXCEPT !.count = @ + 1]

\* Plausible slip: a new window starts with an entry of its own, without the block.
IncrementedAfresh(e, t) ==
    LET c == Created(e, t)
    IN  IF t - c.start > Window THEN [Created(NoEntry, t) EXCEPT !.count = 1]
                                ELSE [c EXCEPT !.count = @ + 1]

\* Increment: a new window when this one has expired, then one more request.
Incremented(e, t) ==
    LET c == Created(e, t)
    IN  IF t - c.start > Window THEN [c EXCEPT !.count = 1, !.start = t]
                                ELSE [c EXCEPT !.count = @ + 1]

\* What Count returns is not zero: the key is present, its window not expired.
Current(e, t) == e.known /\ t - e.start <= Window

CapFor(k) == IF override[k] # Absent THEN override[k] ELSE DefaultCap

-----------------------------------------------------------------------------
Tick ==
    /\ clock < MaxClock
    /\ clock' = clock + 1
    /\ UNCHANGED <<entry, override, callVars, history>>

\* Plausible slip: a header that could not be parsed sets the cap too.
UpdateLimitUnchecked(k, limit) ==
    /\ override' = [override EXCEPT ![k] = limit]
    /\ topCap' = [topCap EXCEPT ![k] = IF limit > @ THEN limit ELSE @]
    /\ UNCHANGED <<clock, entry, callVars, granted, marked, early>>

\* UpdateLimit: non-positive limits are ignored.
UpdateLimit(k, limit) ==
    /\ limit > 0
    /\ override' = [override EXCEPT ![k] = limit]
    /\ topCap' = [topCap EXCEPT ![k] = IF limit > @ THEN limit ELSE @]
    /\ UNCHANGED <<clock, entry, callVars, granted, marked, early>>

\* MarkRateLimited, that is SetBlocked: the last call wins.
MarkRateLimited(k, until) ==
    /\ entry' = [entry EXCEPT ![k] = [Created(@, clock) EXCEPT !.until = until]]
    /\ marked' = [marked EXCEPT ![k] = until]
    /\ early' = [c \in Callers |-> early[c] \/ (pc[c] # "idle" /\ key[c] = k)]
    /\ UNCHANGED <<clock, override, callVars, granted, topCap>>

-----------------------------------------------------------------------------
(* Allow, in the order of its store calls.                                 *)

\* The call reads the clock.
Begin(c, k) ==
    /\ pc[c] = "idle" /\ calls < MaxCalls
    /\ pc' = [pc EXCEPT ![c] = "begun"]
    /\ key' = [key EXCEPT ![c] = k]
    /\ now' = [now EXCEPT ![c] = clock]
    /\ calls' = calls + 1
    /\ UNCHANGED <<clock, entry, override, ticket, history>>

\* now.Before(blocked), with the time read at the start of the call.
Blocked(c) == now[c] < entry[key[c]].until

\* The call returns; its locals are gone.
Return(c) ==
    /\ pc' = [pc EXCEPT ![c] = "idle"]
    /\ now' = [now EXCEPT ![c] = NoTime]
    /\ ticket' = [ticket EXCEPT ![c] = NoTicket]
    /\ early' = [early EXCEPT ![c] = FALSE]

Refuse(c) ==
    /\ pc[c] = "begun" /\ Blocked(c)
    /\ Return(c)
    /\ UNCHANGED <<clock, entry, override, key, calls, granted, topCap, marked>>

Pass(c) ==
    /\ pc[c] = "begun" /\ ~Blocked(c)
    /\ pc' = [pc EXCEPT ![c] = "passed"]
    /\ UNCHANGED <<clock, entry, override, key, now, ticket, calls, history>>

Increment(c) ==
    /\ pc[c] = "passed"
    /\ LET e == Incremented(entry[key[c]], clock)
       IN  /\ entry' = [entry EXCEPT ![key[c]] = e]
           /\ ticket' = [ticket EXCEPT ![c] = [n |-> e.count, win |-> e.start, at |-> clock]]
    /\ pc' = [pc EXCEPT ![c] = "counted"]
    /\ UNCHANGED <<clock, override, key, now, calls, history>>

\* Plausible slip: one request too many.
AdmitsOneMore(c) == ticket[c].n <= CapFor(key[c]) + 1

\* The comparison reads the cap of this moment.
Admits(c) == ticket[c].n <= CapFor(key[c])

Decide(c) ==
    /\ pc[c] = "counted"
    /\ granted' = [granted EXCEPT ![key[c]] = IF Admits(c) THEN Append(@, ticket[c]) ELSE @]
    /\ Return(c)
    /\ UNCHANGED <<clock, entry, override, key, calls, topCap, marked>>

AllowStep(c) == Refuse(c) \/ Pass(c) \/ Increment(c) \/ Decide(c)

Next ==
    \/ Tick
    \/ \E k \in Keys, limit \in Limits : UpdateLimit(k, limit)
    \/ \E k \in Keys, until \in Ends : MarkRateLimited(k, until)
    \/ \E c \in Callers : AllowStep(c) \/ \E k \in Keys : Begin(c, k)

Spec == Init /\ [][Next]_vars

-----------------------------------------------------------------------------
(* The read-only operations, on the state they find.                       *)

\* Plausible slip: the last request of the budget already limits the key.
IsRateLimitedEarly(k) ==
    \/ clock < entry[k].until
    \/ Current(entry[k], clock) /\ entry[k].count + 1 >= CapFor(k)

\* (The window test Count makes is repeated by IsRateLimited itself.)
IsRateLimited(k) ==
    \/ clock < entry[k].until
    \/ Current(entry[k], clock) /\ entry[k].count >= CapFor(k)

WindowEnd(k) == entry[k].start + Window

\* Plausible slip: the request about to be made is counted as well.
ExhaustedEarly(k) ==
    /\ Current(entry[k], clock) /\ entry[k].count + 1 >= CapFor(k)
    /\ clock < WindowEnd(k)

\* The window's requests are used up and its end is ahead.
Exhausted(k) ==
    /\ Current(entry[k], clock) /\ entry[k].count >= CapFor(k)
    /\ clock < WindowEnd(k)

\* AvailableAt: the EARLIER of the end of the block and the end of the window.
AvailableAt(k) ==
    LET ends == {t \in {entry[k].until, WindowEnd(k)} :
                    \/ t = entry[k].until /\ clock < t
                    \/ t = WindowEnd(k) /\ Exhausted(k)}
    IN  IF ends = {} THEN NoTime ELSE CHOOSE t \in ends : \A u \in ends : t <= u

\* What Allow(k) would answer at time t if nothing else happened until then.
WouldAllow(k, t) ==
    entry[k].until <= t /\ Incremented(entry[k], t).count <= CapFor(k)

-----------------------------------------------------------------------------
(* Safety.                                                                 *)

InWindow(k, w) == {i \in DOMAIN granted[k] : granted[k][i].win = w}

\* However calls interleave, the requests admitted in one window of a key never
\* exceed the largest cap the key has had: no two calls share a count, and a
\* window that is replaced is not counted twice.
WindowCap ==
    \A k \in Keys : \A w \in Times : Cardinality(InWindow(k, w)) <= topCap[k]

\* Over any Window-long span, which may straddle a reset, at most twice the cap
\* is admitted (the fixed window's real bound).
DoubleCap ==
    \A k \in Keys : \A t \in Times :
        Cardinality({i \in DOMAIN granted[k] : granted[k][i].at \in t..(t + Window)})
            <= 2 * topCap[k]

\* What Allow admits is bounded over every window and over every span that
\* straddles two (Increment, Allow).
AdmissionCap == WindowCap /\ DoubleCap

\* While a key is blocked, no call is past the check but one that was inside Allow
\* when the block was set (check and increment are two critical sections): a block
\* outlasts the end of its window and the requests of such calls, and only another
\* MarkRateLimited shortens it (Allow, Increment, SetBlocked).
BlockHolds ==
    \A c \in Callers :
        pc[c] \in {"passed", "counted"} /\ clock < marked[key[c]] => early[c]

\* AvailableAt never answers later than it should: before the time it names,
\* Allow refuses.  (It may answer earlier: ZeroMeansAvailable and
\* AvailableAtAfterBlock, below.)
NoFalseWait ==
    \A k \in Keys : \A t \in clock..(AvailableAt(k) - 1) : ~WouldAllow(k, t)

\* IsRateLimited tells exactly whether Allow would refuse now, for any positive
\* cap: both see the same window, the same cap and the same block.
LimitedMeansRefused ==
    DefaultCap > 0 => \A k \in Keys : IsRateLimited(k) <=> ~WouldAllow(k, clock)

\* IsRateLimited says what Allow would, and AvailableAt sends nobody away for longer
\* than Allow would (IsRateLimited, AvailableAt).
AnswersRight == NoFalseWait /\ LimitedMeansRefused

-----------------------------------------------------------------------------
(* What the comments say and the code does not do.                         *)

\* "per-key sliding window" (README): no span shorter than the window's length
\* has more than the cap.
SlidingCap ==
    \A k \in Keys : \A t \in Times :
        Cardinality({i \in DOMAIN granted[k] : granted[k][i].at \in t..(t + Window - 1)})
            <= topCap[k]

\* "Returns zero time if available right now": and only then.  (At the very end of
\* an exhausted window Count still finds it, and the end is not ahead any more.)
ZeroMeansAvailable ==
    \A k \in Keys : AvailableAt(k) = NoTime => WouldAllow(k, clock)

\* "returns true if a request can be made for the given key, incrementing the counter
\* when it does": a window's count is what was admitted in it, and what may yet be.
OnlyAdmittedCounted ==
    \A k \in Keys :
        entry[k].count <= Cardinality(InWindow(k, entry[k].start))
                          + Cardinality({c \in Callers : pc[c] = "counted" /\ key[c] = k})

\* "returns the time when the given key will become available": the time it names
\* is not one at which the key is still blocked.
AvailableAtAfterBlock ==
    \A k \in Keys : AvailableAt(k) # NoTime => entry[k].until <= AvailableAt(k)
=============================================================================
