------------------------------- MODULE ItemPool -------------------------------
(***************************************************************************)
(* pool.Pool: items served round robin, deactivated for good or for a      *)
(* while, and brought back by the scan of Next.  Next, AvailableIn and the *)
(* deactivations each hold the lock; NextWithWait is several of them, and  *)
(* other callers run in between.                                           *)
(***************************************************************************)
EXTENDS Integers

CONSTANTS
    FirstSize,      \* items the pool begins with
    MaxSize,        \* bound: items that are added
    Waiters,        \* callers of NextWithWait
    Filters,        \* the filters they pass: the items each lets through
    Cooldowns,      \* cooldowns of SoftDeactivate
    MaxWaits,       \* maxWait of NextWithWait
    PoolMaxClock    \* bound: the clock

Items == 0..(MaxSize - 1)   \* the items, by their place in the slice

ASSUME ItemPoolAssumption ==
    /\ MaxSize \in Nat \ {0} /\ FirstSize \in 0..MaxSize
    /\ Filters \subseteq SUBSET Items
    /\ Cooldowns \subseteq Nat /\ MaxWaits \subseteq Nat
    /\ PoolMaxClock \in Nat

VARIABLES
    size,       \* len(Pool.items)
    active,     \* Identity.IsActive
    due,        \* Identity.ReactivateAt, or Never
    turn,       \* Pool.idx
    waiter,     \* each caller of NextWithWait: see Waiter
    poolClock,  \* time
    removed     \* history: how each item was taken out: see Removals

poolVars == <<size, active, due, turn, waiter, poolClock, removed>>

Never == -1     \* the zero time.Time
NoItem == -1

\* "resumed": for a while, after it had been taken out for good.
Removals == {"never", "for a while", "for good", "resumed"}

Waiter ==
    [at : {"out", "look", "asleep", "done"}, filter : Filters, maxWait : MaxWaits,
     wake : Nat, got : Items \cup {NoItem},
     late : BOOLEAN,  \* history: it woke after the time it waited for
     calm : BOOLEAN]  \* history: no item was deactivated since it looked

Present == 0..(size - 1)

PoolTypeOK ==
    /\ size \in 0..MaxSize
    /\ active \in [Items -> BOOLEAN]
    /\ due \in [Items -> Nat \cup {Never}]
    /\ turn \in Items
    /\ waiter \in [Waiters -> Waiter]
    /\ poolClock \in 0..PoolMaxClock
    /\ removed \in [Items -> Removals]

PoolInit ==
    /\ size = FirstSize
    /\ active = [i \in Items |-> TRUE]
    /\ due = [i \in Items |-> Never]
    /\ turn = 0
    /\ waiter \in [Waiters -> [at : {"out"}, filter : Filters, maxWait : MaxWaits,
                               wake : {0}, got : {NoItem}, late : {FALSE}, calm : {FALSE}]]
    /\ poolClock = 0
    /\ removed = [i \in Items |-> "never"]

-----------------------------------------------------------------------------
(* Next.                                                                   *)

\* Plausible slip: no wrapping around.
SlotUnwrapped(k) == turn + k

Slot(k) == (turn + k) % size

\* now.After(ReactivateAt): not yet at the moment itself.
Over(i) == due[i] # Never /\ due[i] < poolClock

\* Plausible slip: an item that the scan brings back is passed over all the same.
ServableActive(f) == {k \in Present : Slot(k) \in f /\ active[Slot(k)]}

\* The slots of the items the scan can serve: active, or just brought back.
Servable(f) == {k \in Present : Slot(k) \in f /\ (active[Slot(k)] \/ Over(Slot(k)))}

\* The inactive items up to slot k whose cooldown is over.
Back(k) == {i \in Items : ~active[i] /\ Over(i) /\ \E j \in 0..k : i = Slot(j)}

\* The scan up to slot k brings them back, also what the filter holds back.
Scan(k) ==
    /\ active' = [i \in Items |-> active[i] \/ i \in Back(k)]
    /\ due' = [i \in Items |-> IF i \in Back(k) THEN Never ELSE due[i]]

\* Caller w calls Next and is then at `served' or at `refused'.
CallNext(w, served, refused) ==
    LET slots == Servable(waiter[w].filter)
        first == CHOOSE k \in slots : \A l \in slots : k <= l
        late == poolClock > waiter[w].wake
    IN  IF slots = {}
        THEN /\ Scan(size - 1)
             /\ waiter' = [waiter EXCEPT ![w].at = refused, ![w].late = late]
             /\ UNCHANGED turn
        ELSE /\ Scan(first)
             /\ turn' = Slot(first + 1)
             /\ waiter' = [waiter EXCEPT ![w].at = served, ![w].late = late,
                                         ![w].got = Slot(first)]

-----------------------------------------------------------------------------
(* NextWithWait.                                                           *)

First(w) ==
    /\ waiter[w].at = "out"
    /\ CallNext(w, "done", "look")
    /\ UNCHANGED <<size, poolClock, removed>>

\* AvailableIn: the items that are still in their cooldown.
Pending == {i \in Present : ~active[i] /\ due[i] > poolClock}

\* 0 when an item is active, whatever the filter says of it, or none is due.
AvailableIn ==
    IF (\E i \in Present : active[i]) \/ Pending = {} THEN 0
    ELSE LET i == CHOOSE j \in Pending : \A l \in Pending : due[j] <= due[l]
         IN due[i] - poolClock

\* The wait is not worth it, or the caller goes to sleep.
Look(w) ==
    /\ waiter[w].at = "look"
    /\ waiter' = [waiter EXCEPT ![w] =
                     IF AvailableIn \in 1..@.maxWait
                     THEN [@ EXCEPT !.at = "asleep", !.wake = poolClock + AvailableIn,
                                    !.calm = TRUE]
                     ELSE [@ EXCEPT !.at = "done"]]
    /\ UNCHANGED <<size, active, due, turn, poolClock, removed>>

\* The timer fires at its time or later, and Next is called once more.
Wake(w) ==
    /\ waiter[w].at = "asleep" /\ poolClock >= waiter[w].wake
    /\ CallNext(w, "done", "done")
    /\ UNCHANGED <<size, poolClock, removed>>

\* ctx.Done.
CancelWait(w) ==
    /\ waiter[w].at = "asleep"
    /\ waiter' = [waiter EXCEPT ![w].at = "done", ![w].calm = FALSE]
    /\ UNCHANGED <<size, active, due, turn, poolClock, removed>>

-----------------------------------------------------------------------------
(* Deactivation.                                                           *)

Deactivate(i, t, how) ==
    /\ active' = [active EXCEPT ![i] = FALSE]
    /\ due' = [due EXCEPT ![i] = t]
    /\ removed' = [removed EXCEPT ![i] = IF how = "for a while" /\ @ \in {"for good", "resumed"}
                                         THEN "resumed" ELSE how]
    /\ waiter' = [w \in Waiters |-> [waiter[w] EXCEPT !.calm = FALSE]]

\* Plausible slip: the time of an earlier cooldown is left in place.
DeactivateItemKeepsDue(i) ==
    /\ Deactivate(i, due[i], "for good")
    /\ UNCHANGED <<size, turn, poolClock>>

DeactivateItem(i) ==
    /\ Deactivate(i, Never, "for good")
    /\ UNCHANGED <<size, turn, poolClock>>

SoftDeactivate(i, cooldown) ==
    /\ Deactivate(i, poolClock + cooldown, "for a while")
    /\ UNCHANGED <<size, turn, poolClock>>

\* Add, of an active item.
AddItem ==
    /\ size < MaxSize
    /\ size' = size + 1
    /\ UNCHANGED <<active, due, turn, waiter, poolClock, removed>>

PoolTick ==
    /\ poolClock < PoolMaxClock
    /\ poolClock' = poolClock + 1
    /\ UNCHANGED <<size, active, due, turn, waiter, removed>>

PoolNext ==
    \/ PoolTick \/ AddItem
    \/ \E w \in Waiters : First(w) \/ Look(w) \/ Wake(w) \/ CancelWait(w)
    \/ \E i \in Present : DeactivateItem(i) \/ \E d \in Cooldowns : SoftDeactivate(i, d)

PoolSpec == PoolInit /\ [][PoolNext]_poolVars

-----------------------------------------------------------------------------
(* Properties.                                                             *)

\* An item that was taken out for good, and not for a while after that, never
\* comes back, whatever cooldown an earlier caller had set for it.
StaysOut == \A i \in Items : removed[i] = "for good" => ~active[i]

\* A caller that has waited gets an item, if it woke after the cooldown it
\* waited for, its filter lets every item through, and none was taken out
\* meanwhile.
WaitIsRewarded ==
    \A w \in Waiters :
        LET v == waiter[w]
        IN  v.at = "done" /\ v.calm /\ v.late /\ v.filter = Items => v.got # NoItem

\* "DeactivateItem permanently removes an item from the active pool."
RemovedForGood == \A i \in Items : removed[i] \in {"for good", "resumed"} => ~active[i]
===============================================================================
