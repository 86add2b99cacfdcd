------------------------------- MODULE SiteIntel -------------------------------
(***************************************************************************)
(* SiteIntel.Get for one domain: look in the cache, join the flight that   *)
(* is under way or lead one, look in the cache again, have ox-browser      *)
(* analyze the site, store.  Only the flight itself is exclusive: the lock *)
(* of the cache is released between any two of these steps.                *)
(***************************************************************************)
EXTENDS Integers

CONSTANTS
    Getters,     \* callers of Get
    IntelTTL,    \* how long an entry is good
    IntelMaxClock \* bound: the clock

Nobody == [nobody |-> TRUE]

ASSUME SiteIntelAssumption ==
    IntelTTL \in Nat \ {0} /\ IntelMaxClock \in Nat /\ Nobody \notin Getters

VARIABLES
    entry,     \* FetchedAt of the cached entry, or None
    flight,    \* the leader of the flight under way, or Nobody
    get,       \* each caller: see GetType
    intelClock \* time

intelVars == <<entry, flight, get, intelClock>>

None == -1      \* no entry, no answer
Failed == -2    \* an empty SiteInfo with an error

GetType ==
    [at : {"out", "missed", "lead", "analyze", "store", "joined", "done"},
     got : Nat \cup {None, Failed},   \* FetchedAt of what it returns
     since : Nat]                     \* history: when its flight, or it, began

IntelTypeOK ==
    /\ entry \in 0..IntelMaxClock \cup {None}
    /\ flight \in Getters \cup {Nobody}
    /\ get \in [Getters -> GetType]
    /\ intelClock \in 0..IntelMaxClock

IntelInit ==
    /\ entry = None /\ flight = Nobody
    /\ get = [g \in Getters |-> [at |-> "out", got |-> None, since |-> 0]]
    /\ intelClock = 0

\* Plausible slip: an entry is good for one moment more.
FreshIncluded == entry # None /\ intelClock - entry <= IntelTTL

Fresh == entry # None /\ intelClock - entry < IntelTTL

Go(g, at) == get' = [get EXCEPT ![g].at = at]

\* The first look.
Ask(g) ==
    /\ get[g].at \in {"out", "done"}
    /\ get' = [get EXCEPT ![g] =
                  IF Fresh THEN [at |-> "done", got |-> entry, since |-> intelClock]
                  ELSE [at |-> "missed", got |-> None, since |-> intelClock]]
    /\ UNCHANGED <<entry, flight, intelClock>>

\* Plausible slip: the entry is analyzed by everyone who misses it.
FlyAlone(g) ==
    /\ get[g].at = "missed"
    /\ flight' = g /\ Go(g, "lead")
    /\ UNCHANGED <<entry, intelClock>>

\* singleflight.Group.Do: the first one leads, the others wait for its result.
Fly(g) ==
    /\ get[g].at = "missed"
    /\ \/ /\ flight = Nobody
          /\ flight' = g /\ Go(g, "lead")
       \/ /\ flight # Nobody
          /\ get' = [get EXCEPT ![g].at = "joined", ![g].since = get[flight].since]
          /\ UNCHANGED flight
    /\ UNCHANGED <<entry, intelClock>>

\* The flight ends with r: everybody who joined it returns the same.
Land(g, r) ==
    /\ flight' = Nobody
    /\ get' = [h \in Getters |->
                  IF h = g \/ get[h].at = "joined"
                  THEN [get[h] EXCEPT !.at = "done", !.got = r] ELSE get[h]]

\* Plausible slip: the winner of the flight goes ahead without a second look.
AnalyzeAtOnce(g) ==
    /\ get[g].at = "lead"
    /\ Go(g, "analyze")
    /\ UNCHANGED <<entry, flight, intelClock>>

\* The second look: the entry may have been stored since the first one.
LookAgain(g) ==
    /\ get[g].at = "lead"
    /\ \/ Fresh /\ Land(g, entry)
       \/ ~Fresh /\ Go(g, "analyze") /\ UNCHANGED flight
    /\ UNCHANGED <<entry, intelClock>>

\* ox-browser answers or does not.
AnalyzeFails(g) ==
    /\ get[g].at = "analyze"
    /\ Land(g, Failed)
    /\ UNCHANGED <<entry, intelClock>>

\* FetchedAt is taken before the lock.
Analyzed(g) ==
    /\ get[g].at = "analyze"
    /\ get' = [get EXCEPT ![g].at = "store", ![g].got = intelClock]
    /\ UNCHANGED <<entry, flight, intelClock>>

Store(g) ==
    /\ get[g].at = "store"
    /\ entry' = get[g].got
    /\ Land(g, get[g].got)
    /\ UNCHANGED intelClock

IntelTick ==
    /\ intelClock < IntelMaxClock
    /\ intelClock' = intelClock + 1
    /\ UNCHANGED <<entry, flight, get>>

IntelNext ==
    \/ IntelTick
    \/ \E g \in Getters : \/ Ask(g) \/ Fly(g) \/ LookAgain(g)
                          \/ AnalyzeFails(g) \/ Analyzed(g) \/ Store(g)

IntelSpec == IntelInit /\ [][IntelNext]_intelVars

\* An entry is analyzed anew only when it has expired: neither callers that miss
\* it at the same time nor callers that miss it one after the other, each just
\* before it is stored, replace it more than once (Get, site_intel.go).
AnalyzedOnExpiry ==
    [][entry' # entry /\ entry # None => entry' - entry >= IntelTTL]_intelVars

\* What a call returns had not expired when the call began, or when the call
\* whose flight it joined did.
FreshWhenAsked ==
    \A g \in Getters : get[g].at = "done" /\ get[g].got # Failed
                          => get[g].since - get[g].got < IntelTTL
===============================================================================
