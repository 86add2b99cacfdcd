-------------------------------- MODULE Session --------------------------------
(***************************************************************************)
(* session.Session and session.FileStore, for one session ID: Do stamps    *)
(* the time and counts the request in two steps; Save snapshots the        *)
(* session and rewrites its file, which a crash or a full disk interrupts; *)
(* Load makes a new Session of the file, also while the old one is alive.  *)
(***************************************************************************)
EXTENDS Integers, FiniteSets

CONSTANTS
    Objects,         \* Session objects with the ID, in one process or the next
    Users,           \* goroutines that call Do
    SessionMaxClock, \* bound: the clock
    MaxCount         \* bound: requests of a session

NoOne == [none |-> TRUE]

ASSUME SessionAssumption ==
    /\ IsFiniteSet(Users) /\ Objects # {} /\ NoOne \notin Objects
    /\ SessionMaxClock \in Nat /\ MaxCount \in Nat

VARIABLES
    session,       \* each object: lastUsed, requestCount, or Dead
    user,          \* each goroutine: the object whose request it has yet to count
    file,          \* what the file of the ID holds
    saver,         \* the snapshot being written, under the lock of the store
    sessionClock,  \* time
    saved          \* history: the snapshot of the last Save that returned without
                   \* an error, unless Delete came after it

sessionVars == <<session, user, file, saver, sessionClock, saved>>

Dead == [alive |-> FALSE]
NoFile == [kind |-> "none"]
Torn == [kind |-> "torn"]
Whole(s) == [kind |-> "whole", lastUsed |-> s.lastUsed, count |-> s.count, began |-> s.began]

\* began is history: the requests that have stamped the time.
Live == [alive : {TRUE}, lastUsed : Nat, count : Nat, began : Nat]
Snapshot == [kind : {"whole"}, lastUsed : Nat, count : Nat, began : Nat]

SessionTypeOK ==
    /\ session \in [Objects -> Live \cup {Dead}]
    /\ user \in [Users -> Objects \cup {NoOne}]
    /\ file \in Snapshot \cup {NoFile, Torn}
    /\ saver \in Snapshot \cup {NoFile} /\ saved \in Snapshot \cup {NoFile}
    /\ sessionClock \in 0..SessionMaxClock

SessionInit ==
    /\ \E o \in Objects :
          session = [p \in Objects |->
                        IF p = o THEN [alive |-> TRUE, lastUsed |-> 0, count |-> 0, began |-> 0]
                        ELSE Dead]
    /\ user = [u \in Users |-> NoOne]
    /\ file = NoFile /\ saver = NoFile /\ saved = NoFile
    /\ sessionClock = 0

-----------------------------------------------------------------------------
(* Do, up to the request itself.                                           *)

\* lastUsed, under the lock of the session.
Stamp(u, o) ==
    /\ user[u] = NoOne /\ session[o].alive /\ session[o].began < MaxCount
    /\ session' = [session EXCEPT ![o].lastUsed = sessionClock, ![o].began = @ + 1]
    /\ user' = [user EXCEPT ![u] = o]
    /\ UNCHANGED <<file, saver, sessionClock, saved>>

\* Plausible slip: a request that another one is about to count is not counted.
CountOnce(u) ==
    /\ user[u] # NoOne
    /\ user' = [v \in Users |-> IF user[v] = user[u] THEN NoOne ELSE user[v]]
    /\ session' = [session EXCEPT ![user[u]].count = @ + 1]
    /\ UNCHANGED <<file, saver, sessionClock, saved>>

\* requestCount.Add, outside that lock.
Count(u) ==
    /\ user[u] # NoOne
    /\ user' = [user EXCEPT ![u] = NoOne]
    /\ session' = [session EXCEPT ![user[u]].count = @ + 1]
    /\ UNCHANGED <<file, saver, sessionClock, saved>>

-----------------------------------------------------------------------------
(* FileStore: the lock is held from the snapshot to the end of the write.  *)

Unlocked == saver = NoFile

\* toData, and os.WriteFile truncating the file.
Save(o) ==
    /\ Unlocked /\ session[o].alive
    /\ saver' = Whole(session[o])
    /\ file' = Torn
    /\ UNCHANGED <<session, user, sessionClock, saved>>

Written ==
    /\ ~Unlocked
    /\ file' = saver /\ saved' = saver /\ saver' = NoFile
    /\ UNCHANGED <<session, user, sessionClock>>

\* The write fails: Save returns the error, and the file stays as it is.
WriteFails ==
    /\ ~Unlocked
    /\ saver' = NoFile
    /\ UNCHANGED <<session, user, file, sessionClock, saved>>

Restored(f) == [alive |-> TRUE, lastUsed |-> f.lastUsed, count |-> f.count, began |-> f.count]

\* Plausible slip: what is missing in the file counts as zero.
LoadLeniently(o) ==
    /\ Unlocked /\ session[o] = Dead /\ file # NoFile
    /\ session' = [session EXCEPT ![o] =
                      IF file = Torn THEN [alive |-> TRUE, lastUsed |-> 0, count |-> 0, began |-> 0]
                      ELSE Restored(file)]
    /\ UNCHANGED <<user, file, saver, sessionClock, saved>>

\* Load: a torn file is an error.
Load(o) ==
    /\ Unlocked /\ session[o] = Dead /\ file.kind = "whole"
    /\ session' = [session EXCEPT ![o] = Restored(file)]
    /\ UNCHANGED <<user, file, saver, sessionClock, saved>>

DeleteFile ==
    /\ Unlocked
    /\ file' = NoFile /\ saved' = NoFile
    /\ UNCHANGED <<session, user, saver, sessionClock>>

\* The process dies; the file stays as it is.
Crash ==
    /\ session' = [o \in Objects |-> Dead]
    /\ user' = [u \in Users |-> NoOne]
    /\ saver' = NoFile
    /\ UNCHANGED <<file, sessionClock, saved>>

SessionTick ==
    /\ sessionClock < SessionMaxClock
    /\ sessionClock' = sessionClock + 1
    /\ UNCHANGED <<session, user, file, saver, saved>>

SessionNext ==
    \/ SessionTick \/ Written \/ WriteFails \/ DeleteFile \/ Crash
    \/ \E o \in Objects : Save(o) \/ Load(o) \/ \E u \in Users : Stamp(u, o)
    \/ \E u \in Users : Count(u)

SessionSpec == SessionInit /\ [][SessionNext]_sessionVars

-----------------------------------------------------------------------------
(* Properties.                                                             *)

Counting(o) == {u \in Users : user[u] = o}

\* No request is lost: the count of a session is behind by exactly the calls
\* that have yet to add theirs.
CountExact ==
    \A o \in Objects : session[o].alive
        => session[o].count + Cardinality(Counting(o)) = session[o].began

\* What Load brings back is what the last Save that succeeded was given: a Save
\* that a crash or a full disk cuts short neither comes back in part, nor leaves
\* a session behind that looks as if it had never been used, and after Delete
\* nothing comes back.
RestoredIsSaved ==
    [][\A o \in Objects : session[o] = Dead /\ session'[o].alive
          => /\ saved # NoFile
             /\ session'[o].lastUsed = saved.lastUsed
             /\ session'[o].count = saved.count]_sessionVars

\* "Request count and last-used time are updated atomically": a file never has
\* the time of a request that it does not count.
SavedTogether == file.kind = "whole" => file.count = file.began
===============================================================================
