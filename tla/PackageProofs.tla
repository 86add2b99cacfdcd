---------------------------- MODULE PackageProofs ----------------------------
(***************************************************************************)
(* The components that share no state with each other, each for its own    *)
(* specification and for any values of its constants: the cache of site    *)
(* intelligence, the generic pool, its health tracker, the retry pipeline, *)
(* sessions and their files, and what NewClient builds and Close closes;   *)
(* and all of them together, with Cloudflare and the retry tracker, as     *)
(* MCPackages composes them.                                               *)
(***************************************************************************)
EXTENDS MCPackages, RetryTrackerProofs, CloudflareProofs, FiniteSetTheorems, SequenceTheorems,
        WellFoundedInduction, TLAPS

-----------------------------------------------------------------------------
(* Sessions.                                                               *)

\* Only a request of a session that is alive is yet to be counted.
CountedAlive == \A u \in Users : user[u] # NoOne => session[user[u]].alive

\* A file that can be read is the one the last successful Save wrote.
FileSaved == file.kind = "whole" => file = saved

SessionInv == SessionTypeOK /\ CountedAlive /\ CountExact /\ FileSaved

\* A request that begins is one more to count, of its object alone.
LEMMA OneMoreToCount ==
    ASSUME SessionTypeOK, NEW u \in Users, user[u] = NoOne, NEW o \in Objects,
           user' = [user EXCEPT ![u] = o]
    PROVE  /\ Cardinality(Counting(o)) \in Nat
           /\ Cardinality(Counting(o)') = Cardinality(Counting(o)) + 1
           /\ \A p \in Objects \ {o} : Counting(p)' = Counting(p)
<1>1. IsFiniteSet(Users) /\ NoOne \notin Objects  BY SessionAssumption
<1>2. user \in [Users -> Objects \cup {NoOne}]  BY DEF SessionTypeOK
<1>3. IsFiniteSet(Counting(o)) /\ u \notin Counting(o)
  BY <1>1, FS_Subset DEF Counting
<1>4. Counting(o)' = Counting(o) \cup {u}  BY <1>2 DEF Counting
<1>5. \A p \in Objects \ {o} : Counting(p)' = Counting(p)  BY <1>1, <1>2 DEF Counting
<1>6. Cardinality(Counting(o) \cup {u}) = Cardinality(Counting(o)) + 1
  BY <1>3, FS_AddElement
<1> QED  BY <1>3, <1>4, <1>5, <1>6, FS_CardinalityType

\* A request that is counted is one less to count, of its object alone.
LEMMA OneLessToCount ==
    ASSUME SessionTypeOK, NEW u \in Users, NEW o \in Objects, user[u] = o,
           user' = [user EXCEPT ![u] = NoOne]
    PROVE  /\ Cardinality(Counting(o)) \in Nat
           /\ Cardinality(Counting(o)') = Cardinality(Counting(o)) - 1
           /\ \A p \in Objects \ {o} : Counting(p)' = Counting(p)
<1>1. IsFiniteSet(Users) /\ NoOne \notin Objects  BY SessionAssumption
<1>2. user \in [Users -> Objects \cup {NoOne}]  BY DEF SessionTypeOK
<1>3. IsFiniteSet(Counting(o)) /\ u \in Counting(o)
  BY <1>1, FS_Subset DEF Counting
<1>4. Counting(o)' = Counting(o) \ {u}  BY <1>1, <1>2 DEF Counting
<1>5. \A p \in Objects \ {o} : Counting(p)' = Counting(p)  BY <1>1, <1>2 DEF Counting
<1>6. Cardinality(Counting(o) \ {u}) = Cardinality(Counting(o)) - 1
  BY <1>3, FS_RemoveElement
<1> QED  BY <1>3, <1>4, <1>5, <1>6, FS_CardinalityType

\* A session nobody has used has nothing to count.
LEMMA NothingToCount ==
    ASSUME NEW o \in Objects, \A u \in Users : user[u] # o
    PROVE  Cardinality(Counting(o)) = 0
<1>1. Counting(o) = {}  BY DEF Counting
<1> QED  BY <1>1, FS_EmptySet

\* The first session of the ID is new.
LEMMA SessionInitInv == SessionInit => SessionInv
<1> SUFFICES ASSUME SessionInit PROVE SessionInv  OBVIOUS
<1>1. PICK o \in Objects :
         session = [p \in Objects |->
                       IF p = o THEN [alive |-> TRUE, lastUsed |-> 0, count |-> 0, began |-> 0]
                       ELSE Dead]
  BY DEF SessionInit
<1>2. SessionTypeOK
  BY <1>1, SessionAssumption DEF SessionInit, SessionTypeOK, Live
<1>3. CountedAlive  BY DEF SessionInit, CountedAlive
<1>4. \A p \in Objects : Cardinality(Counting(p)) = 0
  BY NothingToCount, SessionAssumption DEF SessionInit
<1>5. CountExact  BY <1>1, <1>4 DEF CountExact, Dead
<1>6. FileSaved  BY DEF SessionInit, FileSaved
<1> QED  BY <1>2, <1>3, <1>5, <1>6 DEF SessionInv

\* Do stamps the time.
LEMMA StampStep ==
    ASSUME SessionInv, NEW u \in Users, NEW o \in Objects, Stamp(u, o)
    PROVE  SessionInv'
<1>1. SessionTypeOK /\ CountedAlive /\ CountExact /\ FileSaved  BY DEF SessionInv
<1>2. /\ session \in [Objects -> Live \cup {Dead}]
      /\ user \in [Users -> Objects \cup {NoOne}] /\ sessionClock \in Nat
      /\ user[u] = NoOne /\ session[o].alive
      /\ user' = [user EXCEPT ![u] = o]
      /\ session' = [session EXCEPT ![o].lastUsed = sessionClock, ![o].began = @ + 1]
      /\ UNCHANGED <<file, saver, sessionClock, saved>>
  BY <1>1, SessionAssumption DEF Stamp, SessionTypeOK
<1>3. session[o] \in Live  BY <1>2 DEF Dead
<1>4. /\ session'[o] = [session[o] EXCEPT !.lastUsed = sessionClock, !.began = @ + 1]
      /\ \A p \in Objects \ {o} : session'[p] = session[p]
  BY <1>2
<1>5. /\ session'[o] \in Live /\ session'[o].alive
      /\ session'[o].count = session[o].count /\ session'[o].began = session[o].began + 1
  BY <1>2, <1>3, <1>4 DEF Live
<1>6. SessionTypeOK'  BY <1>1, <1>2, <1>5 DEF SessionTypeOK
<1>7. CountedAlive'
  <2>1. \A v \in Users \ {u} : user'[v] = user[v]  BY <1>2
  <2>2. \A p \in Objects : session[p].alive => session'[p].alive  BY <1>4, <1>5
  <2>3. user'[u] = o  BY <1>2
  <2> QED  BY <1>1, <1>2, <1>5, <2>1, <2>2, <2>3 DEF CountedAlive
<1>8. CountExact'
  <2>1. /\ Cardinality(Counting(o)) \in Nat
        /\ Cardinality(Counting(o)') = Cardinality(Counting(o)) + 1
        /\ \A p \in Objects \ {o} : Counting(p)' = Counting(p)
    BY <1>1, <1>2, OneMoreToCount
  <2>2. session[o].count + Cardinality(Counting(o)) = session[o].began
    BY <1>1, <1>2 DEF CountExact
  <2>3. session'[o].count + Cardinality(Counting(o)') = session'[o].began
    <3>1. session[o].count \in Nat /\ session[o].began \in Nat  BY <1>3 DEF Live
    <3>2. session'[o].count = session[o].count /\ session'[o].began = session[o].began + 1
      BY <1>5
    <3> QED  BY <2>1, <2>2, <3>1, <3>2
  <2>4. \A p \in Objects \ {o} : session'[p].alive
           => session'[p].count + Cardinality(Counting(p)') = session'[p].began
    BY <1>1, <1>4, <2>1 DEF CountExact
  <2>5. \A p \in Objects : session'[p].alive
           => session'[p].count + Cardinality(Counting(p)') = session'[p].began
    BY <2>3, <2>4
  <2> QED  BY <2>5 DEF CountExact
<1>9. FileSaved'  BY <1>1, <1>2 DEF FileSaved
<1> QED  BY <1>6, <1>7, <1>8, <1>9 DEF SessionInv

\* Do counts the request.
LEMMA CountStep ==
    ASSUME SessionInv, NEW u \in Users, NEW o \in Objects, user[u] = o, Count(u)
    PROVE  SessionInv'
<1>1. SessionTypeOK /\ CountedAlive /\ CountExact /\ FileSaved  BY DEF SessionInv
<1>2. /\ session \in [Objects -> Live \cup {Dead}]
      /\ user \in [Users -> Objects \cup {NoOne}] /\ user[u] # NoOne
      /\ user' = [user EXCEPT ![u] = NoOne]
      /\ session' = [session EXCEPT ![o].count = @ + 1]
      /\ UNCHANGED <<file, saver, sessionClock, saved>>
  BY <1>1 DEF Count, SessionTypeOK
<1>3. session[o].alive  BY <1>1, <1>2 DEF CountedAlive
<1>4. session[o] \in Live  BY <1>2, <1>3 DEF Dead
<1>5. /\ session'[o] = [session[o] EXCEPT !.count = @ + 1]
      /\ \A p \in Objects \ {o} : session'[p] = session[p]
  BY <1>2
<1>6. /\ session'[o] \in Live /\ session'[o].alive
      /\ session'[o].count = session[o].count + 1 /\ session'[o].began = session[o].began
      /\ session[o].count \in Nat /\ session[o].began \in Nat
  <2>1. session[o].count \in Nat /\ session[o].began \in Nat  BY <1>4 DEF Live
  <2>2. session'[o] \in Live /\ session'[o].alive
    <3>1. session[o].count + 1 \in Nat  BY <2>1
    <3>2. session'[o] \in Live  BY <1>4, <1>5, <3>1 DEF Live
    <3> QED  BY <3>2 DEF Live
  <2>3. session'[o].count = session[o].count + 1 /\ session'[o].began = session[o].began
    BY <1>4, <1>5 DEF Live
  <2> QED  BY <2>1, <2>2, <2>3 DEF Live
<1>7. SessionTypeOK'  BY <1>1, <1>2, <1>6 DEF SessionTypeOK
<1>8. CountedAlive'
  <2>1. user'[u] = NoOne /\ \A v \in Users \ {u} : user'[v] = user[v]  BY <1>2
  <2>2. \A v \in Users : user[v] # NoOne => user[v] \in Objects  BY <1>2
  <2>3. \A p \in Objects : session[p].alive => session'[p].alive  BY <1>5, <1>6
  <2> QED  BY <1>1, <2>1, <2>2, <2>3 DEF CountedAlive
<1>9. CountExact'
  <2>1. /\ Cardinality(Counting(o)) \in Nat
        /\ Cardinality(Counting(o)') = Cardinality(Counting(o)) - 1
        /\ \A p \in Objects \ {o} : Counting(p)' = Counting(p)
    BY <1>1, <1>2, OneLessToCount
  <2>2. session[o].count + Cardinality(Counting(o)) = session[o].began
    BY <1>1, <1>3 DEF CountExact
  <2>3. session'[o].count + Cardinality(Counting(o)') = session'[o].began
    <3>1. /\ session[o].count \in Nat /\ session[o].began \in Nat
          /\ session'[o].count = session[o].count + 1 /\ session'[o].began = session[o].began
      BY <1>6
    <3> QED  BY <2>1, <2>2, <3>1
  <2>4. \A p \in Objects \ {o} : session'[p].alive
           => session'[p].count + Cardinality(Counting(p)') = session'[p].began
    BY <1>1, <1>5, <2>1 DEF CountExact
  <2>5. \A p \in Objects : session'[p].alive
           => session'[p].count + Cardinality(Counting(p)') = session'[p].began
    BY <2>3, <2>4
  <2> QED  BY <2>5 DEF CountExact
<1>10. FileSaved'  BY <1>1, <1>2 DEF FileSaved
<1> QED  BY <1>7, <1>8, <1>9, <1>10 DEF SessionInv

\* Load brings back a session that has nothing to count yet.
LEMMA LoadStep ==
    ASSUME SessionInv, NEW o \in Objects, Load(o)
    PROVE  SessionInv'
<1>1. SessionTypeOK /\ CountedAlive /\ CountExact /\ FileSaved  BY DEF SessionInv
<1>2. /\ session \in [Objects -> Live \cup {Dead}]
      /\ session[o] = Dead /\ file \in Snapshot
      /\ session' = [session EXCEPT ![o] = Restored(file)]
      /\ UNCHANGED <<user, file, saver, sessionClock, saved>>
  BY <1>1 DEF Load, SessionTypeOK, NoFile, Torn
<1>3. /\ session'[o] = Restored(file)
      /\ \A p \in Objects \ {o} : session'[p] = session[p]
  BY <1>2
<1>4. /\ session'[o] \in Live /\ session'[o].alive
      /\ session'[o].count = file.count /\ session'[o].began = file.count /\ file.count \in Nat
  BY <1>2, <1>3 DEF Restored, Live, Snapshot
<1>5. ~session[o].alive  BY <1>2 DEF Dead
<1>6. \A u \in Users : user[u] # o
  BY <1>1, <1>5, SessionAssumption DEF CountedAlive
<1>7. SessionTypeOK'  BY <1>1, <1>2, <1>4 DEF SessionTypeOK
<1>8. CountedAlive'
  <2>1. \A u \in Users : user[u] # NoOne => user[u] \in Objects  BY <1>1 DEF SessionTypeOK
  <2> QED  BY <1>1, <1>2, <1>3, <1>6, <2>1 DEF CountedAlive
<1>9. CountExact'
  <2>1. Cardinality(Counting(o)) = 0  BY <1>6, NothingToCount
  <2>2. \A p \in Objects : Counting(p)' = Counting(p)  BY <1>2 DEF Counting
  <2>3. \A p \in Objects : session'[p].alive
           => session'[p].count + Cardinality(Counting(p)') = session'[p].began
    <3>1. CountExact /\ \A p \in Objects \ {o} : session'[p] = session[p]  BY <1>1, <1>3
    <3>2. \A p \in Objects \ {o} : session'[p].alive
             => session'[p].count + Cardinality(Counting(p)') = session'[p].began
      BY <2>2, <3>1 DEF CountExact
    <3>3. session'[o].count + Cardinality(Counting(o)') = session'[o].began
      <4>1. Cardinality(Counting(o)') = 0  BY <2>1, <2>2
      <4> QED  BY <1>4, <4>1
    <3> QED  BY <3>2, <3>3
  <2> QED  BY <2>3 DEF CountExact
<1>10. FileSaved'  BY <1>1, <1>2 DEF FileSaved
<1> QED  BY <1>7, <1>8, <1>9, <1>10 DEF SessionInv

\* The store touches no session, and a crash leaves none.
LEMMA StoreStep ==
    ASSUME SessionInv,
           \/ SessionTick \/ Written \/ WriteFails \/ DeleteFile \/ Crash
           \/ \E o \in Objects : Save(o)
           \/ UNCHANGED sessionVars
    PROVE  SessionInv'
<1>1. SessionTypeOK /\ CountedAlive /\ CountExact /\ FileSaved  BY DEF SessionInv
<1>2. CASE Crash
  <2>1. /\ \A o \in Objects : session'[o] = Dead
        /\ user' = [u \in Users |-> NoOne] /\ saver' = NoFile
        /\ session' = [o \in Objects |-> Dead] /\ UNCHANGED <<file, sessionClock, saved>>
    BY <1>2 DEF Crash
  <2>2. SessionTypeOK'  BY <1>1, <2>1 DEF SessionTypeOK
  <2>3. CountedAlive'  BY <2>1 DEF CountedAlive
  <2>4. CountExact'  BY <2>1 DEF CountExact, Dead
  <2>5. FileSaved'  BY <1>1, <2>1 DEF FileSaved
  <2> QED  BY <2>2, <2>3, <2>4, <2>5 DEF SessionInv
<1>3. CASE \/ SessionTick \/ Written \/ WriteFails \/ DeleteFile
           \/ \E o \in Objects : Save(o)
           \/ UNCHANGED sessionVars
  <2>1. UNCHANGED <<session, user>>
    BY <1>3 DEF SessionTick, Written, WriteFails, DeleteFile, Save, sessionVars
  <2>2. /\ file' \in Snapshot \cup {NoFile, Torn} /\ saver' \in Snapshot \cup {NoFile}
        /\ saved' \in Snapshot \cup {NoFile} /\ sessionClock' \in 0..SessionMaxClock
    <3>1. CASE SessionTick  BY <1>1, <3>1, SessionAssumption DEF SessionTick, SessionTypeOK
    <3>2. CASE Written  BY <1>1, <3>2 DEF Written, SessionTypeOK
    <3>3. CASE WriteFails \/ DeleteFile  BY <1>1, <3>3 DEF WriteFails, DeleteFile, SessionTypeOK
    <3>4. ASSUME NEW o \in Objects, Save(o)
          PROVE  /\ file' \in Snapshot \cup {NoFile, Torn} /\ saver' \in Snapshot \cup {NoFile}
                 /\ saved' \in Snapshot \cup {NoFile} /\ sessionClock' \in 0..SessionMaxClock
      <4>1. session[o] \in Live  BY <1>1, <3>4 DEF Save, SessionTypeOK, Dead
      <4>2. Whole(session[o]) \in Snapshot  BY <4>1 DEF Whole, Live, Snapshot
      <4> QED  BY <1>1, <3>4, <4>2 DEF Save, SessionTypeOK
    <3>5. CASE UNCHANGED sessionVars  BY <1>1, <3>5 DEF sessionVars, SessionTypeOK
    <3> QED  BY <1>3, <3>1, <3>2, <3>3, <3>4, <3>5
  <2>3. SessionTypeOK'  BY <1>1, <2>1, <2>2 DEF SessionTypeOK
  <2>4. CountedAlive'  BY <1>1, <2>1 DEF CountedAlive
  <2>5. CountExact'  BY <1>1, <2>1 DEF CountExact, Counting
  <2>6. FileSaved'
    <3>1. CASE Written  BY <3>1 DEF Written, FileSaved
    <3>2. CASE DeleteFile  BY <3>2 DEF DeleteFile, FileSaved, NoFile
    <3>3. ASSUME NEW o \in Objects, Save(o) PROVE FileSaved'
      BY <3>3 DEF Save, FileSaved, Torn
    <3>4. CASE SessionTick \/ WriteFails \/ UNCHANGED sessionVars
      BY <1>1, <3>4 DEF SessionTick, WriteFails, sessionVars, FileSaved
    <3> QED  BY <1>3, <3>1, <3>2, <3>3, <3>4
  <2> QED  BY <2>3, <2>4, <2>5, <2>6 DEF SessionInv
<1> QED  BY <1>2, <1>3

\* SessionInv is inductive.
LEMMA SessionStep == SessionInv /\ [SessionNext]_sessionVars => SessionInv'
<1> SUFFICES ASSUME SessionInv, [SessionNext]_sessionVars PROVE SessionInv'  OBVIOUS
<1>1. ASSUME NEW u \in Users, Count(u) PROVE SessionInv'
  <2>1. user[u] \in Objects  BY <1>1 DEF Count, SessionInv, SessionTypeOK
  <2> QED  BY <1>1, <2>1, CountStep
<1> QED  BY <1>1, StampStep, LoadStep, StoreStep DEF SessionNext

\* The invariant of sessions holds throughout.
LEMMA SessionInvariant == SessionSpec => []SessionInv
BY SessionInitInv, SessionStep, PTL DEF SessionSpec

\* No request of Do is lost by the count, whichever goroutines count it and
\* whatever is saved, restored or lost in between.
THEOREM CountExactHolds == SessionSpec => []CountExact
<1>1. SessionInv => CountExact  BY DEF SessionInv
<1> QED  BY <1>1, SessionInvariant, PTL

\* Load brings back what the last successful Save was given, or nothing: no
\* crash, failed write or Delete lets a file of anything else be read.
THEOREM RestoredIsSavedHolds == SessionSpec => RestoredIsSaved
<1>1. ASSUME SessionInv, SessionNext, NEW o \in Objects, session[o] = Dead, session'[o].alive
      PROVE  /\ saved # NoFile
             /\ session'[o].lastUsed = saved.lastUsed /\ session'[o].count = saved.count
  <2>1. /\ session \in [Objects -> Live \cup {Dead}] /\ CountedAlive /\ FileSaved
        /\ user \in [Users -> Objects \cup {NoOne}] /\ ~session[o].alive /\ ~Dead.alive
    BY <1>1 DEF SessionInv, SessionTypeOK, Dead
  <2>2. session'[o] # session[o]  BY <1>1, <2>1
  <2>3. ~\E u \in Users, p \in Objects : Stamp(u, p)  BY <2>1, <2>2 DEF Stamp
  <2>4. ~\E u \in Users : Count(u)
    <3> SUFFICES ASSUME NEW u \in Users, Count(u) PROVE FALSE  OBVIOUS
    <3>1. session[user[u]].alive  BY <2>1 DEF Count, CountedAlive
    <3> QED  BY <2>1, <2>2, <3>1 DEF Count
  <2>5. ~(SessionTick \/ Written \/ WriteFails \/ DeleteFile \/ \E p \in Objects : Save(p))
    BY <2>2 DEF SessionTick, Written, WriteFails, DeleteFile, Save
  <2>6. ~Crash  BY <1>1, <2>1 DEF Crash
  <2>7. PICK p \in Objects : Load(p)  BY <1>1, <2>3, <2>4, <2>5, <2>6 DEF SessionNext
  <2>8. p = o  BY <2>1, <2>2, <2>7 DEF Load
  <2>9. file.kind = "whole" /\ session'[o] = Restored(file)  BY <2>1, <2>7, <2>8 DEF Load
  <2>10. file = saved  BY <2>1, <2>9 DEF FileSaved
  <2>11. saved # NoFile  BY <2>9, <2>10 DEF NoFile
  <2> QED  BY <2>9, <2>10, <2>11 DEF Restored
<1>2. SessionInv /\ [SessionNext]_sessionVars =>
         [\A o \in Objects : session[o] = Dead /\ session'[o].alive
             => /\ saved # NoFile
                /\ session'[o].lastUsed = saved.lastUsed
                /\ session'[o].count = saved.count
         ]_sessionVars
  BY <1>1
<1> QED  BY <1>2, SessionInvariant, PTL DEF SessionSpec, RestoredIsSaved

-----------------------------------------------------------------------------
(* The cache of site intelligence.                                         *)

\* One caller leads at a time, and only that one analyzes and stores.
OnlyLeader == \A g \in Getters : get[g].at \in {"lead", "analyze", "store"} <=> flight = g

\* Who joins a flight is answered as if it had asked when the flight began.
JoinedSince ==
    \A g \in Getters :
        get[g].at = "joined" => flight # Nobody /\ get[g].since = get[flight].since

\* The leader analyzes an entry that has expired, and what it stores is newer
\* than that by the TTL, and than its own question.
InTime ==
    \A g \in Getters :
        /\ get[g].since <= intelClock
        /\ get[g].at = "analyze" => ~Fresh
        /\ get[g].at = "store" =>
              /\ get[g].got \in get[g].since..intelClock
              /\ entry # None => get[g].got - entry >= IntelTTL

IntelInv == IntelTypeOK /\ OnlyLeader /\ JoinedSince /\ InTime /\ FreshWhenAsked

\* What moving on changes of a caller.
LEMMA GoEffect ==
    ASSUME IntelTypeOK, NEW g \in Getters,
           NEW at \in {"out", "missed", "lead", "analyze", "store", "joined", "done"}, Go(g, at)
    PROVE  /\ get' \in [Getters -> GetType]
           /\ get'[g].at = at /\ get'[g].got = get[g].got /\ get'[g].since = get[g].since
           /\ \A h \in Getters \ {g} : get'[h] = get[h]
<1>1. get \in [Getters -> GetType] /\ get[g] \in GetType  BY DEF IntelTypeOK
<1>2. get' = [get EXCEPT ![g].at = at]  BY DEF Go
<1>3. get'[g] = [get[g] EXCEPT !.at = at]  BY <1>1, <1>2
<1>4. get'[g] \in GetType  BY <1>1, <1>3 DEF GetType
<1>5. get'[g].at = at /\ get'[g].got = get[g].got /\ get'[g].since = get[g].since
  BY <1>1, <1>3 DEF GetType
<1> QED  BY <1>1, <1>2, <1>4, <1>5

\* What the end of a flight changes of its leader and of those who joined it.
LEMMA LandEffect ==
    ASSUME IntelTypeOK, OnlyLeader, NEW g \in Getters, flight = g,
           NEW r \in Nat \cup {None, Failed}, Land(g, r)
    PROVE  /\ get' \in [Getters -> GetType] /\ flight' = Nobody
           /\ \A h \in Getters : get'[h].since = get[h].since
           /\ \A h \in Getters : h = g \/ get[h].at = "joined"
                                    => get'[h].at = "done" /\ get'[h].got = r
           /\ \A h \in Getters : h # g /\ get[h].at # "joined" => get'[h] = get[h]
           /\ \A h \in Getters : get'[h].at \notin {"lead", "analyze", "store", "joined"}
<1>1. get \in [Getters -> GetType]  BY DEF IntelTypeOK
<1>2. /\ flight' = Nobody
      /\ get' = [h \in Getters |->
                    IF h = g \/ get[h].at = "joined"
                    THEN [get[h] EXCEPT !.at = "done", !.got = r] ELSE get[h]]
  BY DEF Land
<1>3. ASSUME NEW h \in Getters, h = g \/ get[h].at = "joined"
      PROVE  /\ get'[h] \in GetType /\ get'[h].since = get[h].since
             /\ get'[h].at = "done" /\ get'[h].got = r
  <2>1. get[h] \in GetType  BY <1>1
  <2>2. get'[h] = [get[h] EXCEPT !.at = "done", !.got = r]  BY <1>2, <1>3
  <2> DEFINE a == [get[h] EXCEPT !.at = "done"]
  <2>3. a \in GetType /\ a.at = "done" /\ a.since = get[h].since  BY <2>1 DEF GetType
  <2>4. get'[h] = [a EXCEPT !.got = r]  BY <2>1, <2>2 DEF GetType
  <2> HIDE DEF a
  <2>5. get'[h] \in GetType  BY <2>3, <2>4 DEF GetType
  <2>6. get'[h].at = a.at /\ get'[h].since = a.since /\ get'[h].got = r
    BY <2>3, <2>4 DEF GetType
  <2> QED  BY <2>3, <2>5, <2>6
<1>4. \A h \in Getters : h # g /\ get[h].at # "joined" => get'[h] = get[h]  BY <1>2
<1>5. get' \in [Getters -> GetType]
  <2>1. \A h \in Getters : get'[h] \in GetType  BY <1>1, <1>3, <1>4
  <2> QED  BY <1>2, <2>1
<1>6. \A h \in Getters : get'[h].at \notin {"lead", "analyze", "store", "joined"}
  BY <1>3, <1>4 DEF OnlyLeader
<1> QED  BY <1>2, <1>3, <1>4, <1>5, <1>6

\* Nobody has asked yet.
LEMMA IntelInitInv == IntelInit => IntelInv
<1> SUFFICES ASSUME IntelInit PROVE IntelInv  OBVIOUS
<1> USE SiteIntelAssumption
<1>1. IntelTypeOK
  BY DEF IntelInit, IntelTypeOK, GetType, None, Failed
<1>2. \A g \in Getters : get[g].at = "out" /\ get[g].since = 0  BY DEF IntelInit
<1>3. flight = Nobody /\ intelClock = 0  BY DEF IntelInit
<1> QED
  BY <1>1, <1>2, <1>3 DEF IntelInv, OnlyLeader, JoinedSince, InTime, FreshWhenAsked

\* The first look.
LEMMA AskStep ==
    ASSUME IntelInv, NEW g \in Getters, Ask(g)
    PROVE  IntelInv'
<1> USE SiteIntelAssumption
<1>1. IntelTypeOK /\ OnlyLeader /\ JoinedSince /\ InTime /\ FreshWhenAsked  BY DEF IntelInv
<1>2. /\ get \in [Getters -> GetType] /\ get[g].at \in {"out", "done"} /\ intelClock \in Nat
      /\ UNCHANGED <<entry, flight, intelClock>>
      /\ \A h \in Getters \ {g} : get'[h] = get[h]
  BY <1>1 DEF Ask, IntelTypeOK
<1>3. get'[g] = IF Fresh THEN [at |-> "done", got |-> entry, since |-> intelClock]
                ELSE [at |-> "missed", got |-> None, since |-> intelClock]
  BY <1>2 DEF Ask
<1>4. /\ get'[g] \in GetType /\ get'[g].at \in {"done", "missed"} /\ get'[g].since = intelClock
      /\ get'[g].at = "done" => Fresh /\ get'[g].got = entry
  BY <1>1, <1>2, <1>3 DEF GetType, IntelTypeOK
<1>5. IntelTypeOK'
  <2>1. get' \in [Getters -> GetType]  BY <1>2, <1>4 DEF Ask
  <2> QED  BY <1>1, <1>2, <2>1 DEF IntelTypeOK
<1>6. flight # g  BY <1>1, <1>2 DEF OnlyLeader
<1>7. OnlyLeader'  BY <1>1, <1>2, <1>4, <1>6 DEF OnlyLeader
<1>8. JoinedSince'
  <2>1. flight # Nobody => flight \in Getters \ {g}  BY <1>1, <1>6 DEF IntelTypeOK
  <2> QED  BY <1>1, <1>2, <1>4, <2>1 DEF JoinedSince
<1>9. InTime'
  <2>1. Fresh' <=> Fresh  BY <1>2 DEF Fresh
  <2> QED  BY <1>1, <1>2, <1>4, <2>1 DEF InTime
<1>10. FreshWhenAsked'
  <2>1. get'[g].at = "done" => get'[g].since - get'[g].got < IntelTTL
    BY <1>4 DEF Fresh
  <2> QED  BY <1>1, <1>2, <2>1 DEF FreshWhenAsked
<1> QED  BY <1>5, <1>7, <1>8, <1>9, <1>10 DEF IntelInv

\* Leading a flight, or joining one.
LEMMA FlyStep ==
    ASSUME IntelInv, NEW g \in Getters, Fly(g)
    PROVE  IntelInv'
<1> USE SiteIntelAssumption
<1>1. IntelTypeOK /\ OnlyLeader /\ JoinedSince /\ InTime /\ FreshWhenAsked  BY DEF IntelInv
<1>2. /\ get \in [Getters -> GetType] /\ get[g].at = "missed" /\ get[g] \in GetType
      /\ UNCHANGED <<entry, intelClock>>
  BY <1>1 DEF Fly, IntelTypeOK
<1>3. flight # g  BY <1>1, <1>2 DEF OnlyLeader
<1>4. Fresh' <=> Fresh  BY <1>2 DEF Fresh
<1>5. CASE flight = Nobody
  <2>1. flight' = g /\ Go(g, "lead")  BY <1>5 DEF Fly
  <2>2. /\ get' \in [Getters -> GetType]
        /\ get'[g].at = "lead" /\ get'[g].got = get[g].got /\ get'[g].since = get[g].since
        /\ \A h \in Getters \ {g} : get'[h] = get[h]
    BY <1>1, <2>1, GoEffect
  <2>3. IntelTypeOK'  BY <1>1, <1>2, <2>1, <2>2 DEF IntelTypeOK
  <2>4. OnlyLeader'  BY <1>1, <1>5, <2>1, <2>2 DEF OnlyLeader
  <2>5. JoinedSince'  BY <1>1, <1>5, <2>2 DEF JoinedSince
  <2>6. InTime'  BY <1>1, <1>2, <1>4, <2>2 DEF InTime
  <2>7. FreshWhenAsked'  BY <1>1, <2>2 DEF FreshWhenAsked
  <2> QED  BY <2>3, <2>4, <2>5, <2>6, <2>7 DEF IntelInv
<1>6. CASE flight # Nobody
  <2>1. /\ flight \in Getters \ {g} /\ UNCHANGED flight
        /\ get' = [get EXCEPT ![g].at = "joined", ![g].since = get[flight].since]
    BY <1>1, <1>3, <1>6 DEF Fly, IntelTypeOK
  <2>2. /\ get'[g] = [get[g] EXCEPT !.at = "joined", !.since = get[flight].since]
        /\ \A h \in Getters \ {g} : get'[h] = get[h]
    BY <1>2, <2>1
  <2> DEFINE a == [get[g] EXCEPT !.at = "joined"]
  <2>3. a \in GetType /\ a.at = "joined" /\ a.since = get[g].since  BY <1>2 DEF GetType
  <2>4. get'[g] = [a EXCEPT !.since = get[flight].since]  BY <1>2, <2>2 DEF GetType
  <2>5. get[flight].since \in Nat  BY <1>2, <2>1 DEF GetType
  <2> HIDE DEF a
  <2>6. /\ get'[g] \in GetType /\ get'[g].at = "joined"
        /\ get'[g].since = get[flight].since
    <3>1. get'[g] \in GetType  BY <2>3, <2>4, <2>5 DEF GetType
    <3>2. get'[g].at = a.at /\ get'[g].since = get[flight].since
      BY <2>3, <2>4 DEF GetType
    <3> QED  BY <2>3, <3>1, <3>2
  <2>7. get' \in [Getters -> GetType]
    <3>1. get' = [get EXCEPT ![g] = get'[g]]  BY <1>2, <2>1
    <3> QED  BY <1>2, <2>6, <3>1
  <2>8. IntelTypeOK'  BY <1>1, <1>2, <2>1, <2>7 DEF IntelTypeOK
  <2>9. OnlyLeader'  BY <1>1, <1>2, <2>1, <2>2, <2>6 DEF OnlyLeader
  <2>10. JoinedSince'  BY <1>1, <1>6, <2>1, <2>2, <2>6 DEF JoinedSince
  <2>11. InTime'
    <3>1. get'[g].since <= intelClock  BY <1>1, <2>1, <2>6 DEF InTime
    <3> QED  BY <1>1, <1>2, <1>4, <2>2, <2>6, <3>1 DEF InTime
  <2>12. FreshWhenAsked'  BY <1>1, <2>2, <2>6 DEF FreshWhenAsked
  <2> QED  BY <2>8, <2>9, <2>10, <2>11, <2>12 DEF IntelInv
<1> QED  BY <1>5, <1>6

\* The end of a flight, with an entry that had not expired or with an error.
LEMMA LandStep ==
    ASSUME IntelInv, NEW g \in Getters, flight = g,
           NEW r \in Nat \cup {None, Failed}, Land(g, r),
           r = Failed \/ get[g].since - r < IntelTTL,
           entry' \in 0..IntelMaxClock \cup {None}, UNCHANGED intelClock
    PROVE  IntelInv'
<1> USE SiteIntelAssumption
<1>1. IntelTypeOK /\ OnlyLeader /\ JoinedSince /\ InTime /\ FreshWhenAsked  BY DEF IntelInv
<1>2. /\ get' \in [Getters -> GetType] /\ flight' = Nobody
      /\ \A h \in Getters : get'[h].since = get[h].since
      /\ \A h \in Getters : h = g \/ get[h].at = "joined"
                               => get'[h].at = "done" /\ get'[h].got = r
      /\ \A h \in Getters : h # g /\ get[h].at # "joined" => get'[h] = get[h]
      /\ \A h \in Getters : get'[h].at \notin {"lead", "analyze", "store", "joined"}
  BY <1>1, LandEffect
<1>3. IntelTypeOK'  BY <1>1, <1>2 DEF IntelTypeOK
<1>4. OnlyLeader'  BY <1>2 DEF OnlyLeader
<1>5. JoinedSince'  BY <1>2 DEF JoinedSince
<1>6. InTime'  BY <1>1, <1>2 DEF InTime
<1>7. FreshWhenAsked'
  <2>1. ASSUME NEW h \in Getters, h = g \/ get[h].at = "joined", r # Failed
        PROVE  get'[h].since - get'[h].got < IntelTTL
    <3>1. get[h].since = get[g].since  BY <1>1, <2>1 DEF JoinedSince
    <3> QED  BY <1>2, <2>1, <3>1
  <2>2. \A h \in Getters : h = g \/ get[h].at = "joined" => get'[h].got = r  BY <1>2
  <2>3. \A h \in Getters : get'[h].at = "done" /\ get'[h].got # Failed
                              => get'[h].since - get'[h].got < IntelTTL
    BY <1>1, <1>2, <2>1, <2>2 DEF FreshWhenAsked
  <2> QED  BY <2>3 DEF FreshWhenAsked
<1> QED  BY <1>3, <1>4, <1>5, <1>6, <1>7 DEF IntelInv

\* The leader moves on to analyze, or has analyzed.
LEMMA LeadStep ==
    ASSUME IntelInv, NEW g \in Getters, UNCHANGED <<entry, flight, intelClock>>, flight = g,
           get' \in [Getters -> GetType], \A h \in Getters \ {g} : get'[h] = get[h],
           get'[g].since = get[g].since,
           \/ get'[g].at = "analyze" /\ ~Fresh
           \/ get[g].at = "analyze" /\ get'[g].at = "store" /\ get'[g].got = intelClock
    PROVE  IntelInv'
<1> USE SiteIntelAssumption
<1>1. IntelTypeOK /\ OnlyLeader /\ JoinedSince /\ InTime /\ FreshWhenAsked  BY DEF IntelInv
<1>2. IntelTypeOK'  BY <1>1 DEF IntelTypeOK
<1>3. OnlyLeader'  BY <1>1 DEF OnlyLeader
<1>4. JoinedSince'
  <2>1. flight # Nobody /\ get'[flight].since = get[flight].since  BY <1>1
  <2> QED  BY <1>1, <2>1 DEF JoinedSince
<1>5. InTime'
  <2>1. Fresh' <=> Fresh  BY DEF Fresh
  <2>2. \A h \in Getters \ {g} : get[h].at # "analyze" /\ get[h].at # "store"
    BY <1>1 DEF OnlyLeader
  <2>3. get'[g].since <= intelClock  BY <1>1 DEF InTime
  <2>4. CASE get'[g].at = "analyze" /\ ~Fresh  BY <1>1, <2>1, <2>2, <2>3, <2>4 DEF InTime
  <2>5. CASE get[g].at = "analyze" /\ get'[g].at = "store" /\ get'[g].got = intelClock
    <3>1. entry # None => intelClock - entry >= IntelTTL
      BY <1>1, <2>5 DEF InTime, Fresh, IntelTypeOK, None
    <3>2. intelClock \in get'[g].since..intelClock
      <4>1. get'[g].since \in Nat /\ intelClock \in Nat
        BY <1>1 DEF IntelTypeOK, GetType
      <4> QED  BY <2>3, <4>1
    <3> QED  BY <1>1, <2>1, <2>2, <2>3, <2>5, <3>1, <3>2 DEF InTime
  <2> QED  BY <2>4, <2>5
<1>6. FreshWhenAsked'  BY <1>1 DEF FreshWhenAsked
<1> QED  BY <1>2, <1>3, <1>4, <1>5, <1>6 DEF IntelInv

\* Every step of Get, of any caller, keeps the invariant.
LEMMA IntelStep == IntelInv /\ [IntelNext]_intelVars => IntelInv'
<1> SUFFICES ASSUME IntelInv, [IntelNext]_intelVars PROVE IntelInv'  OBVIOUS
<1> USE SiteIntelAssumption
<1>0. IntelTypeOK /\ OnlyLeader /\ JoinedSince /\ InTime /\ FreshWhenAsked  BY DEF IntelInv
<1>1. CASE IntelTick
  <2>1. /\ intelClock' = intelClock + 1 /\ intelClock' \in 0..IntelMaxClock
        /\ UNCHANGED <<entry, flight, get>>
    BY <1>0, <1>1 DEF IntelTick, IntelTypeOK
  <2>2. \A g \in Getters : get[g] \in GetType  BY <1>0 DEF IntelTypeOK
  <2>3. intelClock \in Nat /\ entry \in Int  BY <1>0 DEF IntelTypeOK, None
  <2>4. ~Fresh => ~Fresh'  BY <2>1, <2>3 DEF Fresh, None
  <2>5. InTime'
    <3> SUFFICES ASSUME NEW g \in Getters
                 PROVE  /\ get[g].since <= intelClock'
                        /\ get[g].at = "analyze" => ~Fresh'
                        /\ get[g].at = "store" =>
                              /\ get[g].got \in get[g].since..intelClock'
                              /\ entry # None => get[g].got - entry >= IntelTTL
      BY <2>1 DEF InTime
    <3>1. get[g].since \in Nat /\ get[g].since <= intelClock
      BY <1>0, <2>2 DEF InTime, GetType
    <3> QED  BY <1>0, <2>1, <2>3, <2>4, <3>1 DEF InTime
  <2>6. IntelTypeOK'  BY <1>0, <2>1 DEF IntelTypeOK
  <2>7. OnlyLeader' /\ JoinedSince' /\ FreshWhenAsked'
    BY <1>0, <2>1 DEF OnlyLeader, JoinedSince, FreshWhenAsked
  <2> QED  BY <2>5, <2>6, <2>7 DEF IntelInv
<1>2. ASSUME NEW g \in Getters, LookAgain(g) PROVE IntelInv'
  <2>1. get[g].at = "lead" /\ flight = g /\ UNCHANGED <<entry, intelClock>>
    BY <1>0, <1>2 DEF LookAgain, OnlyLeader
  <2>2. CASE Fresh /\ Land(g, entry)
    <3>1. entry \in Nat /\ intelClock \in Nat /\ get[g].since \in Nat
      BY <1>0, <2>2 DEF Fresh, IntelTypeOK, GetType
    <3>2. get[g].since - entry < IntelTTL  BY <1>0, <2>2, <3>1 DEF Fresh, InTime
    <3>3. entry' \in 0..IntelMaxClock \cup {None}  BY <1>0, <2>1 DEF IntelTypeOK
    <3> QED  BY <2>1, <2>2, <3>1, <3>2, <3>3, LandStep
  <2>3. CASE ~Fresh /\ Go(g, "analyze") /\ UNCHANGED flight
    BY <1>0, <2>1, <2>3, GoEffect, LeadStep
  <2> QED  BY <1>2, <2>2, <2>3 DEF LookAgain
<1>3. ASSUME NEW g \in Getters, AnalyzeFails(g) PROVE IntelInv'
  <2>1. flight = g /\ Land(g, Failed) /\ UNCHANGED <<entry, intelClock>>
    BY <1>0, <1>3 DEF AnalyzeFails, OnlyLeader
  <2>2. entry' \in 0..IntelMaxClock \cup {None}  BY <1>0, <2>1 DEF IntelTypeOK
  <2> QED  BY <2>1, <2>2, LandStep
<1>4. ASSUME NEW g \in Getters, Analyzed(g) PROVE IntelInv'
  <2>1. /\ flight = g /\ get[g].at = "analyze" /\ UNCHANGED <<entry, flight, intelClock>>
        /\ get' = [get EXCEPT ![g].at = "store", ![g].got = intelClock]
        /\ get \in [Getters -> GetType] /\ intelClock \in Nat
    BY <1>0, <1>4 DEF Analyzed, OnlyLeader, IntelTypeOK
  <2>2. /\ get'[g] = [get[g] EXCEPT !.at = "store", !.got = intelClock]
        /\ \A h \in Getters \ {g} : get'[h] = get[h]
    BY <2>1
  <2> DEFINE a == [get[g] EXCEPT !.at = "store"]
  <2>3. a \in GetType /\ a.at = "store" /\ a.since = get[g].since  BY <2>1 DEF GetType
  <2>4. get'[g] = [a EXCEPT !.got = intelClock]  BY <2>1, <2>2 DEF GetType
  <2> HIDE DEF a
  <2>5. get'[g] \in GetType  BY <2>1, <2>3, <2>4 DEF GetType
  <2>6. get'[g].at = a.at /\ get'[g].since = a.since /\ get'[g].got = intelClock
    BY <2>3, <2>4 DEF GetType
  <2>7. get' \in [Getters -> GetType]
    <3>1. get' = [get EXCEPT ![g] = get'[g]]  BY <2>1
    <3> QED  BY <2>1, <2>5, <3>1
  <2> QED  BY <2>1, <2>2, <2>3, <2>6, <2>7, LeadStep
<1>5. ASSUME NEW g \in Getters, Store(g) PROVE IntelInv'
  <2>1. /\ flight = g /\ get[g].at = "store" /\ UNCHANGED intelClock
        /\ entry' = get[g].got /\ Land(g, get[g].got)
    BY <1>0, <1>5 DEF Store, OnlyLeader
  <2>2. get[g].got \in get[g].since..intelClock  BY <1>0, <2>1 DEF InTime
  <2>3. get[g].since \in Nat /\ intelClock \in 0..IntelMaxClock
    BY <1>0 DEF IntelTypeOK, GetType
  <2>4. get[g].got \in Nat /\ entry' \in 0..IntelMaxClock /\ get[g].since - get[g].got < IntelTTL
    BY <2>1, <2>2, <2>3
  <2> QED  BY <2>1, <2>4, LandStep
<1>6. CASE UNCHANGED intelVars
  BY <1>0, <1>6
     DEF intelVars, IntelInv, IntelTypeOK, OnlyLeader, JoinedSince, InTime, Fresh, FreshWhenAsked
<1> QED  BY <1>1, <1>2, <1>3, <1>4, <1>5, <1>6, AskStep, FlyStep DEF IntelNext

\* The invariant of the cache holds throughout.
LEMMA IntelInvariant == IntelSpec => []IntelInv
BY IntelInitInv, IntelStep, PTL DEF IntelSpec

\* Get returns no entry that had expired when the call began, or when the call
\* whose flight it joined did.
THEOREM FreshWhenAskedHolds == IntelSpec => []FreshWhenAsked
<1>1. IntelInv => FreshWhenAsked  BY DEF IntelInv
<1> QED  BY <1>1, IntelInvariant, PTL

\* Concurrent callers of Get replace an entry once per TTL at most.
THEOREM AnalyzedOnExpiryHolds == IntelSpec => AnalyzedOnExpiry
<1>1. ASSUME IntelInv, IntelNext, entry' # entry, entry # None
      PROVE  entry' - entry >= IntelTTL
  <2>1. PICK g \in Getters : Store(g)
    BY <1>1 DEF IntelNext, IntelTick, Ask, Fly, LookAgain, AnalyzeFails, Analyzed
  <2> QED  BY <1>1, <2>1 DEF Store, IntelInv, InTime
<1>2. IntelInv /\ [IntelNext]_intelVars =>
         [entry' # entry /\ entry # None => entry' - entry >= IntelTTL]_intelVars
  BY <1>1
<1> QED  BY <1>2, IntelInvariant, PTL DEF IntelSpec, AnalyzedOnExpiry

-----------------------------------------------------------------------------
(* The health tracker.                                                     *)

\* A trip is paid for by a success, but for the one that is under way.
TripsPaid ==
    /\ tracker.failed <= tracker.total
    /\ ~tracker.tripped => tracker.trips <= tracker.total - tracker.failed
    /\ tracker.trips <= tracker.total - tracker.failed + 1

HealthTrackerInv == HealthTypeOK /\ TripsPaid /\ LatchedInOutage /\ CooldownInRange

\* The powers of two are natural numbers, 1 at least, and grow: as the number of
\* subsets of 1..n does.
LEMMA PowerOfTwo ==
    ASSUME NEW n \in Nat
    PROVE  2 ^ n \in Nat /\ 2 ^ n >= 1 /\ 2 ^ n <= 2 ^ (n + 1)
<1>1. \A k \in Nat : IsFiniteSet(1..k) /\ Cardinality(1..k) = k
  <2> SUFFICES ASSUME NEW k \in Nat
               PROVE  IsFiniteSet(1..k) /\ Cardinality(1..k) = k
    OBVIOUS
  <2>1. IsFiniteSet(1..k) /\ Cardinality(1..k) = IF 1 > k THEN 0 ELSE k - 1 + 1
    BY FS_Interval
  <2> QED  BY <2>1
<1>2. \A k \in Nat : IsFiniteSet(SUBSET (1..k)) /\ Cardinality(SUBSET (1..k)) = 2 ^ k
  <2> SUFFICES ASSUME NEW k \in Nat
               PROVE  IsFiniteSet(SUBSET (1..k)) /\ Cardinality(SUBSET (1..k)) = 2 ^ k
    OBVIOUS
  <2> DEFINE S == 1..k
  <2>1. IsFiniteSet(S) /\ Cardinality(S) = k  BY <1>1
  <2> HIDE DEF S
  <2>2. IsFiniteSet(SUBSET S) /\ Cardinality(SUBSET S) = 2 ^ Cardinality(S)
    BY <2>1, FS_SUBSET
  <2> QED  BY <2>1, <2>2 DEF S
<1> DEFINE A == SUBSET (1..n)
           B == SUBSET (1..(n + 1))
<1>3. /\ IsFiniteSet(A) /\ Cardinality(A) = 2 ^ n
      /\ IsFiniteSet(B) /\ Cardinality(B) = 2 ^ (n + 1)
  <2>1. n + 1 \in Nat  OBVIOUS
  <2> QED  BY <1>2, <2>1
<1>4. A \subseteq B /\ A # {}
  <2>1. 1..n \subseteq 1..(n + 1)  OBVIOUS
  <2>2. {} \in A  OBVIOUS
  <2> QED  BY <2>1, <2>2
<1> HIDE DEF A, B
<1>5. Cardinality(A) \in Nat /\ Cardinality(A) # 0 /\ Cardinality(A) <= Cardinality(B)
  BY <1>3, <1>4, FS_CardinalityType, FS_EmptySet, FS_Subset
<1> QED  BY <1>3, <1>5

\* The wait before the jitter lies between the first and the largest one.
LEMMA WaitRange ==
    ASSUME NEW trip \in Nat
    PROVE  /\ CappedWait(trip) \in Nat /\ CappedWait(trip) <= MaxWait
           /\ InitialWait <= MaxWait => InitialWait <= CappedWait(trip)
<1> DEFINE n == IF trip < 1 THEN 0 ELSE trip - 1
           wait == InitialWait * 2 ^ n
<1>1. InitialWait \in Nat /\ MaxWait \in Nat  BY HealthTrackerAssumption
<1>2. n \in Nat  OBVIOUS
<1> HIDE DEF n
<1>3. 2 ^ n \in Nat /\ 2 ^ n >= 1  BY <1>2, PowerOfTwo
<1> DEFINE m == 2 ^ n
<1> HIDE DEF m
<1>4. m \in Nat /\ m >= 1 /\ wait = InitialWait * m  BY <1>3 DEF m
<1> HIDE DEF wait
<1>5. wait \in Nat /\ wait >= InitialWait  BY <1>1, <1>4
<1>6. CappedWait(trip) = IF wait > MaxWait THEN MaxWait ELSE wait
  BY DEF CappedWait, wait, n
<1> QED  BY <1>1, <1>5, <1>6

\* A product grows with its factor.
LEMMA ProductGrows ==
    ASSUME NEW a \in Nat, NEW b \in Nat, a <= b, NEW k \in Nat
    PROVE  a * k <= b * k
<1>1. PICK d \in Nat : b = a + d
  <2>1. b - a \in Nat /\ b = a + (b - a)  OBVIOUS
  <2> QED  BY <2>1
<1>2. b * k = a * k + d * k /\ d * k \in Nat /\ a * k \in Nat  BY <1>1
<1> QED  BY <1>2

\* What the jitter makes of it.
LEMMA JitterRange ==
    ASSUME NEW trip \in Nat, NEW d \in JitteredWaits(trip)
    PROVE  /\ d \in Nat
           /\ InitialWait <= MaxWait =>
                 /\ (d + 1) * JitterDen > InitialWait * (JitterDen - JitterNum)
                 /\ d * JitterDen <= MaxWait * (JitterDen + JitterNum)
<1> DEFINE w == CappedWait(trip)
           up == JitterDen + JitterNum
           down == JitterDen - JitterNum
           x == d * JitterDen
           y == (d + 1) * JitterDen
<1>1. InitialWait \in Nat /\ MaxWait \in Nat /\ JitterDen \in Nat \ {0} /\ JitterNum \in Nat
  BY HealthTrackerAssumption
<1>2. w \in Nat /\ w <= MaxWait /\ (InitialWait <= MaxWait => InitialWait <= w)
  BY WaitRange
<1>3. d \in 0..(w * up) /\ x <= w * up /\ y > w * down
  BY DEF JitteredWaits, Jittered
<1> HIDE DEF w
<1>4. up \in Nat /\ down \in Int /\ w * up \in Nat  BY <1>1, <1>2
<1>5. d \in Nat  BY <1>3, <1>4
<1>6. x \in Nat /\ y \in Nat /\ y >= 1
  <2>1. d * JitterDen \in Nat /\ (d + 1) * JitterDen = d * JitterDen + JitterDen  BY <1>1, <1>5
  <2> QED  BY <1>1, <2>1
<1> HIDE DEF up, down, x, y
<1>7. x <= MaxWait * up
  <2>1. w * up <= MaxWait * up  BY <1>1, <1>2, <1>4, ProductGrows
  <2>2. MaxWait * up \in Nat  BY <1>1, <1>4
  <2> QED  BY <1>3, <1>4, <1>6, <2>1, <2>2
<1>8. ASSUME InitialWait <= w PROVE y > InitialWait * down
  <2>1. CASE down \in Nat
    <3>1. InitialWait * down <= w * down  BY <1>1, <1>2, <1>8, <2>1, ProductGrows
    <3>2. InitialWait * down \in Nat /\ w * down \in Nat  BY <1>1, <1>2, <2>1
    <3> QED  BY <1>3, <1>6, <3>1, <3>2
  <2>2. CASE down \notin Nat
    <3>1. -down \in Nat  BY <1>4, <2>2
    <3>2. InitialWait * (-down) \in Nat  BY <1>1, <3>1
    <3>3. InitialWait * down <= 0  BY <1>1, <1>4, <3>2
    <3>4. InitialWait * down \in Int  BY <1>1, <1>4
    <3> QED  BY <1>6, <3>3, <3>4
  <2> QED  BY <2>1, <2>2
<1> QED  BY <1>2, <1>5, <1>7, <1>8 DEF x, y, up, down

\* No result has been recorded.
LEMMA HealthTrackerInitInv == HealthInit => HealthTrackerInv
<1> SUFFICES ASSUME HealthInit PROVE HealthTrackerInv  OBVIOUS
<1>1. HealthTypeOK  BY DEF HealthInit, HealthTypeOK, NewTracker, Tracker
<1>2. TripsPaid  BY DEF HealthInit, TripsPaid, NewTracker
<1>3. LatchedInOutage
  BY HealthTrackerAssumption DEF HealthInit, LatchedInOutage, NewTracker
<1>4. CooldownInRange  BY DEF HealthInit, CooldownInRange
<1> QED  BY <1>1, <1>2, <1>3, <1>4 DEF HealthTrackerInv

\* The fields of the counters are numbers.
LEMMA TrackerFields ==
    ASSUME HealthTypeOK
    PROVE  /\ tracker.total \in Nat /\ tracker.failed \in Nat
           /\ tracker.consecutive \in Nat /\ tracker.trips \in Nat
BY DEF HealthTypeOK, Tracker

\* A success ends the outage.
LEMMA RecordSuccessStep ==
    ASSUME HealthTrackerInv, RecordSuccess
    PROVE  HealthTrackerInv'
<1>1. HealthTypeOK /\ TripsPaid /\ LatchedInOutage /\ CooldownInRange
  BY DEF HealthTrackerInv
<1>2. /\ tracker.total \in Nat /\ tracker.failed \in Nat
      /\ tracker.consecutive \in Nat /\ tracker.trips \in Nat
  BY <1>1, TrackerFields
<1>3. /\ tracker' = [tracker EXCEPT !.total = @ + 1, !.consecutive = 0, !.tripped = FALSE]
      /\ UNCHANGED <<worker, cooldown>>
  BY DEF RecordSuccess
<1>4. tracker \in Tracker  BY <1>1 DEF HealthTypeOK
<1>5. tracker' = [total |-> tracker.total + 1, failed |-> tracker.failed,
                  consecutive |-> 0, trips |-> tracker.trips, tripped |-> FALSE]
  BY <1>3, <1>4 DEF Tracker
<1>6. HealthTypeOK'
  <2>1. tracker' \in Tracker  BY <1>2, <1>5 DEF Tracker
  <2> QED  BY <1>1, <1>3, <2>1 DEF HealthTypeOK
<1>7. /\ tracker'.total = tracker.total + 1 /\ tracker'.failed = tracker.failed
      /\ tracker'.consecutive = 0 /\ tracker'.trips = tracker.trips
  BY <1>5
<1>8. tracker.failed <= tracker.total /\ tracker.trips <= tracker.total - tracker.failed + 1
  BY <1>1 DEF TripsPaid
<1>9. TripsPaid'
  <2>1. /\ tracker'.failed <= tracker'.total
        /\ tracker'.trips <= tracker'.total - tracker'.failed
        /\ tracker'.trips <= tracker'.total - tracker'.failed + 1
    BY <1>2, <1>7, <1>8
  <2> QED  BY <2>1 DEF TripsPaid
<1>10. LatchedInOutage'
  <2>1. ~(tracker'.consecutive >= MaxConsecFailures)
    BY <1>7, HealthTrackerAssumption
  <2> QED  BY <2>1 DEF LatchedInOutage
<1>11. CooldownInRange'  BY <1>1, <1>3 DEF CooldownInRange
<1> QED  BY <1>6, <1>9, <1>10, <1>11 DEF HealthTrackerInv

\* A failure over the threshold is a trip when none is under way.
LEMMA RecordFailureStep ==
    ASSUME HealthTrackerInv, NEW w \in TripWorkers, RecordFailure(w)
    PROVE  HealthTrackerInv'
<1> DEFINE t == [tracker EXCEPT !.total = @ + 1, !.failed = @ + 1, !.consecutive = @ + 1]
<1>1. HealthTypeOK /\ TripsPaid /\ LatchedInOutage /\ CooldownInRange
  BY DEF HealthTrackerInv
<1>2. /\ tracker.total \in Nat /\ tracker.failed \in Nat
      /\ tracker.consecutive \in Nat /\ tracker.trips \in Nat
  BY <1>1, TrackerFields
<1>3. /\ tracker' = IF NewTrip(t) THEN [t EXCEPT !.trips = @ + 1, !.tripped = TRUE] ELSE t
      /\ worker' = [worker EXCEPT ![w].at = IF OverThreshold(t) THEN "told" ELSE @]
      /\ UNCHANGED cooldown
  BY DEF RecordFailure
<1>4. tracker \in Tracker  BY <1>1 DEF HealthTypeOK
<1>5. t = [total |-> tracker.total + 1, failed |-> tracker.failed + 1,
           consecutive |-> tracker.consecutive + 1, trips |-> tracker.trips,
           tripped |-> tracker.tripped]
  <2>1. DOMAIN tracker = {"total", "failed", "consecutive", "trips", "tripped"}
    BY <1>4 DEF Tracker
  <2>2. t = [x \in {"total", "failed", "consecutive", "trips", "tripped"} |->
                IF x \in {"total", "failed", "consecutive"} THEN tracker[x] + 1 ELSE tracker[x]]
    BY <2>1
  <2> QED  BY <2>2
<1> HIDE DEF t
<1>6. t \in Tracker  BY <1>2, <1>4, <1>5 DEF Tracker
<1>7. worker' \in [TripWorkers -> [at : {"idle", "told", "read"}, trip : Nat]]
  <2>1. PICK a \in {"told", worker[w].at} : worker' = [worker EXCEPT ![w].at = a]
    BY <1>3
  <2> QED  BY <1>1, <2>1 DEF HealthTypeOK
<1>8. tracker.failed <= tracker.total  BY <1>1 DEF TripsPaid
<1>9. CASE NewTrip(t)
  <2>1. tracker' = [total |-> tracker.total + 1, failed |-> tracker.failed + 1,
                    consecutive |-> tracker.consecutive + 1, trips |-> tracker.trips + 1,
                    tripped |-> TRUE]
    BY <1>3, <1>5, <1>9
  <2>2. tracker' \in Tracker  BY <1>2, <2>1 DEF Tracker
  <2>3. ~tracker.tripped  BY <1>5, <1>9 DEF NewTrip
  <2>4. tracker.trips <= tracker.total - tracker.failed  BY <1>1, <2>3 DEF TripsPaid
  <2>5. /\ tracker'.failed <= tracker'.total
        /\ tracker'.trips <= tracker'.total - tracker'.failed + 1
    <3>1. /\ tracker'.total = tracker.total + 1 /\ tracker'.failed = tracker.failed + 1
          /\ tracker'.trips = tracker.trips + 1
      BY <2>1
    <3> QED  BY <1>2, <1>8, <2>4, <3>1
  <2>6. tracker'.tripped = TRUE  BY <2>1
  <2>7. TripsPaid' /\ LatchedInOutage'  BY <2>5, <2>6 DEF TripsPaid, LatchedInOutage
  <2>8. HealthTypeOK'  BY <1>1, <1>3, <1>7, <2>2 DEF HealthTypeOK
  <2>9. CooldownInRange'  BY <1>1, <1>3 DEF CooldownInRange
  <2> QED  BY <2>7, <2>8, <2>9 DEF HealthTrackerInv
<1>10. CASE ~NewTrip(t)
  <2>1. tracker' = t  BY <1>3, <1>10
  <2>2. /\ tracker'.total = tracker.total + 1 /\ tracker'.failed = tracker.failed + 1
        /\ tracker'.trips = tracker.trips
    BY <1>5, <2>1
  <2>3. tracker'.tripped <=> tracker.tripped  BY <1>5, <2>1
  <2>4. /\ tracker'.total - tracker'.failed = tracker.total - tracker.failed
        /\ tracker'.failed <= tracker'.total
    BY <1>2, <1>8, <2>2
  <2>5. TripsPaid'
    <3>1. tracker.trips <= tracker.total - tracker.failed + 1  BY <1>1 DEF TripsPaid
    <3>2. ~tracker.tripped => tracker.trips <= tracker.total - tracker.failed
      BY <1>1 DEF TripsPaid
    <3>3. ~tracker'.tripped => tracker'.trips <= tracker'.total - tracker'.failed
      BY <2>2, <2>3, <2>4, <3>2
    <3> QED  BY <2>2, <2>4, <3>1, <3>3 DEF TripsPaid
  <2>6. LatchedInOutage'
    <3> SUFFICES ASSUME t.consecutive >= MaxConsecFailures PROVE t.tripped
      BY <2>1 DEF LatchedInOutage
    <3>1. OverThreshold(t)  BY DEF OverThreshold
    <3> QED  BY <1>10, <3>1 DEF NewTrip
  <2>7. HealthTypeOK'  BY <1>1, <1>3, <1>6, <1>7, <2>1 DEF HealthTypeOK
  <2>8. CooldownInRange'  BY <1>1, <1>3 DEF CooldownInRange
  <2> QED  BY <2>5, <2>6, <2>7, <2>8 DEF HealthTrackerInv
<1> QED  BY <1>9, <1>10

\* Every call of every worker keeps the invariant.
LEMMA HealthTrackerStep == HealthTrackerInv /\ [HealthNext]_healthVars => HealthTrackerInv'
<1> SUFFICES ASSUME HealthTrackerInv, [HealthNext]_healthVars PROVE HealthTrackerInv'
  OBVIOUS
<1>0. HealthTypeOK /\ TripsPaid /\ LatchedInOutage /\ CooldownInRange
  BY DEF HealthTrackerInv
<1>1. CASE Reset
  <2>1. tracker' = NewTracker /\ UNCHANGED <<worker, cooldown>>  BY <1>1 DEF Reset
  <2>2. HealthTypeOK'  BY <1>0, <2>1 DEF HealthTypeOK, NewTracker, Tracker
  <2>3. TripsPaid'  BY <2>1 DEF TripsPaid, NewTracker
  <2>4. LatchedInOutage'
    BY <2>1, HealthTrackerAssumption DEF LatchedInOutage, NewTracker
  <2>5. CooldownInRange'  BY <1>0, <2>1 DEF CooldownInRange
  <2> QED  BY <2>2, <2>3, <2>4, <2>5 DEF HealthTrackerInv
<1>2. ASSUME NEW w \in TripWorkers, TripCount(w) \/ SoftDeactivateBackoff(w)
      PROVE  HealthTrackerInv'
  <2>1. UNCHANGED tracker  BY <1>2 DEF TripCount, SoftDeactivateBackoff
  <2>2. TripsPaid' /\ LatchedInOutage'  BY <1>0, <2>1 DEF TripsPaid, LatchedInOutage
  <2>3. CASE TripCount(w)
    <3>1. tracker.trips \in Nat  BY <1>0, TrackerFields
    <3>2. HealthTypeOK'  BY <1>0, <2>1, <2>3, <3>1 DEF TripCount, HealthTypeOK
    <3>3. CooldownInRange'  BY <1>0, <2>3 DEF TripCount, CooldownInRange
    <3> QED  BY <2>2, <3>2, <3>3 DEF HealthTrackerInv
  <2>4. CASE SoftDeactivateBackoff(w)
    <3>1. worker[w].trip \in Nat  BY <1>0 DEF HealthTypeOK
    <3>2. cooldown' \in JitteredWaits(worker[w].trip)  BY <2>4 DEF SoftDeactivateBackoff
    <3>3. /\ cooldown' \in Nat
          /\ InitialWait <= MaxWait =>
                /\ (cooldown' + 1) * JitterDen > InitialWait * (JitterDen - JitterNum)
                /\ cooldown' * JitterDen <= MaxWait * (JitterDen + JitterNum)
      BY <3>1, <3>2, JitterRange
    <3>4. HealthTypeOK'
      BY <1>0, <2>1, <2>4, <3>3 DEF SoftDeactivateBackoff, HealthTypeOK
    <3>5. CooldownInRange'  BY <3>3 DEF CooldownInRange
    <3> QED  BY <2>2, <3>4, <3>5 DEF HealthTrackerInv
  <2> QED  BY <1>2, <2>3, <2>4
<1>3. CASE UNCHANGED healthVars
  BY <1>0, <1>3
     DEF healthVars, HealthTrackerInv, HealthTypeOK, TripsPaid, LatchedInOutage, CooldownInRange
<1> QED  BY <1>1, <1>2, <1>3, RecordSuccessStep, RecordFailureStep DEF HealthNext

\* The backoff of an item grows once per outage, every long row of failures is
\* part of a trip, and every cooldown is within the jitter of the range from the
\* first wait to the largest: with any number of workers.
THEOREM BackoffSoundHolds == HealthSpec => []BackoffSound
<1>1. HealthTrackerInv => BackoffSound
  BY DEF HealthTrackerInv, TripsPaid, BackoffSound, OneTripPerOutage
<1>2. HealthSpec => []HealthTrackerInv
  BY HealthTrackerInitInv, HealthTrackerStep, PTL DEF HealthSpec
<1> QED  BY <1>1, <1>2, PTL

-----------------------------------------------------------------------------
(* Construction and Close.                                                 *)

\* What the options leave behind: a pool of an option that is used is the one
\* that is kept to be closed, and a caller's backend is marked as such.  Only a
\* client that was built is closed.
Configured ==
    /\ made <= options /\ cfg.poolCloser <= made
    /\ cfg.pool >= 1 => cfg.poolCloser = cfg.pool
    /\ cfg.backend = "caller" => cfg.caller
    /\ stage = "built" => client = [poolCloser |-> cfg.poolCloser, doerCloser |-> ~cfg.caller]
    /\ stage # "built" => once = "new" /\ \A c \in Closers : closer[c] = "out"

\* One goroutine at a time is inside Close, and nobody returns before it.
OneInside ==
    \A c \in Closers : /\ closer[c] \in {"pool", "doer"} <=> once = c
                       /\ closer[c] = "returned" => once = "over"

\* How far it is.
ClosedSoFar ==
    /\ once = "new" => closed = << >>
    /\ \A c \in Closers : /\ closer[c] = "pool" => closed = << >>
                          /\ closer[c] = "doer" => ~Closed("doer") /\ cfg.pool \notin running
    /\ once = "over" => cfg.pool \notin running
    /\ Closed("doer") => client.doerCloser

BuildInv == BuildTypeOK /\ Configured /\ OneInside /\ ClosedSoFar /\ ClosedOnce

\* No option has been applied, and nothing runs.
LEMMA BuildInitInv == BuildInit => BuildInv
<1> SUFFICES ASSUME BuildInit PROVE BuildInv  OBVIOUS
<1> USE ConstructionAssumption
<1>1. /\ cfg = DefaultConfig /\ stage = "options" /\ options = 0 /\ made = 0 /\ running = {}
      /\ client = [poolCloser |-> NoPool, doerCloser |-> FALSE]
      /\ closer = [c \in Closers |-> "out"] /\ once = "new" /\ closed = << >>
  BY DEF BuildInit
<1>2. /\ cfg \in Config /\ cfg.poolCloser = 0 /\ cfg.pool = 0 /\ cfg.backend = "default"
  BY <1>1 DEF DefaultConfig, Config, NoPool, Families, Unset
<1>3. client \in [poolCloser : 0..made, doerCloser : BOOLEAN]  BY <1>1 DEF NoPool
<1>4. closed \in Seq({"pool", "doer"}) /\ DOMAIN closed = {}  BY <1>1
<1>5. BuildTypeOK  BY <1>1, <1>2, <1>3, <1>4 DEF BuildTypeOK
<1>6. Configured  BY <1>1, <1>2 DEF Configured
<1>7. OneInside  BY <1>1 DEF OneInside
<1>8. ClosedSoFar /\ ClosedOnce  BY <1>1, <1>4 DEF ClosedSoFar, ClosedOnce, Closed
<1> QED  BY <1>5, <1>6, <1>7, <1>8 DEF BuildInv

\* An option changes the configuration before there is anything to close.
LEMMA OptionStep ==
    ASSUME BuildInv, Option, UNCHANGED <<stage, client, closer, once, closed>>,
           cfg' \in Config, cfg'.poolCloser <= made', cfg'.pool >= 1 => cfg'.poolCloser = cfg'.pool,
           cfg'.backend = "caller" => cfg'.caller,
           made' = made \/ made' = made + 1, running' \subseteq 1..made'
    PROVE  BuildInv'
<1> USE ConstructionAssumption
<1>1. BuildTypeOK /\ Configured /\ OneInside /\ ClosedSoFar /\ ClosedOnce  BY DEF BuildInv
<1>2. stage = "options" /\ options' \in 0..MaxOptions /\ options' = options + 1
  BY <1>1 DEF Option, BuildTypeOK
<1>3. /\ made \in Nat /\ options \in Nat /\ made <= options
      /\ once = "new" /\ (\A c \in Closers : closer[c] = "out") /\ closed = << >>
  BY <1>1, <1>2 DEF BuildTypeOK, Configured, ClosedSoFar
<1>4. made' \in 0..MaxOptions /\ made' <= options' /\ 0..made \subseteq 0..made'
  BY <1>2, <1>3
<1>5. client' \in [poolCloser : 0..made', doerCloser : BOOLEAN]
  <2>1. client \in [poolCloser : 0..made, doerCloser : BOOLEAN]  BY <1>1 DEF BuildTypeOK
  <2> QED  BY <1>4, <2>1
<1>6. BuildTypeOK'  BY <1>1, <1>2, <1>4, <1>5 DEF BuildTypeOK
<1>7. Configured'  BY <1>2, <1>3, <1>4 DEF Configured
<1>8. OneInside'  BY <1>1 DEF OneInside
<1>9. DOMAIN closed' = {}  BY <1>3
<1>10. ClosedSoFar' /\ ClosedOnce'
  BY <1>3, <1>9 DEF ClosedSoFar, ClosedOnce, Closed
<1> QED  BY <1>6, <1>7, <1>8, <1>10 DEF BuildInv

\* The configuration, field by field.
LEMMA ConfigFields ==
    ASSUME BuildInv
    PROVE  /\ cfg = [pool |-> cfg.pool, poolCloser |-> cfg.poolCloser, backend |-> cfg.backend,
                     caller |-> cfg.caller, profile |-> cfg.profile,
                     identity |-> cfg.identity, fetchMode |-> cfg.fetchMode,
                     errors |-> cfg.errors]
           /\ cfg.pool \in Int /\ cfg.poolCloser \in Nat
           /\ cfg.backend \in {"default", "std", "caller"} /\ cfg.caller \in BOOLEAN
           /\ cfg.profile \in Families /\ cfg.identity \in Families \cup {Unset}
           /\ cfg.fetchMode \in BOOLEAN /\ cfg.errors \in BOOLEAN
           /\ made \in Nat /\ cfg.poolCloser <= made
           /\ cfg.pool >= 1 => cfg.poolCloser = cfg.pool
           /\ cfg.backend = "caller" => cfg.caller
           /\ running \subseteq 1..made
<1>1. cfg \in Config  BY DEF BuildInv, BuildTypeOK
<1>2. /\ cfg.pool \in Int /\ cfg.poolCloser \in Nat
      /\ cfg.backend \in {"default", "std", "caller"}
      /\ cfg.profile \in Families /\ cfg.identity \in Families \cup {Unset}
  BY <1>1 DEF Config
<1>3. cfg.caller \in BOOLEAN /\ cfg.fetchMode \in BOOLEAN /\ cfg.errors \in BOOLEAN
  BY <1>1 DEF Config
<1>4. cfg = [pool |-> cfg.pool, poolCloser |-> cfg.poolCloser, backend |-> cfg.backend,
             caller |-> cfg.caller, profile |-> cfg.profile, identity |-> cfg.identity,
             fetchMode |-> cfg.fetchMode, errors |-> cfg.errors]
  BY <1>1 DEF Config
<1>5. made \in Nat /\ running \subseteq 1..made  BY DEF BuildInv, BuildTypeOK
<1> QED  BY <1>2, <1>3, <1>4, <1>5 DEF BuildInv, Configured

\* Every option, whatever was set before it.
LEMMA OptionsStep ==
    ASSUME BuildInv,
           \/ WithProxyPool \/ WithWebshareCountry \/ WithWebshareRotating \/ WebshareFails
           \/ WithBackend \/ WithNilBackend \/ WithStdHTTP \/ WithFetchMode
           \/ \E f \in Families : WithProfile(f) \/ WithIdentity(f)
    PROVE  BuildInv'
<1> DEFINE pool == cfg.pool
           own == cfg.poolCloser
<1>0. cfg \in Config  BY DEF BuildInv, BuildTypeOK
<1>1. /\ pool \in Int /\ own \in Nat /\ made \in Nat /\ own <= made
      /\ pool >= 1 => own = pool
      /\ cfg.backend = "caller" => cfg.caller
      /\ running \subseteq 1..made
  BY ConfigFields
<1> HIDE DEF pool, own
<1>2. ASSUME NEW newCfg \in Config, Set(newCfg), newCfg.poolCloser = own,
             newCfg.pool = pool \/ newCfg.pool = -1,
             newCfg.backend = "caller" => newCfg.caller
      PROVE  BuildInv'
  <2>1. /\ Option /\ cfg' = newCfg /\ UNCHANGED <<stage, made, running, client, closer, once, closed>>
    BY <1>2 DEF Set, Closing
  <2>2. cfg'.pool >= 1 => cfg'.poolCloser = cfg'.pool  BY <1>1, <1>2, <2>1
  <2>3. cfg'.poolCloser <= made'  BY <1>1, <1>2, <2>1
  <2> QED  BY <1>1, <1>2, <2>1, <2>2, <2>3, OptionStep
<1>3. CASE WithProxyPool
  <2> DEFINE n == [cfg EXCEPT !.pool = CallersPool]
  <2>1. /\ n \in Config /\ n.pool = -1 /\ n.poolCloser = own
        /\ n.backend = cfg.backend /\ n.caller = cfg.caller
    BY <1>0 DEF Config, CallersPool, own
  <2> QED  BY <1>1, <1>2, <1>3, <2>1 DEF WithProxyPool
<1>4. ASSUME WithWebshareCountry \/ WithWebshareRotating PROVE BuildInv'
  <2> DEFINE n == [cfg EXCEPT !.pool = made + 1, !.poolCloser = made + 1]
             a == [cfg EXCEPT !.pool = made + 1]
  <2>1. a \in Config /\ a.pool = made + 1 /\ a.backend = cfg.backend /\ a.caller = cfg.caller
    BY <1>0, <1>1 DEF Config
  <2>2. n = [a EXCEPT !.poolCloser = made + 1]  OBVIOUS
  <2> HIDE DEF a
  <2>3. /\ n \in Config /\ n.pool = made + 1 /\ n.poolCloser = made + 1
        /\ n.backend = cfg.backend /\ n.caller = cfg.caller
    <3> HIDE DEF n
    <3>1. made + 1 \in Nat  BY <1>1
    <3>2. n \in Config  BY <2>1, <2>2, <3>1 DEF Config
    <3>3. n.pool = a.pool /\ n.poolCloser = made + 1 /\ n.backend = a.backend /\ n.caller = a.caller
      BY <2>1, <2>2 DEF Config
    <3> QED  BY <2>1, <3>2, <3>3
  <2> HIDE DEF n
  <2>4. /\ Option /\ made' = made + 1 /\ cfg' = n
        /\ running' = running \/ running' = running \cup {made'}
        /\ UNCHANGED <<stage, client, closer, once, closed>>
    <3>1. CASE WithWebshareCountry  BY <3>1 DEF WithWebshareCountry, Closing, n
    <3>2. CASE WithWebshareRotating  BY <3>2 DEF WithWebshareRotating, Closing, n
    <3> QED  BY <1>4, <3>1, <3>2
  <2>5. running' \subseteq 1..made'
    <3>1. 1..made \subseteq 1..made' /\ made' \in 1..made'
      <4>1. made \in Nat /\ made' = made + 1  BY <1>1, <2>4
      <4> QED  BY <4>1
    <3>2. running \subseteq 1..made /\ running' \subseteq running \cup {made'}
      BY <1>1, <2>4
    <3> QED  BY <3>1, <3>2
  <2>6. /\ cfg'.poolCloser <= made' /\ cfg'.pool = cfg'.poolCloser  BY <1>1, <2>3, <2>4
  <2>7. cfg'.backend = "caller" => cfg'.caller  BY <1>1, <2>3, <2>4
  <2> QED  BY <2>3, <2>4, <2>5, <2>6, <2>7, OptionStep
<1>5. CASE WebshareFails
  <2> DEFINE n == [cfg EXCEPT !.errors = TRUE]
  <2>1. /\ n \in Config /\ n.pool = pool /\ n.poolCloser = own
        /\ n.backend = cfg.backend /\ n.caller = cfg.caller
    BY <1>0 DEF Config, pool, own
  <2> QED  BY <1>1, <1>2, <1>5, <2>1 DEF WebshareFails
<1>6. CASE WithBackend
  <2> DEFINE n == [cfg EXCEPT !.backend = "caller", !.caller = TRUE]
  <2>1. n \in Config /\ n.pool = pool /\ n.poolCloser = own /\ n.caller
    BY <1>0 DEF Config, pool, own
  <2> QED  BY <1>2, <1>6, <2>1 DEF WithBackend
<1>7. CASE WithNilBackend
  <2> DEFINE n == [cfg EXCEPT !.backend = "default", !.caller = FALSE]
  <2>1. n \in Config /\ n.pool = pool /\ n.poolCloser = own /\ n.backend = "default"
    BY <1>0 DEF Config, pool, own
  <2> QED  BY <1>2, <1>7, <2>1 DEF WithNilBackend
<1>8. CASE WithStdHTTP
  <2> DEFINE n == [cfg EXCEPT !.backend = "std"]
  <2>1. n \in Config /\ n.pool = pool /\ n.poolCloser = own /\ n.backend = "std"
    BY <1>0 DEF Config, pool, own
  <2> QED  BY <1>2, <1>8, <2>1 DEF WithStdHTTP
<1>9. CASE WithFetchMode
  <2> DEFINE n == [cfg EXCEPT !.fetchMode = TRUE]
  <2>1. /\ n \in Config /\ n.pool = pool /\ n.poolCloser = own
        /\ n.backend = cfg.backend /\ n.caller = cfg.caller
    BY <1>0 DEF Config, pool, own
  <2> QED  BY <1>1, <1>2, <1>9, <2>1 DEF WithFetchMode
<1>10. ASSUME NEW f \in Families, WithProfile(f) PROVE BuildInv'
  <2> DEFINE n == [cfg EXCEPT !.profile = f]
  <2>1. /\ n \in Config /\ n.pool = pool /\ n.poolCloser = own
        /\ n.backend = cfg.backend /\ n.caller = cfg.caller
    BY <1>0 DEF Config, pool, own
  <2> QED  BY <1>1, <1>2, <1>10, <2>1 DEF WithProfile
<1>11. ASSUME NEW f \in Families, WithIdentity(f) PROVE BuildInv'
  <2> DEFINE n == [cfg EXCEPT !.identity = f]
             m == [cfg EXCEPT !.identity = f, !.profile = f]
  <2>1. /\ n \in Config /\ n.pool = pool /\ n.poolCloser = own
        /\ n.backend = cfg.backend /\ n.caller = cfg.caller /\ n.identity = f
    BY <1>0 DEF Config, pool, own
  <2>2. m = [n EXCEPT !.profile = f]  OBVIOUS
  <2> HIDE DEF n
  <2>3. /\ m \in Config /\ m.pool = n.pool /\ m.poolCloser = n.poolCloser
        /\ m.backend = n.backend /\ m.caller = n.caller
    <3> HIDE DEF m
    <3> QED  BY <2>1, <2>2 DEF Config
  <2> HIDE DEF m
  <2>4. Set(m) \/ Set(n)  BY <1>11 DEF WithIdentity, m, n
  <2> QED  BY <1>1, <1>2, <2>1, <2>3, <2>4
<1> QED  BY <1>3, <1>4, <1>5, <1>6, <1>7, <1>8, <1>9, <1>10, <1>11

\* Appending to the history what is not in it.
LEMMA ClosedOneMore ==
    ASSUME BuildTypeOK, ClosedOnce, NEW what \in {"pool", "doer"}, ~Closed(what),
           closed' = Append(closed, what)
    PROVE  /\ closed' \in Seq({"pool", "doer"}) /\ ClosedOnce'
           /\ \A x \in {"pool", "doer"} : Closed(x)' <=> Closed(x) \/ x = what
<1>1. closed \in Seq({"pool", "doer"}) /\ Len(closed) \in Nat /\ DOMAIN closed = 1..Len(closed)
  BY LenProperties DEF BuildTypeOK
<1>2. /\ closed' \in Seq({"pool", "doer"}) /\ Len(closed') = Len(closed) + 1
      /\ closed'[Len(closed) + 1] = what
      /\ \A i \in 1..Len(closed) : closed'[i] = closed[i]
  BY <1>1, AppendProperties
<1>3. DOMAIN closed' = 1..(Len(closed) + 1)  BY <1>2, LenProperties
<1>4. \A i \in 1..Len(closed) : closed[i] # what  BY <1>1 DEF Closed
<1>5. \A i, j \in 1..Len(closed) : closed[i] = closed[j] => i = j  BY <1>1 DEF ClosedOnce
<1>6. ClosedOnce'
  <2> SUFFICES ASSUME NEW i \in 1..(Len(closed) + 1), NEW j \in 1..(Len(closed) + 1),
                      closed'[i] = closed'[j]
               PROVE  i = j
    BY <1>3 DEF ClosedOnce
  <2>1. CASE i = Len(closed) + 1 /\ j = Len(closed) + 1  BY <2>1
  <2>2. CASE i \in 1..Len(closed) /\ j \in 1..Len(closed)  BY <1>2, <1>5, <2>2
  <2>3. CASE i = Len(closed) + 1 /\ j \in 1..Len(closed)  BY <1>2, <1>4, <2>3
  <2>4. CASE j = Len(closed) + 1 /\ i \in 1..Len(closed)  BY <1>2, <1>4, <2>4
  <2> QED  BY <1>1, <2>1, <2>2, <2>3, <2>4
<1>7. ASSUME NEW x \in {"pool", "doer"} PROVE Closed(x)' <=> Closed(x) \/ x = what
  <2>1. ASSUME NEW i \in 1..Len(closed), closed[i] = x PROVE Closed(x)'
    BY <1>1, <1>2, <1>3, <2>1 DEF Closed
  <2>2. x = what => Closed(x)'
    <3>1. Len(closed) + 1 \in DOMAIN closed'  BY <1>1, <1>3
    <3> QED  BY <1>2, <3>1 DEF Closed
  <2>3. ASSUME NEW i \in 1..(Len(closed) + 1), closed'[i] = x PROVE Closed(x) \/ x = what
    <3>1. CASE i \in 1..Len(closed)  BY <1>1, <1>2, <2>3, <3>1 DEF Closed
    <3>2. CASE i = Len(closed) + 1  BY <1>2, <2>3, <3>2
    <3> QED  BY <1>1, <3>1, <3>2
  <2> QED  BY <1>1, <1>3, <2>1, <2>2, <2>3 DEF Closed
<1> QED  BY <1>2, <1>6, <1>7

\* Every step of NewClient and Close keeps the invariant.
LEMMA BuildStep == BuildInv /\ [BuildNext]_buildVars => BuildInv'
<1> SUFFICES ASSUME BuildInv, [BuildNext]_buildVars PROVE BuildInv'  OBVIOUS
<1> USE ConstructionAssumption
<1>0. BuildTypeOK /\ Configured /\ OneInside /\ ClosedSoFar /\ ClosedOnce  BY DEF BuildInv
<1>1. CASE NewClientFails
  <2>1. /\ stage = "options" /\ stage' = "failed"
        /\ UNCHANGED <<cfg, options, made, running, client, closer, once, closed>>
    BY <1>1 DEF NewClientFails, Closing
  <2>2. BuildTypeOK'  BY <1>0, <2>1 DEF BuildTypeOK
  <2>3. Configured'  BY <1>0, <2>1 DEF Configured
  <2>4. OneInside' /\ ClosedSoFar' /\ ClosedOnce'
    BY <1>0, <2>1 DEF OneInside, ClosedSoFar, ClosedOnce, Closed
  <2> QED  BY <2>2, <2>3, <2>4 DEF BuildInv
<1>2. CASE NewClient
  <2>1. /\ stage = "options" /\ stage' = "built"
        /\ client' = [poolCloser |-> cfg.poolCloser, doerCloser |-> ~cfg.caller]
        /\ UNCHANGED <<cfg, options, made, running, closer, once, closed>>
    BY <1>2 DEF NewClient
  <2>2. /\ once = "new" /\ closed = << >> /\ \A c \in Closers : closer[c] = "out"
    BY <1>0, <2>1 DEF Configured, ClosedSoFar
  <2>3. client' \in [poolCloser : 0..made, doerCloser : BOOLEAN]
    <3>1. cfg.poolCloser \in 0..made  BY ConfigFields
    <3>2. (~cfg.caller) \in BOOLEAN  OBVIOUS
    <3> QED  BY <2>1, <3>1, <3>2
  <2>4. BuildTypeOK'  BY <1>0, <2>1, <2>3 DEF BuildTypeOK
  <2>5. Configured'  BY <1>0, <2>1 DEF Configured
  <2>6. OneInside'  BY <1>0, <2>1 DEF OneInside
  <2>7. DOMAIN closed' = {}  BY <2>1, <2>2
  <2>8. ClosedSoFar' /\ ClosedOnce'
    BY <2>1, <2>2, <2>7 DEF ClosedSoFar, ClosedOnce, Closed
  <2> QED  BY <2>4, <2>5, <2>6, <2>8 DEF BuildInv
<1>3. ASSUME NEW c \in Closers, NEW from, NEW to, Step(c, from, to)
      PROVE  /\ closer[c] = from /\ closer'[c] = to
             /\ \A d \in Closers \ {c} : closer'[d] = closer[d]
             /\ to \in {"out", "waiting", "pool", "doer", "returned"} =>
                   closer' \in [Closers -> {"out", "waiting", "pool", "doer", "returned"}]
  BY <1>0, <1>3 DEF Step, BuildTypeOK
<1>4. ASSUME NEW c \in Closers, CloseCall(c) PROVE BuildInv'
  <2>1. /\ stage = "built" /\ closer[c] = "out" /\ closer'[c] = "waiting"
        /\ \A d \in Closers \ {c} : closer'[d] = closer[d]
        /\ closer' \in [Closers -> {"out", "waiting", "pool", "doer", "returned"}]
        /\ UNCHANGED <<cfg, stage, options, made, client, running, once, closed>>
    BY <1>3, <1>4 DEF CloseCall, Built
  <2>2. BuildTypeOK'  BY <1>0, <2>1 DEF BuildTypeOK
  <2>3. Configured'  BY <1>0, <2>1 DEF Configured
  <2>4. OneInside'  BY <1>0, <2>1 DEF OneInside
  <2>5. ClosedSoFar' /\ ClosedOnce'
    BY <1>0, <2>1 DEF ClosedSoFar, ClosedOnce, Closed
  <2> QED  BY <2>2, <2>3, <2>4, <2>5 DEF BuildInv
<1>5. ASSUME NEW c \in Closers, Enter(c) PROVE BuildInv'
  <2>1. /\ closer[c] = "waiting" /\ \A d \in Closers \ {c} : closer'[d] = closer[d]
        /\ closer' \in [Closers -> {"out", "waiting", "pool", "doer", "returned"}]
        /\ UNCHANGED <<cfg, stage, options, made, client, running, closed>>
        /\ \/ once = "new" /\ closer'[c] = "pool" /\ once' = c
           \/ once = "over" /\ closer'[c] = "returned" /\ UNCHANGED once
    BY <1>3, <1>5 DEF Enter, Built
  <2>2. stage = "built"  BY <1>0, <2>1 DEF Configured
  <2>3. BuildTypeOK'  BY <1>0, <2>1 DEF BuildTypeOK
  <2>4. Configured'  BY <1>0, <2>1, <2>2 DEF Configured
  <2>5. \A d \in Closers : d # "new" /\ d # "over"  OBVIOUS
  <2>6. OneInside'  BY <1>0, <2>1, <2>5 DEF OneInside
  <2>7. ClosedSoFar' /\ ClosedOnce'
    BY <1>0, <2>1, <2>5 DEF ClosedSoFar, ClosedOnce, Closed
  <2> QED  BY <2>3, <2>4, <2>6, <2>7 DEF BuildInv
<1>6. ASSUME NEW c \in Closers, ClosePool(c) PROVE BuildInv'
  <2>1. /\ closer[c] = "pool" /\ closer'[c] = "doer"
        /\ \A d \in Closers \ {c} : closer'[d] = closer[d]
        /\ closer' \in [Closers -> {"out", "waiting", "pool", "doer", "returned"}]
        /\ running' = running \ {client.poolCloser}
        /\ closed' = IF client.poolCloser # NoPool THEN Append(closed, "pool") ELSE closed
        /\ UNCHANGED <<cfg, stage, options, made, client, once>>
    BY <1>3, <1>6 DEF ClosePool, Built
  <2>2. /\ stage = "built" /\ once = c /\ closed = << >>
        /\ client.poolCloser = cfg.poolCloser
    BY <1>0, <2>1 DEF Configured, OneInside, ClosedSoFar
  <2>3. ~Closed("pool") /\ ~Closed("doer")
    <3>1. DOMAIN closed = {}  BY <2>2
    <3> QED  BY <3>1 DEF Closed
  <2>4. /\ closed' \in Seq({"pool", "doer"}) /\ ClosedOnce' /\ ~Closed("doer")'
    <3>1. CASE closed' = Append(closed, "pool")
      <4>1. /\ closed' \in Seq({"pool", "doer"}) /\ ClosedOnce'
            /\ \A x \in {"pool", "doer"} : Closed(x)' <=> Closed(x) \/ x = "pool"
        BY <1>0, <2>3, <3>1, ClosedOneMore
      <4> QED  BY <2>3, <4>1
    <3>2. CASE closed' = closed
      BY <1>0, <2>3, <3>2 DEF BuildTypeOK, ClosedOnce, Closed
    <3> QED  BY <2>1, <3>1, <3>2
  <2>5. cfg.pool \notin running'
    <3>1. cfg.pool >= 1 => cfg.poolCloser = cfg.pool  BY ConfigFields
    <3>2. cfg.pool \in running => cfg.pool >= 1  BY ConfigFields
    <3> QED  BY <2>1, <2>2, <3>1, <3>2
  <2>6. BuildTypeOK'  BY <1>0, <2>1, <2>4 DEF BuildTypeOK
  <2>7. Configured'  BY <1>0, <2>1, <2>2 DEF Configured
  <2>8. OneInside'  BY <1>0, <2>1, <2>2 DEF OneInside
  <2>9. ClosedSoFar'
    <3>1. \A d \in Closers \ {c} : closer'[d] \notin {"pool", "doer"}
      BY <1>0, <2>1, <2>2 DEF OneInside
    <3>2. once' # "new" /\ once' # "over"  BY <2>1, <2>2
    <3> QED  BY <2>1, <2>4, <2>5, <3>1, <3>2 DEF ClosedSoFar
  <2> QED  BY <2>4, <2>6, <2>7, <2>8, <2>9 DEF BuildInv
<1>7. ASSUME NEW c \in Closers, CloseDoer(c) PROVE BuildInv'
  <2>1. /\ closer[c] = "doer" /\ closer'[c] = "returned" /\ once' = "over"
        /\ \A d \in Closers \ {c} : closer'[d] = closer[d]
        /\ closer' \in [Closers -> {"out", "waiting", "pool", "doer", "returned"}]
        /\ closed' = IF client.doerCloser THEN Append(closed, "doer") ELSE closed
        /\ UNCHANGED <<cfg, stage, options, made, client, running>>
    BY <1>3, <1>7 DEF CloseDoer, Built
  <2>2. /\ stage = "built" /\ once = c /\ ~Closed("doer") /\ cfg.pool \notin running
    BY <1>0, <2>1 DEF Configured, OneInside, ClosedSoFar
  <2>3. /\ closed' \in Seq({"pool", "doer"}) /\ ClosedOnce'
        /\ Closed("doer")' => client.doerCloser
    <3>1. CASE client.doerCloser
      BY <1>0, <2>1, <2>2, <3>1, ClosedOneMore
    <3>2. CASE ~client.doerCloser
      <4>1. closed' = closed  BY <2>1, <3>2
      <4> QED  BY <1>0, <2>2, <4>1 DEF BuildTypeOK, ClosedOnce, Closed
    <3> QED  BY <3>1, <3>2
  <2>4. BuildTypeOK'  BY <1>0, <2>1, <2>3 DEF BuildTypeOK
  <2>5. Configured'  BY <1>0, <2>1, <2>2 DEF Configured
  <2>6. \A d \in Closers \ {c} : closer'[d] \notin {"pool", "doer"}
    BY <1>0, <2>1, <2>2 DEF OneInside
  <2>7. OneInside'  BY <2>1, <2>6 DEF OneInside
  <2>8. ClosedSoFar'  BY <2>1, <2>2, <2>3, <2>6 DEF ClosedSoFar
  <2> QED  BY <2>3, <2>4, <2>5, <2>7, <2>8 DEF BuildInv
<1>8. CASE UNCHANGED buildVars
  BY <1>0, <1>8 DEF buildVars, BuildInv, BuildTypeOK, Configured, OneInside, ClosedSoFar,
                    ClosedOnce, Closed
<1> QED  BY <1>1, <1>2, <1>4, <1>5, <1>6, <1>7, <1>8, OptionsStep DEF BuildNext

\* Whatever the options and their order, and whoever calls Close: it closes what
\* the client owns, once, and nothing of the caller's.
THEOREM OwnershipHolds == BuildSpec => []Ownership
<1>1. ASSUME BuildInv PROVE Ownership
  <2>1. Configured /\ OneInside /\ ClosedSoFar /\ ClosedOnce  BY <1>1 DEF BuildInv
  <2>2. Closed("doer") => cfg.backend # "caller"
    <3> SUFFICES ASSUME Closed("doer") PROVE cfg.backend # "caller"  OBVIOUS
    <3>1. client.doerCloser /\ closed # << >>
      <4>1. DOMAIN closed # {}  BY DEF Closed
      <4> QED  BY <2>1, <4>1 DEF ClosedSoFar
    <3>2. stage = "built"  BY <2>1, <3>1 DEF Configured, ClosedSoFar
    <3>3. client = [poolCloser |-> cfg.poolCloser, doerCloser |-> ~cfg.caller]
      BY <2>1, <3>2 DEF Configured
    <3>4. ~cfg.caller  BY <3>1, <3>3
    <3> QED  BY <2>1, <3>4 DEF Configured
  <2>3. UsedPoolStopped  BY <2>1 DEF UsedPoolStopped, OneInside, ClosedSoFar
  <2> QED  BY <2>1, <2>2, <2>3 DEF Ownership, CallersBackendKept
<1>2. BuildSpec => []BuildInv  BY BuildInitInv, BuildStep, PTL DEF BuildSpec
<1> QED  BY <1>1, <1>2, PTL

-----------------------------------------------------------------------------
(* The retry pipeline.                                                     *)

\* The backoff of a request that sleeps is that of its attempt, and that of the
\* attempt before it afterwards, as far as it fits a Duration.
BackoffsKept ==
    \A r \in Requests :
        /\ job[r].at = "sleep" =>
              /\ job[r].attempt < MaxRetries
              /\ Exact(job[r].attempt) <= MaxDuration
                    => job[r].backoff = Capped(Exact(job[r].attempt))
        /\ job[r].at \notin {"sleep", "done"} =>
              /\ job[r].attempt = 0 => job[r].backoff = 0
              /\ \A n \in Nat : job[r].attempt = n + 1 /\ Exact(n) <= MaxDuration
                    => job[r].backoff = Capped(Exact(n))

\* A request that was sent after the deadline is not let in again.
LateOnce ==
    \A r \in Requests :
        retryCtx => late[r] <= 1 /\ (late[r] = 1 => job[r].expired /\ job[r].at # "wait")

\* The block outlasts what is asked of every request, and the domain notes the
\* time of the last one.
BlockHolds == sentAt = lastReq /\ \A r \in Requests : held[r] <= blocked

PipeInv == PipeTypeOK /\ BackoffInOrder /\ BackoffsKept /\ LateOnce /\ BlockHolds

\* The exact backoffs grow.
LEMMA ExactGrows ==
    ASSUME NEW n \in Nat
    PROVE  Exact(n) \in Nat /\ Exact(n) <= Exact(n + 1)
<1> DEFINE p == 2 ^ n
           q == 2 ^ (n + 1)
<1>1. p \in Nat /\ p <= q /\ q \in Nat
  <2>1. n + 1 \in Nat  OBVIOUS
  <2> QED  BY <2>1, PowerOfTwo
<1>2. Exact(n) = RetryWait * p /\ Exact(n + 1) = RetryWait * q  BY DEF Exact
<1> HIDE DEF p, q
<1> QED  BY <1>1, <1>2, RetryPipelineAssumption

\* A ceiling keeps the order.
LEMMA CappedInOrder ==
    ASSUME NEW a \in Nat, NEW b \in Nat
    PROVE  /\ Capped(a) \in Nat /\ Capped(a) <= RetryMaxWait
           /\ a <= b => Capped(a) <= Capped(b)
BY RetryPipelineAssumption DEF Capped

\* No request has gone out.
LEMMA PipeInitInv == PipeInit => PipeInv
<1> SUFFICES ASSUME PipeInit PROVE PipeInv  OBVIOUS
<1> USE RetryPipelineAssumption
<1>1. /\ retryCtx \in BOOLEAN /\ lastReq = NoTime /\ sentAt = NoTime
      /\ window = [count |-> 0, start |-> 0] /\ blocked = 0
      /\ job = [r \in Requests |-> NewJob] /\ pipeClock = 0
      /\ held = [r \in Requests |-> 0] /\ late = [r \in Requests |-> 0]
  BY DEF PipeInit
<1>2. NewJob \in Job  BY DEF NewJob, Job
<1>3. PipeTypeOK  BY <1>1, <1>2 DEF PipeTypeOK
<1>4. \A r \in Requests : job[r].at = "next" /\ job[r].attempt = 0 /\ job[r].backoff = 0
  BY <1>1 DEF NewJob
<1>5. BackoffInOrder /\ BackoffsKept  BY <1>4 DEF BackoffInOrder, BackoffsKept
<1>6. LateOnce /\ BlockHolds  BY <1>1 DEF LateOnce, BlockHolds
<1> QED  BY <1>3, <1>5, <1>6 DEF PipeInv

\* What moving one request preserves, given what it moves to.
LEMMA MoveStep ==
    ASSUME PipeInv, NEW r \in Requests, NEW f \in Job, Move(r, f),
           f.at = "sleep" =>
              /\ f.attempt < MaxRetries
              /\ Exact(f.attempt) <= MaxDuration
                    => f.backoff = Capped(Exact(f.attempt)) /\ f.backoff \in f.last..RetryMaxWait,
           f.at \notin {"sleep", "done"} =>
              /\ f.attempt = 0 => f.backoff = 0
              /\ \A n \in Nat : f.attempt = n + 1 /\ Exact(n) <= MaxDuration
                    => f.backoff = Capped(Exact(n)),
           job[r].expired => f.expired
    PROVE  /\ job' \in [Requests -> Job] /\ BackoffInOrder' /\ BackoffsKept'
           /\ job'[r] = f /\ \A q \in Requests \ {r} : job'[q] = job[q]
<1>1. job \in [Requests -> Job] /\ BackoffInOrder /\ BackoffsKept  BY DEF PipeInv, PipeTypeOK
<1>2. /\ job' \in [Requests -> Job]
      /\ job'[r] = f /\ \A q \in Requests \ {r} : job'[q] = job[q]
  BY <1>1 DEF Move
<1>3. BackoffInOrder'  BY <1>1, <1>2 DEF BackoffInOrder
<1>4. BackoffsKept'  BY <1>1, <1>2 DEF BackoffsKept
<1> QED  BY <1>2, <1>3, <1>4

\* A failed attempt returns, or sleeps for the backoff that is its turn.
LEMMA FailingJob ==
    ASSUME PipeInv, NEW r \in Requests, job[r].at \notin {"sleep", "done"},
           NEW b \in Backoffs(job[r].attempt)
    PROVE  LET f == Failing(r, b)
           IN  /\ f \in Job /\ f.at \in {"sleep", "done"}
               /\ f.expired <=> job[r].expired
               /\ f.at = "sleep" =>
                     /\ f.attempt < MaxRetries
                     /\ Exact(f.attempt) <= MaxDuration
                           => f.backoff = Capped(Exact(f.attempt)) /\ f.backoff \in f.last..RetryMaxWait
<1> DEFINE f == Failing(r, b)
           j == job[r]
<1> USE RetryPipelineAssumption
<1>1. j \in Job /\ PipeTypeOK /\ BackoffsKept  BY DEF PipeInv, PipeTypeOK
<1>2. j.attempt \in 0..MaxRetries /\ j.backoff \in Nat /\ j.expired \in BOOLEAN /\ pipeClock \in Nat
  BY <1>1 DEF Job, PipeTypeOK
<1>3. b \in Nat
  <2>1. Exact(j.attempt) \in Nat  BY <1>2, ExactGrows
  <2>2. Capped(Exact(j.attempt)) \in Nat  BY <2>1, CappedInOrder
  <2> QED  BY <2>2 DEF Backoffs
<1>4. CASE j.attempt = MaxRetries
  <2>1. f = [at |-> "done", attempt |-> 0, until |-> 0, backoff |-> 0, wake |-> 0,
             last |-> 0, expired |-> j.expired]
    BY <1>4 DEF Failing, Returned, NewJob
  <2>2. f \in Job  BY <1>2, <2>1 DEF Job
  <2> QED  BY <2>1, <2>2
<1>5. CASE j.attempt # MaxRetries
  <2>1. f = [j EXCEPT !.at = "sleep", !.until = 0, !.last = j.backoff, !.backoff = b,
                      !.wake = pipeClock + b]
    BY <1>5 DEF Failing
  <2>2. f = [at |-> "sleep", attempt |-> j.attempt, until |-> 0, backoff |-> b,
             wake |-> pipeClock + b, last |-> j.backoff, expired |-> j.expired]
    <3> HIDE DEF f, j
    <3> QED  BY <1>1, <2>1 DEF Job
  <2>3. f \in Job  BY <1>2, <1>3, <2>2 DEF Job
  <2>4. f.at = "sleep" /\ f.attempt = j.attempt /\ f.backoff = b /\ f.last = j.backoff
    BY <2>2
  <2>5. f.expired <=> j.expired  BY <2>2
  <2>6. j.attempt < MaxRetries  BY <1>2, <1>5
  <2>7. ASSUME Exact(j.attempt) <= MaxDuration
        PROVE  b = Capped(Exact(j.attempt)) /\ b \in j.backoff..RetryMaxWait
    <3>1. b = Capped(Exact(j.attempt))  BY <2>7 DEF Backoffs
    <3>2. CASE j.attempt = 0
      <4>1. j.backoff = 0  BY <1>1, <3>2 DEF BackoffsKept
      <4>2. Exact(j.attempt) \in Nat  BY <1>2, ExactGrows
      <4>3. b \in Nat /\ b <= RetryMaxWait  BY <3>1, <4>2, CappedInOrder
      <4> QED  BY <3>1, <4>1, <4>3
    <3>3. CASE j.attempt # 0
      <4> DEFINE n == j.attempt - 1
      <4>1. n \in Nat /\ j.attempt = n + 1  BY <1>2, <3>3
      <4> HIDE DEF n
      <4>2. Exact(n) \in Nat /\ Exact(n + 1) \in Nat /\ Exact(n) <= Exact(n + 1)
        <5>1. n + 1 \in Nat  BY <4>1
        <5> QED  BY <4>1, <5>1, ExactGrows
      <4>3. MaxDuration \in Nat /\ Exact(n) <= MaxDuration  BY <2>7, <4>1, <4>2
      <4>4. j.backoff = Capped(Exact(n))  BY <1>1, <4>1, <4>3 DEF BackoffsKept
      <4>5. b = Capped(Exact(n + 1))  BY <3>1, <4>1
      <4>6. j.backoff <= b /\ b <= RetryMaxWait /\ b \in Nat /\ j.backoff \in Nat
        BY <4>2, <4>4, <4>5, CappedInOrder
      <4> QED  BY <3>1, <4>6
    <3> QED  BY <3>2, <3>3
  <2> HIDE DEF f, j
  <2>8. /\ f \in Job /\ f.at \in {"sleep", "done"}
        /\ f.expired <=> j.expired
        /\ f.at = "sleep" =>
              /\ f.attempt < MaxRetries
              /\ Exact(f.attempt) <= MaxDuration
                    => f.backoff = Capped(Exact(f.attempt)) /\ f.backoff \in f.last..RetryMaxWait
    <3>1. f.attempt < MaxRetries  BY <2>4, <2>6
    <3>2. Exact(f.attempt) <= MaxDuration
             => f.backoff = Capped(Exact(f.attempt)) /\ f.backoff \in f.last..RetryMaxWait
      BY <2>4, <2>7
    <3> QED  BY <2>3, <2>4, <2>5, <3>1, <3>2
  <2> QED  BY <2>8 DEF f, j
<1> QED  BY <1>4, <1>5

\* A failure, of an attempt that waits, was sent, or is to set the block.
LEMMA FailStep ==
    ASSUME PipeInv, NEW r \in Requests, job[r].at \in {"wait", "send", "mark"}, Fail(r)
    PROVE  /\ job' \in [Requests -> Job] /\ BackoffInOrder' /\ BackoffsKept'
           /\ job'[r].at \in {"sleep", "done"} /\ (job[r].expired => job'[r].expired)
           /\ \A q \in Requests \ {r} : job'[q] = job[q]
<1>1. PICK b \in Backoffs(job[r].attempt) : Move(r, Failing(r, b))  BY DEF Fail
<1> DEFINE f == Failing(r, b)
<1>2. /\ f \in Job /\ f.at \in {"sleep", "done"}
      /\ f.expired <=> job[r].expired
      /\ f.at = "sleep" =>
            /\ f.attempt < MaxRetries
            /\ Exact(f.attempt) <= MaxDuration
                  => f.backoff = Capped(Exact(f.attempt)) /\ f.backoff \in f.last..RetryMaxWait
  BY FailingJob
<1> HIDE DEF f
<1>3. Move(r, f)  BY <1>1 DEF f
<1>4. /\ job' \in [Requests -> Job] /\ BackoffInOrder' /\ BackoffsKept'
      /\ job'[r] = f /\ \A q \in Requests \ {r} : job'[q] = job[q]
  BY <1>2, <1>3, MoveStep
<1> QED  BY <1>2, <1>4

\* A request that returns.
LEMMA ReturnStep ==
    ASSUME PipeInv, NEW r \in Requests, Move(r, Returned(r))
    PROVE  /\ job' \in [Requests -> Job] /\ BackoffInOrder' /\ BackoffsKept'
           /\ job'[r].at = "done" /\ (job[r].expired => job'[r].expired)
           /\ \A q \in Requests \ {r} : job'[q] = job[q]
<1> DEFINE f == Returned(r)
<1> USE RetryPipelineAssumption
<1>1. job[r] \in Job  BY DEF PipeInv, PipeTypeOK
<1>2. job[r].expired \in BOOLEAN  BY <1>1 DEF Job
<1>3. f = [at |-> "done", attempt |-> 0, until |-> 0, backoff |-> 0, wake |-> 0,
           last |-> 0, expired |-> job[r].expired]
  <2> DEFINE n == NewJob
             e == job[r].expired
             no == FALSE
  <2>1. n = [at |-> "next", attempt |-> 0, until |-> 0, backoff |-> 0, wake |-> 0,
             last |-> 0, expired |-> no]
    BY DEF NewJob
  <2>2. f = [n EXCEPT !.at = "done", !.expired = e]  BY DEF Returned
  <2> HIDE DEF n, e, f, no
  <2>3. f = [at |-> "done", attempt |-> 0, until |-> 0, backoff |-> 0, wake |-> 0,
             last |-> 0, expired |-> e]
    BY <2>1, <2>2
  <2> QED  BY <2>3 DEF e, f
<1>4. f \in Job  BY <1>2, <1>3 DEF Job
<1>5. f.at = "done"  BY <1>3
<1>6. f.expired <=> job[r].expired  BY <1>3
<1> HIDE DEF f
<1>7. Move(r, f)  BY DEF f
<1>8. /\ job' \in [Requests -> Job] /\ BackoffInOrder' /\ BackoffsKept'
      /\ job'[r] = f /\ \A q \in Requests \ {r} : job'[q] = job[q]
  BY <1>4, <1>5, <1>6, <1>7, MoveStep
<1> QED  BY <1>5, <1>6, <1>8

\* A request that moves on within its attempt, to `at', with another block to set
\* or another deadline at most.
LEMMA SameAttempt ==
    ASSUME PipeInv, NEW r \in Requests, job[r].at \notin {"sleep", "done"},
           NEW at \in {"next", "wait", "send", "mark"}, NEW t \in Nat, NEW expired \in BOOLEAN,
           job[r].expired => expired,
           Move(r, [job[r] EXCEPT !.at = at, !.until = t, !.expired = expired])
    PROVE  /\ job' \in [Requests -> Job] /\ BackoffInOrder' /\ BackoffsKept'
           /\ job'[r].at = at /\ (job'[r].expired <=> expired)
           /\ \A q \in Requests \ {r} : job'[q] = job[q]
<1> DEFINE f == [job[r] EXCEPT !.at = at, !.until = t, !.expired = expired]
           j == job[r]
<1>1. j \in Job /\ BackoffsKept  BY DEF PipeInv, PipeTypeOK
<1>2. f = [at |-> at, attempt |-> j.attempt, until |-> t, backoff |-> j.backoff,
           wake |-> j.wake, last |-> j.last, expired |-> expired]
  <2>1. DOMAIN j = {"at", "attempt", "until", "backoff", "wake", "last", "expired"}
    BY <1>1 DEF Job
  <2>2. f = [x \in {"at", "attempt", "until", "backoff", "wake", "last", "expired"} |->
                IF x = "at" THEN at ELSE IF x = "until" THEN t
                ELSE IF x = "expired" THEN expired ELSE j[x]]
    BY <2>1
  <2> QED  BY <2>2
<1>3. /\ j.attempt \in 0..MaxRetries /\ j.backoff \in Nat /\ j.wake \in Nat /\ j.last \in Nat
  BY <1>1 DEF Job
<1> HIDE DEF f
<1>4. f \in Job  BY <1>2, <1>3 DEF Job
<1>5. f.at = at /\ f.attempt = j.attempt /\ f.backoff = j.backoff  BY <1>2
<1>6. f.expired <=> expired  BY <1>2
<1>7. /\ f.attempt = 0 => f.backoff = 0
      /\ \A n \in Nat : f.attempt = n + 1 /\ Exact(n) <= MaxDuration => f.backoff = Capped(Exact(n))
  BY <1>1, <1>5 DEF BackoffsKept
<1>8. Move(r, f)  BY DEF f
<1>9. /\ job' \in [Requests -> Job] /\ BackoffInOrder' /\ BackoffsKept'
      /\ job'[r] = f /\ \A q \in Requests \ {r} : job'[q] = job[q]
  BY <1>4, <1>5, <1>6, <1>7, <1>8, MoveStep
<1> QED  BY <1>5, <1>6, <1>9

\* The window counts up to one more than its cap.
LEMMA CountedInType ==
    ASSUME PipeTypeOK
    PROVE  CountedIn(window) \in [count : 0..(WindowCap + 1), start : Nat]
<1> USE RetryPipelineAssumption
<1>1. window \in [count : 0..(WindowCap + 1), start : Nat] /\ pipeClock \in Nat
  BY DEF PipeTypeOK
<1>2. CASE pipeClock - window.start > WindowLength
  BY <1>1, <1>2 DEF CountedIn
<1>3. CASE ~(pipeClock - window.start > WindowLength)
  <2> DEFINE c == IF window.count > WindowCap THEN window.count ELSE window.count + 1
  <2>1. c \in 0..(WindowCap + 1)  BY <1>1
  <2>2. CountedIn(window) = [window EXCEPT !.count = c]  BY <1>3 DEF CountedIn
  <2> HIDE DEF c
  <2> QED  BY <1>1, <2>1, <2>2
<1> QED  BY <1>2, <1>3

\* The steps that move one request and touch nothing of the domain.
LEMMA OnlyJobStep ==
    ASSUME PipeInv, NEW r \in Requests, OnlyJob,
           job' \in [Requests -> Job] /\ BackoffInOrder' /\ BackoffsKept',
           \A q \in Requests \ {r} : job'[q] = job[q],
           job[r].expired => job'[r].expired,
           retryCtx /\ job[r].expired /\ job[r].at # "wait" => job'[r].at # "wait"
    PROVE  PipeInv'
<1>1. PipeTypeOK /\ LateOnce /\ BlockHolds  BY DEF PipeInv
<1>2. UNCHANGED <<retryCtx, lastReq, window, blocked, pipeClock, sentAt, held, late>>
  BY DEF OnlyJob
<1>3. PipeTypeOK'  BY <1>1, <1>2 DEF PipeTypeOK
<1>4. LateOnce'  BY <1>1, <1>2 DEF LateOnce
<1>5. BlockHolds'  BY <1>1, <1>2 DEF BlockHolds
<1> QED  BY <1>3, <1>4, <1>5 DEF PipeInv

\* The loop of retryDo, and the deadline of the context.
LEMMA LoopStep ==
    ASSUME PipeInv, NEW r \in Requests,
           Attempt(r) \/ Awake(r) \/ CancelSleep(r) \/ Expire(r)
    PROVE  PipeInv'
<1> USE RetryPipelineAssumption
<1>1. /\ PipeTypeOK /\ BackoffsKept /\ job \in [Requests -> Job] /\ job[r] \in Job
      /\ job[r].until \in Nat /\ job[r].backoff \in Nat /\ job[r].last \in Nat
      /\ job[r].attempt \in 0..MaxRetries
  BY DEF PipeInv, PipeTypeOK, Job
<1>2. job[r].expired \in BOOLEAN  BY <1>1 DEF Job
<1>4. CASE Attempt(r) /\ MayGoOn(r)
  <2>1. job[r].at = "next" /\ OnlyJob /\ Move(r, [job[r] EXCEPT !.at = "wait"])
    BY <1>4 DEF Attempt, Entrance
  <2> DEFINE f == [job[r] EXCEPT !.at = "wait"]
  <2>2. f = [job[r] EXCEPT !.at = "wait", !.until = job[r].until, !.expired = job[r].expired]
    <3>1. DOMAIN job[r] = {"at", "attempt", "until", "backoff", "wake", "last", "expired"}
      BY <1>1 DEF Job
    <3> QED  BY <3>1
  <2>3. /\ job' \in [Requests -> Job] /\ BackoffInOrder' /\ BackoffsKept'
        /\ job'[r].at = "wait" /\ (job'[r].expired <=> job[r].expired)
        /\ \A q \in Requests \ {r} : job'[q] = job[q]
    <3>1. Move(r, [job[r] EXCEPT !.at = "wait", !.until = job[r].until,
                                 !.expired = job[r].expired])
      BY <2>1, <2>2
    <3> QED  BY <1>1, <1>2, <2>1, <3>1, SameAttempt
  <2>4. ~(retryCtx /\ job[r].expired)  BY <1>4 DEF MayGoOn
  <2> QED  BY <2>1, <2>3, <2>4, OnlyJobStep
<1>5. CASE (Attempt(r) /\ ~MayGoOn(r)) \/ CancelSleep(r)
  <2>1. OnlyJob /\ Move(r, Returned(r))  BY <1>5 DEF Attempt, CancelSleep
  <2> QED  BY <2>1, ReturnStep, OnlyJobStep
<1>6. CASE Awake(r)
  <2> DEFINE f == [job[r] EXCEPT !.at = "next", !.attempt = @ + 1, !.wake = 0]
             j == job[r]
  <2>1. j.at = "sleep" /\ OnlyJob /\ Move(r, f)  BY <1>6 DEF Awake
  <2>2. /\ j.attempt < MaxRetries
        /\ Exact(j.attempt) <= MaxDuration => j.backoff = Capped(Exact(j.attempt))
    BY <1>1, <2>1 DEF BackoffsKept
  <2>3. f = [at |-> "next", attempt |-> j.attempt + 1, until |-> j.until,
             backoff |-> j.backoff, wake |-> 0, last |-> j.last, expired |-> j.expired]
    <3>1. DOMAIN j = {"at", "attempt", "until", "backoff", "wake", "last", "expired"}
      BY <1>1 DEF Job
    <3>2. f = [x \in {"at", "attempt", "until", "backoff", "wake", "last", "expired"} |->
                  IF x = "at" THEN "next" ELSE IF x = "attempt" THEN j.attempt + 1
                  ELSE IF x = "wake" THEN 0 ELSE j[x]]
      BY <3>1
    <3> QED  BY <3>2
  <2>4. j.attempt + 1 \in 0..MaxRetries /\ j.attempt + 1 # 0 /\ j.attempt \in Nat
    BY <1>1, <2>2
  <2> HIDE DEF f
  <2>5. f \in Job
    <3>1. j.expired \in BOOLEAN  BY <1>2
    <3> QED  BY <1>1, <2>3, <2>4, <3>1 DEF Job
  <2>6. f.at = "next" /\ f.attempt = j.attempt + 1 /\ f.backoff = j.backoff  BY <2>3
  <2>7. f.expired <=> j.expired  BY <2>3
  <2>8. /\ f.attempt = 0 => f.backoff = 0
        /\ \A n \in Nat : f.attempt = n + 1 /\ Exact(n) <= MaxDuration
                             => f.backoff = Capped(Exact(n))
    <3>1. f.attempt # 0  BY <2>4, <2>6
    <3>2. ASSUME NEW n \in Nat, f.attempt = n + 1, Exact(n) <= MaxDuration
          PROVE  f.backoff = Capped(Exact(n))
      <4>1. n = j.attempt  BY <2>4, <2>6, <3>2
      <4> QED  BY <2>2, <2>6, <3>2, <4>1
    <3> QED  BY <3>1, <3>2
  <2>9. /\ job' \in [Requests -> Job] /\ BackoffInOrder' /\ BackoffsKept'
        /\ job'[r] = f /\ \A q \in Requests \ {r} : job'[q] = job[q]
    BY <2>1, <2>5, <2>6, <2>7, <2>8, MoveStep
  <2> QED  BY <2>1, <2>6, <2>7, <2>9, OnlyJobStep
<1>7. CASE Expire(r) /\ job[r].at # "sleep"
  <2>1. job[r].at # "done" /\ OnlyJob /\ Move(r, [job[r] EXCEPT !.expired = TRUE])
    BY <1>7 DEF Expire
  <2>2. job[r].at \in {"next", "wait", "send", "mark"}  BY <1>1, <1>7, <2>1 DEF Job
  <2>3. [job[r] EXCEPT !.expired = TRUE]
           = [job[r] EXCEPT !.at = job[r].at, !.until = job[r].until, !.expired = TRUE]
    <3>1. DOMAIN job[r] = {"at", "attempt", "until", "backoff", "wake", "last", "expired"}
      BY <1>1 DEF Job
    <3> QED  BY <3>1
  <2>4. Move(r, [job[r] EXCEPT !.at = job[r].at, !.until = job[r].until, !.expired = TRUE])
    BY <2>1, <2>3
  <2>5. /\ job' \in [Requests -> Job] /\ BackoffInOrder' /\ BackoffsKept'
        /\ job'[r].at = job[r].at /\ (job'[r].expired <=> TRUE)
        /\ \A q \in Requests \ {r} : job'[q] = job[q]
    BY <1>1, <2>2, <2>4, SameAttempt
  <2> QED  BY <2>1, <2>5, OnlyJobStep
<1>8. CASE Expire(r) /\ job[r].at = "sleep"
  <2> DEFINE f == [job[r] EXCEPT !.expired = TRUE]
             j == job[r]
  <2>1. OnlyJob /\ Move(r, f)  BY <1>8 DEF Expire
  <2>2. /\ f \in Job /\ f.at = "sleep" /\ f.attempt = j.attempt /\ f.backoff = j.backoff
        /\ f.last = j.last
    BY <1>1, <1>8 DEF Job
  <2>3. f.expired = TRUE  BY <1>1 DEF Job
  <2> HIDE DEF f
  <2>4. /\ f.attempt < MaxRetries
        /\ Exact(f.attempt) <= MaxDuration
              => f.backoff = Capped(Exact(f.attempt)) /\ f.backoff \in f.last..RetryMaxWait
    <3>1. BackoffInOrder  BY DEF PipeInv
    <3> QED  BY <1>1, <1>8, <2>2, <3>1 DEF BackoffsKept, BackoffInOrder
  <2>5. /\ job' \in [Requests -> Job] /\ BackoffInOrder' /\ BackoffsKept'
        /\ job'[r] = f /\ \A q \in Requests \ {r} : job'[q] = job[q]
    BY <2>1, <2>2, <2>3, <2>4, MoveStep
  <2> QED  BY <2>1, <2>2, <2>3, <2>5, OnlyJobStep
<1> QED  BY <1>4, <1>5, <1>6, <1>7, <1>8

\* Allow lets a request in, or counts it and turns it away.
LEMMA AllowStep ==
    ASSUME PipeInv, NEW r \in Requests, Admit(r) \/ Poll(r)
    PROVE  PipeInv'
<1>1. /\ PipeTypeOK /\ BackoffInOrder /\ BackoffsKept /\ LateOnce /\ BlockHolds
      /\ job[r] \in Job /\ CountedIn(window) \in [count : 0..(WindowCap + 1), start : Nat]
  BY CountedInType DEF PipeInv, PipeTypeOK
<1>2. CASE Admit(r)
  <2>1. /\ job[r].at = "wait" /\ Move(r, [job[r] EXCEPT !.at = "send"])
        /\ window' = CountedIn(window) /\ lastReq' = pipeClock /\ sentAt' = pipeClock
        /\ late' = [late EXCEPT ![r] = IF job[r].expired THEN @ + 1 ELSE @]
        /\ UNCHANGED <<retryCtx, blocked, pipeClock, held>>
    BY <1>2 DEF Admit
  <2>2. job[r].until \in Nat  BY <1>1 DEF Job
  <2>3. job[r].expired \in BOOLEAN  BY <1>1 DEF Job
  <2>4. Move(r, [job[r] EXCEPT !.at = "send", !.until = job[r].until,
                               !.expired = job[r].expired])
    <3>1. DOMAIN job[r] = {"at", "attempt", "until", "backoff", "wake", "last", "expired"}
      BY <1>1 DEF Job
    <3>2. [job[r] EXCEPT !.at = "send"]
             = [job[r] EXCEPT !.at = "send", !.until = job[r].until, !.expired = job[r].expired]
      BY <3>1
    <3> QED  BY <2>1, <3>2
  <2>5. /\ job' \in [Requests -> Job] /\ BackoffInOrder' /\ BackoffsKept'
        /\ job'[r].at = "send" /\ (job'[r].expired <=> job[r].expired)
        /\ \A q \in Requests \ {r} : job'[q] = job[q]
    BY <2>1, <2>2, <2>3, <2>4, SameAttempt
  <2>6. /\ late \in [Requests -> Nat] /\ late' \in [Requests -> Nat]
        /\ late'[r] = (IF job[r].expired THEN late[r] + 1 ELSE late[r])
        /\ \A q \in Requests \ {r} : late'[q] = late[q]
    BY <1>1, <2>1 DEF PipeTypeOK
  <2>7. PipeTypeOK'
    <3>1. pipeClock \in Nat  BY <1>1, RetryPipelineAssumption DEF PipeTypeOK
    <3> QED  BY <1>1, <2>1, <2>5, <2>6, <3>1 DEF PipeTypeOK
  <2>8. ASSUME NEW q \in Requests, retryCtx'
        PROVE  late'[q] <= 1 /\ (late'[q] = 1 => job'[q].expired /\ job'[q].at # "wait")
    <3>1. retryCtx /\ late[q] <= 1 /\ (late[q] = 1 => job[q].expired /\ job[q].at # "wait")
      BY <1>1, <2>1, <2>8 DEF LateOnce
    <3>2. CASE q # r
      BY <2>5, <2>6, <3>1, <3>2
    <3>3. CASE q = r
      <4>1. late[r] = 0  BY <2>1, <2>6, <3>1, <3>3
      <4>2. CASE job[r].expired
        <5>1. late'[r] = 1  BY <2>6, <4>1, <4>2
        <5> QED  BY <2>5, <3>3, <4>2, <5>1
      <4>3. CASE ~job[r].expired
        <5>1. late'[r] = 0  BY <2>6, <4>1, <4>3
        <5> QED  BY <3>3, <5>1
      <4> QED  BY <4>2, <4>3
    <3> QED  BY <3>2, <3>3
  <2>9. LateOnce'  BY <2>8 DEF LateOnce
  <2>10. BlockHolds'  BY <1>1, <2>1 DEF BlockHolds
  <2> QED  BY <2>5, <2>7, <2>9, <2>10 DEF PipeInv
<1>3. CASE Poll(r)
  <2>1. /\ window' = CountedIn(window)
        /\ UNCHANGED <<retryCtx, lastReq, blocked, job, pipeClock, sentAt, held, late>>
    BY <1>3 DEF Poll
  <2>2. PipeTypeOK'  BY <1>1, <2>1 DEF PipeTypeOK
  <2>3. BackoffInOrder' /\ BackoffsKept'  BY <1>1, <2>1 DEF BackoffInOrder, BackoffsKept
  <2>4. LateOnce' /\ BlockHolds'  BY <1>1, <2>1 DEF LateOnce, BlockHolds
  <2> QED  BY <2>2, <2>3, <2>4 DEF PipeInv
<1> QED  BY <1>2, <1>3

\* The attempt is over, or its answer sets a block.
LEMMA AnswerStep ==
    ASSUME PipeInv, NEW r \in Requests,
           Overdue(r) \/ Succeed(r) \/ FailPlainly(r) \/ TooMany(r)
    PROVE  PipeInv'
<1>1. /\ job[r] \in Job /\ pipeClock \in Nat
  BY RetryPipelineAssumption DEF PipeInv, PipeTypeOK
<1>2. CASE Overdue(r) \/ FailPlainly(r)
  <2>1. job[r].at \in {"wait", "send"} /\ OnlyJob /\ Fail(r)
    BY <1>2 DEF Overdue, FailPlainly
  <2>2. /\ job' \in [Requests -> Job] /\ BackoffInOrder' /\ BackoffsKept'
        /\ job'[r].at \in {"sleep", "done"} /\ (job[r].expired => job'[r].expired)
        /\ \A q \in Requests \ {r} : job'[q] = job[q]
    BY <2>1, FailStep
  <2> QED  BY <2>1, <2>2, OnlyJobStep
<1>3. CASE Succeed(r)
  <2>1. OnlyJob /\ Move(r, Returned(r))  BY <1>3 DEF Succeed
  <2> QED  BY <2>1, ReturnStep, OnlyJobStep
<1>4. CASE TooMany(r)
  <2>1. job[r].at = "send" /\ OnlyJob  BY <1>4 DEF TooMany
  <2>2. PICK t \in AskedUntil : Move(r, [job[r] EXCEPT !.at = "mark", !.until = t])
    BY <1>4 DEF TooMany
  <2>3. t \in Nat
    <3>1. PICK s \in RetryAfters : t = pipeClock + s  BY DEF AskedUntil
    <3>2. s \in Nat  BY RetryPipelineAssumption
    <3> QED  BY <1>1, <3>1, <3>2
  <2>4. job[r].expired \in BOOLEAN  BY <1>1 DEF Job
  <2>5. Move(r, [job[r] EXCEPT !.at = "mark", !.until = t, !.expired = job[r].expired])
    <3>1. DOMAIN job[r] = {"at", "attempt", "until", "backoff", "wake", "last", "expired"}
      BY <1>1 DEF Job
    <3>2. [job[r] EXCEPT !.at = "mark", !.until = t]
             = [job[r] EXCEPT !.at = "mark", !.until = t, !.expired = job[r].expired]
      BY <3>1
    <3> QED  BY <2>2, <3>2
  <2>6. /\ job' \in [Requests -> Job] /\ BackoffInOrder' /\ BackoffsKept'
        /\ job'[r].at = "mark" /\ (job'[r].expired <=> job[r].expired)
        /\ \A q \in Requests \ {r} : job'[q] = job[q]
    BY <2>1, <2>3, <2>4, <2>5, SameAttempt
  <2> QED  BY <2>1, <2>6, OnlyJobStep
<1> QED  BY <1>2, <1>3, <1>4

\* The block is set, by the last one to come.
LEMMA MarkStep ==
    ASSUME PipeInv, NEW r \in Requests, Mark(r)
    PROVE  PipeInv'
<1>1. /\ PipeTypeOK /\ LateOnce /\ BlockHolds /\ job[r] \in Job
  BY DEF PipeInv, PipeTypeOK
<1> DEFINE t == job[r].until
<1>2. /\ job[r].at = "mark" /\ Fail(r) /\ blocked' = t
      /\ held' = [q \in Requests |-> IF q = r \/ t < held[q] THEN t ELSE held[q]]
      /\ UNCHANGED <<retryCtx, lastReq, window, pipeClock, sentAt, late>>
  BY DEF Mark
<1>3. t \in Nat  BY <1>1 DEF Job
<1>4. /\ job' \in [Requests -> Job] /\ BackoffInOrder' /\ BackoffsKept'
      /\ job'[r].at \in {"sleep", "done"} /\ (job[r].expired => job'[r].expired)
      /\ \A q \in Requests \ {r} : job'[q] = job[q]
  BY <1>2, FailStep
<1> HIDE DEF t
<1>5. \A q \in Requests : held'[q] \in Nat /\ held'[q] <= t
  BY <1>1, <1>2, <1>3 DEF PipeTypeOK
<1>6. PipeTypeOK'
  <2>1. held' \in [Requests -> Nat]  BY <1>2, <1>5
  <2> QED  BY <1>1, <1>2, <1>3, <1>4, <2>1 DEF PipeTypeOK
<1>7. LateOnce'  BY <1>1, <1>2, <1>4 DEF LateOnce
<1>8. BlockHolds'  BY <1>1, <1>2, <1>5 DEF BlockHolds
<1> QED  BY <1>4, <1>6, <1>7, <1>8 DEF PipeInv

\* Every step of the pipeline keeps the invariant.
LEMMA PipeStep == PipeInv /\ [PipeNext]_pipeVars => PipeInv'
<1> SUFFICES ASSUME PipeInv, [PipeNext]_pipeVars PROVE PipeInv'  OBVIOUS
<1>1. PipeTypeOK /\ BackoffInOrder /\ BackoffsKept /\ LateOnce /\ BlockHolds  BY DEF PipeInv
<1>2. CASE PipeTick
  <2>1. /\ pipeClock < PipeMaxClock /\ pipeClock' = pipeClock + 1
        /\ UNCHANGED <<retryCtx, lastReq, window, blocked, job, sentAt, held, late>>
    BY <1>2 DEF PipeTick
  <2>2. PipeTypeOK'
    <3>1. pipeClock' \in 0..PipeMaxClock
      BY <1>1, <2>1, RetryPipelineAssumption DEF PipeTypeOK
    <3> QED  BY <1>1, <2>1, <3>1 DEF PipeTypeOK
  <2>3. BackoffInOrder' /\ BackoffsKept'  BY <1>1, <2>1 DEF BackoffInOrder, BackoffsKept
  <2>4. LateOnce' /\ BlockHolds'  BY <1>1, <2>1 DEF LateOnce, BlockHolds
  <2> QED  BY <2>2, <2>3, <2>4 DEF PipeInv
<1>3. ASSUME NEW r \in Requests,
             \/ Attempt(r) \/ Awake(r) \/ CancelSleep(r) \/ Admit(r) \/ Poll(r) \/ Overdue(r)
             \/ Succeed(r) \/ FailPlainly(r) \/ TooMany(r) \/ Mark(r) \/ Expire(r)
      PROVE  PipeInv'
  BY <1>3, LoopStep, AllowStep, AnswerStep, MarkStep
<1>4. CASE UNCHANGED pipeVars
  <2>1. UNCHANGED <<retryCtx, lastReq, window, blocked, job, pipeClock, sentAt, held, late>>
    BY <1>4 DEF pipeVars
  <2>2. PipeTypeOK'  BY <1>1, <2>1 DEF PipeTypeOK
  <2>3. BackoffInOrder' /\ BackoffsKept'  BY <1>1, <2>1 DEF BackoffInOrder, BackoffsKept
  <2>4. LateOnce' /\ BlockHolds'  BY <1>1, <2>1 DEF LateOnce, BlockHolds
  <2> QED  BY <2>2, <2>3, <2>4 DEF PipeInv
<1> QED  BY <1>2, <1>3, <1>4 DEF PipeNext

\* The invariant holds throughout.
LEMMA PipeInvariant == PipeSpec => []PipeInv
BY PipeInitInv, PipeStep, PTL DEF PipeSpec

\* Retries neither speed up nor outlive their context: a backoff is at least the
\* one before it, at most MaxWait, and one request at most follows the deadline
\* (retryDo).
THEOREM RetriesBoundedHolds == PipeSpec => []RetriesBounded
<1>1. PipeInv => RetriesBounded
  <2> SUFFICES ASSUME PipeInv PROVE RetriesBounded  OBVIOUS
  <2>1. BackoffInOrder /\ LateOnce  BY DEF PipeInv
  <2>2. StopsAtDeadline  BY <2>1 DEF LateOnce, StopsAtDeadline
  <2> QED  BY <2>1, <2>2 DEF RetriesBounded
<1> QED  BY <1>1, PipeInvariant, PTL

\* Nothing but Allow sends a request to the site.
LEMMA SendsOnlyAdmitted ==
    ASSUME PipeInv, NEW r \in Requests, NEW q \in Requests,
           \/ Attempt(q) \/ Awake(q) \/ CancelSleep(q) \/ Poll(q) \/ Overdue(q)
           \/ Succeed(q) \/ FailPlainly(q) \/ TooMany(q) \/ Mark(q) \/ Expire(q),
           job[r].at # "send"
    PROVE  job'[r].at # "send"
<1>1. job \in [Requests -> Job] /\ job[q] \in Job  BY DEF PipeInv, PipeTypeOK
<1>2. ASSUME NEW f, Move(q, f), f.at # "send"
      PROVE  job'[r].at # "send"
  BY <1>1, <1>2 DEF Move
<1>3. CASE Poll(q)
  BY <1>3 DEF Poll
<1>4. CASE Overdue(q) \/ FailPlainly(q) \/ Mark(q)
  <2>1. job[q].at \in {"wait", "send", "mark"} /\ Fail(q)
    BY <1>4 DEF Overdue, FailPlainly, Mark
  <2>2. /\ job'[q].at \in {"sleep", "done"} /\ \A p \in Requests \ {q} : job'[p] = job[p]
    BY <2>1, FailStep
  <2> QED  BY <2>2
<1>5. CASE Move(q, Returned(q))
  <2>1. /\ job'[q].at = "done" /\ \A p \in Requests \ {q} : job'[p] = job[p]
    BY <1>5, ReturnStep
  <2> QED  BY <2>1
<1>6. CASE Attempt(q) /\ MayGoOn(q)
  <2>1. Move(q, [job[q] EXCEPT !.at = "wait"])  BY <1>6 DEF Attempt, Entrance
  <2>2. [job[q] EXCEPT !.at = "wait"].at # "send"  BY <1>1 DEF Job
  <2> QED  BY <1>2, <2>1, <2>2
<1>7. CASE Awake(q)
  <2>1. Move(q, [job[q] EXCEPT !.at = "next", !.attempt = @ + 1, !.wake = 0])
    BY <1>7 DEF Awake
  <2>2. [job[q] EXCEPT !.at = "next", !.attempt = @ + 1, !.wake = 0].at # "send"
    BY <1>1 DEF Job
  <2> QED  BY <1>2, <2>1, <2>2
<1>8. CASE TooMany(q)
  <2>1. PICK t \in AskedUntil : Move(q, [job[q] EXCEPT !.at = "mark", !.until = t])
    BY <1>8 DEF TooMany
  <2>2. [job[q] EXCEPT !.at = "mark", !.until = t].at # "send"  BY <1>1 DEF Job
  <2> QED  BY <1>2, <2>1, <2>2
<1>9. CASE Expire(q)
  <2>1. Move(q, [job[q] EXCEPT !.expired = TRUE])  BY <1>9 DEF Expire
  <2>2. [job[q] EXCEPT !.expired = TRUE].at = job[q].at  BY <1>1 DEF Job
  <2> QED  BY <1>1, <2>1, <2>2 DEF Move
<1>10. (Attempt(q) /\ ~MayGoOn(q)) \/ CancelSleep(q) \/ Succeed(q) => Move(q, Returned(q))
  BY DEF Attempt, CancelSleep, Succeed
<1> QED  BY <1>3, <1>4, <1>5, <1>6, <1>7, <1>8, <1>9, <1>10

\* No request, first attempt or retry, goes out before the time its own
\* Retry-After asked it to wait for, or within MinDelay of the one before it
\* (RateLimitMiddleware, DomainLimiter.Allow).
THEOREM SendsInTimeHolds == PipeSpec => SendsInTime
<1>1. PipeInv /\ [PipeNext]_pipeVars
         => [\A r \in Requests :
                Sends(r) => /\ held[r] <= pipeClock
                            /\ sentAt = NoTime \/ pipeClock - sentAt >= MinDelay]_pipeVars
  <2> SUFFICES ASSUME PipeInv, PipeNext, NEW r \in Requests, Sends(r)
               PROVE  /\ held[r] <= pipeClock
                      /\ sentAt = NoTime \/ pipeClock - sentAt >= MinDelay
    OBVIOUS
  <2> USE RetryPipelineAssumption
  <2>1. /\ PipeTypeOK /\ BlockHolds /\ job \in [Requests -> Job]
        /\ job[r].at # "send" /\ job'[r].at = "send"
    BY DEF PipeInv, PipeTypeOK, Sends
  <2>2. ASSUME NEW q \in Requests,
               \/ Attempt(q) \/ Awake(q) \/ CancelSleep(q) \/ Poll(q) \/ Overdue(q)
               \/ Succeed(q) \/ FailPlainly(q) \/ TooMany(q) \/ Mark(q) \/ Expire(q)
        PROVE  FALSE
    BY <2>1, <2>2, SendsOnlyAdmitted
  <2>3. Admit(r)
    <3>1. PICK q \in Requests :
             \/ Attempt(q) \/ Awake(q) \/ CancelSleep(q) \/ Admit(q) \/ Poll(q) \/ Overdue(q)
             \/ Succeed(q) \/ FailPlainly(q) \/ TooMany(q) \/ Mark(q) \/ Expire(q)
      <4>1. ~PipeTick  BY <2>1 DEF PipeTick
      <4> QED  BY <4>1 DEF PipeNext
    <3>2. Admit(q)  BY <2>2, <3>1
    <3>3. q = r  BY <2>1, <3>2 DEF Admit, Move
    <3> QED  BY <3>2, <3>3
  <2>4. /\ blocked <= pipeClock /\ \E d \in Delays : DelayOver(d)
    BY <2>3 DEF Admit, Unblocked
  <2>5. held[r] <= pipeClock  BY <2>1, <2>4 DEF BlockHolds, PipeTypeOK
  <2>6. sentAt = NoTime \/ pipeClock - sentAt >= MinDelay
    <3>1. PICK d \in Delays : DelayOver(d)  BY <2>4
    <3>2. d \in Int /\ d >= MinDelay  BY <3>1 DEF Delays
    <3>3. sentAt = lastReq  BY <2>1 DEF BlockHolds
    <3> QED  BY <2>1, <3>1, <3>2, <3>3 DEF DelayOver, PipeTypeOK
  <2> QED  BY <2>5, <2>6
<1> QED  BY <1>1, PipeInvariant, PTL DEF PipeSpec, SendsInTime

-----------------------------------------------------------------------------
(* The generic pool.                                                       *)

TurnInPool == turn \in Present \/ (size = 0 /\ turn = 0)

\* What was taken out for good has no time to come back at.
RemovedKept == \A i \in Items : removed[i] = "for good" => ~active[i] /\ due[i] = Never

AwakeNotCalm == \A w \in Waiters : waiter[w].at \in {"out", "look"} => ~waiter[w].calm

\* A caller that sleeps undisturbed has an item to wake for.
WorthWaiting ==
    \A w \in Waiters :
        waiter[w].at = "asleep" /\ waiter[w].calm
            => \E i \in Present : active[i] \/ (due[i] # Never /\ due[i] <= waiter[w].wake)

PoolInv ==
    PoolTypeOK /\ TurnInPool /\ RemovedKept /\ AwakeNotCalm /\ WorthWaiting /\ WaitIsRewarded

\* A set of natural numbers that is not empty has a least element.
LEMMA LeastNatural ==
    ASSUME NEW S \in SUBSET Nat, S # {}
    PROVE  \E x \in S : \A y \in S : x <= y
<1> DEFINE R == {p \in Nat \X Nat : p[1] < p[2]}
<1>1. OpToRel(<, Nat) = R  BY DEF OpToRel
<1>2. IsWellFoundedOn(R, Nat)  BY <1>1, NatLessThanWellFounded
<1> HIDE DEF R
<1>3. PICK x \in S : \A y \in S : ~(<<y, x>> \in R)  BY <1>2, WFMin
<1>4. \A y \in S : ~(y < x)  BY <1>3 DEF R
<1> QED  BY <1>3, <1>4

\* The remainder of a number between 0 and twice the divisor.
LEMMA SmallRemainder ==
    ASSUME NEW L \in Nat \ {0}, NEW j \in 0..L - 1
    PROVE  j % L = j /\ (j + L) % L = j
OBVIOUS

\* The scan goes round: it visits items of the pool, and every one of them.
LEMMA SlotsGoRound ==
    ASSUME PoolTypeOK, TurnInPool
    PROVE  /\ \A k \in Nat : size # 0 => Slot(k) \in Present
           /\ \A i \in Present : \E k \in Present : Slot(k) = i
<1> USE ItemPoolAssumption
<1>1. size \in Nat /\ turn \in Nat  BY DEF PoolTypeOK, Items
<1>2. ASSUME NEW k \in Nat, size # 0 PROVE Slot(k) \in Present
  BY <1>1, <1>2 DEF Slot, Present
<1>3. ASSUME NEW i \in Present PROVE \E k \in Present : Slot(k) = i
  <2>1. size \in Nat \ {0} /\ i \in 0..size - 1 /\ turn \in 0..size - 1
    BY <1>1, <1>3 DEF Present, TurnInPool
  <2>2. i % size = i /\ (i + size) % size = i  BY <2>1, SmallRemainder
  <2>3. CASE i >= turn
    <3>1. i - turn \in Present /\ turn + (i - turn) = i  BY <2>1, <2>3 DEF Present
    <3> QED  BY <2>2, <3>1 DEF Slot
  <2>4. CASE i < turn
    <3>1. i + size - turn \in Present /\ turn + (i + size - turn) = i + size
      BY <2>1, <2>4 DEF Present
    <3> QED  BY <2>2, <3>1 DEF Slot
  <2> QED  BY <2>1, <2>3, <2>4
<1> QED  BY <1>2, <1>3

\* Every item is active, and nobody waits.
LEMMA PoolInitInv == PoolInit => PoolInv
<1> SUFFICES ASSUME PoolInit PROVE PoolInv  OBVIOUS
<1> USE ItemPoolAssumption
<1>1. /\ size = FirstSize /\ turn = 0 /\ poolClock = 0
      /\ active = [i \in Items |-> TRUE] /\ due = [i \in Items |-> Never]
      /\ removed = [i \in Items |-> "never"]
  BY DEF PoolInit
<1>2. /\ waiter \in [Waiters -> Waiter]
      /\ \A w \in Waiters : waiter[w].at = "out" /\ ~waiter[w].calm
  <2> DEFINE Start == [at : {"out"}, filter : Filters, maxWait : MaxWaits,
                       wake : {0}, got : {NoItem}, late : {FALSE}, calm : {FALSE}]
  <2>1. waiter \in [Waiters -> Start]  BY DEF PoolInit
  <2>2. ASSUME NEW v \in Start PROVE v \in Waiter /\ v.at = "out"
    <3> DEFINE No == {FALSE}
               B == BOOLEAN
    <3>1. v \in [at : {"out"}, filter : Filters, maxWait : MaxWaits,
                 wake : {0}, got : {NoItem}, late : No, calm : No]
      OBVIOUS
    <3>2. No \subseteq B  OBVIOUS
    <3> HIDE DEF No, B
    <3>3. v \in [at : {"out", "look", "asleep", "done"}, filter : Filters, maxWait : MaxWaits,
                 wake : Nat, got : Items \cup {NoItem}, late : B, calm : B]
      BY <3>1, <3>2
    <3> QED  BY <3>1, <3>3 DEF Waiter, B
  <2>3. \A v \in Start : ~v.calm  OBVIOUS
  <2> HIDE DEF Start
  <2> QED  BY <2>1, <2>2, <2>3
<1>3. PoolTypeOK  BY <1>1, <1>2 DEF PoolTypeOK, Items, Removals
<1>4. TurnInPool  BY <1>1 DEF TurnInPool, Present
<1>5. RemovedKept /\ AwakeNotCalm  BY <1>1, <1>2 DEF RemovedKept, AwakeNotCalm
<1>6. WorthWaiting /\ WaitIsRewarded  BY <1>2 DEF WorthWaiting, WaitIsRewarded
<1> QED  BY <1>3, <1>4, <1>5, <1>6 DEF PoolInv

\* What a scan does to the items: they come back when their cooldown is over.
LEMMA ScanStep ==
    ASSUME PoolInv, NEW k, Scan(k), UNCHANGED <<size, removed, poolClock>>
    PROVE  /\ active' \in [Items -> BOOLEAN] /\ due' \in [Items -> Nat \cup {Never}]
           /\ RemovedKept'
           /\ \A i \in Items : active[i] => active'[i]
           /\ \A i \in Items : active'[i] \/ due'[i] = due[i]
<1>1. /\ active \in [Items -> BOOLEAN] /\ due \in [Items -> Nat \cup {Never}] /\ RemovedKept
      /\ active' = [i \in Items |-> active[i] \/ i \in Back(k)]
      /\ due' = [i \in Items |-> IF i \in Back(k) THEN Never ELSE due[i]]
  BY DEF PoolInv, PoolTypeOK, Scan
<1>2. \A i \in Items : active'[i] <=> active[i] \/ i \in Back(k)  BY <1>1
<1>3. \A i \in Items : due'[i] = IF i \in Back(k) THEN Never ELSE due[i]  BY <1>1
<1>4. active' \in [Items -> BOOLEAN]  BY <1>1
<1>5. due' \in [Items -> Nat \cup {Never}]  BY <1>1
<1>6. \A i \in Back(k) : due[i] # Never  BY DEF Back, Over
<1>7. RemovedKept'
  <2> SUFFICES ASSUME NEW i \in Items, removed'[i] = "for good"
               PROVE  ~active'[i] /\ due'[i] = Never
    BY DEF RemovedKept
  <2>1. ~active[i] /\ due[i] = Never  BY <1>1 DEF RemovedKept
  <2>2. i \notin Back(k)  BY <1>6, <2>1
  <2> QED  BY <1>2, <1>3, <2>1, <2>2
<1> QED  BY <1>2, <1>3, <1>4, <1>5, <1>7

\* A call of Next: the turn goes on, and the caller is served if an item can be.
LEMMA CallEffect ==
    ASSUME PoolInv, NEW w \in Waiters, UNCHANGED <<size, poolClock, removed>>,
           NEW served \in {"done"}, NEW refused \in {"look", "done"},
           CallNext(w, served, refused)
    PROVE  /\ active' \in [Items -> BOOLEAN] /\ due' \in [Items -> Nat \cup {Never}]
           /\ RemovedKept'
           /\ \A i \in Items : active[i] => active'[i]
           /\ \A i \in Items : active'[i] \/ due'[i] = due[i]
           /\ turn' \in Items /\ TurnInPool'
           /\ waiter' \in [Waiters -> Waiter]
           /\ \A v \in Waiters \ {w} : waiter'[v] = waiter[v]
           /\ waiter'[w].at \in {served, refused}
           /\ waiter'[w].calm <=> waiter[w].calm
           /\ waiter'[w].late <=> poolClock > waiter[w].wake
           /\ waiter'[w].filter = waiter[w].filter
           /\ Servable(waiter[w].filter) # {} => waiter'[w].got # NoItem
<1> DEFINE slots == Servable(waiter[w].filter)
           first == CHOOSE k \in slots : \A l \in slots : k <= l
           over == poolClock > waiter[w].wake
<1> USE ItemPoolAssumption
<1>1. /\ PoolTypeOK /\ TurnInPool /\ waiter \in [Waiters -> Waiter] /\ waiter[w] \in Waiter
      /\ size \in Nat /\ size <= MaxSize /\ turn \in Items /\ over \in BOOLEAN
  BY DEF PoolInv, PoolTypeOK
<1>2. ASSUME NEW at \in {"look", "done"}, NEW late1 \in BOOLEAN
      PROVE  LET v == [waiter[w] EXCEPT !.at = at, !.late = late1]
             IN  /\ v \in Waiter /\ v.at = at /\ (v.calm <=> waiter[w].calm)
                 /\ (v.late <=> late1) /\ v.filter = waiter[w].filter
  BY <1>1 DEF Waiter
<1>3. CASE slots = {}
  <2>1. /\ Scan(size - 1) /\ UNCHANGED turn
        /\ waiter' = [waiter EXCEPT ![w].at = refused, ![w].late = over]
    BY <1>3 DEF CallNext
  <2> DEFINE v == [waiter[w] EXCEPT !.at = refused, !.late = over]
  <2>2. v \in Waiter /\ v.at = refused /\ (v.calm <=> waiter[w].calm)
        /\ (v.late <=> over) /\ v.filter = waiter[w].filter
    <3>1. refused \in {"look", "done"}  OBVIOUS
    <3> HIDE DEF over
    <3> QED  BY <1>1, <1>2, <3>1
  <2>3. waiter' = [waiter EXCEPT ![w] = v]  BY <1>1, <2>1
  <2> HIDE DEF v
  <2>4. waiter' \in [Waiters -> Waiter] /\ waiter'[w] = v
        /\ \A x \in Waiters \ {w} : waiter'[x] = waiter[x]
    BY <1>1, <2>2, <2>3
  <2>5. turn' \in Items /\ TurnInPool'  BY <1>1, <2>1 DEF TurnInPool, Present
  <2>6. /\ active' \in [Items -> BOOLEAN] /\ due' \in [Items -> Nat \cup {Never}]
        /\ RemovedKept'
        /\ \A i \in Items : active[i] => active'[i]
        /\ \A i \in Items : active'[i] \/ due'[i] = due[i]
    BY <2>1, ScanStep
  <2> QED  BY <1>3, <2>2, <2>4, <2>5, <2>6
<1>4. CASE slots # {}
  <2>1. slots \in SUBSET Nat /\ slots \subseteq Present  BY <1>1 DEF Servable, Present
  <2>2. first \in slots
    <3> HIDE DEF slots
    <3>1. \E k \in slots : \A l \in slots : k <= l  BY <1>4, <2>1, LeastNatural
    <3> QED  BY <3>1
  <2>3. first \in Nat /\ size # 0
    <3>1. first \in Present  BY <2>1, <2>2
    <3> HIDE DEF first
    <3> QED  BY <1>1, <3>1 DEF Present
  <2>4. /\ Scan(first) /\ turn' = Slot(first + 1)
        /\ waiter' = [waiter EXCEPT ![w].at = served, ![w].late = over, ![w].got = Slot(first)]
    BY <1>4 DEF CallNext
  <2> HIDE DEF first
  <2>5. Slot(first) \in Present /\ Slot(first + 1) \in Present
    <3>1. first + 1 \in Nat  BY <2>3
    <3> QED  BY <1>1, <2>3, <3>1, SlotsGoRound
  <2>6. Present \subseteq Items /\ NoItem \notin Present  BY <1>1 DEF Present, Items, NoItem
  <2> DEFINE v == [waiter[w] EXCEPT !.at = served, !.late = over, !.got = Slot(first)]
  <2>7. v \in Waiter /\ v.at = served /\ (v.calm <=> waiter[w].calm)
        /\ (v.late <=> over) /\ v.filter = waiter[w].filter /\ v.got = Slot(first)
    <3> DEFINE i == Slot(first)
    <3>1. served \in {"look", "done"} /\ i \in Items  BY <2>5, <2>6
    <3> HIDE DEF over, i
    <3>2. LET x == [waiter[w] EXCEPT !.at = served, !.late = over, !.got = i]
          IN  /\ x \in Waiter /\ x.at = served /\ (x.calm <=> waiter[w].calm)
              /\ (x.late <=> over) /\ x.filter = waiter[w].filter /\ x.got = i
      BY <1>1, <3>1 DEF Waiter
    <3> QED  BY <3>2 DEF i
  <2>8. waiter' = [waiter EXCEPT ![w] = v]
    <3> DEFINE i == Slot(first)
    <3>1. waiter' = [waiter EXCEPT ![w].at = served, ![w].late = over, ![w].got = i]  BY <2>4
    <3>2. v = [waiter[w] EXCEPT !.at = served, !.late = over, !.got = i]  OBVIOUS
    <3> HIDE DEF over, i, v
    <3> QED  BY <1>1, <3>1, <3>2
  <2> HIDE DEF v
  <2>9. waiter' \in [Waiters -> Waiter] /\ waiter'[w] = v
        /\ \A x \in Waiters \ {w} : waiter'[x] = waiter[x]
    BY <1>1, <2>7, <2>8
  <2>10. turn' \in Items /\ TurnInPool'
    BY <2>4, <2>5, <2>6 DEF TurnInPool, Present
  <2>11. /\ active' \in [Items -> BOOLEAN] /\ due' \in [Items -> Nat \cup {Never}]
         /\ RemovedKept'
         /\ \A i \in Items : active[i] => active'[i]
         /\ \A i \in Items : active'[i] \/ due'[i] = due[i]
    BY <2>4, ScanStep
  <2> QED  BY <2>5, <2>6, <2>7, <2>9, <2>10, <2>11
<1> QED  BY <1>3, <1>4

\* Calls of Next keep what is worth waiting for, and who is rewarded, for the
\* others.
LEMMA CallStep ==
    ASSUME PoolInv, NEW w \in Waiters, First(w) \/ Wake(w)
    PROVE  PoolInv'
<1> DEFINE refused == IF waiter[w].at = "out" THEN "look" ELSE "done"
<1> USE ItemPoolAssumption
<1>1. /\ PoolTypeOK /\ TurnInPool /\ RemovedKept /\ AwakeNotCalm /\ WorthWaiting
      /\ WaitIsRewarded /\ waiter[w].wake \in Nat /\ poolClock \in Nat
  BY DEF PoolInv, PoolTypeOK, Waiter
<1>2. /\ CallNext(w, "done", refused) /\ UNCHANGED <<size, poolClock, removed>>
      /\ waiter[w].at \in {"out", "asleep"}
  BY DEF First, Wake
<1>3. "done" \in {"done"} /\ refused \in {"look", "done"}  OBVIOUS
<1>4. /\ active' \in [Items -> BOOLEAN] /\ due' \in [Items -> Nat \cup {Never}]
      /\ RemovedKept'
      /\ \A i \in Items : active[i] => active'[i]
      /\ \A i \in Items : active'[i] \/ due'[i] = due[i]
      /\ turn' \in Items /\ TurnInPool'
      /\ waiter' \in [Waiters -> Waiter]
      /\ \A v \in Waiters \ {w} : waiter'[v] = waiter[v]
      /\ waiter'[w].at \in {"done", refused}
      /\ waiter'[w].calm <=> waiter[w].calm
      /\ waiter'[w].late <=> poolClock > waiter[w].wake
      /\ waiter'[w].filter = waiter[w].filter
      /\ Servable(waiter[w].filter) # {} => waiter'[w].got # NoItem
  <2> HIDE DEF refused
  <2> QED  BY <1>2, <1>3, CallEffect
<1>5. PoolTypeOK'  BY <1>1, <1>2, <1>4 DEF PoolTypeOK
<1>6. AwakeNotCalm'
  <2>1. waiter'[w].at \in {"out", "look"} => waiter[w].at = "out"  BY <1>2, <1>4
  <2> QED  BY <1>1, <1>4, <2>1 DEF AwakeNotCalm
<1>7. WorthWaiting'
  <2> SUFFICES ASSUME NEW x \in Waiters, waiter'[x].at = "asleep", waiter'[x].calm
               PROVE  \E i \in Present' : active'[i] \/ (due'[i] # Never /\ due'[i] <= waiter'[x].wake)
    BY DEF WorthWaiting
  <2>1. x # w /\ waiter'[x] = waiter[x]  BY <1>3, <1>4
  <2>2. PICK i \in Present : active[i] \/ (due[i] # Never /\ due[i] <= waiter[x].wake)
    BY <1>1, <2>1 DEF WorthWaiting
  <2>3. i \in Items /\ Present' = Present  BY <1>1, <1>2 DEF Present, Items, PoolTypeOK
  <2>4. active'[i] \/ (due'[i] # Never /\ due'[i] <= waiter'[x].wake)
    <3>1. active[i] => active'[i]  BY <1>4, <2>3
    <3>2. active'[i] \/ due'[i] = due[i]  BY <1>4, <2>3
    <3> QED  BY <2>1, <2>2, <3>1, <3>2
  <2> QED  BY <2>3, <2>4
<1>8. WaitIsRewarded'
  <2> SUFFICES ASSUME NEW x \in Waiters, waiter'[x].at = "done", waiter'[x].calm,
                      waiter'[x].late, waiter'[x].filter = Items
               PROVE  waiter'[x].got # NoItem
    BY DEF WaitIsRewarded
  <2>1. CASE x # w
    BY <1>1, <1>4, <2>1 DEF WaitIsRewarded
  <2>2. CASE x = w
    <3>1. waiter[w].calm /\ poolClock > waiter[w].wake /\ waiter[w].filter = Items
      BY <1>4, <2>2
    <3>2. waiter[w].at = "asleep"  BY <1>1, <1>2, <3>1 DEF AwakeNotCalm
    <3>3. PICK i \in Present : active[i] \/ (due[i] # Never /\ due[i] <= waiter[w].wake)
      BY <1>1, <3>1, <3>2 DEF WorthWaiting
    <3>4. i \in Items  BY <1>1, <3>3 DEF Present, Items, PoolTypeOK
    <3>5. active[i] \/ Over(i)
      <4>1. due[i] \in Nat \cup {Never}  BY <1>1, <3>4 DEF PoolTypeOK
      <4>2. due[i] # Never /\ due[i] <= waiter[w].wake => due[i] < poolClock
        BY <1>1, <3>1, <4>1
      <4> QED  BY <3>3, <4>2 DEF Over
    <3>6. PICK k \in Present : Slot(k) = i  BY <1>1, SlotsGoRound
    <3>7. k \in Servable(Items)  BY <3>4, <3>5, <3>6 DEF Servable
    <3> QED  BY <1>4, <2>2, <3>1, <3>7
  <2> QED  BY <2>1, <2>2
<1> QED  BY <1>4, <1>5, <1>6, <1>7, <1>8 DEF PoolInv

\* AvailableIn is 0, or the time until an item that is out for a while is due.
LEMMA AvailableInDue ==
    ASSUME PoolTypeOK, AvailableIn # 0
    PROVE  \E i \in Pending : AvailableIn = due[i] - poolClock
<1> DEFINE i == CHOOSE j \in Pending : \A l \in Pending : due[j] <= due[l]
           dues == {due[j] : j \in Pending}
<1> USE ItemPoolAssumption
<1>1. Pending # {} /\ AvailableIn = due[i] - poolClock  BY DEF AvailableIn
<1>2. \A j \in Pending : due[j] \in Nat
  <2> SUFFICES ASSUME NEW j \in Pending PROVE due[j] \in Nat  OBVIOUS
  <2>1. /\ j \in Items /\ due[j] > poolClock /\ due[j] \in Nat \cup {Never}
        /\ poolClock \in Nat
    BY DEF PoolTypeOK, Pending, Present, Items
  <2> QED  BY <2>1 DEF Never
<1>3. dues \in SUBSET Nat /\ dues # {}  BY <1>1, <1>2
<1>4. PICK d \in dues : \A y \in dues : d <= y
  <2> HIDE DEF dues
  <2> QED  BY <1>3, LeastNatural
<1>5. \E j \in Pending : \A l \in Pending : due[j] <= due[l]  BY <1>4
<1>6. i \in Pending  BY <1>5
<1> QED  BY <1>1, <1>6

\* A caller goes to sleep for an item, or gives up.
LEMMA LookStep ==
    ASSUME PoolInv, NEW w \in Waiters, Look(w) \/ CancelWait(w)
    PROVE  PoolInv'
<1> USE ItemPoolAssumption
<1>1. /\ PoolTypeOK /\ TurnInPool /\ RemovedKept /\ AwakeNotCalm /\ WorthWaiting
      /\ WaitIsRewarded /\ waiter \in [Waiters -> Waiter] /\ waiter[w] \in Waiter
      /\ poolClock \in Nat
      /\ UNCHANGED <<size, active, due, turn, poolClock, removed>>
  BY DEF PoolInv, PoolTypeOK, Look, CancelWait
<1>2. RemovedKept' /\ TurnInPool'
  BY <1>1 DEF RemovedKept, TurnInPool, Present
<1>3. ASSUME NEW v \in Waiter, waiter' = [waiter EXCEPT ![w] = v],
             \/ ~v.calm /\ v.at = "done"
             \/ /\ v.at = "asleep"
                /\ \E i \in Present : due[i] # Never /\ due[i] <= v.wake
      PROVE  PoolInv'
  <2>1. /\ waiter' \in [Waiters -> Waiter] /\ waiter'[w] = v
        /\ \A x \in Waiters \ {w} : waiter'[x] = waiter[x]
    BY <1>1, <1>3
  <2>2. PoolTypeOK'  BY <1>1, <2>1 DEF PoolTypeOK
  <2>3. AwakeNotCalm'  BY <1>1, <1>3, <2>1 DEF AwakeNotCalm
  <2>4. WorthWaiting'
    <3> SUFFICES ASSUME NEW x \in Waiters, waiter'[x].at = "asleep", waiter'[x].calm
                 PROVE  \E i \in Present : active[i] \/ (due[i] # Never /\ due[i] <= waiter'[x].wake)
      BY <1>1 DEF WorthWaiting, Present
    <3>1. CASE x # w
      BY <1>1, <2>1, <3>1 DEF WorthWaiting
    <3>2. CASE x = w
      BY <1>3, <2>1, <3>2
    <3> QED  BY <3>1, <3>2
  <2>5. WaitIsRewarded'
    <3> SUFFICES ASSUME NEW x \in Waiters, waiter'[x].at = "done", waiter'[x].calm,
                        waiter'[x].late, waiter'[x].filter = Items
                 PROVE  waiter'[x].got # NoItem
      BY DEF WaitIsRewarded
    <3>1. x # w  BY <1>3, <2>1
    <3> QED  BY <1>1, <2>1, <3>1 DEF WaitIsRewarded
  <2> QED  BY <1>2, <2>2, <2>3, <2>4, <2>5 DEF PoolInv
<1>4. CASE CancelWait(w)
  <2> DEFINE v == [waiter[w] EXCEPT !.at = "done", !.calm = FALSE]
  <2>1. waiter' = [waiter EXCEPT ![w] = v]  BY <1>1, <1>4 DEF CancelWait
  <2>2. v \in Waiter /\ v.at = "done" /\ ~v.calm  BY <1>1 DEF Waiter
  <2> HIDE DEF v
  <2> QED  BY <1>3, <2>1, <2>2
<1>5. CASE Look(w) /\ AvailableIn \notin 1..waiter[w].maxWait
  <2> DEFINE v == [waiter[w] EXCEPT !.at = "done"]
  <2>1. waiter[w].at = "look" /\ waiter' = [waiter EXCEPT ![w] = v]  BY <1>1, <1>5 DEF Look
  <2>2. ~waiter[w].calm  BY <1>1, <2>1 DEF AwakeNotCalm
  <2>3. v \in Waiter /\ v.at = "done" /\ (v.calm <=> waiter[w].calm)  BY <1>1 DEF Waiter
  <2> HIDE DEF v
  <2> QED  BY <1>3, <2>1, <2>2, <2>3
<1>6. CASE Look(w) /\ AvailableIn \in 1..waiter[w].maxWait
  <2> DEFINE a == AvailableIn
             t == poolClock + a
             v == [waiter[w] EXCEPT !.at = "asleep", !.wake = t, !.calm = TRUE]
  <2>1. waiter' = [waiter EXCEPT ![w] = v]  BY <1>1, <1>6 DEF Look
  <2>2. PICK i \in Pending : a = due[i] - poolClock  BY <1>1, <1>6, AvailableInDue
  <2>3. i \in Present /\ due[i] > poolClock /\ due[i] \in Nat \cup {Never}
    BY <1>1 DEF Pending, Present, PoolTypeOK, Items
  <2> HIDE DEF a
  <2>4. due[i] # Never /\ due[i] = t /\ t \in Nat
    BY <1>1, <2>2, <2>3 DEF Never
  <2> HIDE DEF t
  <2>5. v \in Waiter /\ v.at = "asleep" /\ v.wake = t
    <3> DEFINE yes == TRUE
    <3>1. v = [waiter[w] EXCEPT !.at = "asleep", !.wake = t, !.calm = yes] /\ yes \in BOOLEAN
      OBVIOUS
    <3> HIDE DEF v, yes
    <3> QED  BY <1>1, <2>4, <3>1 DEF Waiter
  <2> HIDE DEF v
  <2>6. due[i] # Never /\ due[i] <= v.wake
    <3>1. due[i] \in Nat  BY <2>4
    <3> QED  BY <2>4, <2>5, <3>1
  <2> QED  BY <1>3, <2>1, <2>3, <2>5, <2>6
<1> QED  BY <1>4, <1>5, <1>6

\* An item that is taken out disturbs everyone who waits.
LEMMA DeactivateStep ==
    ASSUME PoolInv, NEW i \in Items, NEW t \in Nat \cup {Never},
           NEW how \in {"for a while", "for good"},
           how = "for good" => t = Never,
           Deactivate(i, t, how), UNCHANGED <<size, turn, poolClock>>
    PROVE  PoolInv'
<1> USE ItemPoolAssumption
<1>1. /\ PoolTypeOK /\ TurnInPool /\ RemovedKept /\ waiter \in [Waiters -> Waiter]
      /\ active \in [Items -> BOOLEAN] /\ due \in [Items -> Nat \cup {Never}]
      /\ removed \in [Items -> Removals]
  BY DEF PoolInv, PoolTypeOK
<1> DEFINE how1 == IF how = "for a while" /\ removed[i] \in {"for good", "resumed"}
                   THEN "resumed" ELSE how
<1>2. /\ active' = [active EXCEPT ![i] = FALSE]
      /\ due' = [due EXCEPT ![i] = t]
      /\ removed' = [removed EXCEPT ![i] = how1]
      /\ waiter' = [w \in Waiters |-> [waiter[w] EXCEPT !.calm = FALSE]]
  BY DEF Deactivate
<1>3. how1 \in Removals /\ (how1 = "for good" => t = Never)  BY DEF Removals
<1> HIDE DEF how1
<1>4. active' \in [Items -> BOOLEAN] /\ ~active'[i]
      /\ \A j \in Items \ {i} : active'[j] = active[j]
  BY <1>1, <1>2
<1>5. /\ due' \in [Items -> Nat \cup {Never}] /\ due'[i] = t
      /\ removed' \in [Items -> Removals] /\ removed'[i] = how1
      /\ \A j \in Items \ {i} : due'[j] = due[j] /\ removed'[j] = removed[j]
  BY <1>1, <1>2, <1>3
<1>6. ASSUME NEW w \in Waiters PROVE waiter'[w] \in Waiter /\ ~waiter'[w].calm
  <2> DEFINE no == FALSE
  <2>1. waiter'[w] = [waiter[w] EXCEPT !.calm = no] /\ no \in BOOLEAN /\ waiter[w] \in Waiter
    BY <1>1, <1>2
  <2>2. ~no  OBVIOUS
  <2> HIDE DEF no
  <2>3. waiter'[w] \in Waiter /\ waiter'[w].calm = no  BY <2>1 DEF Waiter
  <2> QED  BY <2>2, <2>3
<1>7. waiter' \in [Waiters -> Waiter]  BY <1>2, <1>6
<1>8. PoolTypeOK'  BY <1>1, <1>4, <1>5, <1>7 DEF PoolTypeOK
<1>9. RemovedKept'
  <2> SUFFICES ASSUME NEW j \in Items, removed'[j] = "for good"
               PROVE  ~active'[j] /\ due'[j] = Never
    BY DEF RemovedKept
  <2>1. CASE j = i
    BY <1>3, <1>4, <1>5, <2>1
  <2>2. CASE j # i
    <3>1. removed[j] = "for good"  BY <1>5, <2>2
    <3>2. ~active[j] /\ due[j] = Never  BY <1>1, <3>1 DEF RemovedKept
    <3> QED  BY <1>4, <1>5, <2>2, <3>2
  <2> QED  BY <2>1, <2>2
<1>10. TurnInPool'  BY <1>1 DEF TurnInPool, Present
<1>11. AwakeNotCalm' /\ WorthWaiting' /\ WaitIsRewarded'
  BY <1>6 DEF AwakeNotCalm, WorthWaiting, WaitIsRewarded
<1> QED  BY <1>8, <1>9, <1>10, <1>11 DEF PoolInv

\* Every step of the pool keeps the invariant.
LEMMA PoolStep == PoolInv /\ [PoolNext]_poolVars => PoolInv'
<1> SUFFICES ASSUME PoolInv, [PoolNext]_poolVars PROVE PoolInv'  OBVIOUS
<1> USE ItemPoolAssumption
<1>1. /\ PoolTypeOK /\ TurnInPool /\ RemovedKept /\ AwakeNotCalm /\ WorthWaiting
      /\ WaitIsRewarded
  BY DEF PoolInv
<1>2. CASE PoolTick
  <2>1. /\ poolClock < PoolMaxClock /\ poolClock' = poolClock + 1
        /\ UNCHANGED <<size, active, due, turn, waiter, removed>>
    BY <1>2 DEF PoolTick
  <2>2. poolClock' \in 0..PoolMaxClock  BY <1>1, <2>1 DEF PoolTypeOK
  <2>3. PoolTypeOK'  BY <1>1, <2>1, <2>2 DEF PoolTypeOK
  <2>4. TurnInPool' /\ RemovedKept'  BY <1>1, <2>1 DEF TurnInPool, RemovedKept, Present
  <2>5. AwakeNotCalm' /\ WaitIsRewarded'  BY <1>1, <2>1 DEF AwakeNotCalm, WaitIsRewarded
  <2>6. WorthWaiting'  BY <1>1, <2>1 DEF WorthWaiting, Present
  <2> QED  BY <2>3, <2>4, <2>5, <2>6 DEF PoolInv
<1>3. CASE AddItem
  <2>1. /\ size < MaxSize /\ size' = size + 1
        /\ UNCHANGED <<active, due, turn, waiter, poolClock, removed>>
    BY <1>3 DEF AddItem
  <2>2. size' \in 0..MaxSize /\ size \in Nat /\ Present \subseteq Present'
    BY <1>1, <2>1 DEF PoolTypeOK, Present
  <2>3. PoolTypeOK'  BY <1>1, <2>1, <2>2 DEF PoolTypeOK
  <2>4. TurnInPool'  BY <1>1, <2>1, <2>2 DEF TurnInPool, Present
  <2>5. RemovedKept' /\ AwakeNotCalm' /\ WaitIsRewarded'
    BY <1>1, <2>1 DEF RemovedKept, AwakeNotCalm, WaitIsRewarded
  <2>6. WorthWaiting'  BY <1>1, <2>1, <2>2 DEF WorthWaiting
  <2> QED  BY <2>3, <2>4, <2>5, <2>6 DEF PoolInv
<1>4. ASSUME NEW w \in Waiters, First(w) \/ Look(w) \/ Wake(w) \/ CancelWait(w)
      PROVE  PoolInv'
  BY <1>4, CallStep, LookStep
<1>5. ASSUME NEW i \in Present, DeactivateItem(i) PROVE PoolInv'
  <2>1. i \in Items  BY <1>1 DEF PoolTypeOK, Present, Items
  <2>2. Deactivate(i, Never, "for good") /\ UNCHANGED <<size, turn, poolClock>>
    BY <1>5 DEF DeactivateItem
  <2>3. "for good" \in {"for a while", "for good"} /\ Never \in Nat \cup {Never}  OBVIOUS
  <2> QED  BY <2>1, <2>2, <2>3, DeactivateStep
<1>6. ASSUME NEW i \in Present, NEW d \in Cooldowns, SoftDeactivate(i, d) PROVE PoolInv'
  <2>1. i \in Items  BY <1>1 DEF PoolTypeOK, Present, Items
  <2> DEFINE t == poolClock + d
  <2>2. t \in Nat \cup {Never}  BY <1>1 DEF PoolTypeOK
  <2>3. Deactivate(i, t, "for a while") /\ UNCHANGED <<size, turn, poolClock>>
    BY <1>6 DEF SoftDeactivate
  <2> HIDE DEF t
  <2>4. "for a while" \in {"for a while", "for good"} /\ "for a while" # "for good"  OBVIOUS
  <2> QED  BY <2>1, <2>2, <2>3, <2>4, DeactivateStep
<1>7. CASE UNCHANGED poolVars
  <2>1. UNCHANGED <<size, active, due, turn, waiter, poolClock, removed>>
    BY <1>7 DEF poolVars
  <2>2. PoolTypeOK'  BY <1>1, <2>1 DEF PoolTypeOK
  <2>3. TurnInPool' /\ RemovedKept'  BY <1>1, <2>1 DEF TurnInPool, RemovedKept, Present
  <2>4. AwakeNotCalm' /\ WaitIsRewarded'  BY <1>1, <2>1 DEF AwakeNotCalm, WaitIsRewarded
  <2>5. WorthWaiting'  BY <1>1, <2>1 DEF WorthWaiting, Present
  <2> QED  BY <2>2, <2>3, <2>4, <2>5 DEF PoolInv
<1> QED  BY <1>2, <1>3, <1>4, <1>5, <1>6, <1>7 DEF PoolNext

\* The invariant holds throughout.
LEMMA PoolInvariant == PoolSpec => []PoolInv
BY PoolInitInv, PoolStep, PTL DEF PoolSpec

\* DeactivateItem is for good: the item is never served again, whatever cooldown
\* an earlier SoftDeactivate had left (Pool.Next's reactivation).
THEOREM StaysOutHolds == PoolSpec => []StaysOut
<1>1. PoolInv => StaysOut  BY DEF PoolInv, RemovedKept, StaysOut
<1> QED  BY <1>1, PoolInvariant, PTL

\* A caller of NextWithWait that slept past the cooldown it was promised, and was
\* not disturbed by another removal, gets an item.
THEOREM WaitIsRewardedHolds == PoolSpec => []WaitIsRewarded
<1>1. PoolInv => WaitIsRewarded  BY DEF PoolInv
<1> QED  BY <1>1, PoolInvariant, PTL

-----------------------------------------------------------------------------
(* The packages together.                                                  *)

PackagesInv ==
    /\ part \in Parts
    /\ CfInv /\ IntelInv /\ PoolInv /\ HealthTrackerInv /\ Inv /\ PipeInv
    /\ SessionInv /\ BuildInv

\* A step of the composition is a step of one package, and the others stay.
LEMMA EachPackage ==
    ASSUME [Next]_vars
    PROVE  /\ part' = part
           /\ [CfNext]_cfVars /\ [IntelNext]_intelVars /\ [PoolNext]_poolVars
           /\ [HealthNext]_healthVars /\ [TrackerNext]_trackerVars /\ [PipeNext]_pipeVars
           /\ [SessionNext]_sessionVars /\ [BuildNext]_buildVars
<1>1. CASE Next
  BY <1>1 DEF Next
<1>2. CASE UNCHANGED vars
  BY <1>2 DEF vars
<1> QED  BY <1>1, <1>2

\* The packages keep their types, and their invariants, when they run side by
\* side, as TLC explores them.
THEOREM PackagesTyped == Spec => []TypeOK
<1>1. Init => PackagesInv
  BY CfInitInv, IntelInitInv, PoolInitInv, HealthTrackerInitInv, InvInit, PipeInitInv,
     SessionInitInv, BuildInitInv
     DEF Init, PackagesInv
<1>2. PackagesInv /\ [Next]_vars => PackagesInv'
  BY EachPackage, CfStep, IntelStep, PoolStep, HealthTrackerStep, InvStep, PipeStep,
     SessionStep, BuildStep
     DEF PackagesInv
<1>3. PackagesInv => TypeOK
  BY DEF PackagesInv, TypeOK, CfInv, IntelInv, PoolInv, HealthTrackerInv, Inv, PipeInv,
         SessionInv, BuildInv
<1> QED  BY <1>1, <1>2, <1>3, PTL DEF Spec
===============================================================================
