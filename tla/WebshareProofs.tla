--------------------------- MODULE WebshareProofs ---------------------------
(***************************************************************************)
(* Proofs about Webshare for every set of goroutines, every gap, page      *)
(* count, counter width and bound.                                         *)
(***************************************************************************)
EXTENDS Webshare, FiniteSetTheorems, TLAPS

\* What the type invariant rests on: a fetch still has pages to read, a list
\* about to be stored is not empty, and so is none that a reader holds.
Shape ==
    /\ \A t \in Threads : pc[t] = "fetch" => pages[t] < MaxPages
    /\ \A t \in Threads : pc[t] = "store" => acc[t] # << >>
    /\ \A r \in Readers : rpc[r] = "loaded" => held[r] # << >>
    /\ NextServes

TypeInv == TypeOK /\ Shape

-----------------------------------------------------------------------------
\* Concatenating a page to the proxies read so far gives a list of versions.
LEMMA PageIsList ==
    ASSUME NEW s \in Seq(Nat), NEW n \in Nat, NEW c \in Nat
    PROVE  /\ URLs(n, c) \in Seq(Nat)
           /\ s \o URLs(n, c) \in Seq(Nat)
           /\ \A i \in DOMAIN (s \o URLs(n, c)) :
                 \/ i \in DOMAIN s /\ (s \o URLs(n, c))[i] = s[i]
                 \/ (s \o URLs(n, c))[i] = c
  <1>1. URLs(n, c) \in Seq(Nat)  /\ Len(URLs(n, c)) = n
    BY DEF URLs
  <1>2. \A i \in 1..n : URLs(n, c)[i] = c
    BY DEF URLs
  <1> QED BY <1>1, <1>2

\* Next reads an entry of the list it loaded, whatever the counter.
LEMMA PickInList ==
    ASSUME NEW l \in Seq(Nat), l # << >>, NEW n \in Nat
    PROVE  Pick(l, n) \in Nat
  <1>1. Len(l) \in Nat \ {0} /\ n % Len(l) \in 0..Len(l) - 1
    OBVIOUS
  <1> QED BY <1>1 DEF Pick

\* The type invariant is inductive: no step leaves a list empty where one is
\* served, stored or read.
THEOREM Typing == Spec => []TypeInv
  <1>1. Init => TypeInv
    <2> SUFFICES ASSUME Init PROVE TypeInv
      OBVIOUS
    <2>1. list \in Seq(Nat) /\ list # << >>
      BY PageIsList DEF Init, URLs
    <2>2. counter \in 0..CounterMod - 1
      BY BoundsAssumption DEF Init
    <2>3. TypeOK
      <3>1. << >> \in Seq(Nat)
        OBVIOUS
      <3>2. /\ pc \in [Threads -> PCs] /\ wg \in Int
            /\ acc \in [Threads -> Seq(Nat)]
            /\ held \in [Readers -> Seq(Nat)]
        BY <3>1 DEF Init, PCs, FetchPCs
      <3>3. pages \in [Threads -> 0..MaxPages]
        BY BoundsAssumption DEF Init
      <3> QED BY <2>1, <2>2, <3>2, <3>3 DEF Init, TypeOK, Modes, NoTime
    <2>4. Shape
      BY BoundsAssumption DEF Init, Shape, NextServes, NoURL
    <2> QED BY <2>3, <2>4 DEF TypeInv
  <1>2. TypeInv /\ [Next]_vars => TypeInv'
    <2> SUFFICES ASSUME TypeInv, [Next]_vars PROVE TypeInv'
      OBVIOUS
    <2> USE BoundsAssumption DEF TypeInv, poolVars, threadVars, readerVars, PCs, FetchPCs
    <2>1. CASE Tick
      BY <2>1 DEF Tick, TypeOK, Shape, NextServes
    <2>2. CASE RotateCreds
      BY <2>2 DEF RotateCreds, TypeOK, Shape, NextServes
    <2>3. CASE LoopWake
      BY <2>3 DEF LoopWake, TypeOK, Shape, NextServes
    <2>4. CASE LoopExit
      BY <2>4 DEF LoopExit, TypeOK, Shape, NextServes
    <2>5. ASSUME NEW t \in Threads, Lead(t) PROVE TypeInv'
      BY <2>5 DEF Lead, TypeOK, Shape, NextServes
    <2>6. ASSUME NEW t \in Threads, Join(t) PROVE TypeInv'
      BY <2>6 DEF Join, TypeOK, Shape, NextServes
    <2>7. ASSUME NEW t \in Threads, FetchMore(t) PROVE TypeInv'
      <3>1. PICK n \in 0..PageSize : acc' = [acc EXCEPT ![t] = @ \o URLs(n, cred)]
        BY <2>7 DEF FetchMore
      <3>2. acc' \in [Threads -> Seq(Nat)]
        <4>1. acc[t] \in Seq(Nat) /\ n \in Nat /\ cred \in Nat
          BY DEF TypeOK
        <4>2. acc[t] \o URLs(n, cred) \in Seq(Nat)
          BY <4>1, PageIsList
        <4> QED BY <3>1, <4>2 DEF TypeOK
      <3>3. pages' = [pages EXCEPT ![t] = @ + 1] /\ pages[t] + 1 < MaxPages
        BY <2>7 DEF FetchMore
      <3>4. /\ UNCHANGED <<clock, cred, pc, closer, first>> /\ UNCHANGED poolVars
            /\ UNCHANGED readerVars
        BY <2>7 DEF FetchMore
      <3>5. pc[t] = "fetch"
        BY <2>7 DEF FetchMore
      <3>6. TypeOK'
        BY <3>2, <3>3, <3>4 DEF TypeOK
      <3>7. \A u \in Threads : pc'[u] = "store" => acc'[u] # << >>
        BY <3>1, <3>4, <3>5 DEF TypeOK, Shape
      <3>8. Shape'
        BY <3>3, <3>4, <3>7 DEF TypeOK, Shape, NextServes
      <3> QED BY <3>6, <3>8
    <2>8. ASSUME NEW t \in Threads, FetchLast(t) PROVE TypeInv'
      <3>1. PICK n \in 0..PageSize : acc' = [acc EXCEPT ![t] = @ \o URLs(n, cred)]
        BY <2>8 DEF FetchLast
      <3>2. acc' \in [Threads -> Seq(Nat)]
        <4>1. acc[t] \in Seq(Nat) /\ n \in Nat /\ cred \in Nat
          BY DEF TypeOK
        <4>2. acc[t] \o URLs(n, cred) \in Seq(Nat)
          BY <4>1, PageIsList
        <4> QED BY <3>1, <4>2 DEF TypeOK
      <3>3. /\ pages' = [pages EXCEPT ![t] = @ + 1] /\ pc[t] = "fetch"
            /\ pc' = [pc EXCEPT ![t] = "store"] /\ acc'[t] # << >>
            /\ UNCHANGED <<clock, cred, closer, first>> /\ UNCHANGED poolVars
            /\ UNCHANGED readerVars
        BY <2>8 DEF FetchLast
      <3>4. TypeOK'
        <4>1. pages[t] \in 0..MaxPages /\ pages[t] < MaxPages
          BY <3>3 DEF TypeOK, Shape
        <4>2. pages' \in [Threads -> 0..MaxPages]
          BY <3>3, <4>1 DEF TypeOK
        <4>3. pc' \in [Threads -> PCs]
          BY <3>3 DEF TypeOK
        <4> HIDE DEF PCs, FetchPCs
        <4> QED BY <3>2, <3>3, <4>2, <4>3 DEF TypeOK
      <3>5. \A u \in Threads : pc'[u] = "store" => acc'[u] # << >>
        BY <3>1, <3>3 DEF TypeOK, Shape
      <3>6. Shape'
        BY <3>3, <3>5 DEF TypeOK, Shape, NextServes
      <3> QED BY <3>4, <3>6
    <2>9. ASSUME NEW t \in Threads, FetchError(t) PROVE TypeInv'
      BY <2>9 DEF FetchError, TypeOK, Shape, NextServes
    <2>10. ASSUME NEW t \in Threads, SetProxies(t) PROVE TypeInv'
      BY <2>10 DEF SetProxies, TypeOK, Shape, NextServes
    <2>11. ASSUME NEW t \in Threads, Finish(t) PROVE TypeInv'
      BY <2>11 DEF Finish, AfterRefresh, TypeOK, Shape, NextServes
    <2>12. ASSUME NEW t \in Threads, WgDone(t) PROVE TypeInv'
      BY <2>12 DEF WgDone, TypeOK, Shape, NextServes
    <2>13. ASSUME NEW t \in Triggered, ReportTriggers(t) PROVE TypeInv'
      BY <2>13 DEF ReportTriggers, TypeOK, Shape, NextServes, Threads
    <2>14. ASSUME NEW c \in Closers, CloseFirst(c) PROVE TypeInv'
      BY <2>14 DEF CloseFirst, TypeOK, Shape, NextServes
    <2>15. ASSUME NEW c \in Closers, CloseAgain(c) PROVE TypeInv'
      BY <2>15 DEF CloseAgain, TypeOK, Shape, NextServes
    <2>16. ASSUME NEW c \in Closers, CloseStop(c) PROVE TypeInv'
      BY <2>16 DEF CloseStop, TypeOK, Shape, NextServes
    <2>17. ASSUME NEW c \in Closers, CloseWait(c) PROVE TypeInv'
      BY <2>17 DEF CloseWait, TypeOK, Shape, NextServes
    <2>18. ASSUME NEW r \in Readers, NextLoad(r) PROVE TypeInv'
      BY <2>18 DEF NextLoad, TypeOK, Shape, NextServes
    <2>19. ASSUME NEW r \in Readers, NextIndex(r) PROVE TypeInv'
      <3>1. held[r] \in Seq(Nat) /\ held[r] # << >> /\ counter \in Nat
        BY <2>19 DEF NextIndex, TypeOK, Shape
      <3>2. counter' = (counter + 1) % CounterMod
        BY <2>19, <3>1 DEF NextIndex
      <3>3. counter' \in 0..CounterMod - 1
        BY <3>1, <3>2
      <3>4. Pick(held[r], counter') \in Nat
        <4> DEFINE l == held[r]
                   n == counter'
        <4>1. l \in Seq(Nat) /\ l # << >> /\ n \in Nat
          BY <3>1, <3>3
        <4> HIDE DEF l, n
        <4>2. Pick(l, n) \in Nat
          BY <4>1, PickInList
        <4> QED BY <4>2 DEF l, n
      <3> QED BY <2>19, <3>3, <3>4 DEF NextIndex, TypeOK, Shape, NextServes, NoURL
    <2>20. CASE UNCHANGED vars
      BY <2>20 DEF vars, TypeOK, Shape, NextServes
    <2> QED
      BY <2>1, <2>2, <2>3, <2>4, <2>5, <2>6, <2>7, <2>8, <2>9, <2>10, <2>11, <2>12,
         <2>13, <2>14, <2>15, <2>16, <2>17, <2>18, <2>19, <2>20
      DEF Next, CloseStep
  <1> QED BY <1>1, <1>2, PTL DEF Spec

\* Every variable keeps its type; in particular the list that is served is never
\* empty, whatever the refreshes fetch.
THEOREM TypesHold == Spec => []TypeOK
  <1>1. TypeInv => TypeOK
    BY DEF TypeInv
  <1> QED BY <1>1, Typing, PTL

\* Next never returns the empty string, also when the list it indexes has been
\* replaced since it was loaded.
THEOREM NextServesHolds == Spec => []NextServes
  <1>1. TypeInv => NextServes
    BY DEF TypeInv, Shape
  <1> QED BY <1>1, Typing, PTL

-----------------------------------------------------------------------------
\* The singleflight group knows which goroutine runs the function.
Owner == \A t \in Threads : pc[t] \in FetchPCs <=> sf = t

\* No two goroutines fetch the list at the same time: a 407 trigger that fires
\* during a refresh joins it.
THEOREM SingleFlightHolds == Spec => [](Owner /\ SingleFlight)
  <1>1. Init => Owner
    BY ThreadsAssumption DEF Init, Owner, FetchPCs
  <1>2. TypeInv /\ Owner /\ [Next]_vars => Owner'
    <2> SUFFICES ASSUME TypeInv, Owner, [Next]_vars PROVE Owner'
      OBVIOUS
    <2> USE ThreadsAssumption DEF TypeInv, TypeOK, Owner, FetchPCs, poolVars, threadVars
    <2>1. CASE Tick \/ RotateCreds \/ UNCHANGED vars
      BY <2>1 DEF Tick, RotateCreds, vars
    <2>2. CASE LoopWake \/ LoopExit
      BY <2>2 DEF LoopWake, LoopExit
    <2>3. ASSUME NEW t \in Threads, Lead(t) PROVE Owner'
      BY <2>3 DEF Lead
    <2>4. ASSUME NEW t \in Threads, Join(t) PROVE Owner'
      BY <2>4 DEF Join
    <2>5. ASSUME NEW t \in Threads, FetchMore(t) \/ FetchLast(t) \/ FetchError(t)
          PROVE Owner'
      BY <2>5 DEF FetchMore, FetchLast, FetchError
    <2>6. ASSUME NEW t \in Threads, SetProxies(t) PROVE Owner'
      BY <2>6 DEF SetProxies
    <2>7. ASSUME NEW t \in Threads, Finish(t) PROVE Owner'
      <3>1. \A u \in Threads : pc'[u] \notin FetchPCs
        BY <2>7 DEF Finish, AfterRefresh
      <3> QED BY <2>7, <3>1 DEF Finish
    <2>8. ASSUME NEW t \in Threads, WgDone(t) PROVE Owner'
      BY <2>8 DEF WgDone
    <2>9. ASSUME NEW t \in Triggered, ReportTriggers(t) PROVE Owner'
      BY <2>9 DEF ReportTriggers, Threads
    <2>10. ASSUME NEW c \in Closers, CloseStep(c) PROVE Owner'
      BY <2>10 DEF CloseStep, CloseFirst, CloseAgain, CloseStop, CloseWait
    <2>11. ASSUME NEW r \in Readers, NextLoad(r) \/ NextIndex(r) PROVE Owner'
      BY <2>11 DEF NextLoad, NextIndex
    <2> QED
      BY <2>1, <2>2, <2>3, <2>4, <2>5, <2>6, <2>7, <2>8, <2>9, <2>10, <2>11 DEF Next
  <1>3. Owner => SingleFlight
    BY DEF Owner, SingleFlight
  <1> QED BY <1>1, <1>2, <1>3, Typing, PTL DEF Spec

-----------------------------------------------------------------------------
\* Registering goroutine t adds it to Live, its wg.Done takes it away.
LEMMA LiveChanges ==
    ASSUME TypeInv, NEW t \in Threads, NEW s \in PCs, pc' = [pc EXCEPT ![t] = s]
    PROVE  /\ IsFiniteSet(Live) /\ Cardinality(Live) \in Nat
           /\ pc[t] # "idle" /\ s # "idle" => Live' = Live
           /\ pc[t] = "idle" /\ s # "idle" => Cardinality(Live') = Cardinality(Live) + 1
           /\ pc[t] # "idle" /\ s = "idle" => Cardinality(Live') = Cardinality(Live) - 1
  <1>1. IsFiniteSet(Threads)
    BY ThreadsAssumption, FS_AddElement DEF Threads
  <1>2. IsFiniteSet(Live) /\ Cardinality(Live) \in Nat
    BY <1>1, FS_Subset, FS_CardinalityType DEF Live
  <1>3. pc[t] # "idle" /\ s # "idle" => Live' = Live
    BY DEF Live, TypeInv, TypeOK
  <1>4. ASSUME pc[t] = "idle", s # "idle"
        PROVE Cardinality(Live') = Cardinality(Live) + 1
    <2>1. Live' = Live \cup {t} /\ t \notin Live
      BY <1>4 DEF Live, TypeInv, TypeOK
    <2> QED BY <1>2, <2>1, FS_AddElement
  <1>5. ASSUME pc[t] # "idle", s = "idle"
        PROVE Cardinality(Live') = Cardinality(Live) - 1
    <2>1. Live' = Live \ {t} /\ t \in Live
      BY <1>5 DEF Live, TypeInv, TypeOK
    <2> QED BY <1>2, <2>1, FS_RemoveElement
  <1> QED BY <1>2, <1>3, <1>4, <1>5

\* The wait group counts exactly the goroutines that are alive, so wg.Wait()
\* waits for all of them and for nothing else.
THEOREM WaitGroupHolds == Spec => []WaitGroupExact
  <1>1. Init => WaitGroupExact
    <2> SUFFICES ASSUME Init PROVE WaitGroupExact
      OBVIOUS
    <2>1. CASE mode = "periodic"
      <3>1. Live = {Loop}
        BY <2>1 DEF Init, Live, Threads
      <3> QED BY <2>1, <3>1, FS_Singleton DEF Init, WaitGroupExact
    <2>2. CASE mode # "periodic"
      <3>1. Live = {}
        BY <2>2 DEF Init, Live
      <3> QED BY <2>2, <3>1, FS_EmptySet DEF Init, WaitGroupExact
    <2> QED BY <2>1, <2>2
  <1>2. TypeInv /\ WaitGroupExact /\ [Next]_vars => WaitGroupExact'
    <2> SUFFICES ASSUME TypeInv, WaitGroupExact, [Next]_vars PROVE WaitGroupExact'
      OBVIOUS
    <2> USE DEF TypeInv, TypeOK, PCs, FetchPCs, poolVars, threadVars
    <2>1. CASE UNCHANGED <<wg, pc>>
      BY <2>1 DEF WaitGroupExact, Live
    <2>2. CASE LoopWake \/ LoopExit
      <3>1. PICK s \in {"call", "done"} : pc' = [pc EXCEPT ![Loop] = s] /\ wg' = wg
        BY <2>2 DEF LoopWake, LoopExit
      <3>2. Live' = Live
        BY <2>2, <3>1 DEF Live, LoopWake, LoopExit
      <3> QED BY <3>1, <3>2 DEF WaitGroupExact
    <2>3. ASSUME NEW t \in Threads,
                 Lead(t) \/ Join(t) \/ FetchLast(t) \/ FetchError(t) \/ SetProxies(t)
          PROVE WaitGroupExact'
      <3>1. PICK s \in PCs \ {"idle"} :
               pc' = [pc EXCEPT ![t] = s] /\ pc[t] # "idle" /\ wg' = wg
        BY <2>3 DEF Lead, Join, FetchLast, FetchError, SetProxies
      <3>2. Live' = Live
        BY <3>1 DEF Live
      <3> QED BY <3>1, <3>2 DEF WaitGroupExact
    <2>4. ASSUME NEW t \in Threads, FetchMore(t) PROVE WaitGroupExact'
      BY <2>1, <2>4 DEF FetchMore
    <2>5. ASSUME NEW t \in Threads, Finish(t) PROVE WaitGroupExact'
      <3>1. Live' = Live /\ wg' = wg
        BY <2>5 DEF Finish, AfterRefresh, Live
      <3> QED BY <3>1 DEF WaitGroupExact
    <2>6. ASSUME NEW t \in Threads, WgDone(t) PROVE WaitGroupExact'
      <3>1. pc' = [pc EXCEPT ![t] = "idle"] /\ pc[t] # "idle" /\ wg' = wg - 1
        BY <2>6 DEF WgDone
      <3>2. Cardinality(Live') = Cardinality(Live) - 1
        BY <3>1, LiveChanges
      <3> QED BY <3>1, <3>2 DEF WaitGroupExact
    <2>7. ASSUME NEW t \in Triggered, ReportTriggers(t) PROVE WaitGroupExact'
      <3>1. t \in Threads /\ pc' = [pc EXCEPT ![t] = "call"] /\ pc[t] = "idle" /\ wg' = wg + 1
        BY <2>7 DEF ReportTriggers, Threads
      <3>2. "call" \in PCs
        OBVIOUS
      <3> HIDE DEF TypeInv, TypeOK, PCs, FetchPCs
      <3>3. Cardinality(Live') = Cardinality(Live) + 1
        BY <3>1, <3>2, LiveChanges
      <3> QED BY <3>1, <3>3 DEF WaitGroupExact
    <2>8. ASSUME NEW c \in Closers, CloseStep(c) PROVE WaitGroupExact'
      BY <2>1, <2>8 DEF CloseStep, CloseFirst, CloseAgain, CloseStop, CloseWait
    <2>9. ASSUME NEW r \in Readers, NextLoad(r) \/ NextIndex(r) PROVE WaitGroupExact'
      BY <2>1, <2>9 DEF NextLoad, NextIndex
    <2>10. CASE Tick \/ RotateCreds \/ UNCHANGED vars
      BY <2>1, <2>10 DEF Tick, RotateCreds, vars
    <2> QED
      BY <2>2, <2>3, <2>4, <2>5, <2>6, <2>7, <2>8, <2>9, <2>10 DEF Next
  <1> QED BY <1>1, <1>2, Typing, PTL DEF Spec

-----------------------------------------------------------------------------
\* The pool is closed from the step of the first Close on, that caller never
\* closes again, and when it has returned nothing is left running.
Closing ==
    /\ closed <=> first # NoCloser
    /\ closed => first \in Closers /\ closer[first] # "idle"
    /\ QuietAfterClose

\* When the Close that found the pool open has returned, no refresher is left,
\* and no late 407 report can start one.
THEOREM QuietAfterCloseHolds == Spec => [](Closing /\ QuietAfterClose)
  <1>1. Init => Closing
    BY DEF Init, Closing, QuietAfterClose
  <1>2. TypeInv /\ WaitGroupExact /\ Closing /\ [Next]_vars => Closing'
    <2> SUFFICES ASSUME TypeInv, WaitGroupExact, Closing, [Next]_vars PROVE Closing'
      OBVIOUS
    <2> USE ThreadsAssumption
        DEF TypeInv, TypeOK, Closing, QuietAfterClose, Live, poolVars, threadVars
    <2>1. CASE Tick \/ RotateCreds \/ UNCHANGED vars
      BY <2>1 DEF Tick, RotateCreds, vars
    <2>2. CASE LoopWake \/ LoopExit
      BY <2>2 DEF LoopWake, LoopExit, Threads
    <2>3. ASSUME NEW t \in Threads, Lead(t) \/ Join(t) PROVE Closing'
      BY <2>3 DEF Lead, Join
    <2>4. ASSUME NEW t \in Threads, FetchMore(t) \/ FetchLast(t) \/ FetchError(t)
          PROVE Closing'
      BY <2>4 DEF FetchMore, FetchLast, FetchError
    <2>5. ASSUME NEW t \in Threads, SetProxies(t) \/ WgDone(t) PROVE Closing'
      BY <2>5 DEF SetProxies, WgDone
    <2>6. ASSUME NEW t \in Threads, Finish(t) PROVE Closing'
      BY <2>6 DEF Finish
    <2>7. ASSUME NEW t \in Triggered, ReportTriggers(t) PROVE Closing'
      BY <2>7 DEF ReportTriggers, TriggerAllowed
    <2>8. ASSUME NEW c \in Closers, CloseFirst(c) PROVE Closing'
      BY <2>8 DEF CloseFirst
    <2>9. ASSUME NEW c \in Closers, CloseAgain(c) PROVE Closing'
      BY <2>9 DEF CloseAgain
    <2>10. ASSUME NEW c \in Closers, CloseStop(c) PROVE Closing'
      BY <2>10 DEF CloseStop
    <2>11. ASSUME NEW c \in Closers, CloseWait(c) PROVE Closing'
      <3>1. IsFiniteSet(Live)
        BY FS_AddElement, FS_Subset DEF Threads
      <3>2. Live = {}
        BY <2>11, <3>1, FS_EmptySet DEF CloseWait, WaitGroupExact
      <3> QED BY <2>11, <3>2 DEF CloseWait
    <2>12. ASSUME NEW r \in Readers, NextLoad(r) \/ NextIndex(r) PROVE Closing'
      BY <2>12 DEF NextLoad, NextIndex
    <2> QED
      BY <2>1, <2>2, <2>3, <2>4, <2>5, <2>6, <2>7, <2>8, <2>9, <2>10, <2>11, <2>12
      DEF Next, CloseStep
  <1>3. Closing => QuietAfterClose
    BY DEF Closing
  <1> QED BY <1>1, <1>2, <1>3, Typing, WaitGroupHolds, PTL DEF Spec

-----------------------------------------------------------------------------
(***************************************************************************)
(* Credential versions.  Nothing is newer than the account's version, and  *)
(* what a goroutine has fetched is at least as recent as the whole list:   *)
(* the singleflight group keeps the list from being replaced meanwhile.    *)
(***************************************************************************)
ListBound == \A i \in DOMAIN list : list[i] <= cred
FetchBound ==
    \A t \in Threads : pc[t] \in {"fetch", "store"} =>
        \A j \in DOMAIN acc[t] :
            acc[t][j] <= cred /\ \A i \in DOMAIN list : list[i] <= acc[t][j]
Recent == ListBound /\ FetchBound

\* A page that is fetched now is as recent as the account.
LEMMA PageIsRecent ==
    ASSUME TypeInv, Recent, NEW t \in Threads, pc[t] = "fetch", NEW n \in Nat
    PROVE  \A j \in DOMAIN (acc[t] \o URLs(n, cred)) :
              /\ (acc[t] \o URLs(n, cred))[j] <= cred
              /\ \A i \in DOMAIN list : list[i] <= (acc[t] \o URLs(n, cred))[j]
  <1>1. acc[t] \in Seq(Nat) /\ cred \in Nat
    BY DEF TypeInv, TypeOK
  <1>2. \A j \in DOMAIN (acc[t] \o URLs(n, cred)) :
           \/ j \in DOMAIN acc[t] /\ (acc[t] \o URLs(n, cred))[j] = acc[t][j]
           \/ (acc[t] \o URLs(n, cred))[j] = cred
    BY <1>1, PageIsList
  <1> QED BY <1>1, <1>2 DEF Recent, ListBound, FetchBound

\* What is served and what is being fetched is never newer than the account, and
\* what is being fetched is never older than what is served.
LEMMA RecentHolds == Spec => []Recent
  <1>1. Init => Recent
    BY DEF Init, Recent, ListBound, FetchBound, URLs
  <1>2. TypeInv /\ Owner /\ Recent /\ [Next]_vars => Recent'
    <2> SUFFICES ASSUME TypeInv, Owner, Recent, [Next]_vars PROVE Recent'
      OBVIOUS
    <2> USE DEF Recent, ListBound, FetchBound, poolVars, threadVars
    <2>0. pc \in [Threads -> PCs] /\ acc \in [Threads -> Seq(Nat)] /\ cred \in Nat
          /\ list \in Seq(Nat) /\ Loop \in Threads
      BY DEF TypeInv, TypeOK, Threads
    <2>1. CASE UNCHANGED <<list, cred, acc, pc>>
      BY <2>1
    <2>2. CASE RotateCreds
      <3>1. /\ \A i \in DOMAIN list : list[i] \in Nat
            /\ \A t \in Threads : \A j \in DOMAIN acc[t] : acc[t][j] \in Nat
        BY <2>0
      <3>2. cred' = cred + 1 /\ UNCHANGED <<list, acc, pc>>
        BY <2>2 DEF RotateCreds
      <3> QED BY <2>0, <3>1, <3>2
    <2>3. CASE LoopWake \/ LoopExit
      BY <2>0, <2>3 DEF LoopWake, LoopExit
    <2>4. ASSUME NEW t \in Threads, Lead(t) PROVE Recent'
      BY <2>0, <2>4 DEF Lead
    <2>5. ASSUME NEW t \in Threads, Join(t) \/ FetchError(t) \/ WgDone(t) PROVE Recent'
      BY <2>0, <2>5 DEF Join, FetchError, WgDone
    <2>6. ASSUME NEW t \in Threads, FetchMore(t) \/ FetchLast(t) PROVE Recent'
      <3>1. PICK n \in 0..PageSize : acc' = [acc EXCEPT ![t] = @ \o URLs(n, cred)]
        BY <2>6 DEF FetchMore, FetchLast
      <3>2. /\ pc[t] = "fetch" /\ UNCHANGED <<list, cred>>
            /\ \A u \in Threads : u # t => pc'[u] = pc[u]
        BY <2>0, <2>6 DEF FetchMore, FetchLast
      <3>3. n \in Nat
        BY BoundsAssumption
      <3>4. \A j \in DOMAIN acc'[t] :
               acc'[t][j] <= cred /\ \A i \in DOMAIN list : list[i] <= acc'[t][j]
        BY <2>0, <3>1, <3>2, <3>3, PageIsRecent
      <3>5. \A u \in Threads : u # t => acc'[u] = acc[u]
        BY <2>0, <3>1
      <3> QED BY <3>2, <3>4, <3>5
    <2>7. ASSUME NEW t \in Threads, SetProxies(t) PROVE Recent'
      <3>1. \A u \in Threads : pc'[u] \notin {"fetch", "store"}
        BY <2>0, <2>7 DEF SetProxies, Owner, FetchPCs
      <3>2. \A i \in DOMAIN list' : list'[i] <= cred'
        BY <2>0, <2>7 DEF SetProxies
      <3> QED BY <3>1, <3>2
    <2>8. ASSUME NEW t \in Threads, Finish(t) PROVE Recent'
      <3>1. /\ UNCHANGED <<list, cred>>
            /\ \A u \in Threads : pc'[u] \in {"fetch", "store"} => u # t /\ pc[u] = pc'[u]
            /\ \A u \in Threads : u # t => acc'[u] = acc[u]
        BY <2>0, <2>8 DEF Finish, AfterRefresh
      <3> QED BY <3>1
    <2>9. ASSUME NEW t \in Triggered, ReportTriggers(t) PROVE Recent'
      BY <2>0, <2>9 DEF ReportTriggers, Threads
    <2>10. ASSUME NEW c \in Closers, CloseStep(c) PROVE Recent'
      BY <2>1, <2>10 DEF CloseStep, CloseFirst, CloseAgain, CloseStop, CloseWait
    <2>11. ASSUME NEW r \in Readers, NextLoad(r) \/ NextIndex(r) PROVE Recent'
      BY <2>1, <2>11 DEF NextLoad, NextIndex
    <2>12. CASE Tick \/ UNCHANGED vars
      BY <2>1, <2>12 DEF Tick, vars
    <2> QED
      BY <2>2, <2>3, <2>4, <2>5, <2>6, <2>7, <2>8, <2>9, <2>10, <2>11, <2>12 DEF Next
  <1> QED BY <1>1, <1>2, Typing, SingleFlightHolds, PTL DEF Spec

\* A refresh never puts older credentials back into the pool.
THEOREM ListAdvancesHolds == Spec => ListAdvances
  <1>1. ASSUME TypeInv, Recent, [Next]_vars
        PROVE  [\A i \in DOMAIN list, j \in DOMAIN list' : list' # list => list[i] <= list'[j]]_vars
    <2>1. CASE \E t \in Threads : SetProxies(t)
      BY <1>1, <2>1 DEF SetProxies, Recent, FetchBound
    <2>2. CASE ~\E t \in Threads : SetProxies(t)
      <3>1. list' = list
        BY <1>1, <2>2
        DEF Next, Tick, RotateCreds, LoopWake, LoopExit, Lead, Join, FetchMore, FetchLast,
            FetchError, Finish, WgDone, ReportTriggers, CloseStep, CloseFirst, CloseAgain,
            CloseStop, CloseWait, NextLoad, NextIndex, poolVars, vars
      <3> QED BY <3>1
    <2> QED BY <2>1, <2>2
  <1> QED BY <1>1, Typing, RecentHolds, PTL DEF Spec, ListAdvances

-----------------------------------------------------------------------------
\* A reader that is not inside Next holds no list.
HoldsInside == \A r \in Readers : rpc[r] = "idle" => held[r] = << >>

\* It holds throughout.
LEMMA HeldInside == Spec => []HoldsInside
  <1>1. Init => HoldsInside
    BY DEF Init, HoldsInside
  <1>2. TypeInv /\ HoldsInside /\ [Next]_vars => HoldsInside'
    <2> SUFFICES ASSUME TypeInv, HoldsInside, [Next]_vars PROVE HoldsInside'
      OBVIOUS
    <2> USE DEF HoldsInside, TypeInv, TypeOK, readerVars
    <2>1. CASE UNCHANGED readerVars
      BY <2>1
    <2>2. ASSUME NEW r \in Readers, NextLoad(r) \/ NextIndex(r) PROVE HoldsInside'
      BY <2>2 DEF NextLoad, NextIndex
    <2>3. CASE ~\E r \in Readers : NextLoad(r) \/ NextIndex(r)
      BY <2>1, <2>3
      DEF Next, Tick, RotateCreds, LoopWake, LoopExit, Lead, Join, FetchMore, FetchLast,
          FetchError, SetProxies, Finish, WgDone, ReportTriggers, CloseStep, CloseFirst,
          CloseAgain, CloseStop, CloseWait, vars
    <2> QED BY <2>2, <2>3
  <1> QED BY <1>1, <1>2, Typing, PTL DEF Spec

\* What a caller of Next is given is an entry of the list it loaded.
LEMMA PickIsEntry ==
    ASSUME NEW l \in Seq(Nat), l # << >>, NEW n \in Nat
    PROVE  \E i \in DOMAIN l : Pick(l, n) = l[i]
  <1>1. Len(l) \in Nat \ {0} /\ n % Len(l) \in 0..Len(l) - 1
    OBVIOUS
  <1>2. (n % Len(l)) + 1 \in DOMAIN l
    BY <1>1
  <1> QED BY <1>2 DEF Pick

\* The pool implements FreshList: every step is one of an atomic list of
\* credentials, or none at all.
THEOREM Implementation == Spec => ImplementsFreshList
  <1> DEFINE Inv == TypeInv /\ Owner /\ Closing /\ QuietAfterClose /\ Recent /\ HoldsInside
  <1>1. Init => Fresh!FreshInit
    <2>1. URLs(1, 0) = <<0>>
      BY DEF URLs
    <2> QED BY <2>1 DEF Init, Fresh!FreshInit, Stopped
  <1>2. Inv /\ [Next]_vars => [Fresh!FreshNext]_(Fresh!freshVars)
    <2> SUFFICES ASSUME Inv, [Next]_vars PROVE [Fresh!FreshNext]_(Fresh!freshVars)
      OBVIOUS
    <2> USE DEF poolVars, threadVars, readerVars
    <2>1. CASE UNCHANGED <<list, cred, closer, first, held, result>>
      BY <2>1 DEF Fresh!freshVars, Stopped
    <2>2. CASE RotateCreds
      BY <2>2 DEF RotateCreds, Fresh!FreshNext, Fresh!Rotate, Stopped
    <2>3. ASSUME NEW t \in Threads, SetProxies(t) PROVE Fresh!Replace
      <3>1. t \in Live /\ ~Stopped
        BY <2>3 DEF SetProxies, Live, Stopped, QuietAfterClose
      <3>2. list' \in Seq(Nat) \ {<< >>}
        BY <2>3 DEF SetProxies, TypeInv, TypeOK, Shape
      <3>3. \A j \in DOMAIN list' :
               list'[j] <= cred /\ \A i \in DOMAIN list : list[i] <= list'[j]
        BY <2>3 DEF SetProxies, Recent, FetchBound
      <3>4. UNCHANGED <<cred, closer, first, held, result>>
        BY <2>3 DEF SetProxies
      <3> QED BY <3>1, <3>2, <3>3, <3>4 DEF Fresh!Replace, Stopped
    <2>4. ASSUME NEW c \in Closers, CloseStep(c)
          PROVE  [Fresh!FreshNext]_(Fresh!freshVars)
      <3>1. UNCHANGED <<list, cred, held, result>>
        BY <2>4 DEF CloseStep, CloseFirst, CloseAgain, CloseStop, CloseWait
      <3>2. Stopped => Stopped'
        BY <2>4, ThreadsAssumption
        DEF CloseStep, CloseFirst, CloseAgain, CloseStop, CloseWait, Stopped, Closing,
            TypeInv, TypeOK
      <3>3. Stopped \in BOOLEAN /\ Stopped' \in BOOLEAN
        BY DEF Stopped
      <3>4. CASE Stopped' = Stopped
        BY <3>1, <3>4 DEF Fresh!freshVars
      <3>5. CASE Stopped' = TRUE
        BY <3>1, <3>5 DEF Fresh!FreshNext, Fresh!Stop
      <3> QED BY <3>2, <3>3, <3>4, <3>5
    <2>5. ASSUME NEW r \in Readers, NextLoad(r) PROVE Fresh!Take(r)
      BY <2>5 DEF NextLoad, HoldsInside, Fresh!Take, Stopped
    <2>6. ASSUME NEW r \in Readers, NextIndex(r) PROVE Fresh!Give(r)
      <3>1. held[r] \in Seq(Nat) /\ held[r] # << >> /\ counter \in Nat
        BY <2>6 DEF NextIndex, TypeInv, TypeOK, Shape
      <3>2. counter' \in Nat
        BY <2>6, <3>1, BoundsAssumption DEF NextIndex
      <3>3. PICK i \in DOMAIN held[r] : Pick(held[r], counter') = held[r][i]
        <4> DEFINE l == held[r]
                   n == counter'
        <4>1. l \in Seq(Nat) /\ l # << >> /\ n \in Nat
          BY <3>1, <3>2
        <4> HIDE DEF l, n
        <4>2. \E i \in DOMAIN l : Pick(l, n) = l[i]
          BY <4>1, PickIsEntry
        <4> QED BY <4>2 DEF l, n
      <3>4. result' = [result EXCEPT ![r] = held[r][i]]
        BY <2>6, <3>3 DEF NextIndex
      <3>5. held' = [held EXCEPT ![r] = << >>] /\ UNCHANGED <<list, cred, closer, first>>
        BY <2>6 DEF NextIndex
      <3> QED BY <3>3, <3>4, <3>5 DEF Fresh!Give, Stopped
    <2>7. ASSUME NEW t \in Threads,
                 Lead(t) \/ Join(t) \/ FetchMore(t) \/ FetchLast(t) \/ FetchError(t)
                    \/ Finish(t) \/ WgDone(t)
          PROVE  UNCHANGED <<list, cred, closer, first, held, result>>
      BY <2>7 DEF Lead, Join, FetchMore, FetchLast, FetchError, Finish, WgDone
    <2>8. ASSUME NEW t \in Triggered, ReportTriggers(t)
          PROVE  UNCHANGED <<list, cred, closer, first, held, result>>
      BY <2>8 DEF ReportTriggers
    <2>9. CASE Tick \/ LoopWake \/ LoopExit \/ UNCHANGED vars
      BY <2>1, <2>9 DEF Tick, LoopWake, LoopExit, vars
    <2> QED
      BY <2>1, <2>2, <2>3, <2>4, <2>5, <2>6, <2>7, <2>8, <2>9 DEF Next, Fresh!FreshNext
  <1>3. Spec => []Recent
    BY RecentHolds
  <1> QED
    BY <1>1, <1>2, <1>3, Typing, SingleFlightHolds, QuietAfterCloseHolds, HeldInside, PTL
    DEF Spec, Fresh!FreshSpec, ImplementsFreshList
=============================================================================
