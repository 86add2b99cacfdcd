-------------------------- MODULE RetryTrackerProofs --------------------------
(***************************************************************************)
(* RetryTracker keeps its types, and concurrent workers exceed the limit   *)
(* of attempts by less than their number, for any number of workers, any   *)
(* limit and any TTL.                                                      *)
(***************************************************************************)
EXTENDS RetryTracker, FiniteSetTheorems, TLAPS

\* The workers that try are finitely many, so they can be counted.
Inv == TrackerTypeOK /\ Overshoot

-----------------------------------------------------------------------------
\* A worker that goes ahead is one more that tries, and one that was not counted.
LEMMA GoingAhead ==
    ASSUME TrackerTypeOK, NEW w \in Workers \ trying
    PROVE  /\ Cardinality(trying \cup {w}) = Cardinality(trying) + 1
           /\ Cardinality(trying) \in Nat /\ Cardinality(Workers) \in Nat
           /\ Cardinality(trying) + 1 <= Cardinality(Workers)
<1>1. IsFiniteSet(Workers)  BY RetryTrackerAssumption
<1>2. trying \subseteq Workers /\ w \in Workers /\ w \notin trying  BY DEF TrackerTypeOK
<1>3. IsFiniteSet(trying)  BY <1>1, <1>2, FS_Subset
<1>4. Cardinality(trying \cup {w}) = Cardinality(trying) + 1  BY <1>2, <1>3, FS_AddElement
<1>5. trying \cup {w} \subseteq Workers  BY <1>2
<1>6. Cardinality(trying \cup {w}) <= Cardinality(Workers)  BY <1>1, <1>5, FS_Subset
<1>7. Cardinality(trying) \in Nat /\ Cardinality(Workers) \in Nat
  BY <1>1, <1>3, FS_CardinalityType
<1> QED  BY <1>4, <1>6, <1>7

\* A worker that records how its attempt went is one less that tries.
LEMMA ComingBack ==
    ASSUME TrackerTypeOK, NEW w \in trying
    PROVE  /\ Cardinality(trying \ {w}) = Cardinality(trying) - 1
           /\ Cardinality(trying) \in Nat /\ Cardinality(Workers) \in Nat
           /\ Cardinality(trying) <= Cardinality(Workers)
<1>1. IsFiniteSet(Workers)  BY RetryTrackerAssumption
<1>2. trying \subseteq Workers  BY DEF TrackerTypeOK
<1>3. IsFiniteSet(trying)  BY <1>1, <1>2, FS_Subset
<1>4. Cardinality(trying \ {w}) = Cardinality(trying) - 1  BY <1>3, FS_RemoveElement
<1>5. Cardinality(trying) <= Cardinality(Workers)  BY <1>1, <1>2, FS_Subset
<1> QED  BY <1>1, <1>3, <1>4, <1>5, FS_CardinalityType

-----------------------------------------------------------------------------
\* There is no entry at first.
LEMMA InvInit == TrackerInit => Inv
<1> SUFFICES ASSUME TrackerInit PROVE Inv  OBVIOUS
<1>1. TrackerTypeOK  BY DEF TrackerInit, TrackerTypeOK
<1>2. Cardinality(trying) = 0  BY FS_EmptySet DEF TrackerInit
<1>3. Cardinality(Workers) \in Nat  BY RetryTrackerAssumption, FS_CardinalityType
<1>4. Overshoot  BY <1>2, <1>3, RetryTrackerAssumption DEF TrackerInit, Overshoot
<1> QED  BY <1>1, <1>4 DEF Inv

\* Every step keeps the types and the overshoot.
LEMMA InvStep == Inv /\ [TrackerNext]_trackerVars => Inv'
<1> SUFFICES ASSUME Inv, [TrackerNext]_trackerVars PROVE Inv'  OBVIOUS
<1> USE RetryTrackerAssumption
<1>0. TrackerTypeOK /\ Overshoot  BY DEF Inv
<1>1. CASE TrackerTick
  BY <1>0, <1>1 DEF TrackerTick, entryVars, TrackerTypeOK, Overshoot, Inv
<1>2. ASSUME NEW w \in Workers, GoAhead(w) PROVE Inv'
  <2>1. w \in Workers \ trying /\ trying' = trying \cup {w}  BY <1>2 DEF GoAhead
  <2>2. /\ Cardinality(trying') = Cardinality(trying) + 1
        /\ Cardinality(trying) \in Nat /\ Cardinality(Workers) \in Nat
        /\ Cardinality(trying') <= Cardinality(Workers)
    BY <1>0, <2>1, GoingAhead
  <2>3. \/ attempts' = 0
        \/ attempts' = attempts /\ attempts < MaxAttempts
    BY <1>2 DEF GoAhead, Forget, Eligible, entryVars
  <2>4. TrackerTypeOK'
    <3>1. trying' \subseteq Workers /\ everPermanent' = everPermanent
          /\ trackerClock' = trackerClock
      BY <1>0, <1>2, <2>1 DEF GoAhead, TrackerTypeOK
    <3>2. CASE Forget
      BY <1>0, <3>1, <3>2 DEF Forget, TrackerTypeOK
    <3>3. CASE UNCHANGED entryVars
      BY <1>0, <3>1, <3>3 DEF entryVars, TrackerTypeOK
    <3> QED  BY <1>2, <3>2, <3>3 DEF GoAhead
  <2>5. Overshoot'
    BY <1>0, <2>2, <2>3, <2>4 DEF Overshoot, TrackerTypeOK
  <2> QED  BY <2>4, <2>5 DEF Inv
<1>3. ASSUME NEW w \in Workers, RecordSuccessOf(w) PROVE Inv'
  <2>1. w \in trying /\ trying' = trying \ {w}  BY <1>3 DEF RecordSuccessOf
  <2>2. /\ Cardinality(trying') = Cardinality(trying) - 1
        /\ Cardinality(trying) \in Nat /\ Cardinality(Workers) \in Nat
        /\ Cardinality(trying) <= Cardinality(Workers)
    BY <1>0, <2>1, ComingBack
  <2>3. attempts' = 0  BY <1>3 DEF RecordSuccessOf, Forget
  <2>4. TrackerTypeOK'
    BY <1>0, <1>3, <2>1 DEF RecordSuccessOf, Forget, TrackerTypeOK
  <2>5. Overshoot'  BY <2>2, <2>3 DEF Overshoot
  <2> QED  BY <2>4, <2>5 DEF Inv
<1>4. ASSUME NEW w \in Workers, NEW perm \in BOOLEAN, RecordAttempt(w, perm) PROVE Inv'
  <2>1. w \in trying /\ trying' = trying \ {w}  BY <1>4 DEF RecordAttempt
  <2>2. /\ Cardinality(trying') = Cardinality(trying) - 1
        /\ Cardinality(trying) \in Nat /\ Cardinality(Workers) \in Nat
    BY <1>0, <2>1, ComingBack
  <2>3. attempts' = attempts + 1  BY <1>4 DEF RecordAttempt
  <2>4. TrackerTypeOK'
    BY <1>0, <1>4, <2>1 DEF RecordAttempt, TrackerTypeOK
  <2>5. Overshoot'
    BY <1>0, <2>2, <2>3 DEF Overshoot, TrackerTypeOK
  <2> QED  BY <2>4, <2>5 DEF Inv
<1>5. CASE UNCHANGED trackerVars
  BY <1>0, <1>5 DEF trackerVars, entryVars, TrackerTypeOK, Overshoot, Inv
<1> QED  BY <1>1, <1>2, <1>3, <1>4, <1>5 DEF TrackerNext

-----------------------------------------------------------------------------
\* The entry keeps its types, and a URL without one has no attempts on record.
THEOREM TrackerTypesHold == TrackerSpec => []TrackerTypeOK
<1>1. Inv => TrackerTypeOK  BY DEF Inv
<1> QED  BY InvInit, InvStep, <1>1, PTL DEF TrackerSpec

\* Asking and recording being two calls, concurrent workers exceed MaxAttempts by
\* less than their number, also when entries expire or are cleared in between.
THEOREM OvershootHolds == TrackerSpec => []Overshoot
<1>1. Inv => Overshoot  BY DEF Inv
<1> QED  BY InvInit, InvStep, <1>1, PTL DEF TrackerSpec
===============================================================================
