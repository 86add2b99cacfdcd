-------------------------- MODULE HealthyPoolProofs --------------------------
(***************************************************************************)
(* HealthyPool deactivates a proxy on its own evidence only, brings it     *)
(* back only after its cooldown, and falls back, when nobody interferes,   *)
(* only after it has seen every proxy down: for any proxies, lists and     *)
(* callers, and any threshold, minimum and cooldown.                       *)
(***************************************************************************)
EXTENDS HealthyPool, SequenceTheorems, TLAPS

-----------------------------------------------------------------------------
(* The inductive invariants.                                               *)

\* Calls read the clock in the past, and hold a proxy once they have drawn one;
\* the loop of Next has iterations left while it runs.
CallsSound ==
    /\ clock >= 1
    /\ \A c \in Callers :
          /\ now[c] <= clock
          /\ pc[c] \in {"look", "using"} => proxy[c] \in Proxies
          /\ pc[c] \in {"draw", "look"} => left[c] >= 1

\* The counters of a proxy are its results since it was last activated, and it is
\* deactivated only with enough of them.
EvidenceKept ==
    \A p \in Proxies :
        /\ reports[p] = health[p].succ + health[p].fail
        /\ Down(p) => health[p].succ + health[p].fail >= MinRequests

HealthInv == TypeOK /\ CallsSound /\ EvidenceKept

\* What the wrapped pool serves for the counter values in an interval.
DrawnIn(first, last) == {Drawn(n) : n \in first..last}

\* A call that nobody interferes with has found down what the counter has drawn
\* since the call began.
Solo(c) ==
    /\ pc[c] \in InNext
    /\ \A d \in Callers \ {c} : pc[d] \notin InNext
    /\ left[c] <= Len(list)
    /\ pc[c] \in {"draw", "fallback"} =>
          skipped[c] = DrawnIn(counter - (Len(list) - left[c]) + 1, counter)
    /\ pc[c] = "look" =>
          /\ proxy[c] = Drawn(counter)
          /\ skipped[c] = DrawnIn(counter - (Len(list) - left[c]), counter - 1)
    /\ pc[c] = "fallback" => left[c] = 0

SoloInv == \A c \in Callers : alone[c] => Solo(c)

-----------------------------------------------------------------------------
(* Lemmas on the rotation.                                                 *)

\* The wrapped pool serves its own proxies.
LEMMA DrawnIsServed ==
    ASSUME NEW l \in Lists, NEW n \in Nat
    PROVE  /\ Len(l) \in Nat \ {0} /\ DOMAIN l = 1..Len(l)
           /\ (n % Len(l)) + 1 \in DOMAIN l
           /\ \A i \in DOMAIN l : l[i] \in Proxies
<1>1. l \in Seq(Proxies) /\ l # << >>  BY HealthyAssumption
<1>2. Len(l) \in Nat /\ Len(l) # 0 /\ DOMAIN l = 1..Len(l)  BY <1>1, EmptySeq, LenProperties
<1>3. \A i \in 1..Len(l) : l[i] \in Proxies  BY <1>1, ElementOfSeq
<1>4. (n % Len(l)) + 1 \in 1..Len(l)  BY <1>2
<1> QED  BY <1>2, <1>3, <1>4

\* The remainder is the only number below the divisor at a distance of multiples.
LEMMA Remainder ==
    ASSUME NEW n \in Int, NEW q \in Int, NEW L \in Nat \ {0}, NEW j \in 0..L - 1, n = q * L + j
    PROVE  n % L = j
<1> DEFINE k == n \div L
           r == n % L
<1>1. k \in Int /\ r \in 0..L - 1 /\ n = k * L + r  OBVIOUS
<1> HIDE DEF k, r
<1>2. (q - k) * L = r - j  BY <1>1
<1>3. q - k >= 1 => (q - k) * L >= L  BY <1>1
<1>4. q - k <= -1 => (q - k) * L <= -L  BY <1>1
<1>5. q = k  BY <1>1, <1>2, <1>3, <1>4
<1>6. r = j  BY <1>1, <1>5
<1> QED  BY <1>6 DEF r

\* Among as many consecutive numbers as the divisor is, every remainder occurs.
LEMMA EveryRemainder ==
    ASSUME NEW m \in Nat, NEW L \in Nat \ {0}, NEW j \in 0..L - 1
    PROVE  \E n \in (m - L + 1)..m : n % L = j
<1> DEFINE q == m \div L
           r == m % L
<1>1. q \in Int /\ r \in 0..L - 1 /\ m = q * L + r  OBVIOUS
<1> HIDE DEF q, r
<1>2. CASE j <= r
  <2>1. q * L + j \in (m - L + 1)..m  BY <1>1, <1>2
  <2>2. (q * L + j) % L = j  BY <1>1, Remainder
  <2> QED  BY <2>1, <2>2
<1>3. CASE j > r
  <2>1. (q - 1) * L = q * L - L  BY <1>1
  <2>2. (q - 1) * L + j \in (m - L + 1)..m  BY <1>1, <1>3, <2>1
  <2>3. ((q - 1) * L + j) % L = j  BY <1>1, <2>2, Remainder
  <2> QED  BY <2>2, <2>3
<1> QED  BY <1>1, <1>2, <1>3

-----------------------------------------------------------------------------
(* The evidence.                                                           *)

\* What the results and a reactivation make of a proxy's health.
LEMMA HealthUpdates ==
    ASSUME NEW h \in Health, NEW t \in Nat
    PROVE  /\ h.succ \in Nat /\ h.fail \in Nat /\ h.off \in Nat
           /\ LET r == Reactivated(h)
              IN  r \in Health /\ r.succ = 0 /\ r.fail = 0 /\ r.off = 0
           /\ LET s == [h EXCEPT !.succ = @ + 1]
              IN  s \in Health /\ s.succ = h.succ + 1 /\ s.fail = h.fail /\ s.off = h.off
           /\ LET f == Failed(h)
              IN  f \in Health /\ f.succ = h.succ /\ f.fail = h.fail + 1 /\ f.off = h.off
           /\ LET d == [h EXCEPT !.off = t]
              IN  d \in Health /\ d.succ = h.succ /\ d.fail = h.fail /\ d.off = t
<1>1. h.succ \in Nat /\ h.fail \in Nat /\ h.off \in Nat  BY DEF Health
<1>2. Reactivated(h) = [succ |-> 0, fail |-> 0, off |-> 0]
  <2> DEFINE a == [h EXCEPT !.off = 0]
             b == [a EXCEPT !.succ = 0]
  <2>1. a = [succ |-> h.succ, fail |-> h.fail, off |-> 0]  BY DEF Health
  <2> HIDE DEF a
  <2>2. b = [succ |-> 0, fail |-> h.fail, off |-> 0]  BY <2>1
  <2> HIDE DEF b
  <2>3. [b EXCEPT !.fail = 0] = [succ |-> 0, fail |-> 0, off |-> 0]  BY <2>2
  <2>4. Reactivated(h) = [b EXCEPT !.fail = 0]  BY DEF Reactivated, Zero, a, b
  <2> QED  BY <2>3, <2>4
<1>3. [h EXCEPT !.succ = @ + 1] = [succ |-> h.succ + 1, fail |-> h.fail, off |-> h.off]
  BY DEF Health
<1>4. Failed(h) = [succ |-> h.succ, fail |-> h.fail + 1, off |-> h.off]
  BY DEF Failed, Health
<1>5. [h EXCEPT !.off = t] = [succ |-> h.succ, fail |-> h.fail, off |-> t]
  BY DEF Health
<1> QED  BY <1>1, <1>2, <1>3, <1>4, <1>5 DEF Health

\* There is no evidence at first.
LEMMA HealthInit == Init => HealthInv
<1> SUFFICES ASSUME Init PROVE HealthInv  OBVIOUS
<1>1. TypeOK  BY HealthyAssumption DEF Init, TypeOK, Health, NoHealth, InNext, Zero
<1>2. CallsSound  BY DEF Init, CallsSound, Zero
<1>3. EvidenceKept  BY DEF Init, EvidenceKept, NoHealth, Zero, Down
<1> QED  BY <1>1, <1>2, <1>3 DEF HealthInv

\* A step that touches neither health nor reports leaves the evidence alone.
LEMMA EvidenceUntouched ==
    ASSUME EvidenceKept, UNCHANGED <<health, reports>>
    PROVE  EvidenceKept'
BY DEF EvidenceKept, Down

\* Every step keeps the evidence and the calls sound.
LEMMA HealthStep == HealthInv /\ [Next]_vars => HealthInv'
<1> SUFFICES ASSUME HealthInv, [Next]_vars PROVE HealthInv'  OBVIOUS
<1>0. TypeOK /\ CallsSound /\ EvidenceKept  BY DEF HealthInv
<1> USE HealthyAssumption DEF callVars, history
<1>1. ASSUME Tick PROVE HealthInv'
  BY <1>0, <1>1, EvidenceUntouched DEF Tick, TypeOK, CallsSound, HealthInv
<1>2. ASSUME NEW l \in Lists, Refresh(l) PROVE HealthInv'
  <2>1. alone' \in [Callers -> BOOLEAN] /\ allDown' \in [Callers -> BOOLEAN]
    BY <1>2 DEF Refresh
  <2>2. TypeOK'  BY <1>0, <1>2, <2>1 DEF Refresh, TypeOK
  <2>3. CallsSound'  BY <1>0, <1>2 DEF Refresh, CallsSound
  <2>4. EvidenceKept'  BY <1>0, <1>2, EvidenceUntouched DEF Refresh
  <2> QED  BY <2>2, <2>3, <2>4 DEF HealthInv
<1>3. ASSUME NEW c \in Callers, Begin(c) PROVE HealthInv'
  <2>1. alone' \in [Callers -> BOOLEAN]  BY <1>3 DEF Begin
  <2>2. allDown' \in [Callers -> BOOLEAN]  BY <1>0, <1>3 DEF Begin, TypeOK, AllServedDown
  <2>3. Len(list) \in Nat \ {0}  BY <1>0, DrawnIsServed DEF TypeOK
  <2>4. TypeOK'  BY <1>0, <1>3, <2>1, <2>2, <2>3 DEF Begin, TypeOK, InNext
  <2>5. CallsSound'  BY <1>0, <1>3, <2>3 DEF Begin, CallsSound, TypeOK
  <2>6. EvidenceKept'  BY <1>0, <1>3, EvidenceUntouched DEF Begin
  <2> QED  BY <2>4, <2>5, <2>6 DEF HealthInv
<1>4. ASSUME NEW c \in Callers, Draw(c) PROVE HealthInv'
  <2>1. counter' \in Nat /\ list \in Lists  BY <1>0, <1>4 DEF Draw, TypeOK
  <2>2. list[(counter' % Len(list)) + 1] \in Proxies  BY <2>1, DrawnIsServed
  <2>3. proxy' = [proxy EXCEPT ![c] = list[(counter' % Len(list)) + 1]]
    BY <1>4 DEF Draw, Drawn
  <2>4. TypeOK'  BY <1>0, <1>4, <2>1, <2>2, <2>3 DEF Draw, TypeOK, InNext
  <2>5. CallsSound'  BY <1>0, <1>4, <2>2, <2>3 DEF Draw, CallsSound, TypeOK
  <2>6. EvidenceKept'  BY <1>0, <1>4, EvidenceUntouched DEF Draw
  <2> QED  BY <2>4, <2>5, <2>6 DEF HealthInv
<1>5. ASSUME NEW c \in Callers, TakeActive(c) PROVE HealthInv'
  <2>1. TypeOK'  BY <1>0, <1>5 DEF TakeActive, Return, TypeOK, Zero
  <2>2. CallsSound'  BY <1>0, <1>5 DEF TakeActive, Return, CallsSound, TypeOK, Zero
  <2>3. EvidenceKept'  BY <1>0, <1>5, EvidenceUntouched DEF TakeActive
  <2> QED  BY <2>1, <2>2, <2>3 DEF HealthInv
<1>6. ASSUME NEW c \in Callers, TakeCooled(c) PROVE HealthInv'
  <2>1. proxy[c] \in Proxies /\ health[proxy[c]] \in Health
    BY <1>0, <1>6 DEF TakeCooled, CallsSound, TypeOK
  <2> DEFINE h == Reactivated(health[proxy[c]])
  <2>2. h \in Health /\ h.succ = 0 /\ h.fail = 0 /\ h.off = 0
    BY <2>1, HealthUpdates
  <2>4. health' = [health EXCEPT ![proxy[c]] = h]
        /\ reports' = [reports EXCEPT ![proxy[c]] = 0]
    BY <1>6 DEF TakeCooled
  <2> HIDE DEF h
  <2>5. TypeOK'
    BY <1>0, <1>6, <2>1, <2>2, <2>4 DEF TakeCooled, Return, TypeOK, Zero
  <2>6. CallsSound'  BY <1>0, <1>6 DEF TakeCooled, Return, CallsSound, TypeOK, Zero
  <2>7. EvidenceKept'
    BY <1>0, <2>1, <2>2, <2>4 DEF EvidenceKept, TypeOK, Zero, Down
  <2> QED  BY <2>5, <2>6, <2>7 DEF HealthInv
<1>7. ASSUME NEW c \in Callers, Skip(c) PROVE HealthInv'
  <2>1. proxy[c] \in Proxies /\ left[c] \in Nat /\ left[c] >= 1
    BY <1>0, <1>7 DEF Skip, CallsSound, TypeOK
  <2>2. TypeOK'  BY <1>0, <1>7, <2>1 DEF Skip, TypeOK, InNext
  <2>3. CallsSound'  BY <1>0, <1>7, <2>1 DEF Skip, LoopOver, CallsSound, TypeOK
  <2>4. EvidenceKept'  BY <1>0, <1>7, EvidenceUntouched DEF Skip
  <2> QED  BY <2>2, <2>3, <2>4 DEF HealthInv
<1>8. ASSUME NEW c \in Callers, Fallback(c) PROVE HealthInv'
  <2>1. counter' \in Nat /\ list \in Lists  BY <1>0, <1>8 DEF Fallback, TypeOK
  <2>2. list[(counter' % Len(list)) + 1] \in Proxies  BY <2>1, DrawnIsServed
  <2>3. proxy' = [proxy EXCEPT ![c] = list[(counter' % Len(list)) + 1]]
    BY <1>8 DEF Fallback, Drawn
  <2>4. TypeOK'  BY <1>0, <1>8, <2>1, <2>2, <2>3 DEF Fallback, Return, TypeOK, Zero
  <2>5. CallsSound'
    BY <1>0, <1>8, <2>2, <2>3 DEF Fallback, Return, CallsSound, TypeOK, Zero
  <2>6. EvidenceKept'  BY <1>0, <1>8, EvidenceUntouched DEF Fallback
  <2> QED  BY <2>4, <2>5, <2>6 DEF HealthInv
<1>9. ASSUME NEW c \in Callers, RecordSuccess(c) PROVE HealthInv'
  <2>1. proxy[c] \in Proxies /\ health[proxy[c]] \in Health /\ reports[proxy[c]] \in Nat
    BY <1>0, <1>9 DEF RecordSuccess, CallsSound, TypeOK
  <2> DEFINE h == [health[proxy[c]] EXCEPT !.succ = @ + 1]
  <2>2. h \in Health /\ h.succ = health[proxy[c]].succ + 1
        /\ h.fail = health[proxy[c]].fail /\ h.off = health[proxy[c]].off
        /\ h.fail \in Nat /\ health[proxy[c]].succ \in Nat
    BY <2>1, HealthUpdates
  <2>3. health' = [health EXCEPT ![proxy[c]] = h]
        /\ reports' = [reports EXCEPT ![proxy[c]] = @ + 1]
    BY <1>9 DEF RecordSuccess
  <2> HIDE DEF h
  <2>4. health' \in [Proxies -> Health] /\ reports' \in [Proxies -> Nat]
    BY <1>0, <2>1, <2>2, <2>3 DEF TypeOK
  <2>5. TypeOK'  BY <1>0, <1>9, <2>4 DEF RecordSuccess, TypeOK
  <2>6. CallsSound'  BY <1>0, <1>9 DEF RecordSuccess, CallsSound, TypeOK
  <2>7. EvidenceKept'
    <3>1. /\ health'[proxy[c]] = h /\ reports'[proxy[c]] = reports[proxy[c]] + 1
          /\ \A q \in Proxies \ {proxy[c]} : health'[q] = health[q] /\ reports'[q] = reports[q]
      BY <1>0, <2>1, <2>3 DEF TypeOK
    <3>2. reports[proxy[c]] = health[proxy[c]].succ + health[proxy[c]].fail
          /\ (Down(proxy[c]) =>
                health[proxy[c]].succ + health[proxy[c]].fail >= MinRequests)
      BY <1>0, <2>1 DEF EvidenceKept
    <3>3. reports'[proxy[c]] = h.succ + h.fail
          /\ (h.off # Zero => h.succ + h.fail >= MinRequests)
      BY <2>1, <2>2, <3>1, <3>2 DEF Down
    <3> QED  BY <1>0, <3>1, <3>3 DEF EvidenceKept, Down
  <2> QED  BY <2>5, <2>6, <2>7 DEF HealthInv
<1>10. ASSUME NEW c \in Callers, RecordFailure(c) PROVE HealthInv'
  <2> DEFINE p == proxy[c]
             h == Failed(health[p])
             off == [h EXCEPT !.off = clock]
  <2>1. p \in Proxies /\ health[p] \in Health /\ reports[p] \in Nat /\ clock \in Nat
    BY <1>0, <1>10 DEF RecordFailure, CallsSound, TypeOK
  <2>2. h \in Health /\ h.fail = health[p].fail + 1
        /\ h.succ = health[p].succ /\ h.off = health[p].off
        /\ h.succ \in Nat /\ health[p].fail \in Nat
    BY <2>1, HealthUpdates
  <2>3. off \in Health /\ off.fail = h.fail /\ off.succ = h.succ /\ off.off = clock
    BY <2>1, <2>2, HealthUpdates
  <2>4. health' = [health EXCEPT ![p] = IF TooManyFailures(h) THEN off ELSE h]
        /\ reports' = [reports EXCEPT ![p] = @ + 1]
    BY <1>10 DEF RecordFailure
  <2>5. allDown' \in [Callers -> BOOLEAN]
    BY <1>0, <1>10 DEF RecordFailure, TypeOK
  <2> HIDE DEF p, h, off
  <2>6. health' \in [Proxies -> Health] /\ reports' \in [Proxies -> Nat]
    BY <1>0, <2>1, <2>2, <2>3, <2>4 DEF TypeOK
  <2>7. TypeOK'  BY <1>0, <1>10, <2>5, <2>6 DEF RecordFailure, TypeOK
  <2>8. CallsSound'  BY <1>0, <1>10 DEF RecordFailure, CallsSound, TypeOK
  <2>9. TooManyFailures(h) => h.succ + h.fail >= MinRequests  BY DEF TooManyFailures
  <2>10. /\ health'[p] = IF TooManyFailures(h) THEN off ELSE h
         /\ reports'[p] = reports[p] + 1
         /\ \A q \in Proxies \ {p} : health'[q] = health[q] /\ reports'[q] = reports[q]
    BY <1>0, <2>1, <2>4 DEF TypeOK
  <2>11. EvidenceKept'
    <3>1. reports[p] = health[p].succ + health[p].fail
          /\ (Down(p) => health[p].succ + health[p].fail >= MinRequests)
      BY <1>0, <2>1 DEF EvidenceKept
    <3>2. CASE TooManyFailures(h)
      <4>1. health'[p] = off /\ reports'[p] = reports[p] + 1  BY <2>10, <3>2
      <4>2. h.succ + h.fail >= MinRequests  BY <2>9, <3>2
      <4>3. reports'[p] = off.succ + off.fail /\ off.succ + off.fail >= MinRequests
        BY <2>1, <2>2, <2>3, <3>1, <4>1, <4>2
      <4> QED  BY <1>0, <2>10, <4>1, <4>3 DEF EvidenceKept, Down
    <3>3. CASE ~TooManyFailures(h)
      <4>1. health'[p] = h /\ reports'[p] = reports[p] + 1  BY <2>10, <3>3
      <4>2. reports'[p] = h.succ + h.fail
            /\ (h.off # Zero => h.succ + h.fail >= MinRequests)
        BY <2>1, <2>2, <3>1, <4>1 DEF Down
      <4> QED  BY <1>0, <2>10, <4>1, <4>2 DEF EvidenceKept, Down
    <3> QED  BY <3>2, <3>3
  <2> QED  BY <2>7, <2>8, <2>11 DEF HealthInv
<1>11. CASE UNCHANGED vars
  BY <1>0, <1>11, EvidenceUntouched DEF vars, TypeOK, CallsSound, HealthInv
<1> QED
  BY <1>1, <1>2, <1>3, <1>4, <1>5, <1>6, <1>7, <1>8, <1>9, <1>10, <1>11
  DEF Next, NextStep, Report

-----------------------------------------------------------------------------
(* The call that nobody interferes with.                                   *)

\* One draw more in an interval of draws.
LEMMA OneMoreDrawn ==
    ASSUME NEW a \in Int, NEW b \in Int, a <= b
    PROVE  DrawnIn(a, b) = DrawnIn(a, b - 1) \cup {Drawn(b)}
<1>1. a..b = (a..(b - 1)) \cup {b}  OBVIOUS
<1> QED  BY <1>1 DEF DrawnIn

\* As many draws as the list is long are the whole list.
LEMMA FullTurn ==
    ASSUME list \in Lists, counter \in Nat
    PROVE  DrawnIn(counter - Len(list) + 1, counter) = Serving
<1> DEFINE L == Len(list)
<1>1. L \in Nat \ {0} /\ DOMAIN list = 1..L  BY DrawnIsServed
<1> HIDE DEF L
<1>2. ASSUME NEW i \in 1..L
      PROVE  \E n \in (counter - L + 1)..counter : (n % L) + 1 = i
  <2>1. i - 1 \in 0..L - 1  BY <1>1
  <2>2. PICK n \in (counter - L + 1)..counter : n % L = i - 1
    BY <1>1, <2>1, EveryRemainder
  <2> QED  BY <2>1, <2>2
<1>3. ASSUME NEW n \in (counter - L + 1)..counter
      PROVE  (n % L) + 1 \in 1..L
  BY <1>1
<1> QED  BY <1>1, <1>2, <1>3 DEF DrawnIn, Drawn, Serving, L

\* Nobody is alone before the first call.
LEMMA SoloInit == Init => SoloInv
BY DEF Init, SoloInv

\* Another call, or a refresh, ends the privilege; a report does not disturb it.
LEMMA SoloStep == HealthInv /\ SoloInv /\ [Next]_vars => SoloInv'
<1> SUFFICES ASSUME HealthInv, SoloInv, [Next]_vars PROVE SoloInv'  OBVIOUS
<1>0. TypeOK /\ CallsSound  BY DEF HealthInv
<1>00. Len(list) \in Nat \ {0}  BY <1>0, DrawnIsServed DEF TypeOK
<1> USE DEF callVars, history
<1>1. ASSUME NEW c \in Callers, alone[c], alone'[c], UNCHANGED <<list, counter, left, skipped>>,
             pc'[c] = pc[c], proxy'[c] = proxy[c],
             \A d \in Callers \ {c} : pc'[d] \in InNext => pc[d] \in InNext
      PROVE  Solo(c)'
  BY <1>1 DEF SoloInv, Solo, DrawnIn, Drawn
<1>2. ASSUME Tick PROVE SoloInv'
  BY <1>1, <1>2 DEF Tick, SoloInv
<1>3. ASSUME NEW l \in Lists, Refresh(l) PROVE SoloInv'
  BY <1>3 DEF Refresh, SoloInv
<1>4. ASSUME NEW c \in Callers, Begin(c) PROVE SoloInv'
  <2>1. \A d \in Callers : alone'[d] => d = c /\ \A e \in Callers : pc[e] \notin InNext
    BY <1>4 DEF Begin
  <2>2. /\ pc'[c] = "draw" /\ left'[c] = Len(list) /\ skipped'[c] = {}
        /\ \A d \in Callers \ {c} : pc'[d] = pc[d]
        /\ list' = list /\ counter' = counter
    BY <1>0, <1>4 DEF Begin, TypeOK
  <2>3. DrawnIn(counter - (Len(list) - Len(list)) + 1, counter)' = {}
    <3>1. (counter - (Len(list) - Len(list)) + 1)..counter = {}  BY <1>0, <1>00 DEF TypeOK
    <3> QED  BY <2>2, <3>1 DEF DrawnIn
  <2>4. ASSUME alone'[c] PROVE Solo(c)'
    BY <1>00, <2>1, <2>2, <2>3, <2>4 DEF Solo, InNext
  <2> QED  BY <2>1, <2>4 DEF SoloInv
<1>5. ASSUME NEW c \in Callers, Draw(c) PROVE SoloInv'
  <2>1. /\ pc[c] = "draw" /\ pc'[c] = "look" /\ counter' = counter + 1
        /\ UNCHANGED <<list, left, skipped, alone>>
        /\ \A d \in Callers \ {c} : pc'[d] = pc[d]
        /\ proxy'[c] = Drawn(counter)'
    BY <1>0, <1>5 DEF Draw, Drawn, TypeOK
  <2>2. \A d \in Callers \ {c} : ~alone'[d]  BY <2>1 DEF SoloInv, Solo, InNext
  <2>3. ASSUME alone'[c] PROVE Solo(c)'
    <3>1. Solo(c)  BY <2>1, <2>3 DEF SoloInv
    <3>2. counter \in Nat /\ left[c] \in Nat  BY <1>0 DEF TypeOK
    <3>3. /\ counter' - (Len(list) - left[c]) = counter - (Len(list) - left[c]) + 1
          /\ counter' - 1 = counter
      BY <1>00, <2>1, <3>2
    <3>4. skipped[c] = DrawnIn(counter' - (Len(list) - left[c]), counter' - 1)
      BY <2>1, <3>1, <3>3 DEF Solo
    <3>5. skipped'[c] = DrawnIn(counter - (Len(list) - left[c]), counter - 1)'
      BY <2>1, <3>4 DEF DrawnIn, Drawn
    <3> QED  BY <2>1, <3>1, <3>5 DEF Solo, InNext
  <2> QED  BY <2>2, <2>3 DEF SoloInv
<1>6. ASSUME NEW c \in Callers, Skip(c) PROVE SoloInv'
  <2>1. /\ pc[c] = "look" /\ left[c] \in Nat /\ left[c] >= 1
        /\ pc'[c] = (IF left[c] <= 1 THEN "fallback" ELSE "draw")
        /\ left'[c] = left[c] - 1 /\ skipped'[c] = skipped[c] \cup {proxy[c]}
        /\ UNCHANGED <<list, counter, alone>>
        /\ \A d \in Callers \ {c} : pc'[d] = pc[d]
    BY <1>0, <1>6 DEF Skip, LoopOver, TypeOK, CallsSound
  <2>2. \A d \in Callers \ {c} : ~alone'[d]  BY <2>1 DEF SoloInv, Solo, InNext
  <2>3. ASSUME alone'[c] PROVE Solo(c)'
    <3>1. Solo(c)  BY <2>1, <2>3 DEF SoloInv
    <3>2. counter \in Nat /\ left[c] <= Len(list)  BY <1>0, <3>1 DEF TypeOK, Solo
    <3> DEFINE first == counter - (Len(list) - left[c])
    <3>3. first \in Int /\ first <= counter  BY <1>00, <2>1, <3>2
    <3>4. first = counter - (Len(list) - left'[c]) + 1  BY <1>00, <2>1, <3>2
    <3> HIDE DEF first
    <3>5. skipped'[c] = DrawnIn(first, counter - 1) \cup {Drawn(counter)}
      BY <2>1, <3>1 DEF Solo, first
    <3>6. skipped'[c] = DrawnIn(first, counter)  BY <3>2, <3>3, <3>5, OneMoreDrawn
    <3>7. skipped'[c] = DrawnIn(counter - (Len(list) - left[c]) + 1, counter)'
      BY <2>1, <3>4, <3>6 DEF DrawnIn, Drawn
    <3>8. left'[c] <= Len(list') /\ (pc'[c] = "fallback" => left'[c] = 0)
      BY <1>00, <2>1, <3>2
    <3>9. pc'[c] \in {"draw", "fallback"}  BY <2>1
    <3> QED  BY <2>1, <3>1, <3>7, <3>8, <3>9 DEF Solo, InNext
  <2> QED  BY <2>2, <2>3 DEF SoloInv
<1>7. ASSUME NEW c \in Callers, TakeActive(c) \/ TakeCooled(c) \/ Fallback(c) PROVE SoloInv'
  <2>1. pc[c] \in InNext /\ ~alone'[c] /\ \A d \in Callers \ {c} : alone'[d] = alone[d]
    BY <1>0, <1>7 DEF TakeActive, TakeCooled, Fallback, Return, InNext, TypeOK
  <2>2. \A d \in Callers \ {c} : ~alone[d]  BY <2>1 DEF SoloInv, Solo
  <2> QED  BY <2>1, <2>2 DEF SoloInv
<1>8. ASSUME NEW c \in Callers, RecordSuccess(c) \/ RecordFailure(c) PROVE SoloInv'
  <2>1. /\ pc[c] = "using" /\ pc'[c] = "idle"
        /\ UNCHANGED <<list, counter, left, skipped, alone>>
        /\ \A d \in Callers \ {c} : pc'[d] = pc[d] /\ proxy'[d] = proxy[d]
    BY <1>0, <1>8 DEF RecordSuccess, RecordFailure, TypeOK
  <2>2. ~alone[c]  BY <2>1 DEF SoloInv, Solo, InNext
  <2>3. \A d \in Callers : pc'[d] \in InNext => pc[d] \in InNext
    BY <2>1 DEF InNext
  <2> QED  BY <1>1, <2>1, <2>2, <2>3 DEF SoloInv
<1>9. CASE UNCHANGED vars  BY <1>1, <1>9 DEF vars, SoloInv
<1> QED
  BY <1>2, <1>3, <1>4, <1>5, <1>6, <1>7, <1>8, <1>9 DEF Next, NextStep, Report

-----------------------------------------------------------------------------
(* The theorems.                                                           *)

\* Next, the refresh and the reports keep every variable in its range; what Next
\* hands out is always a proxy, for lists of any length.
THEOREM HealthyTypes == Spec => []TypeOK
<1>1. HealthInv => TypeOK  BY DEF HealthInv
<1> QED  BY HealthInit, HealthStep, <1>1, PTL DEF Spec

\* RecordFailure deactivates a proxy only on MinRequests results of its own since
\* Next last reactivated it.
THEOREM FreshStartHolds == Spec => []FreshStart
<1>1. HealthInv => FreshStart
  BY DEF HealthInv, EvidenceKept, FreshStart
<1> QED  BY HealthInit, HealthStep, <1>1, PTL DEF Spec

\* Next reactivates a proxy only when more than Cooldown has passed since its last
\* stamp, although it compares with a time it read before its draws.
THEOREM CooldownIsHeld == Spec => CooldownHeld
<1>1. HealthInv /\ [Next]_vars =>
          [\A p \in Proxies :
              Down(p) /\ health'[p].off = Zero => clock > health[p].off + Cooldown]_vars
  <2> SUFFICES ASSUME HealthInv, [Next]_vars, NEW p \in Proxies,
                      Down(p), health'[p].off = Zero
               PROVE  clock > health[p].off + Cooldown
    OBVIOUS
  <2>0. TypeOK /\ CallsSound  BY DEF HealthInv
  <2> USE HealthyAssumption DEF callVars, history
  <2>1. health'[p] # health[p]  BY DEF Down
  <2>2. ASSUME NEW c \in Callers, TakeCooled(c) PROVE clock > health[p].off + Cooldown
    <3>1. p = proxy[c] /\ now[c] > health[p].off + Cooldown
      BY <2>0, <2>1, <2>2 DEF TakeCooled, Cooled, TypeOK
    <3>2. now[c] <= clock /\ now[c] \in Nat /\ clock \in Nat /\ health[p].off \in Nat
      BY <2>0 DEF CallsSound, TypeOK, Health
    <3> QED  BY <3>1, <3>2
  <2>3. ASSUME NEW c \in Callers, RecordSuccess(c) PROVE FALSE
    <3>1. p = proxy[c] /\ health[p] \in Health
      BY <2>0, <2>1, <2>3 DEF RecordSuccess, TypeOK
    <3>2. health'[p] = [health[p] EXCEPT !.succ = @ + 1]
      BY <2>0, <2>3, <3>1 DEF RecordSuccess, TypeOK
    <3>3. health'[p].off = health[p].off  BY <2>0, <3>1, <3>2, HealthUpdates DEF TypeOK
    <3> QED  BY <3>3 DEF Down
  <2>4. ASSUME NEW c \in Callers, RecordFailure(c) PROVE FALSE
    <3>1. p = proxy[c] /\ health[p] \in Health /\ clock \in Nat /\ clock # Zero
      BY <2>0, <2>1, <2>4 DEF RecordFailure, TypeOK, CallsSound, Zero
    <3> DEFINE h == Failed(health[p])
    <3>2. health'[p] = h \/ health'[p] = [h EXCEPT !.off = clock]
      BY <2>0, <2>4, <3>1 DEF RecordFailure, TypeOK
    <3>3. h \in Health /\ h.off = health[p].off  BY <3>1, HealthUpdates
    <3> HIDE DEF h
    <3>4. [h EXCEPT !.off = clock].off = clock  BY <3>1, <3>3, HealthUpdates
    <3>5. health'[p].off = health[p].off \/ health'[p].off = clock
      BY <3>2, <3>3, <3>4
    <3> QED  BY <3>1, <3>5 DEF Down
  <2>5. ASSUME health' = health PROVE FALSE  BY <2>1, <2>5
  <2> QED
    BY <2>2, <2>3, <2>4, <2>5
    DEF Next, NextStep, Report, Tick, Refresh, Begin, Draw, TakeActive, Skip, Fallback, vars
<1> QED  BY HealthInit, HealthStep, <1>1, PTL DEF Spec, CooldownHeld

\* Next, when no other call of it and no refresh overlaps, draws the raw rotation
\* only after it found every proxy of the pool deactivated.
THEOREM SoloFallbackHolds == Spec => []SoloFallback
<1>1. HealthInv /\ SoloInv => SoloFallback
  <2> SUFFICES ASSUME HealthInv, SoloInv, NEW c \in Callers, pc[c] = "fallback", alone[c]
               PROVE  skipped[c] = Serving
    BY DEF SoloFallback
  <2>1. list \in Lists /\ counter \in Nat /\ Len(list) \in Nat \ {0}
    BY DrawnIsServed DEF HealthInv, TypeOK
  <2>2. left[c] = 0 /\ skipped[c] = DrawnIn(counter - (Len(list) - left[c]) + 1, counter)
    BY DEF SoloInv, Solo
  <2>3. counter - (Len(list) - left[c]) + 1 = counter - Len(list) + 1  BY <2>1, <2>2
  <2> QED  BY <2>1, <2>2, <2>3, FullTurn
<1> QED  BY HealthInit, HealthStep, SoloInit, SoloStep, <1>1, PTL DEF Spec
==============================================================================
