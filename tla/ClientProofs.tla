----------------------------- MODULE ClientProofs -----------------------------
(***************************************************************************)
(* Client keeps its types, sends each request through what the pool has to *)
(* offer (what its call drew but for the known race), repeats a request    *)
(* only after a block or an error, and reports every 407 once: for any     *)
(* calls, pools, empty ones and none at all, and number of retries.        *)
(***************************************************************************)
EXTENDS Client, FiniteSetTheorems, SequenceTheorems, TLAPS

-----------------------------------------------------------------------------
(* The inductive invariant.                                                *)

Running(c) == pc[c] \in {"idle", "pick", "switch", "handle", "wait"}

\* A caller that has not called DoCtx has no goroutine.
NotStarted == \A c \in Calls : caller[c] = "out" => pc[c] = "idle"

\* The loop counter is the number of attempts that ended, until the last one.
AttemptsCounted ==
    \A c \in Calls :
        /\ attempt[c] < MaxAttempts
        /\ Len(tries[c]) = IF Running(c) THEN attempt[c] ELSE attempt[c] + 1
        /\ Running(c) => outcome[c] = "none"

\* Every attempt that is not the last one of its call ended in a retry.
AllRetried ==
    \A c \in Calls : \A i \in 1..Len(tries[c]) :
        Running(c) \/ i < Len(tries[c]) => tries[c][i] \notin {"ok", "auth", "ssrf"}

\* A block or an error is returned from the last attempt only.
GivenUpLate ==
    \A c \in Calls : outcome[c] \in {"block", "failed", "authFailed", "exhausted"} =>
        Len(tries[c]) = MaxAttempts

\* A goroutine past its draw holds what the pool had to offer, and past its switch
\* the backend is on such: on its own, as long as no other call has switched.
\* Without a pool nothing is drawn.
OnPool ==
    \A c \in Calls :
        /\ pc[c] = "switch" => Pooled
        /\ Pooled /\ pc[c] \in {"switch", "handle", "wait"} => picked[c] \in Drawable
        /\ Pooled /\ pc[c] = "handle" =>
              proxy \in Drawable /\ (~raced[c] => proxy = picked[c])
        /\ Pooled /\ pc[c] = "wait" =>
              via[c] \in Drawable /\ (~raced[c] => via[c] = picked[c])

CoreInv == TypeOK /\ NotStarted /\ AttemptsCounted /\ AllRetried /\ GivenUpLate

-----------------------------------------------------------------------------
(* Lemmas on the helpers.                                                  *)

\* maxAttempts is one more than the retries, or one; it never changes.
LEMMA MaxAttemptsRange ==
    TypeOK => MaxAttempts \in 1..BlockRetries + 1
BY ClientAssumption DEF MaxAttempts

\* What Next returns is one of the pool's proxies, or nothing when it has none.
LEMMA DrawnFromPool ==
    ASSUME TypeOK, Pooled, NEW p, Drawn(p)
    PROVE  counter' \in Nat /\ p \in Drawable /\ p \in Proxies \cup {Direct}
<1>1. pool \in Seq(Proxies)  BY ClientAssumption DEF TypeOK, Pooled
<1>2. CASE pool = << >>  BY <1>2 DEF Drawn, Drawable, TypeOK
<1>3. CASE pool # << >>
  <2>1. Len(pool) \in Nat /\ Len(pool) > 0 /\ DOMAIN pool = 1..Len(pool)
    BY <1>1, <1>3, EmptySeq, LenProperties
  <2>2. counter' \in Nat /\ p = pool[(counter' % Len(pool)) + 1]
    BY <1>3 DEF Drawn, TypeOK
  <2>3. (counter' % Len(pool)) + 1 \in 1..Len(pool)  BY <2>1, <2>2
  <2>4. \A i \in 1..Len(pool) : pool[i] \in Proxies  BY <1>1, ElementOfSeq
  <2> QED  BY <1>3, <2>1, <2>2, <2>3, <2>4 DEF InSeq, Drawable
<1> QED  BY <1>2, <1>3

\* An attempt that ends adds one to its call's history, and to no other.
LEMMA EndedEffect ==
    ASSUME TypeOK, NEW c \in Calls, NEW e \in Ends, Ended(c, e)
    PROVE  /\ tries' \in [Calls -> Seq(Ends)]
           /\ picked' \in [Calls -> Proxies \cup {Direct}]
           /\ via' \in [Calls -> Proxies \cup {Direct}]
           /\ \A d \in Calls \ {c} : tries'[d] = tries[d] /\ picked'[d] = picked[d]
                                        /\ via'[d] = via[d]
           /\ Len(tries'[c]) = Len(tries[c]) + 1
           /\ tries'[c][Len(tries[c]) + 1] = e
           /\ \A i \in 1..Len(tries[c]) : tries'[c][i] = tries[c][i]
           /\ Len(tries[c]) \in Nat
<1>1. tries \in [Calls -> Seq(Ends)]  BY DEF TypeOK
<1>2. tries[c] \in Seq(Ends)  BY <1>1
<1>3. tries' = [tries EXCEPT ![c] = Append(@, e)]  BY DEF Ended
<1>4. tries'[c] = Append(tries[c], e)  BY <1>1, <1>3
<1>5. /\ Append(tries[c], e) \in Seq(Ends)
      /\ Len(Append(tries[c], e)) = Len(tries[c]) + 1
      /\ Append(tries[c], e)[Len(tries[c]) + 1] = e
      /\ \A i \in 1..Len(tries[c]) : Append(tries[c], e)[i] = tries[c][i]
  BY <1>2, AppendProperties
<1>6. tries' \in [Calls -> Seq(Ends)]  BY <1>1, <1>3, <1>5
<1>7. /\ picked' \in [Calls -> Proxies \cup {Direct}]
      /\ via' \in [Calls -> Proxies \cup {Direct}]
      /\ \A d \in Calls \ {c} : picked'[d] = picked[d] /\ via'[d] = via[d]
  BY DEF Ended, TypeOK
<1>8. \A d \in Calls \ {c} : tries'[d] = tries[d]  BY <1>1, <1>3
<1>9. Len(tries[c]) \in Nat  BY <1>2, LenProperties
<1> QED  BY <1>4, <1>5, <1>6, <1>7, <1>8, <1>9

\* An ended attempt leads to the next one of the call, or to its outcome; the
\* other calls stay where they are.
LEMMA LoopEffect ==
    ASSUME TypeOK, AttemptsCounted, NEW c \in Calls, NEW r \in Answers \cup Errors \cup {"exhausted"},
           (Again(c) /\ ~LastAttempt(c)) \/ Give(c, r)
    PROVE  /\ pc' \in [Calls -> {"idle", "pick", "switch", "handle", "wait", "deliver", "done"}]
           /\ attempt' \in [Calls -> 0..BlockRetries]
           /\ outcome' \in [Calls -> {"none", "exhausted"} \cup Answers \cup Errors]
           /\ \A d \in Calls \ {c} : pc'[d] = pc[d] /\ attempt'[d] = attempt[d]
                                        /\ outcome'[d] = outcome[d]
           /\ \/ pc'[c] = "pick" /\ attempt'[c] = attempt[c] + 1 /\ outcome'[c] = outcome[c]
                 /\ attempt[c] + 1 < MaxAttempts
              \/ pc'[c] = "deliver" /\ attempt'[c] = attempt[c] /\ outcome'[c] = r
<1>1. MaxAttempts \in 1..BlockRetries + 1  BY MaxAttemptsRange
<1>2. attempt[c] \in 0..BlockRetries /\ attempt[c] < MaxAttempts
  BY DEF TypeOK, AttemptsCounted
<1>3. CASE Again(c) /\ ~LastAttempt(c)
  <2>1. attempt[c] + 1 \in 0..BlockRetries /\ attempt[c] + 1 < MaxAttempts
    BY <1>1, <1>2, <1>3, ClientAssumption DEF LastAttempt
  <2> QED  BY <1>3, <2>1 DEF Again, TypeOK
<1>4. CASE Give(c, r)
  BY <1>4 DEF Give, TypeOK, Answers, Errors
<1> QED  BY <1>3, <1>4

-----------------------------------------------------------------------------
(* The inductive step of CoreInv: steps that end no attempt, and steps that *)
(* end one.                                                                 *)

\* A step that ends no attempt leaves the loop and its history alone.
LEMMA NoAttemptEnds ==
    ASSUME CoreInv, TypeOK', NotStarted', UNCHANGED <<pool, attempt, outcome, tries>>,
           \A c \in Calls : Running(c)' <=> Running(c)
    PROVE  CoreInv'
<1>1. MaxAttempts' = MaxAttempts  BY DEF MaxAttempts, Pooled
<1>2. AttemptsCounted'  BY <1>1 DEF CoreInv, AttemptsCounted
<1>3. AllRetried'  BY DEF CoreInv, AllRetried
<1>4. GivenUpLate'  BY <1>1 DEF CoreInv, GivenUpLate
<1> QED  BY <1>2, <1>3, <1>4 DEF CoreInv

\* A step that ends an attempt of a call with e, and goes on with the next one or
\* gives the result r.
LEMMA AttemptEnds ==
    ASSUME CoreInv, NEW c \in Calls, NEW e \in Ends,
           NEW r \in Answers \cup Errors \cup {"exhausted"},
           pc[c] \in {"switch", "handle", "wait"}, Ended(c, e),
           \/ Again(c) /\ ~LastAttempt(c) /\ e \notin {"ok", "auth", "ssrf"}
           \/ Give(c, r) /\ (r \in {"ok", "auth", "ssrf"} \/ LastAttempt(c)),
           UNCHANGED <<pool, proxy, caller, ch, ctxDone, counter>>,
           reports' \in Nat, raced' \in [Calls -> BOOLEAN]
    PROVE  CoreInv'
<1>1. TypeOK /\ NotStarted /\ AttemptsCounted /\ AllRetried /\ GivenUpLate  BY DEF CoreInv
<1>2. MaxAttempts' = MaxAttempts /\ MaxAttempts \in 1..BlockRetries + 1
  BY <1>1, MaxAttemptsRange DEF MaxAttempts, Pooled
<1>3. /\ tries' \in [Calls -> Seq(Ends)]
      /\ picked' \in [Calls -> Proxies \cup {Direct}]
      /\ via' \in [Calls -> Proxies \cup {Direct}]
      /\ \A d \in Calls \ {c} : tries'[d] = tries[d]
      /\ Len(tries'[c]) = Len(tries[c]) + 1
      /\ tries'[c][Len(tries[c]) + 1] = e
      /\ \A i \in 1..Len(tries[c]) : tries'[c][i] = tries[c][i]
      /\ Len(tries[c]) \in Nat
  BY <1>1, EndedEffect
<1>4. /\ pc' \in [Calls -> {"idle", "pick", "switch", "handle", "wait", "deliver", "done"}]
      /\ attempt' \in [Calls -> 0..BlockRetries]
      /\ outcome' \in [Calls -> {"none", "exhausted"} \cup Answers \cup Errors]
      /\ \A d \in Calls \ {c} : pc'[d] = pc[d] /\ attempt'[d] = attempt[d]
                                   /\ outcome'[d] = outcome[d]
      /\ \/ pc'[c] = "pick" /\ attempt'[c] = attempt[c] + 1 /\ outcome'[c] = outcome[c]
            /\ attempt[c] + 1 < MaxAttempts
         \/ pc'[c] = "deliver" /\ attempt'[c] = attempt[c] /\ outcome'[c] = r
  BY <1>1, LoopEffect
<1>5. pc'[c] = "pick" => e \notin {"ok", "auth", "ssrf"}
  BY <1>1 DEF Give, TypeOK
<1>6. pc'[c] = "deliver" => r \in {"ok", "auth", "ssrf"} \/ attempt[c] = MaxAttempts - 1
  BY <1>1 DEF Again, TypeOK, LastAttempt
<1>7. TypeOK'  BY <1>1, <1>3, <1>4 DEF TypeOK
<1>8. NotStarted'  BY <1>1, <1>4 DEF NotStarted
<1>9. /\ attempt[c] \in 0..BlockRetries /\ attempt[c] < MaxAttempts
      /\ Len(tries[c]) = attempt[c] /\ outcome[c] = "none"
  BY <1>1 DEF AttemptsCounted, Running, TypeOK
<1>10. Running(c)' <=> pc'[c] = "pick"  BY <1>4 DEF Running
<1>11. \A d \in Calls \ {c} : Running(d)' <=> Running(d)  BY <1>4 DEF Running
<1>12. AttemptsCounted'
  <2>1. ASSUME NEW d \in Calls \ {c}
        PROVE  /\ attempt'[d] < MaxAttempts'
               /\ Len(tries'[d]) = IF Running(d)' THEN attempt'[d] ELSE attempt'[d] + 1
               /\ Running(d)' => outcome'[d] = "none"
    BY <1>1, <1>2, <1>3, <1>4, <1>11 DEF AttemptsCounted
  <2>2. /\ attempt'[c] < MaxAttempts'
        /\ Len(tries'[c]) = IF Running(c)' THEN attempt'[c] ELSE attempt'[c] + 1
        /\ Running(c)' => outcome'[c] = "none"
    BY <1>2, <1>3, <1>4, <1>9, <1>10
  <2> QED  BY <2>1, <2>2 DEF AttemptsCounted
<1>13. AllRetried'
  <2>1. ASSUME NEW d \in Calls \ {c}, NEW i \in 1..Len(tries'[d]),
               Running(d)' \/ i < Len(tries'[d])
        PROVE  tries'[d][i] \notin {"ok", "auth", "ssrf"}
    BY <1>1, <1>3, <1>11, <2>1 DEF AllRetried
  <2>2. ASSUME NEW i \in 1..Len(tries'[c]), Running(c)' \/ i < Len(tries'[c])
        PROVE  tries'[c][i] \notin {"ok", "auth", "ssrf"}
    <3>1. CASE i \in 1..Len(tries[c])
      <4>1. Running(c)  BY DEF Running
      <4> QED  BY <1>1, <1>3, <3>1, <4>1 DEF AllRetried
    <3>2. CASE i = Len(tries[c]) + 1
      BY <1>3, <1>5, <1>10, <2>2, <3>2
    <3> QED  BY <1>3, <3>1, <3>2
  <2> QED  BY <2>1, <2>2 DEF AllRetried
<1>14. GivenUpLate'
  <2>1. ASSUME NEW d \in Calls \ {c},
               outcome'[d] \in {"block", "failed", "authFailed", "exhausted"}
        PROVE  Len(tries'[d]) = MaxAttempts'
    BY <1>1, <1>2, <1>3, <1>4, <2>1 DEF GivenUpLate
  <2>2. ASSUME outcome'[c] \in {"block", "failed", "authFailed", "exhausted"}
        PROVE  Len(tries'[c]) = MaxAttempts'
    BY <1>2, <1>3, <1>4, <1>6, <1>9, <2>2
  <2> QED  BY <2>1, <2>2 DEF GivenUpLate
<1> QED  BY <1>7, <1>8, <1>12, <1>13, <1>14 DEF CoreInv

\* No call has begun.
LEMMA CoreInit == Init => CoreInv
<1> SUFFICES ASSUME Init PROVE CoreInv  OBVIOUS
<1>1. TypeOK  BY ClientAssumption, EmptySeq DEF Init, TypeOK
<1>2. MaxAttempts \in 1..BlockRetries + 1  BY <1>1, MaxAttemptsRange
<1>3. \A c \in Calls : tries[c] = << >> /\ Len(tries[c]) = 0  BY DEF Init
<1>4. NotStarted  BY DEF Init, NotStarted
<1>5. AttemptsCounted  BY <1>2, <1>3 DEF Init, AttemptsCounted, Running
<1>6. AllRetried  BY <1>3 DEF AllRetried
<1>7. GivenUpLate  BY DEF Init, GivenUpLate
<1> QED  BY <1>1, <1>4, <1>5, <1>6, <1>7 DEF CoreInv

\* Every step keeps what is counted of the attempts.
LEMMA CoreStep == CoreInv /\ [Next]_vars => CoreInv'
<1> SUFFICES ASSUME CoreInv, [Next]_vars PROVE CoreInv'  OBVIOUS
<1>0. TypeOK /\ NotStarted  BY DEF CoreInv
<1> USE DEF retryVars, ctxVars
<1>1. ASSUME NEW c \in Calls, Cancel(c) PROVE CoreInv'
  BY <1>0, <1>1, NoAttemptEnds DEF Cancel, TypeOK, NotStarted, Running
<1>2. ASSUME NEW c \in Calls, Refuse(c) PROVE CoreInv'
  BY <1>0, <1>2, NoAttemptEnds DEF Refuse, TypeOK, NotStarted, Running
<1>3. ASSUME NEW c \in Calls, Start(c) PROVE CoreInv'
  BY <1>0, <1>3, NoAttemptEnds DEF Start, TypeOK, NotStarted, Running
<1>4. ASSUME NEW c \in Calls, Leave(c) PROVE CoreInv'
  BY <1>0, <1>4, NoAttemptEnds DEF Leave, TypeOK, NotStarted, Running
<1>5. ASSUME NEW c \in Calls, Receive(c) PROVE CoreInv'
  BY <1>0, <1>5, NoAttemptEnds DEF Receive, TypeOK, NotStarted, Running
<1>6. ASSUME NEW c \in Calls, Deliver(c) PROVE CoreInv'
  BY <1>0, <1>6, NoAttemptEnds DEF Deliver, TypeOK, NotStarted, Running
<1>7. ASSUME NEW c \in Calls, Pick(c) PROVE CoreInv'
  <2>1. NotStarted' /\ (\A d \in Calls : Running(d)' <=> Running(d))
    BY <1>0, <1>7 DEF Pick, TypeOK, NotStarted, Running
  <2>2. CASE Pooled
    <3>1. PICK p : Drawn(p) /\ picked' = [picked EXCEPT ![c] = p]
      BY <1>7, <2>2 DEF Pick
    <3>2. counter' \in Nat /\ p \in Proxies \cup {Direct}  BY <1>0, <2>2, <3>1, DrawnFromPool
    <3>3. picked' \in [Calls -> Proxies \cup {Direct}]  BY <1>0, <3>1, <3>2 DEF TypeOK
    <3> QED  BY <1>0, <1>7, <2>1, <2>2, <3>2, <3>3, NoAttemptEnds DEF Pick, TypeOK
  <2>3. CASE ~Pooled
    BY <1>0, <1>7, <2>1, <2>3, NoAttemptEnds DEF Pick, TypeOK
  <2> QED  BY <2>2, <2>3
<1>8. ASSUME NEW c \in Calls, SwitchOk(c) PROVE CoreInv'
  <2>1. NotStarted' /\ (\A d \in Calls : Running(d)' <=> Running(d))
    BY <1>0, <1>8 DEF SwitchOk, TypeOK, NotStarted, Running
  <2>2. raced' \in [Calls -> BOOLEAN]  BY <1>8 DEF SwitchOk
  <2>3. TypeOK'  BY <1>0, <1>8, <2>2 DEF SwitchOk, Switched, TypeOK
  <2> QED  BY <1>8, <2>1, <2>3, NoAttemptEnds DEF SwitchOk
<1>9. ASSUME NEW c \in Calls, SwitchFails(c) PROVE CoreInv'
  <2>1. \/ Again(c) /\ ~LastAttempt(c)
        \/ Give(c, "exhausted") /\ LastAttempt(c)
    BY <1>9 DEF SwitchFails, NextProxy
  <2>2. "refused" \in Ends  BY DEF Ends
  <2> QED  BY <1>0, <1>9, <2>1, <2>2, AttemptEnds DEF SwitchFails, TypeOK
<1>10. ASSUME NEW c \in Calls, GuardRefuses(c) PROVE CoreInv'
  BY <1>0, <1>10, AttemptEnds DEF GuardRefuses, TypeOK, Ends, Errors
<1>11. ASSUME NEW c \in Calls, Send(c) PROVE CoreInv'
  BY <1>0, <1>11, NoAttemptEnds DEF Send, TypeOK, NotStarted, Running
<1>12. ASSUME NEW c \in Calls, NEW e \in Answers \cup Errors, Answer(c, e) PROVE CoreInv'
  <2>1. CASE Retries(c, e)
    BY <1>0, <1>12, <2>1, AttemptEnds DEF Answer, ReportAuth, Retries, TypeOK, Ends
  <2>2. CASE ~Retries(c, e)
    <3>1. e \in {"ok", "auth", "ssrf"} \/ ~Pooled \/ LastAttempt(c)
      BY <2>2 DEF Retries, Answers, Errors
    <3>2. ~Pooled => LastAttempt(c)
      BY <1>0, ClientAssumption DEF LastAttempt, MaxAttempts, CoreInv, AttemptsCounted, TypeOK
    <3>3. Give(c, e) /\ (e \in {"ok", "auth", "ssrf"} \/ LastAttempt(c))
      BY <1>12, <2>2, <3>1, <3>2 DEF Answer
    <3>4. e \in Ends /\ pc[c] \in {"switch", "handle", "wait"} /\ Ended(c, e)
      BY <1>12 DEF Answer, Ends
    <3>5. reports' \in Nat /\ raced' \in [Calls -> BOOLEAN]
          /\ UNCHANGED <<pool, proxy, caller, ch, ctxDone, counter>>
      BY <1>0, <1>12 DEF Answer, ReportAuth, TypeOK
    <3> QED  BY <3>3, <3>4, <3>5, AttemptEnds
  <2> QED  BY <2>1, <2>2
<1>13. CASE UNCHANGED vars
  BY <1>0, <1>13, NoAttemptEnds DEF vars, TypeOK, NotStarted, Running
<1> QED
  BY <1>1, <1>2, <1>3, <1>4, <1>5, <1>6, <1>7, <1>8, <1>9, <1>10, <1>11, <1>12, <1>13
  DEF Next, DoStep, Answered

-----------------------------------------------------------------------------
(* The proxies.                                                            *)

\* No call is on a proxy yet.
LEMMA OnPoolInit == Init => OnPool
BY DEF Init, OnPool

\* Only a switch can take a call off the proxy it drew, and it marks the call.
LEMMA OnPoolStep == CoreInv /\ OnPool /\ [Next]_vars => OnPool'
<1> SUFFICES ASSUME CoreInv, OnPool, [Next]_vars PROVE OnPool'  OBVIOUS
<1>0. TypeOK  BY DEF CoreInv
<1> USE DEF retryVars, ctxVars
<1>1. ASSUME NEW c \in Calls,
             Cancel(c) \/ Refuse(c) \/ Leave(c) \/ Receive(c)
      PROVE  OnPool'
  <2>1. UNCHANGED <<pool, proxy, pc, picked, via, raced>>
    BY <1>1 DEF Cancel, Refuse, Leave, Receive
  <2> QED  BY <2>1 DEF OnPool, Pooled, Drawable, InSeq
<1>2. ASSUME NEW c \in Calls, Start(c) \/ Deliver(c) PROVE OnPool'
  <2>1. Pooled' = Pooled /\ Drawable' = Drawable
    BY <1>2 DEF Start, Deliver, Pooled, Drawable, InSeq
  <2>2. UNCHANGED <<proxy, picked, via, raced>>  BY <1>2 DEF Start, Deliver
  <2>3. pc'[c] \in {"pick", "done"} /\ \A d \in Calls \ {c} : pc'[d] = pc[d]
    BY <1>0, <1>2 DEF Start, Deliver, TypeOK
  <2> QED  BY <2>1, <2>2, <2>3 DEF OnPool
<1>3. ASSUME NEW c \in Calls, Pick(c) PROVE OnPool'
  <2>1. Pooled' = Pooled /\ Drawable' = Drawable  BY <1>3 DEF Pick, Pooled, Drawable, InSeq
  <2>2. CASE Pooled
    <3>1. PICK p : Drawn(p) /\ picked' = [picked EXCEPT ![c] = p]
      BY <1>3, <2>2 DEF Pick
    <3>2. p \in Drawable  BY <1>0, <2>2, <3>1, DrawnFromPool
    <3>3. pc'[c] = "switch" /\ picked'[c] \in Drawable
      BY <1>0, <1>3, <2>2, <3>1, <3>2 DEF Pick, TypeOK
    <3>4. \A d \in Calls \ {c} : pc'[d] = pc[d] /\ picked'[d] = picked[d]
      BY <1>0, <1>3, <2>2, <3>1 DEF Pick, TypeOK
    <3>5. UNCHANGED <<proxy, via, raced>>  BY <1>3 DEF Pick
    <3> QED  BY <2>1, <2>2, <3>3, <3>4, <3>5 DEF OnPool
  <2>3. CASE ~Pooled
    BY <1>0, <1>3, <2>1, <2>3 DEF Pick, OnPool, TypeOK
  <2> QED  BY <2>2, <2>3
<1>4. ASSUME NEW c \in Calls, SwitchOk(c) PROVE OnPool'
  <2>1. Pooled' = Pooled /\ Drawable' = Drawable  BY <1>4 DEF SwitchOk, Pooled, Drawable, InSeq
  <2>2. Pooled /\ picked[c] \in Drawable /\ proxy' = picked[c]
    BY <1>4 DEF SwitchOk, Switched, OnPool
  <2>3. pc'[c] = "handle" /\ picked' = picked /\ via' = via
    BY <1>0, <1>4 DEF SwitchOk, TypeOK
  <2>4. \A d \in Calls \ {c} : pc'[d] = pc[d]  BY <1>0, <1>4 DEF SwitchOk, TypeOK
  <2>5. \A d \in Calls \ {c} : (raced[d] \/ pc[d] = "handle") => raced'[d]
    BY <1>4 DEF SwitchOk
  <2>6. ASSUME NEW d \in Calls \ {c}
        PROVE  /\ pc'[d] = "switch" => Pooled'
               /\ Pooled' /\ pc'[d] \in {"switch", "handle", "wait"} => picked'[d] \in Drawable'
               /\ Pooled' /\ pc'[d] = "handle" =>
                     proxy' \in Drawable' /\ (~raced'[d] => proxy' = picked'[d])
               /\ Pooled' /\ pc'[d] = "wait" =>
                     via'[d] \in Drawable' /\ (~raced'[d] => via'[d] = picked'[d])
    BY <2>1, <2>2, <2>3, <2>4, <2>5 DEF OnPool
  <2> QED  BY <2>1, <2>2, <2>3, <2>6 DEF OnPool
<1>5. ASSUME NEW c \in Calls, Send(c) PROVE OnPool'
  <2>1. Pooled' = Pooled /\ Drawable' = Drawable  BY <1>5 DEF Send, Pooled, Drawable, InSeq
  <2>2. pc'[c] = "wait" /\ via'[c] = proxy /\ pc[c] = "handle"  BY <1>0, <1>5 DEF Send, TypeOK
  <2>3. \A d \in Calls \ {c} : pc'[d] = pc[d] /\ via'[d] = via[d]
    BY <1>0, <1>5 DEF Send, TypeOK
  <2>4. UNCHANGED <<proxy, picked, raced>>  BY <1>5 DEF Send
  <2> QED  BY <2>1, <2>2, <2>3, <2>4 DEF OnPool
<1>6. ASSUME NEW c \in Calls,
             SwitchFails(c) \/ GuardRefuses(c) \/ (\E e \in Answers \cup Errors : Answer(c, e))
      PROVE  OnPool'
  <2>1. \E e : Ended(c, e)  BY <1>6 DEF SwitchFails, GuardRefuses, Answer
  <2>2. pc'[c] \in {"pick", "deliver"} /\ \A d \in Calls \ {c} : pc'[d] = pc[d]
    BY <1>0, <1>6 DEF SwitchFails, GuardRefuses, Answer, NextProxy, Again, Give, TypeOK
  <2>3. \A d \in Calls \ {c} : picked'[d] = picked[d] /\ via'[d] = via[d]
    BY <1>0, <2>1 DEF Ended, TypeOK
  <2>4. \A d \in Calls \ {c} : raced'[d] = raced[d]
    BY <1>0, <1>6 DEF SwitchFails, GuardRefuses, Answer, TypeOK
  <2>5. pool' = pool /\ proxy' = proxy  BY <1>6 DEF SwitchFails, GuardRefuses, Answer
  <2>6. Pooled' = Pooled /\ Drawable' = Drawable  BY <2>5 DEF Pooled, Drawable, InSeq
  <2> QED  BY <2>2, <2>3, <2>4, <2>5, <2>6 DEF OnPool
<1>7. CASE UNCHANGED vars
  BY <1>7 DEF vars, OnPool, Pooled, Drawable, InSeq
<1> QED
  BY <1>1, <1>2, <1>3, <1>4, <1>5, <1>6, <1>7 DEF Next, DoStep, Answered

-----------------------------------------------------------------------------
(* The reports of 407.                                                     *)

\* The attempts of all calls that ended in a 407.
AuthEnds ==
    {x \in Calls \X (1..BlockRetries + 1) :
        /\ x[2] \in DOMAIN tries[x[1]]
        /\ tries[x[1]][x[2]] \in {"auth", "authFailed"}}

\* With any number of calls, those that ended in a 407 so far are finitely many.
ReportsCounted == IsFiniteSet(AuthEnds) /\ (Pooled => reports = Cardinality(AuthEnds))

\* No attempt has ended.
LEMMA ReportsInit == Init => ReportsCounted
<1> SUFFICES ASSUME Init PROVE ReportsCounted  OBVIOUS
<1>1. AuthEnds = {}  BY DEF Init, AuthEnds
<1> QED  BY <1>1, FS_EmptySet DEF Init, ReportsCounted

\* The attempt that ends is a new one: its number is beyond its call's history.
LEMMA ReportsOfAttempt ==
    ASSUME CoreInv, ReportsCounted, NEW c \in Calls, NEW e \in Ends,
           pc[c] \in {"switch", "handle", "wait"}, Ended(c, e), pool' = pool,
           reports' = IF Pooled /\ e \in {"auth", "authFailed"} THEN reports + 1 ELSE reports
    PROVE  ReportsCounted'
<1> DEFINE n == Len(tries[c]) + 1
<1>1. TypeOK  BY DEF CoreInv
<1>2. /\ tries' \in [Calls -> Seq(Ends)]
      /\ \A d \in Calls \ {c} : tries'[d] = tries[d]
      /\ Len(tries'[c]) = n
      /\ tries'[c][n] = e
      /\ \A i \in 1..Len(tries[c]) : tries'[c][i] = tries[c][i]
      /\ Len(tries[c]) \in Nat
  BY <1>1, EndedEffect
<1>3. n \in 1..BlockRetries + 1
  BY <1>2, ClientAssumption DEF CoreInv, AttemptsCounted, Running, TypeOK
<1>4. DOMAIN tries[c] = 1..Len(tries[c]) /\ DOMAIN tries'[c] = 1..n
  BY <1>1, <1>2, LenProperties DEF TypeOK
<1>5. <<c, n>> \in Calls \X (1..BlockRetries + 1) /\ <<c, n>> \notin AuthEnds
  BY <1>2, <1>3, <1>4 DEF AuthEnds
<1>6. ASSUME NEW d \in Calls, NEW i \in 1..BlockRetries + 1, <<d, i>> # <<c, n>>
      PROVE  <<d, i>> \in AuthEnds' <=> <<d, i>> \in AuthEnds
  <2>1. CASE d # c  BY <1>2, <2>1 DEF AuthEnds
  <2>2. CASE d = c /\ i # n  BY <1>2, <1>4, <2>2 DEF AuthEnds
  <2> QED  BY <1>6, <2>1, <2>2
<1>7. <<c, n>> \in AuthEnds' <=> e \in {"auth", "authFailed"}
  BY <1>2, <1>4, <1>5 DEF AuthEnds
<1>8. Pooled' = Pooled /\ reports \in Nat  BY <1>1 DEF Pooled, TypeOK
<1>9. CASE e \in {"auth", "authFailed"}
  <2>1. AuthEnds' = AuthEnds \cup {<<c, n>>}
    BY <1>5, <1>6, <1>7, <1>9 DEF AuthEnds
  <2> QED  BY <1>5, <1>8, <1>9, <2>1, FS_AddElement, FS_CardinalityType DEF ReportsCounted
<1>10. CASE e \notin {"auth", "authFailed"}
  <2>1. AuthEnds' = AuthEnds
    BY <1>5, <1>6, <1>7, <1>10 DEF AuthEnds
  <2> QED  BY <1>8, <1>10, <2>1 DEF ReportsCounted
<1> QED  BY <1>9, <1>10

\* Only an attempt that ends changes what is counted.
LEMMA ReportsStep == CoreInv /\ ReportsCounted /\ [Next]_vars => ReportsCounted'
<1> SUFFICES ASSUME CoreInv, ReportsCounted, [Next]_vars PROVE ReportsCounted'  OBVIOUS
<1> USE DEF retryVars, ctxVars
<1>1. ASSUME UNCHANGED <<pool, tries, reports>> PROVE ReportsCounted'
  <2>1. AuthEnds' = AuthEnds  BY <1>1 DEF AuthEnds
  <2> QED  BY <1>1, <2>1 DEF ReportsCounted, Pooled
<1>2. ASSUME NEW c \in Calls,
             \/ Cancel(c) \/ Refuse(c) \/ Start(c) \/ Leave(c) \/ Receive(c) \/ Deliver(c)
             \/ Pick(c) \/ SwitchOk(c) \/ Send(c)
      PROVE  ReportsCounted'
  BY <1>1, <1>2 DEF Cancel, Refuse, Start, Leave, Receive, Deliver, Pick, SwitchOk, Send
<1>3. ASSUME NEW c \in Calls, SwitchFails(c) PROVE ReportsCounted'
  BY <1>3, ReportsOfAttempt DEF SwitchFails, Ends
<1>4. ASSUME NEW c \in Calls, GuardRefuses(c) PROVE ReportsCounted'
  BY <1>4, ReportsOfAttempt DEF GuardRefuses, Ends, Errors
<1>5. ASSUME NEW c \in Calls, NEW e \in Answers \cup Errors, Answer(c, e)
      PROVE  ReportsCounted'
  BY <1>5, ReportsOfAttempt DEF Answer, ReportAuth, Ends
<1>6. CASE UNCHANGED vars
  BY <1>1, <1>6 DEF vars
<1> QED
  BY <1>2, <1>3, <1>4, <1>5, <1>6 DEF Next, DoStep, Answered

-----------------------------------------------------------------------------
(* The theorems.                                                           *)

\* DoCtx and doWithRetry keep every variable in its range: the loop counter never
\* passes WithRetryOnBlock, and the pool's counter and reports only count.
THEOREM ClientTypes == Spec => []TypeOK
<1>1. CoreInv => TypeOK  BY DEF CoreInv
<1> QED  BY CoreInit, CoreStep, <1>1, PTL DEF Spec

\* doWithRetry sends every request of a client with a pool through a proxy of the
\* pool, directly when the pool has none, and through what its call drew unless
\* another call's SetProxy came in between.
THEOREM RightProxyHolds == Spec => []RightProxy
<1>1. CoreInv /\ OnPool => RightProxy
  BY DEF OnPool, RightProxy, ThroughPool, OwnProxyUnlessRaced
<1> QED  BY CoreInit, CoreStep, OnPoolInit, OnPoolStep, <1>1, PTL DEF Spec

\* doWithRetry repeats a request only after a block or an error that is no SSRF
\* verdict, and returns a block or an error only when no attempt is left.
THEOREM RetryDisciplineHolds == Spec => []RetryDiscipline
<1>1. CoreInv => RetryDiscipline
  <2> SUFFICES ASSUME CoreInv, NEW c \in Calls, NEW i \in 1..Len(tries[c]) - 1
               PROVE  tries[c][i] \notin {"ok", "auth", "ssrf"}
    BY DEF CoreInv, GivenUpLate, RetryDiscipline
  <2>1. Len(tries[c]) \in Nat  BY LenProperties DEF CoreInv, TypeOK
  <2> QED  BY <2>1 DEF CoreInv, AllRetried
<1> QED  BY CoreInit, CoreStep, <1>1, PTL DEF Spec

\* Every 407, as a response or as a transport error, reaches ReportAuthFailure of
\* the pool, once.
THEOREM AuthReportedHolds == Spec => []AuthReported
<1>1. ReportsCounted => AuthReported  BY DEF ReportsCounted, AuthReported, AuthEnds
<1> QED  BY CoreInit, CoreStep, ReportsInit, ReportsStep, <1>1, PTL DEF Spec
===============================================================================
