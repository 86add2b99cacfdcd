--------------------------- MODULE CloudflareProofs ---------------------------
(***************************************************************************)
(* What Cloudflare promises, for any chain of middlewares, any order that  *)
(* Use leaves them in, any pages and any number of concurrent calls.  The  *)
(* invariant is about one call at a time: what the middlewares below it    *)
(* have let pass, and what it carries when it goes down again.             *)
(***************************************************************************)
EXTENDS Cloudflare, SequenceTheorems, WellFoundedInduction, TLAPS

-----------------------------------------------------------------------------
(* The invariant.                                                          *)

\* Of two sets of retries, t comes before s, by a middleware outside of place i.
Before(t, s, i) ==
    \E j \in s : j < i /\ j \notin t /\ \A k \in Nat : k < j => (k \in t <=> k \in s)

\* They agree outside of place i.
Agree(t, s, i) == \A k \in Nat : k < i => (k \in t <=> k \in s)

\* No request was sent twice from the same retries, and those sent so far came
\* before what can be sent from where the call is.
Distinct(v) == \A i, j \in DOMAIN v.sentAs : v.sentAs[i] = v.sentAs[j] => i = j
Reached(v, i) ==
    \A n \in DOMAIN v.sentAs :
        Before(v.sentAs[n], v.retrying, i) \/ Agree(v.sentAs[n], v.retrying, i)
Onward(v) == \A n \in DOMAIN v.sentAs : Before(v.sentAs[n], v.retrying, v.pos)
Unretried(v) ==
    \A n \in DOMAIN v.sentAs :
        \/ Before(v.sentAs[n], v.retrying, v.pos)
        \/ /\ Agree(v.sentAs[n], v.retrying, v.pos)
           /\ v.chain[v.pos] = "cookie" => v.pos \notin v.sentAs[n]

InOrder(v) ==
    /\ Distinct(v)
    /\ v.at = "new" => v.sentAs = << >> /\ v.retrying = {}
    /\ v.at = "down" => Onward(v)
    /\ v.at = "up" => Unretried(v)
    /\ v.at = "done" => v.retrying = {}

\* From place i on down, nothing that would have made an error of a challenge.
PassedBelow(v, i) == \A j \in i..Len(v.chain) : v.chain[j] # "detect"

\* The middleware it is at acts, and no detect middleware is below.
ActsHere(v) ==
    v.at = "up" => /\ v.pos \in 1..Len(v.chain) /\ Acts(v, v.pos)
                   /\ PassedBelow(v, v.pos + 1)

\* It goes down no further than the end of the chain.
GoesDown(v) == v.at = "down" => v.pos \in 1..(Len(v.chain) + 1)

NothingSlips(v) ==
    v.at = "done" /\ v.err = "none" /\ Detect(v.resp) # "none"
        => \A j \in 1..Len(v.chain) : v.chain[j] # "detect"

BlockUnasked(v) == \A p \in v.asked : "block" \notin p.body

\* A header that begins with a solved cookie and has nothing older behind it.
FreshHeader(h) == h # << >> /\ h[1] > 0 /\ \A i \in DOMAIN h : h[i] >= h[1]

LastRetryFresh(v) == v.retried # << >> => FreshHeader(v.retried)

CallSound(v) ==
    /\ InOrder(v) /\ ActsHere(v) /\ GoesDown(v) /\ NothingSlips(v)
    /\ BlockUnasked(v) /\ LastRetryFresh(v)

\* The header of a retry on its way down, n cookies having been issued.
RetryFresh(v, n) == v.at = "down" /\ v.retrying # {} => FreshHeader(v.header) /\ v.header[1] <= n

CallsSound == \A c \in CfCalls : CallSound(call[c]) /\ RetryFresh(call[c], issued)

\* The cached cookie is the newest.
CacheNewest == cookies # Nothing => cookies[1].cookie = issued

\* A chain that is kept is the one Use has left, and so is that of a call that
\* began afterwards.
ChainCurrent ==
    /\ built # Nothing => built = <<mws>>
    /\ \A c \in CfCalls : call[c].current => added = << >> /\ call[c].chain = mws

CfInv == CfTypeOK /\ CallsSound /\ CacheNewest /\ ChainCurrent

-----------------------------------------------------------------------------
(* Pages and the climb.                                                    *)

\* A number that bounds a set of numbers has a greatest one below it.
LEMMA GreatestNumber ==
    ASSUME NEW n \in Nat, NEW S \in SUBSET (0..n), S # {}
    PROVE  \E x \in S : \A y \in S : y <= x
<1> DEFINE R == {p \in Nat \X Nat : p[1] < p[2]}
           D == {n - y : y \in S}
<1>1. OpToRel(<, Nat) = R  BY DEF OpToRel
<1>2. IsWellFoundedOn(R, Nat)  BY <1>1, NatLessThanWellFounded
<1> HIDE DEF R
<1>3. D \in SUBSET Nat /\ D # {}
  <2>1. \A y \in S : n - y \in Nat  OBVIOUS
  <2> QED  BY <2>1
<1> HIDE DEF D
<1>4. PICK d \in D : \A e \in D : ~(<<e, d>> \in R)  BY <1>2, <1>3, WFMin
<1>5. \A e \in D : ~(e < d)  BY <1>3, <1>4 DEF R
<1>6. PICK x \in S : d = n - x  BY DEF D
<1>7. ASSUME NEW y \in S PROVE y <= x
  <2>1. n - y \in D  BY DEF D
  <2>2. ~(n - y < n - x)  BY <1>5, <1>6, <2>1
  <2>3. x \in 0..n /\ y \in 0..n  OBVIOUS
  <2> QED  BY <2>2, <2>3
<1> QED  BY <1>7

\* What DetectCloudflare says, and of which pages it says that they are a
\* challenge.
LEMMA DetectKinds ==
    ASSUME NEW p \in Page
    PROVE  /\ Detect(p) \in Kinds \cup {"none"}
           /\ Detect(p) \notin {"none", "block"} => "block" \notin p.body
BY DEF Detect, Kinds, ChallengeKind

\* The fields of a call.
LEMMA CallFields ==
    ASSUME NEW v \in CallType
    PROVE  /\ v.at \in {"new", "down", "up", "done"} /\ v.chain \in Seq(Middlewares)
           /\ v.pos \in Nat /\ v.header \in Seq(Nat) /\ v.resp \in Page
           /\ v.err \in {"none", "failed", "unsolved"} \cup Kinds
           /\ v.retrying \in SUBSET Nat /\ v.attempt \in Nat /\ v.sentAs \in Seq(SUBSET Nat)
           /\ v.retried \in Seq(Nat) /\ v.asked \in SUBSET Page
           /\ v.current \in BOOLEAN /\ v.rendered \in BOOLEAN
BY DEF CallType

\* Climbing changes where the call is: at the next middleware above that acts,
\* or at the end when none does; the retries it has left are over.
LEMMA ClimbEffect ==
    ASSUME NEW r \in CallType, r.pos >= 1, NEW f, f = Climb(r)
    PROVE  /\ f \in CallType /\ f.at \in {"up", "done"}
           /\ f.chain = r.chain /\ f.resp = r.resp /\ f.err = r.err
           /\ f.sentAs = r.sentAs /\ f.retried = r.retried /\ f.asked = r.asked
           /\ f.current <=> r.current
           /\ f.retrying = {i \in r.retrying : i < f.pos}
           /\ f.at = "up" =>
                 /\ f.pos \in 1..(r.pos - 1) /\ Acts(r, f.pos)
                 /\ \A j \in (f.pos + 1)..(r.pos - 1) : ~Acts(r, j)
           /\ f.at = "done" => f.pos = 0 /\ \A j \in 1..(r.pos - 1) : ~Acts(r, j)
<1> DEFINE acting == {i \in 1..(r.pos - 1) : Acts(r, i)}
           at == IF acting = {} THEN "done" ELSE "up"
           top == Highest(acting \cup {0})
           left == {i \in r.retrying : i < top}
<1>1. r.pos \in Nat \ {0}  BY DEF CallType
<1>2. f = [r EXCEPT !.at = at, !.pos = top, !.retrying = left]
  <2>1. f = [r EXCEPT !.at = at, !.pos = top, !.retrying = {i \in @ : i < top}]  BY DEF Climb
  <2> HIDE DEF at, top
  <2> QED  BY <2>1
<1>3. at \in {"up", "done"}  OBVIOUS
<1>4. top \in acting \cup {0} /\ \A j \in acting \cup {0} : j <= top
  <2> DEFINE S == acting \cup {0}
  <2>1. r.pos - 1 \in Nat /\ S \in SUBSET (0..(r.pos - 1)) /\ S # {}  BY <1>1
  <2> HIDE DEF S
  <2>2. \E x \in S : \A y \in S : y <= x  BY <2>1, GreatestNumber
  <2>3. Highest(S) \in S /\ \A y \in S : y <= Highest(S)  BY <2>2 DEF Highest
  <2> QED  BY <2>3 DEF S
<1>5. top \in Nat /\ top <= r.pos - 1  BY <1>1, <1>4
<1> HIDE DEF at, top
<1>6. left \in SUBSET Nat  BY CallFields
<1>7. f.retrying = {i \in r.retrying : i < f.pos}
  <2> DEFINE l == left
  <2>1. f = [r EXCEPT !.at = at, !.pos = top, !.retrying = l]  BY <1>2
  <2> HIDE DEF l
  <2>2. f.retrying = l /\ f.pos = top  BY <2>1 DEF CallType
  <2> QED  BY <2>2 DEF l
<1> HIDE DEF left
<1>8. /\ f \in CallType /\ f.at = at /\ f.pos = top
      /\ f.chain = r.chain /\ f.resp = r.resp /\ f.err = r.err
      /\ f.sentAs = r.sentAs /\ f.retried = r.retried /\ f.asked = r.asked
  BY <1>2, <1>3, <1>5, <1>6 DEF CallType
<1>9. f.current <=> r.current  BY <1>2 DEF CallType
<1>10. f.at = "up" =>
         /\ f.pos \in 1..(r.pos - 1) /\ Acts(r, f.pos)
         /\ \A j \in (f.pos + 1)..(r.pos - 1) : ~Acts(r, j)
  <2> SUFFICES ASSUME f.at = "up"
               PROVE  /\ f.pos \in 1..(r.pos - 1) /\ Acts(r, f.pos)
                      /\ \A j \in (f.pos + 1)..(r.pos - 1) : ~Acts(r, j)
    OBVIOUS
  <2>1. PICK i \in acting : TRUE  BY <1>8 DEF at
  <2>2. i >= 1 /\ i <= top  BY <1>1, <1>4, <2>1
  <2>3. top \in acting  BY <1>1, <1>4, <1>5, <2>1, <2>2
  <2>4. ASSUME NEW j \in (top + 1)..(r.pos - 1) PROVE j \notin acting /\ j \in 1..(r.pos - 1)
    <3>1. j \in Int /\ j > top /\ j \in 1..(r.pos - 1)  BY <1>1, <1>5
    <3>2. \A k \in acting : k <= top  BY <1>4
    <3> QED  BY <1>5, <3>1, <3>2
  <2>5. \A j \in (top + 1)..(r.pos - 1) : ~Acts(r, j)  BY <2>4
  <2> QED  BY <1>8, <2>3, <2>5
<1>11. f.at = "done" => f.pos = 0 /\ \A j \in 1..(r.pos - 1) : ~Acts(r, j)
  BY <1>4, <1>8 DEF at
<1> QED  BY <1>3, <1>7, <1>8, <1>9, <1>10, <1>11

\* What has been reached is also reached further out, where the outermost retries
\* are left; and a middleware that is in none of them sends for the first time.
LEMMA ReachedOutside ==
    ASSUME NEW r \in CallType, NEW p \in Nat, NEW i \in Nat, i < p, Reached(r, p),
           NEW s \in SUBSET Nat, s = {k \in r.retrying : k < i},
           NEW n \in DOMAIN r.sentAs
    PROVE  LET t == r.sentAs[n]
           IN \/ Before(t, s, i)
              \/ Agree(t, s, i) /\ (i \notin r.retrying => i \notin t)
<1> DEFINE t == r.sentAs[n]
           R == r.retrying
<1>1. R \in SUBSET Nat  BY CallFields
<1>2. Before(t, R, p) \/ Agree(t, R, p)  BY DEF Reached
<1>3. \A k \in Nat : k < i => (k \in s <=> k \in R)  OBVIOUS
<1> HIDE DEF t, R
<1> DEFINE Shown == Before(t, s, i) \/ (Agree(t, s, i) /\ (i \notin R => i \notin t))
<1>4. ASSUME Agree(t, R, p) PROVE Shown
  <2>1. \A k \in Nat : k < i => k < p  OBVIOUS
  <2>2. Agree(t, s, i)  BY <1>3, <1>4, <2>1 DEF Agree
  <2>3. i \notin R => i \notin t  BY <1>4 DEF Agree
  <2> QED  BY <2>2, <2>3
<1>5. ASSUME Before(t, R, p) PROVE Shown
  <2>1. PICK j \in R : j < p /\ j \notin t /\ \A k \in Nat : k < j => (k \in t <=> k \in R)
    BY <1>5 DEF Before
  <2>2. j \in Nat  BY <1>1
  <2>3. CASE j < i
    <3>1. j \in s  BY <1>3, <2>2, <2>3
    <3>2. \A k \in Nat : k < j => (k \in t <=> k \in s)  BY <1>3, <2>1, <2>2, <2>3
    <3> QED  BY <2>1, <2>3, <3>1, <3>2 DEF Before
  <2>4. CASE j >= i
    <3>1. Agree(t, s, i)  BY <1>3, <2>1, <2>2, <2>4 DEF Agree
    <3>2. i \notin R => i \notin t
      <4>1. CASE j = i
        BY <2>1, <4>1
      <4>2. CASE j > i
        BY <2>1, <4>2
      <4> QED  BY <2>2, <2>4, <4>1, <4>2
    <3> QED  BY <3>1, <3>2
  <2> QED  BY <2>2, <2>3, <2>4
<1>6. Shown  BY <1>2, <1>4, <1>5
<1> QED  BY <1>6 DEF t, R

\* What a climb ends in is sound, if no challenge was passed below its start.
LEMMA ClimbSound ==
    ASSUME NEW r \in CallType, r.pos \in 1..(Len(r.chain) + 1),
           BlockUnasked(r), LastRetryFresh(r), Distinct(r), Reached(r, r.pos),
           r.err = "none" /\ Detect(r.resp) # "none" => PassedBelow(r, r.pos),
           NEW f, f = Climb(r)
    PROVE  /\ f \in CallType /\ CallSound(f) /\ f.at # "down"
           /\ f.chain = r.chain /\ (f.current <=> r.current)
<1>1. /\ f \in CallType /\ f.at \in {"up", "done"}
      /\ f.chain = r.chain /\ f.resp = r.resp /\ f.err = r.err
      /\ f.sentAs = r.sentAs /\ f.retried = r.retried /\ f.asked = r.asked
      /\ f.current <=> r.current
      /\ f.retrying = {i \in r.retrying : i < f.pos}
      /\ f.at = "up" =>
            /\ f.pos \in 1..(r.pos - 1) /\ Acts(r, f.pos)
            /\ \A j \in (f.pos + 1)..(r.pos - 1) : ~Acts(r, j)
      /\ f.at = "done" => f.pos = 0 /\ \A j \in 1..(r.pos - 1) : ~Acts(r, j)
  BY ClimbEffect
<1>2. Len(r.chain) \in Nat /\ r.pos \in Nat  BY DEF CallType
<1>3. GoesDown(f)  BY <1>1 DEF GoesDown
<1>4. BlockUnasked(f) /\ LastRetryFresh(f)  BY <1>1 DEF BlockUnasked, LastRetryFresh
<1>5. ASSUME f.at = "up" PROVE Acts(f, f.pos) /\ f.pos \in 1..(r.pos - 1)
  <2>1. f.pos \in 1..(r.pos - 1) /\ Acts(r, f.pos)  BY <1>1, <1>5
  <2>2. f.pos \notin f.retrying  BY <1>1, <1>2, <2>1
  <2> QED  BY <1>1, <2>1, <2>2 DEF Acts
<1>6. ActsHere(f)
  <2> SUFFICES ASSUME f.at = "up"
               PROVE  /\ f.pos \in 1..Len(f.chain) /\ Acts(f, f.pos)
                      /\ PassedBelow(f, f.pos + 1)
    BY DEF ActsHere
  <2>1. /\ f.pos \in 1..(r.pos - 1) /\ Acts(r, f.pos)
        /\ \A j \in (f.pos + 1)..(r.pos - 1) : ~Acts(r, j)
    BY <1>1
  <2>2. r.err = "none" /\ Detect(r.resp) # "none"  BY <2>1 DEF Acts
  <2>3. ASSUME NEW j \in (f.pos + 1)..Len(f.chain) PROVE f.chain[j] # "detect"
    <3>1. CASE j \in (f.pos + 1)..(r.pos - 1)
      <4>1. ~Acts(r, j)  BY <2>1, <3>1
      <4> QED  BY <1>1, <2>2, <4>1 DEF Acts
    <3>2. CASE j \in r.pos..Len(r.chain)
      <4>1. PassedBelow(r, r.pos)  BY <2>2
      <4> QED  BY <1>1, <3>2, <4>1 DEF PassedBelow
    <3>3. j \in (f.pos + 1)..(r.pos - 1) \/ j \in r.pos..Len(r.chain)
      BY <1>1, <1>2, <2>1
    <3> QED  BY <3>1, <3>2, <3>3
  <2>4. f.pos \in 1..Len(f.chain)  BY <1>1, <1>2, <2>1
  <2> QED  BY <1>5, <2>3, <2>4 DEF PassedBelow
<1>7. NothingSlips(f)
  <2> SUFFICES ASSUME f.at = "done", f.err = "none", Detect(f.resp) # "none",
                      NEW j \in 1..Len(f.chain)
               PROVE  f.chain[j] # "detect"
    BY DEF NothingSlips
  <2>1. r.err = "none" /\ Detect(r.resp) # "none"  BY <1>1
  <2>2. CASE j \in 1..(r.pos - 1)
    <3>1. ~Acts(r, j)  BY <1>1, <2>2
    <3> QED  BY <1>1, <2>1, <3>1 DEF Acts
  <2>3. CASE j \in r.pos..Len(r.chain)
    BY <1>1, <2>1, <2>3 DEF PassedBelow
  <2>4. j \in 1..(r.pos - 1) \/ j \in r.pos..Len(r.chain)  BY <1>1, <1>2
  <2> QED  BY <2>2, <2>3, <2>4
<1>8. InOrder(f)
  <2>1. Distinct(f)  BY <1>1 DEF Distinct
  <2>2. ASSUME f.at = "up" PROVE Unretried(f)
    <3>1. f.pos \in Nat /\ f.pos < r.pos  BY <1>2, <1>5, <2>2
    <3>2. f.chain[f.pos] = "cookie" => f.pos \notin r.retrying  BY <1>1, <2>2 DEF Acts
    <3>3. f.retrying \in SUBSET Nat  BY <1>1, CallFields
    <3>4. ASSUME NEW n \in DOMAIN f.sentAs
          PROVE  \/ Before(f.sentAs[n], f.retrying, f.pos)
                 \/ /\ Agree(f.sentAs[n], f.retrying, f.pos)
                    /\ f.pos \notin r.retrying => f.pos \notin f.sentAs[n]
      BY <1>1, <1>2, <3>1, <3>3, ReachedOutside
    <3> QED  BY <3>2, <3>4 DEF Unretried
  <2>3. f.at = "done" => f.retrying = {}
    <3>1. r.retrying \in SUBSET Nat  BY CallFields
    <3> QED  BY <1>1, <3>1
  <2> QED  BY <1>1, <2>1, <2>2, <2>3 DEF InOrder
<1> QED  BY <1>1, <1>3, <1>4, <1>6, <1>7, <1>8 DEF CallSound

-----------------------------------------------------------------------------
(* The steps.                                                              *)

\* A call that moves to a sound state, in the chain it has or in the one that
\* the client now builds.
LEMMA MoveCall ==
    ASSUME CfInv, NEW c \in CfCalls, NEW f \in CallType, CallSound(f), Update(c, f),
           issued' \in Nat, issued' >= issued, RetryFresh(f, issued'),
           UNCHANGED <<config, added, mws>>,
           \/ f.chain = call[c].chain /\ (f.current <=> call[c].current)
           \/ f.chain = mws /\ (f.current => added = << >>),
           built' = built \/ built' = <<mws>>
    PROVE  call' \in [CfCalls -> CallType] /\ CallsSound' /\ ChainCurrent'
<1>1. CfTypeOK /\ CallsSound /\ ChainCurrent /\ call \in [CfCalls -> CallType]
  BY DEF CfInv, CfTypeOK
<1>2. /\ call' \in [CfCalls -> CallType] /\ call'[c] = f
      /\ \A d \in CfCalls \ {c} : call'[d] = call[d]
  BY <1>1 DEF Update
<1>3. ASSUME NEW d \in CfCalls \ {c} PROVE RetryFresh(call[d], issued')
  <2>1. RetryFresh(call[d], issued) /\ call[d] \in CallType  BY <1>1 DEF CallsSound
  <2>2. issued \in Nat  BY <1>1 DEF CfTypeOK
  <2>3. FreshHeader(call[d].header) => call[d].header[1] \in Nat
    <3>1. call[d].header \in Seq(Nat)  BY <2>1, CallFields
    <3> QED  BY <3>1, EmptySeq DEF FreshHeader
  <2> QED  BY <2>1, <2>2, <2>3 DEF RetryFresh
<1>4. CallsSound'  BY <1>1, <1>2, <1>3 DEF CallsSound
<1>5. ASSUME NEW d \in CfCalls, call'[d].current
      PROVE  added' = << >> /\ call'[d].chain = mws'
  <2>1. CASE d = c
    BY <1>1, <1>2, <1>5, <2>1 DEF ChainCurrent
  <2>2. CASE d # c
    BY <1>1, <1>2, <1>5, <2>2 DEF ChainCurrent
  <2> QED  BY <2>1, <2>2
<1>6. built' # Nothing => built' = <<mws'>>  BY <1>1 DEF ChainCurrent
<1> QED  BY <1>2, <1>4, <1>5, <1>6 DEF ChainCurrent

\* The steps that touch a call alone.
LEMMA LocalStep ==
    ASSUME CfInv, NEW c \in CfCalls, NEW f \in CallType, CallSound(f), Update(c, f), Local,
           RetryFresh(f, issued),
           f.chain = call[c].chain, f.current <=> call[c].current
    PROVE  CfInv'
<1>1. UNCHANGED <<config, added, mws, built, cookies, issued, cfClock>>  BY DEF Local
<1>2. issued' \in Nat /\ issued' >= issued /\ RetryFresh(f, issued')
  <2>1. issued \in Nat  BY DEF CfInv, CfTypeOK
  <2> QED  BY <1>1, <2>1
<1>3. call' \in [CfCalls -> CallType] /\ CallsSound' /\ ChainCurrent'
  BY <1>1, <1>2, MoveCall
<1>4. CfTypeOK'  BY <1>1, <1>3 DEF CfInv, CfTypeOK
<1>5. CacheNewest'  BY <1>1 DEF CfInv, CacheNewest
<1> QED  BY <1>3, <1>4, <1>5 DEF CfInv

\* Nothing has been sent yet.
LEMMA CfInitInv == CfInit => CfInv
<1> SUFFICES ASSUME CfInit PROVE CfInv  OBVIOUS
<1>1. /\ config \in Configs /\ added \in Used /\ mws = Wired(config) /\ built = << >>
      /\ call = [c \in CfCalls |-> NewCall] /\ cookies = << >> /\ issued = 0 /\ cfClock = 0
  BY DEF CfInit, Nothing
<1>2. NewCall \in CallType
  <2>1. NoPage \in Page  BY DEF NoPage, Page, Markers
  <2>2. /\ << >> \in Seq(Middlewares) /\ <<0>> \in Seq(Nat) /\ << >> \in Seq(Nat)
        /\ << >> \in Seq(SUBSET Nat) /\ {} \in SUBSET Nat
    OBVIOUS
  <2> DEFINE no == FALSE
  <2>3. no \in BOOLEAN  OBVIOUS
  <2>4. NewCall = [at |-> "new", chain |-> << >>, pos |-> 0, header |-> <<0>>, resp |-> NoPage,
                   err |-> "none", retrying |-> {}, attempt |-> 1, current |-> no, sentAs |-> << >>,
                   retried |-> << >>, asked |-> {}, rendered |-> no]
    BY DEF NewCall, OwnCookie
  <2> HIDE DEF no
  <2> QED  BY <2>1, <2>2, <2>3, <2>4 DEF CallType
<1>3. CallSound(NewCall) /\ RetryFresh(NewCall, 0) /\ ~NewCall.current
  <2>1. ~NewCall.current  BY DEF NewCall
  <2>2. /\ NewCall.at = "new" /\ NewCall.sentAs = << >> /\ NewCall.retrying = {}
        /\ NewCall.asked = {} /\ NewCall.retried = << >>
    BY DEF NewCall
  <2>3. InOrder(NewCall) /\ RetryFresh(NewCall, 0)
    BY <2>2 DEF InOrder, Distinct, RetryFresh
  <2> QED  BY <2>1, <2>2, <2>3 DEF CallSound, ActsHere, GoesDown, NothingSlips,
                                   BlockUnasked, LastRetryFresh
<1>4. Wired(config) \in Seq(Middlewares)
  <2>1. /\ << >> \in Seq(Middlewares) /\ <<"log">> \in Seq(Middlewares)
        /\ <<"cookie", "detect">> \in Seq(Middlewares) /\ <<"smart">> \in Seq(Middlewares)
    BY DEF Middlewares
  <2> QED  BY <2>1 DEF Wired
<1>5. CfTypeOK
  <2>1. added \in Seq(Middlewares) /\ config \in Configs  BY <1>1, CloudflareAssumption
  <2>2. /\ built \in Seq(Seq(Middlewares)) /\ Len(built) <= 1
        /\ cookies \in Seq([cookie : Nat, expires : Nat]) /\ Len(cookies) <= 1
    BY <1>1
  <2>3. issued \in 0..MaxCookies /\ cfClock \in 0..CfMaxClock  BY <1>1, CloudflareAssumption
  <2> QED  BY <1>1, <1>2, <1>4, <2>1, <2>2, <2>3 DEF CfTypeOK
<1>6. CallsSound /\ CacheNewest /\ ChainCurrent
  BY <1>1, <1>3 DEF CallsSound, CacheNewest, ChainCurrent, Nothing
<1> QED  BY <1>5, <1>6 DEF CfInv

\* A call begins: whether by Do or by DoWithHeaderOrder, its chain is the one that
\* Use has left.
LEMMA BeginStep ==
    ASSUME CfInv, NEW c \in CfCalls, DoCall(c) \/ DoWithHeaderOrder(c)
    PROVE  CfInv'
<1> DEFINE cur == (added = << >>)
           f == [call[c] EXCEPT !.at = "down", !.chain = mws, !.pos = 1, !.current = cur]
           v == call[c]
<1>1. /\ CfTypeOK /\ ChainCurrent /\ call \in [CfCalls -> CallType] /\ v \in CallType
      /\ CallSound(v) /\ mws \in Seq(Middlewares) /\ cur \in BOOLEAN
  BY DEF CfInv, CfTypeOK, CallsSound
<1>2. v.at = "new"  BY DEF DoCall, DoWithHeaderOrder
<1>3. /\ Update(c, f) /\ (built' = built \/ built' = <<mws>>)
      /\ UNCHANGED <<config, added, mws, cookies, issued, cfClock>>
  <2>1. CASE DoWithHeaderOrder(c)
    BY <2>1 DEF DoWithHeaderOrder, EnterChain, Local
  <2>2. CASE DoCall(c)
    <3> DEFINE chain == IF built # Nothing THEN built[1] ELSE mws
    <3>1. chain = mws  BY <1>1 DEF ChainCurrent
    <3>2. /\ built' = <<chain>> /\ EnterChain(c, chain)
          /\ UNCHANGED <<config, added, mws, cookies, issued, cfClock>>
      BY <2>2 DEF DoCall
    <3> HIDE DEF chain
    <3> QED  BY <3>1, <3>2 DEF EnterChain
  <2> QED  BY <2>1, <2>2
<1> HIDE DEF cur
<1>4. /\ f \in CallType /\ f.at = "down" /\ f.chain = mws /\ f.pos = 1
      /\ f.sentAs = v.sentAs /\ f.retrying = v.retrying /\ f.asked = v.asked
      /\ f.retried = v.retried
  BY <1>1 DEF CallType
<1>5. f.current <=> cur  BY <1>1 DEF CallType
<1> HIDE DEF f
<1>6. CallSound(f)
  <2>1. v.sentAs = << >> /\ BlockUnasked(v) /\ LastRetryFresh(v)
    BY <1>1, <1>2 DEF CallSound, InOrder
  <2>2. InOrder(f)  BY <1>4, <2>1 DEF InOrder, Distinct, Onward
  <2>3. GoesDown(f)
    <3>1. Len(mws) \in Nat  BY <1>1
    <3> QED  BY <1>4, <3>1 DEF GoesDown
  <2> QED  BY <1>4, <2>1, <2>2, <2>3 DEF CallSound, ActsHere, NothingSlips,
                                         BlockUnasked, LastRetryFresh
<1>7. f.current => added = << >>  BY <1>5 DEF cur
<1>8. call' \in [CfCalls -> CallType] /\ CallsSound' /\ ChainCurrent'
  <2>1. issued \in Nat /\ issued' = issued  BY <1>1, <1>3 DEF CfTypeOK
  <2>2. v.retrying = {}  BY <1>1, <1>2 DEF CallSound, InOrder
  <2>3. RetryFresh(f, issued')  BY <1>4, <2>2 DEF RetryFresh
  <2> QED  BY <1>3, <1>4, <1>6, <1>7, <2>1, <2>3, MoveCall
<1>9. CfTypeOK'
  <2> DEFINE S == Seq(Middlewares)
  <2>1. mws \in S  BY <1>1
  <2> HIDE DEF S
  <2>2. <<mws>> \in Seq(S) /\ Len(<<mws>>) = 1  BY <2>1
  <2>3. built \in Seq(S) /\ Len(built) <= 1  BY <1>1 DEF CfTypeOK, S
  <2>4. built' \in Seq(S) /\ Len(built') <= 1
    <3>1. CASE built' = built
      BY <2>3, <3>1
    <3>2. CASE built' = <<mws>>
      BY <2>2, <3>2
    <3> QED  BY <1>3, <3>1, <3>2
  <2>5. built' \in Seq(Seq(Middlewares)) /\ Len(built') <= 1  BY <2>4 DEF S
  <2> QED  BY <1>1, <1>3, <1>8, <2>5 DEF CfTypeOK
<1>10. CacheNewest'  BY <1>3 DEF CfInv, CacheNewest
<1> QED  BY <1>8, <1>9, <1>10 DEF CfInv

\* What GetCookie adds to the header: a number, and none that is older than the
\* cookie of a retry.
LEMMA CachedCookie ==
    ASSUME CfInv
    PROVE  Cached = << >> \/ (issued \in Nat /\ Cached = <<issued>>)
<1>1. /\ cookies \in Seq([cookie : Nat, expires : Nat]) /\ issued \in Nat
      /\ CacheNewest
  BY DEF CfInv, CfTypeOK
<1> QED  BY <1>1 DEF Cached, CacheNewest

\* A newer cookie behind those of a retry.
LEMMA FreshAppend ==
    ASSUME NEW h \in Seq(Nat), FreshHeader(h), NEW n \in Nat, h[1] <= n
    PROVE  FreshHeader(Append(h, n)) /\ Append(h, n)[1] = h[1]
<1>1. Len(h) \in Nat \ {0} /\ DOMAIN h = 1..Len(h)  BY EmptySeq DEF FreshHeader
<1>2. /\ Append(h, n) # << >> /\ DOMAIN Append(h, n) = 1..(Len(h) + 1)
      /\ Append(h, n)[Len(h) + 1] = n
      /\ \A i \in 1..Len(h) : Append(h, n)[i] = h[i]
  BY <1>1
<1>3. Append(h, n)[1] = h[1]  BY <1>1, <1>2
<1>4. ASSUME NEW i \in DOMAIN Append(h, n) PROVE Append(h, n)[i] >= h[1]
  <2>1. i \in 1..Len(h) \/ i = Len(h) + 1  BY <1>1, <1>2
  <2> QED  BY <1>1, <1>2, <2>1 DEF FreshHeader
<1> QED  BY <1>2, <1>3, <1>4 DEF FreshHeader

\* A cookie middleware on the way down.
LEMMA InjectStep ==
    ASSUME CfInv, NEW c \in CfCalls, Inject(c)
    PROVE  CfInv'
<1> DEFINE v == call[c]
           h == v.header \o Cached
<1>1. v \in CallType /\ CallSound(v) /\ RetryFresh(v, issued) /\ v.at = "down" /\ Local
  BY DEF Inject, CfInv, CfTypeOK, CallsSound
<1>2. PICK i \in Below(c) : Update(c, [v EXCEPT !.header = h, !.pos = i + 1])
  BY DEF Inject
<1>3. /\ v.chain \in Seq(Middlewares) /\ Len(v.chain) \in Nat /\ v.pos \in Nat
      /\ v.header \in Seq(Nat) /\ v.retrying \in SUBSET Nat
  BY <1>1, CallFields
<1>4. i \in 1..Len(v.chain) /\ i >= v.pos  BY <1>3 DEF Below
<1>5. h \in Seq(Nat) /\ (h = v.header \/ (issued \in Nat /\ h = Append(v.header, issued)))
  <2>1. CASE Cached = << >>
    BY <1>3, <2>1
  <2>2. CASE issued \in Nat /\ Cached = <<issued>>
    BY <1>3, <2>2
  <2> QED  BY <2>1, <2>2, CachedCookie
<1> HIDE DEF h
<1> DEFINE k == i + 1
           f == [v EXCEPT !.header = h, !.pos = k]
<1>6. k \in Nat /\ k \in 1..(Len(v.chain) + 1) /\ v.pos < k  BY <1>3, <1>4
<1> HIDE DEF k
<1>7. /\ f \in CallType /\ f.at = "down" /\ f.chain = v.chain /\ f.pos = k /\ f.header = h
      /\ f.sentAs = v.sentAs /\ f.retrying = v.retrying /\ f.asked = v.asked
      /\ f.retried = v.retried
  BY <1>1, <1>5, <1>6 DEF CallType
<1>8. f.current <=> v.current  BY <1>1 DEF CallType
<1>9. Update(c, f)  BY <1>2 DEF k
<1> HIDE DEF f
<1>10. CallSound(f)
  <2>1. Distinct(f)  BY <1>1, <1>7 DEF CallSound, InOrder, Distinct
  <2>2. ASSUME NEW n \in DOMAIN f.sentAs PROVE Before(f.sentAs[n], f.retrying, f.pos)
    <3>1. Before(v.sentAs[n], v.retrying, v.pos)
      BY <1>1, <1>7, <2>2 DEF CallSound, InOrder, Onward
    <3>2. \A j \in v.retrying : j < v.pos => j < k  BY <1>3, <1>6
    <3> QED  BY <1>7, <3>1, <3>2 DEF Before
  <2>3. InOrder(f)  BY <1>7, <2>1, <2>2 DEF InOrder, Onward
  <2> QED  BY <1>1, <1>6, <1>7, <2>3 DEF CallSound, ActsHere, GoesDown, NothingSlips,
                                        BlockUnasked, LastRetryFresh
<1>11. RetryFresh(f, issued)
  <2> SUFFICES ASSUME f.retrying # {} PROVE FreshHeader(f.header) /\ f.header[1] <= issued
    BY DEF RetryFresh
  <2>1. FreshHeader(v.header) /\ v.header[1] <= issued  BY <1>1, <1>7 DEF RetryFresh
  <2> QED  BY <1>3, <1>5, <1>7, <2>1, FreshAppend
<1> QED  BY <1>1, <1>7, <1>8, <1>9, <1>10, <1>11, LocalStep

\* The site answers.
LEMMA SendStep ==
    ASSUME CfInv, NEW c \in CfCalls, Send(c)
    PROVE  CfInv'
<1> DEFINE v == call[c]
           last == IF v.retrying # {} THEN v.header ELSE v.retried
           log == Append(v.sentAs, v.retrying)
<1>1. v \in CallType /\ CallSound(v) /\ RetryFresh(v, issued) /\ v.at = "down" /\ Local
  BY DEF Send, CfInv, CfTypeOK, CallsSound
<1>2. PICK p \in Pages \cup {NoPage}, e \in {"none", "failed"} :
         Update(c, Climb([v EXCEPT !.pos = Len(v.chain) + 1, !.resp = p, !.err = e,
                                   !.sentAs = log, !.retried = last]))
  <2>1. \E p \in Pages \cup {NoPage}, e \in {"none", "failed"} :
           Update(c, Climb([v EXCEPT !.pos = Len(v.chain) + 1, !.resp = p, !.err = e,
                              !.sentAs = Append(@, v.retrying),
                              !.retried = IF v.retrying # {} THEN v.header ELSE @]))
    BY DEF Send
  <2> QED  BY <2>1
<1>3. p \in Page
  <2>1. NoPage \in Page  BY DEF NoPage, Page, Markers
  <2> QED  BY <2>1, CloudflareAssumption
<1>4. /\ Len(v.chain) \in Nat /\ v.retrying \in SUBSET Nat /\ v.sentAs \in Seq(SUBSET Nat)
      /\ v.retried \in Seq(Nat) /\ v.header \in Seq(Nat) /\ v.pos \in Nat
  BY <1>1, CallFields
<1>5. log \in Seq(SUBSET Nat) /\ last \in Seq(Nat)  BY <1>4
<1>6. last # << >> => FreshHeader(last)
  BY <1>1 DEF CallSound, LastRetryFresh, RetryFresh
<1> HIDE DEF last, log
<1> DEFINE n == Len(v.chain) + 1
           r == [v EXCEPT !.pos = n, !.resp = p, !.err = e, !.sentAs = log, !.retried = last]
<1>7. n \in Nat /\ n >= 1 /\ v.pos <= n  BY <1>1, <1>4 DEF CallSound, GoesDown
<1> HIDE DEF n
<1>8. /\ r \in CallType /\ r.chain = v.chain /\ r.pos = n
      /\ r.retrying = v.retrying /\ r.sentAs = log /\ r.retried = last /\ r.asked = v.asked
  <2> DEFINE a == [v EXCEPT !.pos = n]
             b == [a EXCEPT !.resp = p, !.err = e]
             d == [b EXCEPT !.sentAs = log, !.retried = last]
  <2>1. /\ a \in CallType /\ a.chain = v.chain /\ a.pos = n
        /\ a.retrying = v.retrying /\ a.asked = v.asked
    BY <1>1, <1>7 DEF CallType
  <2>2. r = d  OBVIOUS
  <2> HIDE DEF a
  <2>3. /\ b \in CallType /\ b.chain = a.chain /\ b.pos = n
        /\ b.retrying = a.retrying /\ b.asked = a.asked
    BY <1>3, <2>1 DEF CallType
  <2> HIDE DEF b
  <2>4. /\ d \in CallType /\ d.chain = b.chain /\ d.pos = n /\ d.sentAs = log
        /\ d.retrying = b.retrying /\ d.asked = b.asked /\ d.retried = last
    BY <1>5, <2>3 DEF CallType
  <2> HIDE DEF d, r
  <2> QED  BY <2>1, <2>2, <2>3, <2>4
<1>9. r.current <=> v.current  BY <1>1 DEF CallType
<1>10. Update(c, Climb(r))  BY <1>2 DEF n
<1> HIDE DEF r
<1>11. BlockUnasked(r) /\ LastRetryFresh(r)
  BY <1>1, <1>6, <1>8 DEF CallSound, BlockUnasked, LastRetryFresh
<1>12. Distinct(r) /\ Reached(r, r.pos)
  <2>1. Distinct(v) /\ Onward(v)  BY <1>1 DEF CallSound, InOrder
  <2> DEFINE m == Len(v.sentAs)
             S == v.sentAs
  <2>2. /\ m \in Nat /\ DOMAIN S = 1..m /\ DOMAIN log = 1..(m + 1)
        /\ \A j \in 1..m : log[j] = S[j]
        /\ log[m + 1] = v.retrying
    BY <1>4 DEF log
  <2> HIDE DEF m
  <2>3. ASSUME NEW j \in 1..m PROVE log[j] # v.retrying /\ Before(log[j], v.retrying, n)
    <3>1. Before(log[j], v.retrying, v.pos)  BY <2>1, <2>2 DEF Onward
    <3>2. PICK i \in v.retrying :
             i < v.pos /\ i \notin log[j] /\ \A k \in Nat : k < i => (k \in log[j] <=> k \in v.retrying)
      BY <3>1 DEF Before
    <3>3. i < n  BY <1>4, <1>7, <3>2
    <3> QED  BY <3>2, <3>3 DEF Before
  <2>4. Distinct(r)
    <3>1. ASSUME NEW i \in 1..(m + 1), NEW j \in 1..(m + 1), log[i] = log[j] PROVE i = j
      <4>1. CASE i \in 1..m /\ j \in 1..m
        BY <2>1, <2>2, <3>1, <4>1 DEF Distinct
      <4>2. CASE i \in 1..m /\ j = m + 1
        BY <2>2, <2>3, <3>1, <4>2
      <4>3. CASE i = m + 1 /\ j \in 1..m
        BY <2>2, <2>3, <3>1, <4>3
      <4>4. (i \in 1..m \/ i = m + 1) /\ (j \in 1..m \/ j = m + 1)  BY <2>2
      <4> QED  BY <4>1, <4>2, <4>3, <4>4
    <3> QED  BY <1>8, <2>2, <3>1 DEF Distinct
  <2>5. Reached(r, r.pos)
    <3>1. Agree(log[m + 1], v.retrying, n)  BY <2>2 DEF Agree
    <3>2. \A j \in 1..(m + 1) : j \in 1..m \/ j = m + 1  BY <2>2
    <3> QED  BY <1>8, <2>2, <2>3, <3>1, <3>2 DEF Reached
  <2> QED  BY <2>4, <2>5
<1>13. r.pos \in 1..(Len(r.chain) + 1)  BY <1>4, <1>8 DEF n
<1>14. PassedBelow(r, r.pos)
  <2>1. r.pos..Len(r.chain) = {}  BY <1>4, <1>8 DEF n
  <2> QED  BY <2>1 DEF PassedBelow
<1> DEFINE f == Climb(r)
<1>15. /\ f \in CallType /\ CallSound(f) /\ f.at # "down"
       /\ f.chain = r.chain /\ (f.current <=> r.current)
  BY <1>8, <1>11, <1>12, <1>13, <1>14, ClimbSound
<1> HIDE DEF f
<1>16. Update(c, f) /\ f.chain = v.chain /\ (f.current <=> v.current)
  BY <1>8, <1>9, <1>10, <1>15 DEF f
<1>17. RetryFresh(f, issued)  BY <1>15 DEF RetryFresh
<1> QED  BY <1>1, <1>15, <1>16, <1>17, LocalStep

\* A middleware passes an error, or another page, up from where the call is.
LEMMA PassUp ==
    ASSUME CfInv, NEW c \in CfCalls, call[c].at = "up", Local,
           NEW r \in CallType, Update(c, Climb(r)),
           r.chain = call[c].chain, r.pos = call[c].pos, r.retrying = call[c].retrying,
           r.sentAs = call[c].sentAs, r.retried = call[c].retried,
           r.current <=> call[c].current,
           BlockUnasked(r),
           r.err # "none" \/ r.chain[r.pos] = "smart"
    PROVE  CfInv'
<1> DEFINE v == call[c]
           f == Climb(r)
<1>1. v \in CallType /\ CallSound(v)  BY DEF CfInv, CfTypeOK, CallsSound
<1>2. v.pos \in 1..Len(v.chain) /\ PassedBelow(v, v.pos + 1)
  BY <1>1 DEF CallSound, ActsHere
<1>3. Len(v.chain) \in Nat  BY <1>1, CallFields
<1>4. r.pos \in 1..(Len(r.chain) + 1)  BY <1>2, <1>3
<1>5. LastRetryFresh(r) /\ Distinct(r) /\ Reached(r, r.pos)
  <2>1. Distinct(v) /\ Unretried(v) /\ LastRetryFresh(v)  BY <1>1 DEF CallSound, InOrder
  <2>2. LastRetryFresh(r) /\ Distinct(r)  BY <2>1 DEF LastRetryFresh, Distinct
  <2>3. Reached(r, r.pos)  BY <2>1 DEF Unretried, Reached
  <2> QED  BY <2>2, <2>3
<1>6. ASSUME r.err = "none" PROVE PassedBelow(r, r.pos)
  <2>1. r.chain[r.pos] = "smart"  BY <1>6
  <2>2. \A j \in r.pos..Len(r.chain) : j = r.pos \/ j \in (v.pos + 1)..Len(v.chain)
    BY <1>2, <1>3
  <2>3. PassedBelow(v, v.pos + 1)  BY <1>2
  <2> QED  BY <2>1, <2>2, <2>3 DEF PassedBelow
<1>7. /\ f \in CallType /\ CallSound(f) /\ f.at # "down"
      /\ f.chain = r.chain /\ (f.current <=> r.current)
  BY <1>4, <1>5, <1>6, ClimbSound
<1> HIDE DEF f
<1>8. Update(c, f) /\ f.chain = v.chain /\ (f.current <=> v.current)  BY <1>7 DEF f
<1>9. RetryFresh(f, issued)  BY <1>7 DEF RetryFresh
<1> QED  BY <1>7, <1>8, <1>9, LocalStep

\* What the call that is at an acting middleware has come up with.
LEMMA AtAChallenge ==
    ASSUME CfInv, NEW c \in CfCalls, call[c].at = "up"
    PROVE  /\ call[c] \in CallType /\ call[c].resp \in Page /\ Kind(c) \in Kinds
           /\ BlockUnasked(call[c])
           /\ Kind(c) # "block" =>
                 \A p \in call[c].asked \cup {call[c].resp} : "block" \notin p.body
<1> DEFINE v == call[c]
<1>1. v \in CallType /\ CallSound(v)  BY DEF CfInv, CfTypeOK, CallsSound
<1>2. Acts(v, v.pos)  BY <1>1 DEF CallSound, ActsHere
<1>3. v.resp \in Page /\ Detect(v.resp) # "none"  BY <1>1, <1>2, CallFields DEF Acts
<1>4. /\ Kind(c) \in Kinds
      /\ Kind(c) # "block" => "block" \notin v.resp.body
  BY <1>3, DetectKinds DEF Kind
<1>5. BlockUnasked(v)  BY <1>1 DEF CallSound
<1> QED  BY <1>1, <1>3, <1>4, <1>5 DEF BlockUnasked

\* The challenge, or what came of it, becomes an error.
LEMMA GiveUpStep ==
    ASSUME CfInv, NEW c \in CfCalls, Report(c) \/ SmartGivesUp(c) \/ SolveFails(c)
    PROVE  CfInv'
<1> DEFINE v == call[c]
           more == IF Kind(c) = "block" THEN v.asked ELSE v.asked \cup {v.resp}
<1>1. v.at = "up" /\ Local  BY DEF Report, SmartGivesUp, SolveFails, Up
<1>2. /\ v \in CallType /\ v.resp \in Page /\ Kind(c) \in Kinds /\ BlockUnasked(v)
      /\ Kind(c) # "block" => \A p \in v.asked \cup {v.resp} : "block" \notin p.body
  BY <1>1, AtAChallenge
<1>3. ASSUME NEW e \in {"unsolved"} \cup Kinds, NEW asked \in {v.asked, more},
             Update(c, Climb([v EXCEPT !.err = e, !.asked = asked]))
      PROVE  CfInv'
  <2> DEFINE r == [v EXCEPT !.err = e, !.asked = asked]
  <2>1. asked \in SUBSET Page /\ \A p \in asked : "block" \notin p.body
    <3>1. v.asked \in SUBSET Page  BY <1>2, CallFields
    <3> QED  BY <1>2, <3>1 DEF BlockUnasked
  <2>2. e # "none"  BY DEF Kinds
  <2>3. /\ r \in CallType /\ r.chain = v.chain /\ r.pos = v.pos /\ r.retrying = v.retrying
        /\ r.sentAs = v.sentAs /\ r.retried = v.retried /\ r.err = e /\ r.asked = asked
    BY <1>2, <2>1 DEF CallType
  <2>4. r.current <=> v.current  BY <1>2 DEF CallType
  <2> HIDE DEF r
  <2>5. Update(c, Climb(r)) /\ BlockUnasked(r)
    <3>1. Update(c, Climb(r))  BY <1>3 DEF r
    <3> QED  BY <2>1, <2>3, <3>1 DEF BlockUnasked
  <2> QED  BY <1>1, <2>2, <2>3, <2>4, <2>5, PassUp
<1>4. CASE Report(c)
  <2> DEFINE e == Kind(c)
  <2>1. Update(c, Climb([v EXCEPT !.err = e]))  BY <1>4 DEF Report
  <2>2. [v EXCEPT !.err = e] = [v EXCEPT !.err = e, !.asked = v.asked]
    <3> HIDE DEF e
    <3> QED  BY <1>2 DEF CallType
  <2>3. Update(c, Climb([v EXCEPT !.err = e, !.asked = v.asked]))  BY <2>1, <2>2
  <2> QED  BY <1>2, <1>3, <2>3
<1>5. CASE SmartGivesUp(c)
  <2>1. Update(c, Climb([v EXCEPT !.err = Kind(c), !.asked = more]))
    BY <1>5 DEF SmartGivesUp
  <2> HIDE DEF more
  <2> QED  BY <1>2, <1>3, <2>1
<1>6. CASE SolveFails(c)
  <2>1. PICK e \in {"unsolved", Kind(c)} : Update(c, Climb([v EXCEPT !.err = e, !.asked = more]))
    BY <1>6 DEF SolveFails
  <2> HIDE DEF more
  <2> QED  BY <1>2, <1>3, <2>1
<1> QED  BY <1>4, <1>5, <1>6

\* ox-browser's page takes the place of the challenge.
LEMMA SmartAnswersStep ==
    ASSUME CfInv, NEW c \in CfCalls, SmartAnswers(c)
    PROVE  CfInv'
<1> DEFINE v == call[c]
           asked == v.asked \cup {v.resp}
           yes == TRUE
<1>1. v.at = "up" /\ v.chain[v.pos] = "smart" /\ Kind(c) # "block" /\ Local
  BY DEF SmartAnswers, Up
<1>2. v \in CallType /\ v.resp \in Page /\ \A p \in asked : "block" \notin p.body
  BY <1>1, AtAChallenge
<1>3. PICK p \in Pages :
         Update(c, Climb([v EXCEPT !.asked = asked, !.rendered = yes,
                                   !.resp.body = p.body, !.resp.status = p.status]))
  BY DEF SmartAnswers
<1> DEFINE new == [v.resp EXCEPT !.body = p.body, !.status = p.status]
           r == [v EXCEPT !.asked = asked, !.rendered = yes, !.resp = new]
<1>4. p \in Page  BY CloudflareAssumption
<1>5. new \in Page
  <2> DEFINE q == v.resp
             b == p.body
             s == p.status
  <2>1. q \in Page /\ b \in SUBSET Markers /\ s \in {200, 403}  BY <1>2, <1>4 DEF Page
  <2>2. new = [q EXCEPT !.body = b, !.status = s]  OBVIOUS
  <2> HIDE DEF q, b, s, new
  <2> QED  BY <2>1, <2>2 DEF Page
<1>6. asked \in SUBSET Page /\ yes \in BOOLEAN
  <2>1. v.asked \in SUBSET Page  BY <1>2, CallFields
  <2> QED  BY <1>2, <2>1
<1> HIDE DEF asked, yes
<1>7. [v EXCEPT !.asked = asked, !.rendered = yes,
                !.resp.body = p.body, !.resp.status = p.status] = r
  BY <1>2 DEF CallType
<1> HIDE DEF new
<1>8. /\ r \in CallType /\ r.chain = v.chain /\ r.pos = v.pos /\ r.retrying = v.retrying
      /\ r.sentAs = v.sentAs /\ r.retried = v.retried /\ r.asked = asked
  BY <1>2, <1>5, <1>6 DEF CallType
<1>9. r.current <=> v.current  BY <1>2 DEF CallType
<1>10. Update(c, Climb(r))  BY <1>3, <1>7
<1> HIDE DEF r
<1>11. BlockUnasked(r)  BY <1>2, <1>8 DEF BlockUnasked
<1> QED  BY <1>1, <1>8, <1>9, <1>10, <1>11, PassUp

\* The challenge is solved, and the request goes down again with the cookie: the
\* middleware was in none of the retries that sent from here before.
LEMMA SolveStep ==
    ASSUME CfInv, NEW c \in CfCalls, SolveAndRetry(c)
    PROVE  CfInv'
<1> DEFINE v == call[c]
           asked == v.asked \cup {v.resp}
           n == issued + 1
           h == <<n>>
           i == v.pos
           k == i + 1
           R == v.retrying \cup {i}
           f == [v EXCEPT !.at = "down", !.pos = k, !.retrying = R, !.asked = asked, !.header = h]
<1>1. /\ v.at = "up" /\ v.chain[v.pos] = "cookie" /\ Kind(c) # "block" /\ issued < MaxCookies
      /\ issued' = n /\ cookies' = <<[cookie |-> issued', expires |-> cfClock + CookieTTL]>>
      /\ UNCHANGED <<config, added, mws, built, cfClock>>
  BY DEF SolveAndRetry, Up
<1>2. Update(c, [v EXCEPT !.at = "down", !.pos = @ + 1, !.retrying = @ \cup {i}, !.asked = asked,
                          !.header = h])
  <2>1. Update(c, [v EXCEPT !.at = "down", !.pos = @ + 1, !.retrying = @ \cup {i},
                            !.asked = asked, !.header = RetryHeader(c, issued')])
    BY DEF SolveAndRetry
  <2> QED  BY <1>1, <2>1 DEF RetryHeader
<1>3. /\ v \in CallType /\ CallSound(v) /\ CfTypeOK
      /\ \A p \in asked : "block" \notin p.body
      /\ asked \in SUBSET Page
  <2>1. v \in CallType /\ CallSound(v) /\ CfTypeOK  BY DEF CfInv, CfTypeOK, CallsSound
  <2>2. v.resp \in Page /\ \A p \in asked : "block" \notin p.body
    BY <1>1, AtAChallenge
  <2>3. v.asked \in SUBSET Page  BY <2>1, CallFields
  <2> QED  BY <2>1, <2>2, <2>3
<1>4. /\ issued \in Nat /\ n \in Nat /\ n > 0 /\ n \in 0..MaxCookies /\ n >= issued
      /\ i \in Nat /\ k \in Nat /\ i \in 1..Len(v.chain) /\ k \in 1..(Len(v.chain) + 1)
      /\ v.retrying \in SUBSET Nat /\ R \in SUBSET Nat /\ v.sentAs \in Seq(SUBSET Nat)
  <2>1. /\ issued \in Nat /\ v.pos \in Nat /\ MaxCookies \in Nat /\ Len(v.chain) \in Nat
        /\ v.retrying \in SUBSET Nat /\ v.sentAs \in Seq(SUBSET Nat)
    BY <1>3, CallFields, CloudflareAssumption DEF CfTypeOK
  <2>2. i \in 1..Len(v.chain)  BY <1>1, <1>3 DEF CallSound, ActsHere
  <2> QED  BY <1>1, <2>1, <2>2
<1>5. h \in Seq(Nat) /\ FreshHeader(h) /\ h[1] = n  BY <1>4 DEF FreshHeader
<1>6. Update(c, f)  BY <1>2
<1>7. InOrder(v)  BY <1>3 DEF CallSound
<1>8. ASSUME NEW m \in DOMAIN v.sentAs PROVE Before(v.sentAs[m], R, k)
  <2> DEFINE t == v.sentAs[m]
  <2>1. Before(t, v.retrying, i) \/ (Agree(t, v.retrying, i) /\ i \notin t)
    BY <1>1, <1>7 DEF InOrder, Unretried
  <2> HIDE DEF t
  <2>2. CASE Before(t, v.retrying, i)
    <3>1. PICK j \in v.retrying :
             j < i /\ j \notin t /\ \A q \in Nat : q < j => (q \in t <=> q \in v.retrying)
      BY <2>2 DEF Before
    <3>2. j \in Nat /\ j \in R /\ j < k  BY <1>4, <3>1
    <3>3. \A q \in Nat : q < j => (q \in t <=> q \in R)  BY <1>4, <3>1, <3>2
    <3> QED  BY <3>1, <3>2, <3>3 DEF Before, t
  <2>3. CASE Agree(t, v.retrying, i) /\ i \notin t
    <3>1. i \in R /\ i < k  BY <1>4
    <3>2. \A q \in Nat : q < i => (q \in t <=> q \in R)  BY <1>4, <2>3 DEF Agree
    <3> QED  BY <2>3, <3>1, <3>2 DEF Before, t
  <2> QED  BY <2>1, <2>2, <2>3
<1> HIDE DEF asked, n, k, R, i, h
<1>9. /\ f \in CallType /\ f.at = "down" /\ f.pos = k /\ f.retrying = R /\ f.asked = asked
      /\ f.header = h /\ f.chain = v.chain /\ f.sentAs = v.sentAs /\ f.retried = v.retried
  BY <1>3, <1>4, <1>5 DEF CallType
<1>10. f.current <=> v.current  BY <1>3 DEF CallType
<1> HIDE DEF f
<1>11. CallSound(f)
  <2>1. Distinct(f)  BY <1>7, <1>9 DEF InOrder, Distinct
  <2>2. InOrder(f)  BY <1>8, <1>9, <2>1 DEF InOrder, Onward
  <2>3. BlockUnasked(f) /\ LastRetryFresh(f)
    BY <1>3, <1>9 DEF CallSound, BlockUnasked, LastRetryFresh
  <2>4. ActsHere(f) /\ NothingSlips(f)  BY <1>9 DEF ActsHere, NothingSlips
  <2>5. GoesDown(f)  BY <1>4, <1>9 DEF GoesDown
  <2> QED  BY <2>2, <2>3, <2>4, <2>5 DEF CallSound
<1>12. RetryFresh(f, issued')  BY <1>1, <1>4, <1>5, <1>9 DEF RetryFresh
<1>13. call' \in [CfCalls -> CallType] /\ CallsSound' /\ ChainCurrent'
  BY <1>1, <1>4, <1>6, <1>9, <1>10, <1>11, <1>12, MoveCall
<1> DEFINE t == cfClock + CookieTTL
           Rec == [cookie : Nat, expires : Nat]
           x == [cookie |-> n, expires |-> t]
<1>14. t \in Nat /\ cookies' = <<x>>  BY <1>1, <1>3, CloudflareAssumption DEF CfTypeOK
<1> HIDE DEF t
<1>15. x \in Rec /\ x.cookie = n  BY <1>4, <1>14
<1> HIDE DEF x, Rec
<1>16. cookies' \in Seq(Rec) /\ Len(cookies') <= 1 /\ cookies'[1] = x  BY <1>14, <1>15
<1>17. CfTypeOK'  BY <1>1, <1>3, <1>4, <1>13, <1>16 DEF CfTypeOK, Rec
<1>18. CacheNewest'  BY <1>1, <1>15, <1>16 DEF CacheNewest
<1> QED  BY <1>13, <1>17, <1>18 DEF CfInv

\* doWithRetry starts the attempt over.
LEMMA AgainStep ==
    ASSUME CfInv, NEW c \in CfCalls, Again(c)
    PROVE  CfInv'
<1> DEFINE v == call[c]
           no == FALSE
           none == {}
           nil == << >>
           k == v.attempt + 1
           a == [v EXCEPT !.at = "down", !.pos = 1, !.attempt = k, !.resp = NoPage]
           b == [a EXCEPT !.err = "none", !.sentAs = nil, !.asked = none]
           f == [b EXCEPT !.rendered = no]
<1>1. Local /\ Update(c, [v EXCEPT !.at = "down", !.pos = 1, !.attempt = @ + 1, !.resp = NoPage,
                                   !.err = "none", !.sentAs = nil, !.asked = none,
                                   !.rendered = no])
  BY DEF Again
<1>2. v \in CallType /\ CallSound(v) /\ NoPage \in Page
  BY DEF CfInv, CfTypeOK, CallsSound, NoPage, Page, Markers
<1>3. k \in Nat /\ no \in BOOLEAN /\ none \in SUBSET Page /\ none = {}
      /\ nil \in Seq(SUBSET Nat) /\ nil = << >>
  BY <1>2, CallFields
<1>4. Update(c, f)
  <2>1. Update(c, [v EXCEPT !.at = "down", !.pos = 1, !.attempt = k, !.resp = NoPage,
                            !.err = "none", !.sentAs = nil, !.asked = none,
                            !.rendered = no])
    BY <1>1
  <2> QED  BY <2>1
<1> HIDE DEF no, none, nil, k
<1>5. /\ a \in CallType /\ a.at = "down" /\ a.chain = v.chain /\ a.retried = v.retried
      /\ a.pos = 1 /\ a.retrying = v.retrying
  BY <1>2, <1>3 DEF CallType
<1>6. a.current <=> v.current  BY <1>2 DEF CallType
<1> HIDE DEF a
<1>7. /\ b \in CallType /\ b.at = "down" /\ b.chain = a.chain /\ b.retried = a.retried
      /\ b.pos = 1 /\ b.retrying = a.retrying /\ b.sentAs = nil /\ b.asked = none
  BY <1>3, <1>5 DEF CallType
<1>8. b.current <=> a.current  BY <1>5 DEF CallType
<1> HIDE DEF b
<1>9. /\ f \in CallType /\ f.at = "down" /\ f.chain = b.chain /\ f.retried = b.retried
      /\ f.pos = 1 /\ f.retrying = b.retrying /\ f.sentAs = nil /\ f.asked = none
  BY <1>3, <1>7 DEF CallType
<1>10. f.current <=> b.current  BY <1>7 DEF CallType
<1> HIDE DEF f
<1>11. CallSound(f)
  <2>1. LastRetryFresh(v)  BY <1>2 DEF CallSound
  <2>2. InOrder(f)  BY <1>3, <1>9 DEF InOrder, Distinct, Onward
  <2>3. GoesDown(f)
    <3>1. Len(f.chain) \in Nat  BY <1>9, CallFields
    <3> QED  BY <1>9, <3>1 DEF GoesDown
  <2> QED  BY <1>3, <1>5, <1>7, <1>9, <2>1, <2>2, <2>3
           DEF CallSound, ActsHere, NothingSlips, BlockUnasked, LastRetryFresh
<1>12. f.chain = v.chain /\ (f.current <=> v.current)
  BY <1>5, <1>6, <1>7, <1>8, <1>9, <1>10
<1>13. RetryFresh(f, issued)
  <2>1. v.retrying = {}
    BY <1>1, <1>2 DEF Again, CallSound, InOrder
  <2> QED  BY <1>5, <1>7, <1>9, <2>1 DEF RetryFresh
<1> QED  BY <1>1, <1>4, <1>9, <1>11, <1>12, <1>13, LocalStep

\* Every step keeps the invariant.
LEMMA CfStep == CfInv /\ [CfNext]_cfVars => CfInv'
<1> SUFFICES ASSUME CfInv, [CfNext]_cfVars PROVE CfInv'  OBVIOUS
<1>1. CfTypeOK /\ CallsSound /\ CacheNewest /\ ChainCurrent  BY DEF CfInv
<1>2. CASE Use
  <2>1. /\ added # << >> /\ mws' = mws \o added /\ added' = << >> /\ built' = << >>
        /\ UNCHANGED <<config, call, cookies, issued, cfClock>>
    BY <1>2 DEF Use, Nothing
  <2>2. mws' \in Seq(Middlewares) /\ added' \in Seq(Middlewares)
    BY <1>1, <2>1 DEF CfTypeOK
  <2>3. built' \in Seq(Seq(Middlewares)) /\ Len(built') <= 1  BY <2>1
  <2>4. CfTypeOK'  BY <1>1, <2>1, <2>2, <2>3 DEF CfTypeOK
  <2>5. CallsSound' /\ CacheNewest' /\ ChainCurrent'
    BY <1>1, <2>1 DEF CallsSound, CacheNewest, ChainCurrent, Nothing
  <2> QED  BY <2>4, <2>5 DEF CfInv
<1>3. CASE CfTick
  <2>1. /\ cfClock < CfMaxClock /\ cfClock' = cfClock + 1
        /\ UNCHANGED <<config, added, mws, built, call, cookies, issued>>
    BY <1>3 DEF CfTick
  <2>2. cfClock' \in 0..CfMaxClock  BY <1>1, <2>1, CloudflareAssumption DEF CfTypeOK
  <2>3. CfTypeOK'  BY <1>1, <2>1, <2>2 DEF CfTypeOK
  <2>4. CallsSound' /\ CacheNewest' /\ ChainCurrent'
    BY <1>1, <2>1 DEF CallsSound, CacheNewest, ChainCurrent
  <2> QED  BY <2>3, <2>4 DEF CfInv
<1>4. ASSUME NEW c \in CfCalls,
             \/ DoCall(c) \/ DoWithHeaderOrder(c) \/ Inject(c) \/ Send(c)
             \/ Report(c) \/ SmartGivesUp(c) \/ SmartAnswers(c)
             \/ SolveFails(c) \/ SolveAndRetry(c) \/ Again(c)
      PROVE  CfInv'
  BY <1>4, BeginStep, InjectStep, SendStep, GiveUpStep, SmartAnswersStep, SolveStep, AgainStep
<1>5. CASE UNCHANGED cfVars
  <2>1. UNCHANGED <<config, added, mws, built, call, cookies, issued, cfClock>>
    BY <1>5 DEF cfVars
  <2>2. CfTypeOK'  BY <1>1, <2>1 DEF CfTypeOK
  <2>3. CallsSound' /\ CacheNewest' /\ ChainCurrent'
    BY <1>1, <2>1 DEF CallsSound, CacheNewest, ChainCurrent
  <2> QED  BY <2>2, <2>3 DEF CfInv
<1> QED  BY <1>2, <1>3, <1>4, <1>5 DEF CfNext

\* The invariant holds throughout.
LEMMA CfInvariant == CfSpec => []CfInv
BY CfInitInv, CfStep, PTL DEF CfSpec

-----------------------------------------------------------------------------
(* What it is for.                                                         *)

\* With the detect middleware in the chain no recognised challenge is returned as
\* a success, and no solver is ever asked about a block, wherever the
\* middlewares stand and whatever the retry and ox-browser bring.
THEOREM ChallengeHandledHolds == CfSpec => []ChallengeHandled
<1>1. CfInv => ChallengeHandled
  <2> SUFFICES ASSUME CfInv PROVE ChallengeHandled  OBVIOUS
  <2>1. \A c \in CfCalls : call[c] \in CallType /\ CallSound(call[c])
    BY DEF CfInv, CfTypeOK, CallsSound
  <2>2. ChallengeNeverSlips
    <3> SUFFICES ASSUME NEW c \in CfCalls, call[c].at = "done", Ran(c, "detect"),
                        call[c].err = "none", Detect(call[c].resp) # "none"
                 PROVE  FALSE
      BY DEF ChallengeNeverSlips, Finished, Kind
    <3>1. \A j \in 1..Len(call[c].chain) : call[c].chain[j] # "detect"
      BY <2>1 DEF CallSound, NothingSlips
    <3>2. DOMAIN call[c].chain = 1..Len(call[c].chain)  BY <2>1, CallFields
    <3> QED  BY <3>1, <3>2 DEF Ran
  <2>3. BlockLeftAlone  BY <2>1 DEF CallSound, BlockUnasked, BlockLeftAlone
  <2> QED  BY <2>2, <2>3 DEF ChallengeHandled
<1> QED  BY <1>1, CfInvariant, PTL

\* Whatever the chain, no two requests of an attempt are sent from the same nest of
\* retries, a retry takes no cookie along that is older than the one solved for
\* it, and a call that begins after Use has returned runs what it added.
THEOREM ChainFaithfulHolds == CfSpec => []ChainFaithful
<1>1. CfInv => ChainFaithful
  <2> SUFFICES ASSUME CfInv PROVE ChainFaithful  OBVIOUS
  <2>1. \A c \in CfCalls : call[c] \in CallType /\ CallSound(call[c])
    BY DEF CfInv, CfTypeOK, CallsSound
  <2>2. ChainCurrent  BY DEF CfInv
  <2>3. OneRetry  BY <2>1 DEF CallSound, InOrder, Distinct, OneRetry
  <2>4. RetryCookieOnly  BY <2>1 DEF CallSound, LastRetryFresh, FreshHeader, RetryCookieOnly
  <2>5. UseApplies  BY <2>2 DEF ChainCurrent, UseApplies
  <2> QED  BY <2>3, <2>4, <2>5 DEF ChainFaithful
<1> QED  BY <1>1, CfInvariant, PTL
===============================================================================
