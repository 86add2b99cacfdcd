------------------------- MODULE ProxyAllowanceProofs -------------------------
(***************************************************************************)
(* proxyAllowance keeps its list, map and snapshot coherent, allows the    *)
(* proxy in use and the one being tried, and leaves no allowance behind    *)
(* for a refused one: for any URLs, endpoints, callers and size.           *)
(***************************************************************************)
EXTENDS ProxyAllowance, FiniteSetTheorems, SequenceTheorems, TLAPS

LOCAL INSTANCE SequencesExt

-----------------------------------------------------------------------------
(* The inductive invariant.                                                *)

NoTwice(s) == \A i, j \in DOMAIN s : s[i] = s[j] => i = j
Members(s) == {s[i] : i \in DOMAIN s}

\* The holder of the mutex is the one call between its two steps; what it
\* resolved is remembered, as the most recent, and what it found known still is.
HolderSound ==
    \A c \in Callers :
        /\ pc[c] = "set" <=> mu = c
        /\ mu = c /\ ep[c] # None =>
              /\ order # << >> /\ order[Len(order)] = url[c]
              /\ entries[url[c]] = ep[c]
        /\ mu = c /\ wasKnown[c] => Known(url[c])

\* A proxy the backend always refuses is known only while a call tries it that
\* did not find it known.
RejectedOnTrial ==
    \A u \in Rejected : Known(u) =>
        \E c \in Callers : mu = c /\ url[c] = u /\ ep[c] # None /\ ~wasKnown[c]

\* More recent than the proxy in use are only flaky ones, and the one being tried.
OnlyRefusedSince ==
    \A i, j \in DOMAIN order : order[i] = current /\ i < j =>
        \/ order[j] \in Flaky
        \/ \E c \in Callers : mu = c /\ ep[c] # None /\ order[j] = url[c]

CurrentKept ==
    MaxRemembered > Cardinality(Flaky) + 1 /\ dialed # None =>
        Known(current) /\ OnlyRefusedSince

AllowanceInv == Coherent /\ HolderSound /\ RejectedOnTrial /\ CurrentKept

-----------------------------------------------------------------------------
(* Lemmas on the ordered set.                                              *)

\* Without takes the URL out, and leaves the others in their order.
LEMMA WithoutProperties ==
    ASSUME NEW s \in Seq(URLs), NoTwice(s), NEW u \in URLs
    PROVE  /\ Without(s, u) \in Seq(URLs)
           /\ NoTwice(Without(s, u))
           /\ Members(Without(s, u)) = Members(s) \ {u}
           /\ Len(Without(s, u)) = IF u \in Members(s) THEN Len(s) - 1 ELSE Len(s)
           /\ \A i, j \in DOMAIN Without(s, u) : i < j =>
                 \E k, l \in DOMAIN s : k < l /\ s[k] = Without(s, u)[i]
                                              /\ s[l] = Without(s, u)[j]
<1> DEFINE w == Without(s, u)
<1>1. Len(s) \in Nat /\ DOMAIN s = 1..Len(s) /\ \A i \in 1..Len(s) : s[i] \in URLs
  BY LenProperties, ElementOfSeq
<1>2. CASE u \notin Members(s)
  <2>1. w = s  BY <1>2 DEF Without, Members
  <2> QED  BY <1>1, <1>2, <2>1
<1>3. CASE u \in Members(s)
  <2>1. PICK p \in DOMAIN s : s[p] = u  BY <1>3 DEF Members
  <2>2. \A j \in 1..p - 1 : s[j] # u  BY <1>1, <2>1 DEF NoTwice
  <2>3. (CHOOSE i \in DOMAIN s : s[i] = u /\ \A j \in 1..i - 1 : s[j] # u) = p
    BY <2>1, <2>2 DEF NoTwice
  <2>4. w = SubSeq(s, 1, p - 1) \o SubSeq(s, p + 1, Len(s))
    BY <2>1, <2>3 DEF Without, RemoveAt
  <2> DEFINE a == SubSeq(s, 1, p - 1)
             b == SubSeq(s, p + 1, Len(s))
  <2>5. /\ a \in Seq(URLs) /\ Len(a) = p - 1
        /\ \A i \in 1..p - 1 : a[i] = s[i]
    <3>1. p \in Int /\ 1 \in Int /\ p - 1 \in Int  BY <1>1, <2>1
    <3>2. \A i \in 1..(p - 1) : s[i] \in URLs  BY <1>1, <2>1
    <3> QED  BY <1>1, <2>1, <3>1, <3>2, SubSeqProperties
  <2>6. /\ b \in Seq(URLs) /\ Len(b) = Len(s) - p
        /\ \A i \in 1..(Len(s) - p) : b[i] = s[p + i]
    <3>1. \A i \in (p + 1)..Len(s) : s[i] \in URLs  BY <1>1, <2>1
    <3> QED  BY <1>1, <2>1, <3>1, SubSeqProperties
  <2> HIDE DEF a, b, w
  <2>7. w = a \o b  BY <2>4 DEF a, b
  <2>8. /\ w \in Seq(URLs) /\ Len(w) = Len(s) - 1 /\ DOMAIN w = 1..Len(s) - 1
        /\ \A i \in 1..Len(s) - 1 : w[i] = s[IF i < p THEN i ELSE i + 1]
    <3>1. w \in Seq(URLs) /\ Len(w) = Len(a) + Len(b)
          /\ \A i \in 1..(Len(a) + Len(b)) :
                w[i] = IF i <= Len(a) THEN a[i] ELSE b[i - Len(a)]
      BY <2>5, <2>6, <2>7, ConcatProperties
    <3>2. Len(a) + Len(b) = Len(s) - 1  BY <1>1, <2>1, <2>5, <2>6
    <3>3. ASSUME NEW i \in 1..Len(s) - 1
          PROVE  w[i] = s[IF i < p THEN i ELSE i + 1]
      <4>1. CASE i < p  BY <1>1, <2>1, <2>5, <3>1, <3>2, <4>1
      <4>2. CASE ~(i < p)
        <5>1. i - Len(a) \in 1..(Len(s) - p) /\ p + (i - Len(a)) = i + 1
          BY <1>1, <2>1, <2>5, <4>2
        <5>2. w[i] = b[i - Len(a)]  BY <1>1, <2>1, <2>5, <3>1, <3>2, <4>2
        <5>3. b[i - Len(a)] = s[i + 1]  BY <2>6, <5>1
        <5> QED  BY <4>2, <5>2, <5>3
      <4> QED  BY <4>1, <4>2
    <3>4. DOMAIN w = 1..Len(w)  BY <3>1, LenProperties
    <3> QED  BY <3>1, <3>2, <3>3, <3>4
  <2> DEFINE g(i) == IF i < p THEN i ELSE i + 1
  <2>9. \A i \in 1..Len(s) - 1 : g(i) \in 1..Len(s) /\ g(i) # p /\ w[i] = s[g(i)]
    BY <1>1, <2>1, <2>8
  <2>10. \A i, j \in 1..Len(s) - 1 : i < j => g(i) < g(j)
    BY <1>1, <2>1
  <2>11. \A k \in 1..Len(s) : k # p => \E i \in 1..Len(s) - 1 : g(i) = k
    <3> SUFFICES ASSUME NEW k \in 1..Len(s), k # p
                 PROVE  \E i \in 1..Len(s) - 1 : g(i) = k
      OBVIOUS
    <3>1. CASE k < p  BY <1>1, <2>1, <3>1
    <3>2. CASE k > p
      <4>1. k - 1 \in 1..Len(s) - 1 /\ g(k - 1) = k  BY <1>1, <2>1, <3>2
      <4> QED  BY <4>1
    <3> QED  BY <1>1, <2>1, <3>1, <3>2
  <2> HIDE DEF g
  <2>12. NoTwice(w)
    <3> SUFFICES ASSUME NEW i \in 1..Len(s) - 1, NEW j \in 1..Len(s) - 1, w[i] = w[j]
                 PROVE  i = j
      BY <2>8 DEF NoTwice
    <3>1. g(i) = g(j)  BY <1>1, <2>9 DEF NoTwice
    <3> QED  BY <1>1, <2>9, <2>10, <3>1
  <2>13. Members(w) = Members(s) \ {u}
    <3>1. \A i \in 1..Len(s) - 1 : w[i] \in Members(s) \ {u}
      BY <1>1, <2>1, <2>9 DEF Members, NoTwice
    <3>2. \A k \in 1..Len(s) : s[k] # u => s[k] \in Members(w)
      BY <1>1, <2>1, <2>8, <2>9, <2>11 DEF Members
    <3> QED  BY <1>1, <2>8, <3>1, <3>2 DEF Members
  <2>14. \A i, j \in DOMAIN w : i < j =>
            \E k, l \in DOMAIN s : k < l /\ s[k] = w[i] /\ s[l] = w[j]
    BY <1>1, <2>8, <2>9, <2>10
  <2> QED  BY <1>3, <2>8, <2>12, <2>13, <2>14 DEF w
<1> QED  BY <1>2, <1>3

\* Newest puts the URL last, and leaves the others in their order.
LEMMA NewestProperties ==
    ASSUME NEW s \in Seq(URLs), NoTwice(s), NEW u \in URLs
    PROVE  /\ Newest(s, u) \in Seq(URLs)
           /\ NoTwice(Newest(s, u))
           /\ Members(Newest(s, u)) = Members(s) \cup {u}
           /\ Len(Newest(s, u)) \in 1..Len(s) + 1
           /\ Newest(s, u)[Len(Newest(s, u))] = u
           /\ \A i, j \in DOMAIN Newest(s, u) : i < j /\ Newest(s, u)[j] # u =>
                 \E k, l \in DOMAIN s : k < l /\ s[k] = Newest(s, u)[i]
                                              /\ s[l] = Newest(s, u)[j]
<1> DEFINE w == Without(s, u)
           n == Newest(s, u)
<1>1. /\ w \in Seq(URLs) /\ NoTwice(w) /\ Members(w) = Members(s) \ {u}
      /\ Len(w) = IF u \in Members(s) THEN Len(s) - 1 ELSE Len(s)
      /\ \A i, j \in DOMAIN w : i < j =>
            \E k, l \in DOMAIN s : k < l /\ s[k] = w[i] /\ s[l] = w[j]
  BY WithoutProperties
<1>2. n = Append(w, u)  BY DEF Newest
<1> HIDE DEF w, n
<1>3. Len(w) \in Nat /\ DOMAIN w = 1..Len(w) /\ Len(s) \in Nat
  BY <1>1, LenProperties
<1>4. /\ n \in Seq(URLs) /\ Len(n) = Len(w) + 1 /\ n[Len(w) + 1] = u
      /\ \A i \in 1..Len(w) : n[i] = w[i]
  BY <1>1, <1>2, AppendProperties
<1>5. DOMAIN n = 1..Len(w) + 1  BY <1>4, LenProperties
<1>6. \A i \in 1..Len(w) : w[i] \in Members(s) \ {u}  BY <1>1, <1>3 DEF Members
<1>7. NoTwice(n)
  <2> SUFFICES ASSUME NEW i \in 1..Len(w) + 1, NEW j \in 1..Len(w) + 1, n[i] = n[j]
               PROVE  i = j
    BY <1>5 DEF NoTwice
  <2>1. CASE i \in 1..Len(w) /\ j \in 1..Len(w)
    <3>1. w[i] = w[j] /\ i \in DOMAIN w /\ j \in DOMAIN w  BY <1>3, <1>4, <2>1
    <3> QED  BY <1>1, <3>1 DEF NoTwice
  <2>2. CASE i = Len(w) + 1 \/ j = Len(w) + 1
    BY <1>3, <1>4, <1>6, <2>2
  <2> QED  BY <1>3, <2>1, <2>2
<1>8. Members(n) = Members(w) \cup {u}
  <2>1. Members(n) \subseteq Members(w) \cup {u}  BY <1>3, <1>4, <1>5 DEF Members
  <2>2. u \in Members(n)  BY <1>3, <1>4, <1>5 DEF Members
  <2>3. Members(w) \subseteq Members(n)  BY <1>3, <1>4, <1>5 DEF Members
  <2> QED  BY <2>1, <2>2, <2>3
<1>9. Len(n) \in 1..Len(s) + 1  BY <1>1, <1>3, <1>4
<1>10. \A i, j \in DOMAIN n : i < j /\ n[j] # u => i \in DOMAIN w /\ j \in DOMAIN w
                                                 /\ n[i] = w[i] /\ n[j] = w[j]
  BY <1>3, <1>4, <1>5
<1>11. \A i, j \in DOMAIN n : i < j /\ n[j] # u =>
          \E k, l \in DOMAIN s : k < l /\ s[k] = n[i] /\ s[l] = n[j]
  BY <1>1, <1>10
<1>12. Members(n) = Members(s) \cup {u}  BY <1>1, <1>8
<1> QED  BY <1>4, <1>7, <1>9, <1>11, <1>12 DEF n

\* Trim keeps the most recent, in their order; the evicted ones are the others.
LEMMA TrimProperties ==
    ASSUME NEW s \in Seq(URLs), NoTwice(s), s # << >>
    PROVE  /\ Trim(s) \in Seq(URLs) /\ Trim(s) # << >>
           /\ NoTwice(Trim(s))
           /\ Len(Trim(s)) <= MaxRemembered
           /\ Members(Trim(s)) = Members(s) \ Evictees(s)
           /\ Trim(s)[Len(Trim(s))] = s[Len(s)]
           /\ \A i, j \in DOMAIN Trim(s) : i < j =>
                 \E k, l \in DOMAIN s : k < l /\ s[k] = Trim(s)[i] /\ s[l] = Trim(s)[j]
<1> DEFINE t == Trim(s)
           d == Len(s) - MaxRemembered
<1>0. MaxRemembered \in Nat \ {0}  BY AllowanceAssumption
<1>1. /\ Len(s) \in Nat \ {0} /\ DOMAIN s = 1..Len(s) /\ \A i \in 1..Len(s) : s[i] \in URLs
  BY EmptySeq, LenProperties, ElementOfSeq
<1>2. CASE Len(s) > MaxRemembered
  <2>1. t = SubSeq(s, d + 1, Len(s))  BY <1>2 DEF Trim
  <2>2. d \in Nat /\ d >= 1 /\ d < Len(s) /\ Len(s) - d = MaxRemembered
        /\ Len(s) \in Nat /\ MaxRemembered \in Nat
    BY <1>0, <1>1, <1>2
  <2> HIDE DEF d
  <2>3. /\ t \in Seq(URLs) /\ Len(t) = MaxRemembered
        /\ \A i \in 1..MaxRemembered : t[i] = s[d + i]
    <3>1. \A i \in (d + 1)..Len(s) : s[i] \in URLs  BY <1>1, <2>2
    <3>2. Len(s) - (d + 1) + 1 = MaxRemembered /\ d + 1 <= Len(s)  BY <2>2
    <3>3. \A i \in 1..MaxRemembered : d + 1 + i - 1 = d + i  BY <2>2
    <3>4. /\ SubSeq(s, d + 1, Len(s)) \in Seq(URLs)
          /\ Len(SubSeq(s, d + 1, Len(s))) =
                IF d + 1 <= Len(s) THEN Len(s) - (d + 1) + 1 ELSE 0
          /\ \A i \in 1..(Len(s) - (d + 1) + 1) :
                SubSeq(s, d + 1, Len(s))[i] = s[d + 1 + i - 1]
      BY <1>1, <2>2, <3>1, SubSeqProperties
    <3> QED  BY <2>1, <3>2, <3>3, <3>4
  <2> HIDE DEF t
  <2>4. DOMAIN t = 1..MaxRemembered  BY <2>3, LenProperties
  <2>5. \A i \in 1..MaxRemembered : d + i \in 1..Len(s)  BY <1>1, <2>2
  <2>6. NoTwice(t)
    <3> SUFFICES ASSUME NEW i \in 1..MaxRemembered, NEW j \in 1..MaxRemembered, t[i] = t[j]
                 PROVE  i = j
      BY <2>4 DEF NoTwice
    <3>1. d + i = d + j  BY <1>1, <2>3, <2>5 DEF NoTwice
    <3> QED  BY <2>2, <3>1
  <2>7. Evictees(s) = {s[i] : i \in 1..d}  BY DEF Evictees, d
  <2>8. Members(t) = Members(s) \ Evictees(s)
    <3>1. \A i \in 1..MaxRemembered : s[d + i] \in Members(s) /\ s[d + i] \notin Evictees(s)
      <4> SUFFICES ASSUME NEW i \in 1..MaxRemembered, NEW j \in 1..d
                   PROVE  s[d + i] \in Members(s) /\ s[d + i] # s[j]
        BY <2>2, <2>5, <2>7, <1>1 DEF Members
      <4>1. j \in 1..Len(s) /\ j # d + i  BY <1>1, <2>2
      <4> QED  BY <1>1, <2>5, <4>1 DEF Members, NoTwice
    <3>2. \A k \in 1..Len(s) : s[k] \notin Evictees(s) => s[k] \in Members(t)
      <4> SUFFICES ASSUME NEW k \in 1..Len(s), s[k] \notin Evictees(s)
                   PROVE  s[k] \in Members(t)
        OBVIOUS
      <4>1. k \notin 1..d  BY <2>7
      <4>2. k - d \in 1..MaxRemembered /\ d + (k - d) = k  BY <1>1, <2>2, <4>1
      <4> QED  BY <2>3, <2>4, <4>2 DEF Members
    <3> QED  BY <1>1, <2>3, <2>4, <3>1, <3>2 DEF Members
  <2>9. t[Len(t)] = s[Len(s)]  BY <1>0, <1>1, <2>2, <2>3
  <2>10. \A i, j \in DOMAIN t : i < j =>
            \E k, l \in DOMAIN s : k < l /\ s[k] = t[i] /\ s[l] = t[j]
    <3> SUFFICES ASSUME NEW i \in 1..MaxRemembered, NEW j \in 1..MaxRemembered, i < j
                 PROVE  \E k, l \in DOMAIN s : k < l /\ s[k] = t[i] /\ s[l] = t[j]
      BY <2>4
    <3>1. d + i < d + j  BY <2>2
    <3> QED  BY <1>1, <2>3, <2>5, <3>1
  <2>11. t # << >>  BY <1>0, <2>3
  <2> QED  BY <2>3, <2>6, <2>8, <2>9, <2>10, <2>11 DEF t
<1>3. CASE ~(Len(s) > MaxRemembered)
  <2>1. t = s /\ Len(s) <= MaxRemembered  BY <1>0, <1>1, <1>3 DEF Trim
  <2>2. 1..Len(s) - MaxRemembered = {}  BY <1>0, <1>1, <2>1
  <2>3. Evictees(s) = {}  BY <2>2 DEF Evictees
  <2> QED  BY <1>1, <2>1, <2>3
<1> QED  BY <1>2, <1>3

\* A member that only flaky ones follow is not evicted by one URL more, as long as
\* there is room for all of them.
LEMMA NotEvicted ==
    ASSUME NEW s \in Seq(URLs), NoTwice(s), NEW u \in URLs, NEW v \in URLs \ {u},
           MaxRemembered > Cardinality(Flaky) + 1,
           \A i, j \in DOMAIN s : s[i] = v /\ i < j => s[j] \in Flaky
    PROVE  v \notin Evictees(Newest(s, u))
<1> DEFINE n == Newest(s, u)
           L == Len(n)
<1>1. /\ n \in Seq(URLs) /\ NoTwice(n)
      /\ \A i, j \in DOMAIN n : i < j /\ n[j] # u =>
            \E k, l \in DOMAIN s : k < l /\ s[k] = n[i] /\ s[l] = n[j]
  BY NewestProperties
<1>2. L \in Nat /\ DOMAIN n = 1..L  BY <1>1, LenProperties
<1>3. MaxRemembered \in Nat \ {0} /\ IsFiniteSet(Flaky) /\ Cardinality(Flaky) \in Nat
  BY AllowanceAssumption, FS_CardinalityType
<1>4. SUFFICES ASSUME NEW p \in 1..L - MaxRemembered, n[p] = v
               PROVE  FALSE
  BY DEF Evictees
<1> HIDE DEF n, L
<1>5. p \in 1..L /\ p + MaxRemembered <= L  BY <1>2, <1>3
<1> DEFINE S == (p + 1)..L
           T == Flaky \cup {u}
           f == [j \in S |-> n[j]]
<1>6. ASSUME NEW j \in S PROVE j \in DOMAIN n /\ n[j] \in T
  <2>1. j \in DOMAIN n /\ p \in DOMAIN n /\ p < j  BY <1>2, <1>5
  <2>2. n[j] # u => n[j] \in Flaky  BY <1>1, <1>4, <2>1
  <2> QED  BY <2>1, <2>2
<1>7. f \in [S -> T]  BY <1>6
<1>8. \A i, j \in S : f[i] = f[j] => i = j  BY <1>1, <1>6 DEF NoTwice
<1> HIDE DEF f
<1>9. ~\E i, j \in S : i # j /\ f[i] = f[j]  BY <1>8
<1>10. IsFiniteSet(T) /\ Cardinality(T) <= Cardinality(Flaky) + 1
  <2>1. CASE u \in Flaky
    <3>1. T = Flaky  BY <2>1
    <3> HIDE DEF T
    <3> QED  BY <1>3, <3>1
  <2>2. CASE u \notin Flaky
    <3>1. IsFiniteSet(T) /\ Cardinality(T) = Cardinality(Flaky) + 1
      BY <1>3, <2>2, FS_AddElement
    <3> HIDE DEF T
    <3> QED  BY <1>3, <3>1
  <2> QED  BY <2>1, <2>2
<1>11. Cardinality(S) = L - p /\ IsFiniteSet(S)
  <2>1. p + 1 \in Int /\ L \in Int /\ ~(p + 1 > L)  BY <1>2, <1>3, <1>5
  <2> HIDE DEF S
  <2>2. Cardinality((p + 1)..L) = L - (p + 1) + 1 /\ IsFiniteSet((p + 1)..L)
    BY <2>1, FS_Interval
  <2> QED  BY <1>2, <1>5, <2>2 DEF S
<1> HIDE DEF S, T
<1>12. Cardinality(T) \in Nat  BY <1>10, FS_CardinalityType
<1>13. ~(Cardinality(T) < Cardinality(S))
  <2>1. IsFiniteSet(S) /\ IsFiniteSet(T)  BY <1>10, <1>11
  <2> QED  BY <1>7, <1>9, <2>1, FS_PigeonHole
<1> QED  BY <1>2, <1>3, <1>5, <1>10, <1>11, <1>12, <1>13

-----------------------------------------------------------------------------
(* remember and forget.                                                    *)

\* What Coherent says of the list, the map and the snapshot.
ListSound ==
    /\ order \in Seq(URLs) /\ entries \in [URLs -> MaybeEndpoint]
    /\ NoTwice(order) /\ Len(order) <= MaxRemembered
    /\ \A u \in URLs : Known(u) <=> u \in Members(order)
    /\ snap = Publish(order, entries)

\* Coherent is the type invariant and ListSound.
LEMMA CoherentParts == Coherent <=> TypeOK /\ ListSound
<1>1. \A u : u \in Members(order) <=> \E i \in DOMAIN order : order[i] = u  BY DEF Members
<1> QED  BY <1>1 DEF Coherent, ListSound, NoTwice, TypeOK

\* The snapshot holds endpoints only.
LEMMA SnapshotType == ListSound => snap \subseteq Endpoints
<1> SUFFICES ASSUME ListSound, NEW i \in DOMAIN order
             PROVE  entries[order[i]] \in Endpoints
  BY DEF ListSound, Publish
<1>1. order[i] \in URLs /\ order[i] \in Members(order)
  BY ElementOfSeq, LenProperties DEF ListSound, Members
<1> QED  BY <1>1 DEF ListSound, Known, MaybeEndpoint

\* Remembering keeps the three in step; the URL is the most recent and has the
\* endpoint, the others keep theirs or are evicted.
LEMMA RememberEffect ==
    ASSUME ListSound, NEW u \in URLs, NEW e \in Endpoints, Remember(u, e)
    PROVE  /\ ListSound'
           /\ order' # << >> /\ order'[Len(order')] = u /\ entries'[u] = e
           /\ \A v \in URLs \ {u} : IF v \in Evictees(Newest(order, u))
                                    THEN entries'[v] = None ELSE entries'[v] = entries[v]
           /\ \A i, j \in DOMAIN order' : i < j /\ order'[j] # u =>
                 \E k, l \in DOMAIN order : k < l /\ order[k] = order'[i]
                                                  /\ order[l] = order'[j]
<1> DEFINE n == Newest(order, u)
           t == Trim(n)
<1>0. None \notin Endpoints  BY AllowanceAssumption
<1>1. /\ order \in Seq(URLs) /\ NoTwice(order) /\ entries \in [URLs -> MaybeEndpoint]
      /\ \A v \in URLs : Known(v) <=> v \in Members(order)
  BY DEF ListSound
<1>2. /\ n \in Seq(URLs) /\ NoTwice(n) /\ Members(n) = Members(order) \cup {u}
      /\ Len(n) \in 1..Len(order) + 1 /\ n[Len(n)] = u
      /\ \A i, j \in DOMAIN n : i < j /\ n[j] # u =>
            \E k, l \in DOMAIN order : k < l /\ order[k] = n[i] /\ order[l] = n[j]
  BY <1>1, NewestProperties
<1>3. n # << >>  BY <1>2
<1> HIDE DEF n
<1>4. /\ t \in Seq(URLs) /\ t # << >> /\ NoTwice(t) /\ Len(t) <= MaxRemembered
      /\ Members(t) = Members(n) \ Evictees(n) /\ t[Len(t)] = n[Len(n)]
      /\ \A i, j \in DOMAIN t : i < j =>
            \E k, l \in DOMAIN n : k < l /\ n[k] = t[i] /\ n[l] = t[j]
  BY <1>2, <1>3, TrimProperties
<1> HIDE DEF t
<1>5. /\ order' = t /\ snap' = Publish(order', entries')
      /\ entries' = [v \in URLs |-> IF v \in Evictees(n) THEN None
                                    ELSE IF v = u THEN e ELSE entries[v]]
  BY DEF Remember, n, t
<1>6. u \in Members(t)
  <2>1. Len(t) \in DOMAIN t  BY <1>4, EmptySeq, LenProperties
  <2> QED  BY <1>2, <1>4, <2>1 DEF Members
<1>7. u \notin Evictees(n)  BY <1>4, <1>6
<1>8. /\ entries'[u] = e
      /\ \A v \in URLs \ {u} : IF v \in Evictees(n) THEN entries'[v] = None
                                                     ELSE entries'[v] = entries[v]
  BY <1>5, <1>7
<1>9. entries' \in [URLs -> MaybeEndpoint]  BY <1>1, <1>5 DEF MaybeEndpoint
<1>10. ASSUME NEW v \in URLs PROVE entries'[v] # None <=> v \in Members(t)
  <2>1. CASE v = u  BY <1>0, <1>6, <1>8, <2>1
  <2>2. CASE v # u /\ v \in Evictees(n)  BY <1>4, <1>8, <2>2
  <2>3. CASE v # u /\ v \notin Evictees(n)
    <3>1. v \in Members(t) <=> v \in Members(order)  BY <1>2, <1>4, <2>3
    <3>2. entries[v] # None <=> v \in Members(order)  BY <1>1 DEF Known
    <3> QED  BY <1>8, <2>3, <3>1, <3>2
  <2> QED  BY <2>1, <2>2, <2>3
<1>11. ListSound'
  BY <1>4, <1>5, <1>9, <1>10 DEF ListSound, Known
<1>12. \A i, j \in DOMAIN t : i < j /\ t[j] # u =>
          \E k, l \in DOMAIN order : k < l /\ order[k] = t[i] /\ order[l] = t[j]
  BY <1>2, <1>4
<1>13. order' # << >> /\ order'[Len(order')] = u  BY <1>2, <1>4, <1>5
<1> QED  BY <1>5, <1>8, <1>11, <1>12, <1>13 DEF n

\* Forgetting keeps the three in step, and touches no other URL.
LEMMA ForgetEffect ==
    ASSUME ListSound, NEW u \in URLs, Forget(u)
    PROVE  /\ ListSound'
           /\ entries'[u] = None /\ \A v \in URLs \ {u} : entries'[v] = entries[v]
           /\ \A i \in DOMAIN order' : order'[i] # u
           /\ \A i, j \in DOMAIN order' : i < j =>
                 \E k, l \in DOMAIN order : k < l /\ order[k] = order'[i]
                                                  /\ order[l] = order'[j]
<1> DEFINE w == Without(order, u)
<1>1. /\ order \in Seq(URLs) /\ NoTwice(order) /\ entries \in [URLs -> MaybeEndpoint]
      /\ Len(order) <= MaxRemembered
      /\ \A v \in URLs : Known(v) <=> v \in Members(order)
  BY DEF ListSound
<1>2. /\ w \in Seq(URLs) /\ NoTwice(w) /\ Members(w) = Members(order) \ {u}
      /\ Len(w) = IF u \in Members(order) THEN Len(order) - 1 ELSE Len(order)
      /\ \A i, j \in DOMAIN w : i < j =>
            \E k, l \in DOMAIN order : k < l /\ order[k] = w[i] /\ order[l] = w[j]
  BY <1>1, WithoutProperties
<1> HIDE DEF w
<1>3. /\ order' = w /\ snap' = Publish(order', entries')
      /\ entries' = [entries EXCEPT ![u] = None]
  BY DEF Forget, w
<1>4. Len(w) <= MaxRemembered
  BY <1>1, <1>2, AllowanceAssumption, LenProperties
<1>5. /\ entries' \in [URLs -> MaybeEndpoint] /\ entries'[u] = None
      /\ \A v \in URLs \ {u} : entries'[v] = entries[v]
  BY <1>1, <1>3 DEF MaybeEndpoint
<1>6. ASSUME NEW v \in URLs PROVE entries'[v] # None <=> v \in Members(w)
  BY <1>1, <1>2, <1>5 DEF Known
<1>7. ListSound'
  BY <1>2, <1>3, <1>4, <1>5, <1>6 DEF ListSound, Known
<1>8. \A i \in DOMAIN w : w[i] # u  BY <1>2 DEF Members
<1> QED  BY <1>2, <1>3, <1>5, <1>7, <1>8

-----------------------------------------------------------------------------
(* The inductive step.                                                     *)

\* The invariant by its parts, before a step and after it.
LEMMA InvParts ==
    AllowanceInv <=> TypeOK /\ ListSound /\ HolderSound /\ RejectedOnTrial /\ CurrentKept
BY CoherentParts DEF AllowanceInv

\* The direction the step lemmas end with, of the state after the step.
LEMMA InvPartsNext ==
    (TypeOK /\ ListSound /\ HolderSound /\ RejectedOnTrial /\ CurrentKept => AllowanceInv)'
BY InvParts, PTL

\* The initial proxy is remembered, or has no endpoint.
LEMMA AllowanceInit == Init => AllowanceInv
<1> SUFFICES ASSUME Init PROVE AllowanceInv  OBVIOUS
<1>1. None \notin Endpoints /\ Nobody \notin Callers /\ Direct \in URLs
      /\ MaxRemembered \in Nat \ {0}
  BY AllowanceAssumption
<1>2. current \in URLs \ Rejected /\ dialed \in MaybeEndpoint
  BY DEF Init, MaybeEndpoint
<1>3. /\ entries \in [URLs -> MaybeEndpoint] /\ entries[current] = dialed
      /\ \A u \in URLs \ {current} : entries[u] = None
  BY <1>2 DEF Init, MaybeEndpoint
<1>4. ListSound
  <2>1. CASE dialed = None
    <3>1. order = << >> /\ snap = {} /\ Members(order) = {} /\ Len(order) = 0
      BY <2>1 DEF Init, Members
    <3>2. order \in Seq(URLs)  BY <3>1, EmptySeq
    <3>3. Publish(order, entries) = {} /\ NoTwice(order)  BY <3>1 DEF Publish, NoTwice
    <3> QED  BY <1>1, <1>3, <2>1, <3>1, <3>2, <3>3 DEF ListSound, Known
  <2>2. CASE dialed # None
    <3>1. order = <<current>> /\ snap = {dialed}  BY <2>2 DEF Init
    <3>2. order \in Seq(URLs) /\ Len(order) = 1 /\ DOMAIN order = {1} /\ order[1] = current
      BY <1>2, <3>1
    <3> HIDE <3>1
    <3>3. Members(order) = {current} /\ NoTwice(order)  BY <3>2 DEF Members, NoTwice
    <3>4. Publish(order, entries) = {dialed}  BY <1>3, <3>2 DEF Publish
    <3> QED  BY <1>1, <1>3, <2>2, <3>1, <3>2, <3>3, <3>4 DEF ListSound, Known
  <2> QED  BY <2>1, <2>2
<1>5. snap \subseteq Endpoints  BY <1>4, SnapshotType
<1>6. TypeOK
  BY <1>1, <1>2, <1>4, <1>5 DEF Init, TypeOK, ListSound, MaybeEndpoint
<1>7. HolderSound  BY <1>1 DEF Init, HolderSound
<1>8. RejectedOnTrial
  BY <1>2, <1>3, AllowanceAssumption DEF RejectedOnTrial, Known
<1>9. CurrentKept
  <2> SUFFICES ASSUME dialed # None PROVE Known(current) /\ OnlyRefusedSince
    BY DEF CurrentKept
  <2>1. DOMAIN order = {1}  BY DEF Init
  <2> QED  BY <1>3, <2>1 DEF Known, OnlyRefusedSince
<1> QED  BY <1>4, <1>6, <1>7, <1>8, <1>9, InvParts

\* A step outside the critical section of set touches nothing that is shared.
LEMMA OutsideStep ==
    ASSUME AllowanceInv, NEW c \in Callers, (\E u \in URLs : Look(c, u)) \/ Resolve(c)
    PROVE  AllowanceInv'
<1>1. TypeOK /\ ListSound /\ HolderSound /\ RejectedOnTrial /\ CurrentKept
  BY InvParts
<1>2. /\ UNCHANGED <<order, entries, snap, mu, wasKnown, current, dialed>>
      /\ pc[c] # "set" /\ pc'[c] # "set"
      /\ pc' \in [Callers -> {"idle", "resolve", "lock", "set"}]
      /\ url' \in [Callers -> URLs] /\ ep' \in [Callers -> MaybeEndpoint]
      /\ \A d \in Callers \ {c} : pc'[d] = pc[d] /\ url'[d] = url[d] /\ ep'[d] = ep[d]
  <2>1. CASE \E u \in URLs : Look(c, u)
    BY <1>1, <2>1 DEF Look, TypeOK
  <2>2. CASE Resolve(c)
    <3>1. PICK e \in MaybeEndpoint : ep' = [ep EXCEPT ![c] = e]
      BY <2>2 DEF Resolve, MaybeEndpoint
    <3> QED  BY <1>1, <2>2, <3>1 DEF Resolve, TypeOK
  <2> QED  BY <2>1, <2>2
<1>3. mu # c  BY <1>1, <1>2 DEF HolderSound
<1>4. TypeOK'  BY <1>1, <1>2 DEF TypeOK
<1>5. ListSound'  BY <1>1, <1>2 DEF ListSound, Known
<1>6. HolderSound'  BY <1>1, <1>2, <1>3 DEF HolderSound, Known
<1>7. RejectedOnTrial'  BY <1>1, <1>2, <1>3 DEF RejectedOnTrial, Known
<1>8. CurrentKept'
  BY <1>1, <1>2, <1>3 DEF CurrentKept, OnlyRefusedSince, Known
<1> QED  BY <1>4, <1>5, <1>6, <1>7, <1>8, InvPartsNext

\* Allowing the endpoint first evicts neither the proxy in use nor itself.
LEMMA AllowStep ==
    ASSUME AllowanceInv, NEW c \in Callers, Allow(c)
    PROVE  AllowanceInv'
<1> DEFINE u == url[c]
           e == ep[c]
<1>1. TypeOK /\ ListSound /\ HolderSound /\ RejectedOnTrial /\ CurrentKept
  BY InvParts
<1>2. /\ u \in URLs /\ e \in MaybeEndpoint /\ current \in URLs
      /\ pc[c] = "lock" /\ mu = Nobody /\ mu' = c
      /\ wasKnown' = [wasKnown EXCEPT ![c] = Known(u)]
      /\ pc' = [pc EXCEPT ![c] = "set"]
      /\ UNCHANGED <<url, ep, current, dialed>>
  BY <1>1 DEF Allow, TypeOK
<1>3. Nobody \notin Callers  BY AllowanceAssumption
<1>4. \A d \in Callers : pc[d] # "set"  BY <1>1, <1>2, <1>3 DEF HolderSound
<1>5. \A v \in Rejected : ~Known(v)  BY <1>1, <1>2, <1>3 DEF RejectedOnTrial
<1>6. /\ pc' \in [Callers -> {"idle", "resolve", "lock", "set"}]
      /\ pc'[c] = "set" /\ \A d \in Callers \ {c} : pc'[d] = pc[d]
      /\ wasKnown' \in [Callers -> BOOLEAN]
  BY <1>1, <1>2 DEF TypeOK, Known
<1>7. wasKnown'[c] <=> Known(u)  BY <1>1, <1>2 DEF TypeOK
<1>8. \A d \in Callers : pc'[d] = "set" <=> mu' = d  BY <1>2, <1>4, <1>6
<1> HIDE DEF u, e
<1>9. CASE e = None
  <2>1. UNCHANGED <<order, entries, snap>>  BY <1>9 DEF Allow, e
  <2>2. TypeOK'  BY <1>1, <1>2, <1>6, <2>1 DEF TypeOK
  <2>3. ListSound'  BY <1>1, <2>1 DEF ListSound, Known
  <2>4. HolderSound'
    BY <1>2, <1>7, <1>8, <1>9, <2>1 DEF HolderSound, Known, u, e
  <2>5. RejectedOnTrial'  BY <1>5, <2>1 DEF RejectedOnTrial, Known
  <2>6. CurrentKept'
    BY <1>1, <1>2, <1>3, <2>1 DEF CurrentKept, OnlyRefusedSince, Known
  <2> QED  BY <2>2, <2>3, <2>4, <2>5, <2>6, InvPartsNext
<1>10. CASE e # None
  <2>1. e \in Endpoints /\ Remember(u, e)  BY <1>2, <1>10 DEF Allow, MaybeEndpoint, u, e
  <2>2. /\ ListSound'
        /\ order' # << >> /\ order'[Len(order')] = u /\ entries'[u] = e
        /\ \A v \in URLs \ {u} : IF v \in Evictees(Newest(order, u))
                                 THEN entries'[v] = None ELSE entries'[v] = entries[v]
        /\ \A i, j \in DOMAIN order' : i < j /\ order'[j] # u =>
              \E k, l \in DOMAIN order : k < l /\ order[k] = order'[i]
                                               /\ order[l] = order'[j]
    BY <1>1, <1>2, <2>1, RememberEffect
  <2>3. TypeOK'
    <3>1. snap' \subseteq Endpoints
      <4>1. (ListSound => snap \subseteq Endpoints)'  BY SnapshotType, PTL
      <4> QED  BY <2>2, <4>1
    <3> QED  BY <1>1, <1>2, <1>6, <2>2, <3>1 DEF TypeOK, ListSound
  <2>4. HolderSound'
    <3>1. entries'[url[c]] # None  BY <1>10, <2>2 DEF u
    <3>2. Known(url[c])'  BY <1>2, <3>1 DEF Known
    <3> QED  BY <1>2, <1>8, <2>2, <3>2 DEF HolderSound, u, e
  <2>5. RejectedOnTrial'
    <3> SUFFICES ASSUME NEW v \in Rejected, Known(v)'
                 PROVE  url'[c] = v /\ ep'[c] # None /\ ~wasKnown'[c]
      BY <1>2 DEF RejectedOnTrial
    <3>1. v \in URLs /\ ~Known(v)  BY <1>5, AllowanceAssumption
    <3>2. v = u  BY <2>2, <3>1 DEF Known
    <3>3. ~wasKnown'[c]  BY <1>7, <3>1, <3>2
    <3> QED  BY <1>2, <1>10, <3>2, <3>3 DEF u, e
  <2>6. CurrentKept'
    <3> SUFFICES ASSUME MaxRemembered > Cardinality(Flaky) + 1, dialed # None
                 PROVE  Known(current)' /\ OnlyRefusedSince'
      BY <1>2 DEF CurrentKept
    <3>1. /\ Known(current)
          /\ \A i, j \in DOMAIN order : order[i] = current /\ i < j => order[j] \in Flaky
      BY <1>1, <1>2, <1>3 DEF CurrentKept, OnlyRefusedSince
    <3>2. Known(current)'
      <4>1. CASE current = u  BY <1>2, <1>10, <2>2, <4>1 DEF Known
      <4>2. CASE current # u
        <5>1. current \notin Evictees(Newest(order, u))
          BY <1>1, <1>2, <3>1, <4>2, NotEvicted DEF ListSound
        <5> QED  BY <1>2, <2>2, <3>1, <4>2, <5>1 DEF Known
      <4> QED  BY <4>1, <4>2
    <3>3. OnlyRefusedSince'
      <4> SUFFICES ASSUME NEW i \in DOMAIN order', NEW j \in DOMAIN order',
                          order'[i] = current, i < j, order'[j] # u
                   PROVE  order'[j] \in Flaky
        BY <1>2, <1>10 DEF OnlyRefusedSince, u, e
      <4> QED  BY <2>2, <3>1
    <3> QED  BY <3>2, <3>3
  <2> QED  BY <2>2, <2>3, <2>4, <2>5, <2>6, InvPartsNext
<1> QED  BY <1>9, <1>10

\* Whatever the holder of the mutex does, it leaves it.
LEMMA ReturnEffect ==
    ASSUME TypeOK, HolderSound, NEW c \in Callers, pc[c] = "set", Return(c)
    PROVE  /\ mu = c /\ mu' = Nobody /\ HolderSound'
           /\ pc' \in [Callers -> {"idle", "resolve", "lock", "set"}]
           /\ url' \in [Callers -> URLs] /\ ep' \in [Callers -> MaybeEndpoint]
           /\ wasKnown' \in [Callers -> BOOLEAN]
<1>1. Nobody \notin Callers /\ Direct \in URLs  BY AllowanceAssumption
<1>2. mu = c /\ \A d \in Callers \ {c} : pc[d] # "set"  BY DEF HolderSound
<1>3. /\ pc' \in [Callers -> {"idle", "resolve", "lock", "set"}]
      /\ \A d \in Callers : pc'[d] # "set"
  BY <1>2 DEF Return, TypeOK
<1>4. mu' = Nobody  BY DEF Return
<1>5. HolderSound'  BY <1>1, <1>3, <1>4 DEF HolderSound
<1> QED  BY <1>1, <1>2, <1>3, <1>4, <1>5 DEF Return, TypeOK, MaybeEndpoint

\* The proxy that becomes the one in use is the most recent, or was it already.
LEMMA SetOkStep ==
    ASSUME AllowanceInv, NEW c \in Callers, SetOk(c)
    PROVE  AllowanceInv'
<1>1. TypeOK /\ ListSound /\ HolderSound /\ RejectedOnTrial /\ CurrentKept
  BY InvParts
<1>2. /\ pc[c] = "set" /\ url[c] \notin Rejected /\ current' = url[c] /\ Return(c)
      /\ dialed' = IF ep[c] = None /\ url[c] = current THEN dialed ELSE ep[c]
      /\ UNCHANGED <<order, entries, snap>>
      /\ url[c] \in URLs /\ ep[c] \in MaybeEndpoint
  BY <1>1 DEF SetOk, TypeOK
<1>3. /\ mu = c /\ mu' = Nobody /\ HolderSound'
      /\ pc' \in [Callers -> {"idle", "resolve", "lock", "set"}]
      /\ url' \in [Callers -> URLs] /\ ep' \in [Callers -> MaybeEndpoint]
      /\ wasKnown' \in [Callers -> BOOLEAN]
  BY <1>1, <1>2, ReturnEffect
<1>4. TypeOK'  BY <1>1, <1>2, <1>3 DEF TypeOK
<1>5. ListSound'  BY <1>1, <1>2 DEF ListSound, Known
<1>6. RejectedOnTrial'
  <2>1. \A v \in Rejected : ~Known(v)  BY <1>1, <1>2, <1>3 DEF RejectedOnTrial
  <2> QED  BY <1>2, <2>1 DEF RejectedOnTrial, Known
<1>7. CurrentKept'
  <2> SUFFICES ASSUME MaxRemembered > Cardinality(Flaky) + 1, dialed' # None
               PROVE  Known(current)' /\ OnlyRefusedSince'
    BY DEF CurrentKept
  <2>1. CASE ep[c] # None
    <3>1. order # << >> /\ order[Len(order)] = url[c] /\ entries[url[c]] = ep[c]
      BY <1>1, <1>3, <2>1 DEF HolderSound
    <3>2. Known(current)'  BY <1>2, <2>1, <3>1 DEF Known
    <3>3. Len(order) \in Nat /\ DOMAIN order = 1..Len(order) /\ Len(order) \in DOMAIN order
      BY <1>1, <3>1, EmptySeq, LenProperties DEF ListSound
    <3>4. \A i \in DOMAIN order : order[i] = url[c] => i = Len(order)
      BY <1>1, <3>1, <3>3 DEF ListSound, NoTwice
    <3>5. \A i, j \in DOMAIN order : ~(order[i] = url[c] /\ i < j)  BY <3>3, <3>4
    <3> QED  BY <1>2, <3>2, <3>5 DEF OnlyRefusedSince
  <2>2. CASE ep[c] = None
    <3>1. url[c] = current /\ dialed # None  BY <1>2, <2>2
    <3>2. Known(current) /\ OnlyRefusedSince  BY <1>1, <3>1 DEF CurrentKept
    <3>3. \A i, j \in DOMAIN order : order[i] = current /\ i < j => order[j] \in Flaky
      BY <1>3, <2>2, <3>2 DEF OnlyRefusedSince
    <3> QED  BY <1>2, <3>1, <3>2, <3>3 DEF OnlyRefusedSince, Known
  <2> QED  BY <2>1, <2>2
<1> QED  BY <1>3, <1>4, <1>5, <1>6, <1>7, InvPartsNext

\* A refused proxy that was known is none the backend always refuses, so it may
\* stay the most recent; one that was not known goes.
LEMMA SetFailsStep ==
    ASSUME AllowanceInv, NEW c \in Callers, SetFails(c)
    PROVE  AllowanceInv'
<1>1. TypeOK /\ ListSound /\ HolderSound /\ RejectedOnTrial /\ CurrentKept
  BY InvParts
<1>2. /\ pc[c] = "set" /\ url[c] \in Rejected \cup Flaky /\ url[c] # current /\ Return(c)
      /\ UNCHANGED <<current, dialed>> /\ url[c] \in URLs /\ current \in URLs
  BY <1>1 DEF SetFails, TypeOK
<1>3. /\ mu = c /\ mu' = Nobody /\ HolderSound'
      /\ pc' \in [Callers -> {"idle", "resolve", "lock", "set"}]
      /\ url' \in [Callers -> URLs] /\ ep' \in [Callers -> MaybeEndpoint]
      /\ wasKnown' \in [Callers -> BOOLEAN]
  BY <1>1, <1>2, ReturnEffect
<1>4. \A v \in Rejected : Known(v) => url[c] = v /\ ep[c] # None /\ ~wasKnown[c]
  BY <1>1, <1>3 DEF RejectedOnTrial
<1>5. ASSUME MaxRemembered > Cardinality(Flaky) + 1, dialed # None
      PROVE  /\ Known(current)
             /\ \A i, j \in DOMAIN order : order[i] = current /\ i < j =>
                   order[j] \in Flaky \/ (ep[c] # None /\ order[j] = url[c])
  BY <1>1, <1>3, <1>5 DEF CurrentKept, OnlyRefusedSince
<1>6. CASE MustForget(c)
  <2>1. Forget(url[c])  BY <1>6 DEF SetFails
  <2>2. /\ ListSound'
        /\ entries'[url[c]] = None
        /\ \A v \in URLs \ {url[c]} : entries'[v] = entries[v]
        /\ \A i \in DOMAIN order' : order'[i] # url[c]
        /\ \A i, j \in DOMAIN order' : i < j =>
              \E k, l \in DOMAIN order : k < l /\ order[k] = order'[i]
                                               /\ order[l] = order'[j]
    BY <1>1, <1>2, <2>1, ForgetEffect
  <2>3. TypeOK'
    <3>1. snap' \subseteq Endpoints
      <4>1. (ListSound => snap \subseteq Endpoints)'  BY SnapshotType, PTL
      <4> QED  BY <2>2, <4>1
    <3> QED  BY <1>1, <1>2, <1>3, <2>2, <3>1 DEF TypeOK, ListSound
  <2>4. RejectedOnTrial'
    <3>1. \A v \in Rejected : v \in URLs  BY AllowanceAssumption
    <3>2. \A v \in Rejected : entries'[v] = None  BY <1>4, <2>2, <3>1 DEF Known
    <3> QED  BY <3>2 DEF RejectedOnTrial, Known
  <2>5. CurrentKept'
    <3> SUFFICES ASSUME MaxRemembered > Cardinality(Flaky) + 1, dialed # None
                 PROVE  Known(current)' /\ OnlyRefusedSince'
      BY <1>2 DEF CurrentKept
    <3>1. Known(current)'  BY <1>2, <1>5, <2>2 DEF Known
    <3>2. \A i, j \in DOMAIN order' : order'[i] = current /\ i < j => order'[j] \in Flaky
      BY <1>5, <2>2
    <3> QED  BY <1>2, <3>1, <3>2 DEF OnlyRefusedSince
  <2> QED  BY <1>3, <2>2, <2>3, <2>4, <2>5, InvPartsNext
<1>7. CASE ~MustForget(c)
  <2>1. UNCHANGED <<order, entries, snap>> /\ (ep[c] = None \/ wasKnown[c])
    BY <1>7 DEF SetFails, MustForget
  <2>2. \A v \in Rejected : ~Known(v)  BY <1>4, <2>1
  <2>3. ep[c] # None => url[c] \in Flaky
    <3> SUFFICES ASSUME ep[c] # None PROVE url[c] \notin Rejected  BY <1>2
    <3>1. Known(url[c])  BY <1>1, <1>3, <2>1 DEF HolderSound
    <3> QED  BY <2>2, <3>1
  <2>4. TypeOK'  BY <1>1, <1>2, <1>3, <2>1 DEF TypeOK
  <2>5. ListSound'  BY <1>1, <2>1 DEF ListSound, Known
  <2>6. RejectedOnTrial'  BY <2>1, <2>2 DEF RejectedOnTrial, Known
  <2>7. CurrentKept'
    <3> SUFFICES ASSUME MaxRemembered > Cardinality(Flaky) + 1, dialed # None
                 PROVE  Known(current)' /\ OnlyRefusedSince'
      BY <1>2 DEF CurrentKept
    <3>1. \A i, j \in DOMAIN order : order[i] = current /\ i < j => order[j] \in Flaky
      BY <1>5, <2>3
    <3> QED  BY <1>2, <1>5, <2>1, <3>1 DEF OnlyRefusedSince, Known
  <2> QED  BY <1>3, <2>4, <2>5, <2>6, <2>7, InvPartsNext
<1> QED  BY <1>6, <1>7

\* Every step of every caller keeps the invariant.
LEMMA AllowanceStep == AllowanceInv /\ [Next]_vars => AllowanceInv'
<1> SUFFICES ASSUME AllowanceInv, [Next]_vars PROVE AllowanceInv'  OBVIOUS
<1>1. CASE UNCHANGED vars
  <2>1. TypeOK /\ ListSound /\ HolderSound /\ RejectedOnTrial /\ CurrentKept  BY InvParts
  <2> USE <1>1 DEF vars, callVars
  <2>2. TypeOK' /\ ListSound' BY <2>1 DEF TypeOK, ListSound, Known
  <2>3. HolderSound' /\ RejectedOnTrial'  BY <2>1 DEF HolderSound, RejectedOnTrial, Known
  <2>4. CurrentKept'  BY <2>1 DEF CurrentKept, OnlyRefusedSince, Known
  <2> QED  BY <2>2, <2>3, <2>4, InvPartsNext
<1>2. CASE Next
  <2> SUFFICES ASSUME NEW c \in Callers,
                      \/ \E u \in URLs : Look(c, u)
                      \/ Resolve(c) \/ Allow(c) \/ SetOk(c) \/ SetFails(c)
               PROVE  AllowanceInv'
    BY <1>2 DEF Next
  <2> QED  BY OutsideStep, AllowStep, SetOkStep, SetFailsStep
<1> QED  BY <1>1, <1>2

-----------------------------------------------------------------------------
(* The theorems.                                                           *)

\* AllowanceInv holds in every reachable state.
LEMMA AllowanceInvariant == Spec => []AllowanceInv
BY AllowanceInit, AllowanceStep, PTL DEF Spec

\* The list, the map and the snapshot that dials read without the lock say the
\* same after every step of remember, forget and apply.
THEOREM CoherentHolds == Spec => []Coherent
<1>1. AllowanceInv => Coherent  BY DEF AllowanceInv
<1> QED  BY <1>1, AllowanceInvariant, PTL

\* No dial of the client to its own proxy is refused, neither to the proxy in use
\* nor, during apply, to the one the backend is being switched to.
THEOREM DialAllowedHolds == Spec => []DialAllowed
<1>1. ASSUME AllowanceInv PROVE DialAllowed
  <2>1. TypeOK /\ ListSound /\ HolderSound /\ CurrentKept  BY <1>1, InvParts
  <2>2. ASSUME NEW u \in URLs, Known(u) PROVE entries[u] \in snap
    <3>1. PICK i \in DOMAIN order : order[i] = u  BY <2>1, <2>2 DEF ListSound, Members
    <3> QED  BY <2>1, <3>1 DEF ListSound, Publish
  <2>3. CurrentAllowed  BY <2>1, <2>2 DEF CurrentAllowed, CurrentKept, TypeOK
  <2>4. SwitchAllowed
    <3> SUFFICES ASSUME NEW c \in Callers, pc[c] = "set", ep[c] # None
                 PROVE  ep[c] \in snap
      BY DEF SwitchAllowed
    <3>1. url[c] \in URLs /\ entries[url[c]] = ep[c]  BY <2>1 DEF HolderSound, TypeOK
    <3> QED  BY <2>2, <3>1 DEF Known
  <2> QED  BY <2>3, <2>4 DEF DialAllowed
<1> QED  BY <1>1, AllowanceInvariant, PTL

\* A proxy the backend always refuses has no allowance once apply has returned.
THEOREM RejectedForgottenHolds == Spec => []RejectedForgotten
<1>1. AllowanceInv => RejectedForgotten
  BY AllowanceAssumption DEF AllowanceInv, RejectedOnTrial, RejectedForgotten
<1> QED  BY <1>1, AllowanceInvariant, PTL

-----------------------------------------------------------------------------
(* The refinement.                                                         *)

\* One URL more evicts nothing while there is room for it, and then one.
LEMMA EvictsOne ==
    ASSUME NEW s \in Seq(URLs), NoTwice(s), Len(s) <= MaxRemembered, NEW u \in URLs
    PROVE  IF u \in Members(s) \/ Len(s) < MaxRemembered
           THEN Evictees(Newest(s, u)) = {}
           ELSE \E v \in Members(s) : Evictees(Newest(s, u)) = {v}
<1> DEFINE w == Without(s, u)
           n == Newest(s, u)
<1>1. w \in Seq(URLs) /\ Len(w) = IF u \in Members(s) THEN Len(s) - 1 ELSE Len(s)
  BY WithoutProperties
<1>2. n = Append(w, u)  BY DEF Newest
<1>3. u \notin Members(s) => w = s  BY DEF Without, Members
<1> HIDE DEF w, n
<1>4. /\ Len(n) = Len(w) + 1 /\ n \in Seq(URLs)
      /\ \A i \in 1..Len(w) : n[i] = w[i]
  BY <1>1, <1>2, AppendProperties
<1>5. /\ Len(s) \in Nat /\ DOMAIN s = 1..Len(s) /\ Len(w) \in Nat
      /\ MaxRemembered \in Nat /\ MaxRemembered >= 1 /\ Len(s) <= MaxRemembered
  BY <1>1, LenProperties, AllowanceAssumption
<1>6. CASE u \in Members(s) \/ Len(s) < MaxRemembered
  <2>1. Len(w) < MaxRemembered
    <3>1. CASE u \in Members(s)  BY <1>1, <1>5, <3>1
    <3>2. CASE u \notin Members(s)  BY <1>1, <1>5, <1>6, <3>2
    <3> QED  BY <3>1, <3>2
  <2>2. Len(n) - MaxRemembered <= 0 /\ Len(n) - MaxRemembered \in Int
    BY <1>4, <1>5, <2>1
  <2>3. 1..Len(n) - MaxRemembered = {}  BY <2>2
  <2>4. Evictees(n) = {}  BY <2>3 DEF Evictees
  <2> QED  BY <1>6, <2>4 DEF n
<1>7. CASE ~(u \in Members(s) \/ Len(s) < MaxRemembered)
  <2>1. Len(n) - MaxRemembered = 1 /\ 1 \in DOMAIN s /\ n[1] = s[1]
    <3>1. w = s  BY <1>3, <1>7
    <3>2. ~(Len(s) < MaxRemembered)  BY <1>7
    <3>3. Len(s) = MaxRemembered
      <4>1. \A a, b \in Nat : a <= b /\ ~(a < b) => a = b  OBVIOUS
      <4>2. Len(s) \in Nat /\ MaxRemembered \in Nat /\ Len(s) <= MaxRemembered  BY <1>5
      <4> QED  BY ONLY <3>2, <4>1, <4>2
    <3>4. Len(n) = MaxRemembered + 1 /\ n[1] = w[1]  BY <1>4, <1>5, <3>1, <3>3
    <3> QED  BY <1>5, <3>1, <3>3, <3>4
  <2>2. 1..Len(n) - MaxRemembered = {1}  BY <2>1
  <2>3. Evictees(n) = {s[1]} /\ s[1] \in Members(s)
    BY <2>1, <2>2 DEF Evictees, Members
  <2> QED  BY <1>7, <2>3 DEF n
<1> QED  BY <1>6, <1>7

\* The guard is as full as the list is long.
LEMMA GuardedIsListed ==
    ASSUME ListSound
    PROVE  /\ Switching!Guarded = Members(order)
           /\ Switching!Cardinality(Switching!Guarded) = Len(order)
<1>1. order \in Seq(URLs) /\ NoTwice(order)  BY DEF ListSound
<1>2. Len(order) \in Nat /\ DOMAIN order = 1..Len(order)
      /\ \A i \in 1..Len(order) : order[i] \in URLs
  BY <1>1, LenProperties, ElementOfSeq
<1>3. Switching!Guarded = Members(order)
  <2>1. Members(order) \subseteq URLs  BY <1>2 DEF Members
  <2> QED  BY <2>1 DEF ListSound, Known, Switching!Guarded
<1> DEFINE S == 1..Len(order)
           T == Members(order)
           f == [i \in S |-> order[i]]
           g == [v \in T |-> CHOOSE i \in S : order[i] = v]
<1>4. f \in [S -> T] /\ ~\E i, j \in S : i # j /\ f[i] = f[j]
  BY <1>1, <1>2 DEF NoTwice, Members
<1>5. \A v \in T : g[v] \in S /\ order[g[v]] = v
  <2> SUFFICES ASSUME NEW v \in T PROVE g[v] \in S /\ order[g[v]] = v  OBVIOUS
  <2>1. \E i \in S : order[i] = v  BY <1>2 DEF Members
  <2> QED  BY <2>1
<1>6. g \in [T -> S] /\ ~\E v, w \in T : v # w /\ g[v] = g[w]  BY <1>5
<1>7. IsFiniteSet(S) /\ Cardinality(S) = Len(order)
  <2>1. IsFiniteSet(1..Len(order))
        /\ Cardinality(1..Len(order)) = IF 1 > Len(order) THEN 0 ELSE Len(order) - 1 + 1
    BY <1>2, FS_Interval
  <2> QED  BY <1>2, <2>1
<1>8. IsFiniteSet(T)
  <2>1. order \in [1..Len(order) -> URLs]  BY <1>1, LenProperties
  <2>2. order \in [1..Len(order) -> T]  BY <1>2, <2>1 DEF Members
  <2>3. \A v \in T : \E i \in 1..Len(order) : order[i] = v  BY <1>2 DEF Members
  <2> HIDE DEF T
  <2>4. order \in Seq(T)  BY <1>2, <2>2, SeqDef
  <2> QED  BY <2>3, <2>4 DEF IsFiniteSet
<1> HIDE DEF f, g, S, T
<1>9. Cardinality(T) = Cardinality(S)
  <2>1. Cardinality(T) \in Nat /\ Cardinality(S) \in Nat  BY <1>7, <1>8, FS_CardinalityType
  <2>2. ~(Cardinality(T) < Cardinality(S))  BY <1>4, <1>7, <1>8, FS_PigeonHole
  <2>3. ~(Cardinality(S) < Cardinality(T))  BY <1>6, <1>7, <1>8, FS_PigeonHole
  <2> QED  BY <2>1, <2>2, <2>3
<1>10. Switching!Cardinality(T) = Cardinality(T)  BY DEF Cardinality, Switching!Cardinality
<1> QED  BY <1>3, <1>7, <1>9, <1>10 DEF T

\* A call that found no endpoint and no entry leaves the guard without one.
NothingAdded ==
    \A c \in Callers : mu = c /\ ep[c] = None /\ ~wasKnown[c] => ~Known(url[c])

\* Only Allow takes the mutex, and nobody changes the map while another has it.
LEMMA NothingAddedStep ==
    AllowanceInv /\ NothingAdded /\ [Next]_vars => NothingAdded'
<1> SUFFICES ASSUME AllowanceInv, NothingAdded, [Next]_vars PROVE NothingAdded'  OBVIOUS
<1>1. TypeOK /\ HolderSound /\ Nobody \notin Callers  BY InvParts, AllowanceAssumption
<1>2. CASE UNCHANGED vars
  BY <1>2 DEF vars, callVars, NothingAdded, Known
<1>3. ASSUME NEW c \in Callers, (\E u \in URLs : Look(c, u)) \/ Resolve(c)
      PROVE  NothingAdded'
  <2>1. mu # c  BY <1>1, <1>3 DEF Look, Resolve, HolderSound
  <2>2. UNCHANGED <<entries, mu, wasKnown>>  BY <1>3 DEF Look, Resolve
  <2>3. \A d \in Callers \ {c} : url'[d] = url[d] /\ ep'[d] = ep[d]
    BY <1>1, <1>3 DEF Look, Resolve, TypeOK
  <2> QED  BY <2>1, <2>2, <2>3 DEF NothingAdded, Known
<1>4. ASSUME NEW c \in Callers, Allow(c) PROVE NothingAdded'
  <2>1. mu' = c /\ UNCHANGED <<url, ep>> /\ wasKnown'[c] = Known(url[c])
    BY <1>1, <1>4 DEF Allow, TypeOK
  <2>2. ep[c] = None => UNCHANGED entries  BY <1>4 DEF Allow
  <2> QED  BY <2>1, <2>2 DEF NothingAdded, Known
<1>5. ASSUME NEW c \in Callers, SetOk(c) \/ SetFails(c) PROVE NothingAdded'
  <2>1. mu' = Nobody  BY <1>5 DEF SetOk, SetFails, Return
  <2> QED  BY <1>1, <2>1 DEF NothingAdded
<1> QED  BY <1>2, <1>3, <1>4, <1>5 DEF Next

\* What the holder of the mutex tries, and whether it was known.
HeldTried ==
    /\ \A c \in Callers : mu = c => Trying = {url[c]} /\ (TryingFamiliar <=> wasKnown[c])
    /\ mu \notin Callers => Trying = {} /\ ~TryingFamiliar

\* There is one holder, or none.
LEMMA HolderTries == HeldTried
<1>1. ASSUME NEW c \in Callers, mu = c
      PROVE  Trying = {url[c]} /\ (TryingFamiliar <=> wasKnown[c])
  <2>1. {d \in Callers : mu = d} = {c}  BY <1>1
  <2> QED  BY <1>1, <2>1 DEF Trying, TryingFamiliar
<1>2. ASSUME mu \notin Callers PROVE Trying = {} /\ ~TryingFamiliar
  <2>1. {d \in Callers : mu = d} = {}  BY <1>2
  <2> QED  BY <1>2, <2>1 DEF Trying, TryingFamiliar
<1> QED  BY <1>1, <1>2 DEF HeldTried

\* The second critical section begins one attempt of the abstract switch.
LEMMA AllowIsTry ==
    ASSUME AllowanceInv, NEW c \in Callers, Allow(c)
    PROVE  Switching!Try(url[c])
<1> DEFINE u == url[c]
           e == ep[c]
<1>1. TypeOK /\ ListSound /\ HolderSound  BY InvParts
<1>2. /\ u \in URLs /\ e \in MaybeEndpoint /\ entries \in [URLs -> MaybeEndpoint]
      /\ mu = Nobody /\ Nobody \notin Callers /\ mu' = c
      /\ wasKnown'[c] = Known(u) /\ url' = url /\ current' = current
  BY <1>1, AllowanceAssumption DEF Allow, TypeOK
<1>3. Trying = {} /\ Trying' = {u} /\ (TryingFamiliar' <=> wasKnown'[c])
  <2>1. HeldTried /\ HeldTried'  BY HolderTries, PTL
  <2> QED  BY <1>2, <2>1 DEF HeldTried
<1>4. TryingFamiliar' = (u \in Switching!Guarded)
  <2>1. TryingFamiliar' \in BOOLEAN  BY DEF TryingFamiliar
  <2>2. TryingFamiliar' <=> u \in Switching!Guarded
    BY <1>2, <1>3 DEF Known, Switching!Guarded
  <2> QED  BY <2>1, <2>2
<1>5. Switching!Admit(u) \/ Switching!Replace(u) \/ entries' = entries
  <2>1. CASE e = None  BY <2>1 DEF Allow
  <2>2. CASE e # None
    <3> DEFINE n == Newest(order, u)
    <3>1. e \in Endpoints /\ Remember(u, e)  BY <1>2, <2>2 DEF Allow, MaybeEndpoint
    <3>2. entries'[u] = e
          /\ \A v \in URLs \ {u} : IF v \in Evictees(n) THEN entries'[v] = None
                                                        ELSE entries'[v] = entries[v]
      BY <1>1, <1>2, <3>1, RememberEffect
    <3>3. entries' = [v \in URLs |-> entries'[v]]  BY <3>1 DEF Remember
    <3>4. /\ Switching!Guarded = Members(order)
          /\ Switching!Cardinality(Switching!Guarded) = Len(order)
      BY <1>1, GuardedIsListed
    <3>5. /\ order \in Seq(URLs) /\ NoTwice(order) /\ Len(order) <= MaxRemembered
          /\ Len(order) \in Nat /\ MaxRemembered \in Nat
      BY <1>1, LenProperties, AllowanceAssumption DEF ListSound
    <3>6. IF u \in Members(order) \/ Len(order) < MaxRemembered
          THEN Evictees(n) = {} ELSE \E v \in Members(order) : Evictees(n) = {v}
      BY <1>2, <3>5, EvictsOne
    <3> HIDE DEF n, u, e
    <3>7. CASE u \in Members(order) \/ Len(order) < MaxRemembered
      <4>1. \A v \in URLs : entries'[v] = [entries EXCEPT ![u] = e][v]
        BY <1>2, <3>2, <3>6, <3>7
      <4>2. entries' = [entries EXCEPT ![u] = e]  BY <1>2, <3>3, <4>1
      <4> QED  BY <3>1, <3>4, <3>7, <4>2 DEF Switching!Admit
    <3>8. CASE ~(u \in Members(order) \/ Len(order) < MaxRemembered)
      <4>1. PICK v \in Members(order) : Evictees(n) = {v}  BY <3>6, <3>8
      <4>2. v \in URLs /\ v # u /\ v \in Switching!Guarded
        BY <3>4, <3>8, <4>1 DEF Switching!Guarded
      <4>3. \A w \in URLs : entries'[w] = [entries EXCEPT ![u] = e, ![v] = None][w]
        BY <1>2, <3>2, <4>1, <4>2
      <4>4. entries' = [entries EXCEPT ![u] = e, ![v] = None]  BY <1>2, <3>3, <4>3
      <4>5. Len(order) = MaxRemembered  BY <3>5, <3>8
      <4> QED  BY <3>1, <3>4, <3>8, <4>2, <4>4, <4>5 DEF Switching!Replace
    <3> QED  BY <3>7, <3>8
  <2> QED  BY <2>1, <2>2
<1> QED  BY <1>2, <1>3, <1>4, <1>5 DEF Switching!Try

\* The end of apply ends the attempt.
LEMMA SetIsEnd ==
    ASSUME AllowanceInv, NothingAdded, NEW c \in Callers, SetOk(c) \/ SetFails(c)
    PROVE  Switching!Switch(url[c]) \/ Switching!GiveUp(url[c])
<1> DEFINE u == url[c]
<1>1. TypeOK /\ ListSound /\ HolderSound  BY InvParts
<1>2. u \in URLs /\ entries \in [URLs -> MaybeEndpoint] /\ Nobody \notin Callers
  BY <1>1, AllowanceAssumption DEF TypeOK
<1>3. mu = c /\ mu' = Nobody
  BY <1>1 DEF SetOk, SetFails, Return, HolderSound
<1>4. Trying = {u} /\ (TryingFamiliar <=> wasKnown[c])  BY <1>3, HolderTries DEF HeldTried
<1>5. Trying' = {} /\ TryingFamiliar' = FALSE
  <2>1. HeldTried'  BY HolderTries, PTL
  <2>2. TryingFamiliar' \in BOOLEAN  BY DEF TryingFamiliar
  <2> QED  BY <1>2, <1>3, <2>1, <2>2 DEF HeldTried
<1>6. CASE SetOk(c)
  BY <1>4, <1>5, <1>6 DEF SetOk, Switching!Switch, Switching!Over
<1>7. CASE SetFails(c)
  <2>1. entries' = IF TryingFamiliar THEN entries ELSE [entries EXCEPT ![u] = None]
    <3>1. CASE MustForget(c)
      BY <1>4, <1>7, <3>1 DEF SetFails, MustForget, Forget
    <3>2. CASE wasKnown[c]
      BY <1>4, <1>7, <3>2 DEF SetFails, MustForget
    <3>3. CASE ep[c] = None /\ ~wasKnown[c]
      <4>1. entries' = entries  BY <1>7, <3>3 DEF SetFails, MustForget
      <4>2. entries[u] = None  BY <1>3, <3>3 DEF NothingAdded, Known
      <4>3. [entries EXCEPT ![u] = None] = entries  BY <1>2, <4>2
      <4> QED  BY <1>4, <3>3, <4>1, <4>3
    <3> QED  BY <3>1, <3>2, <3>3 DEF MustForget
  <2> QED  BY <1>4, <1>5, <1>7, <2>1 DEF SetFails, Switching!GiveUp, Switching!Over
<1> QED  BY <1>6, <1>7

\* However calls of apply overlap, the guard and the backend change as if one call
\* followed the other: Allow begins an attempt and the end of set ends it, while the
\* look at the map and the lookup of the host are hidden.
THEOREM SwitchImplemented == Spec => ImplementsProxySwitch
<1>1. Init => Switching!SwitchInit
  <2> SUFFICES ASSUME Init PROVE Switching!SwitchInit  OBVIOUS
  <2>1. Nobody \notin Callers /\ None \notin Endpoints /\ Direct \in URLs
    BY AllowanceAssumption
  <2>2. Trying = {} /\ TryingFamiliar = FALSE
    <3>1. mu \notin Callers  BY <2>1 DEF Init
    <3> QED  BY <3>1, HolderTries DEF HeldTried, TryingFamiliar
  <2>3. dialed \in Endpoints \cup {None}  BY DEF Init, MaybeEndpoint
  <2>4. entries = [v \in URLs |-> IF v = current THEN dialed ELSE None] /\ current \in URLs
    BY DEF Init
  <2> QED  BY <2>2, <2>3, <2>4 DEF Switching!SwitchInit
<1>2. Init => NothingAdded
  BY AllowanceAssumption DEF Init, NothingAdded
<1>3. AllowanceInv /\ NothingAdded /\ [Next]_vars
          => [Switching!SwitchNext]_(Switching!switchVars)
  <2> SUFFICES ASSUME AllowanceInv, NothingAdded, [Next]_vars
               PROVE  [Switching!SwitchNext]_(Switching!switchVars)
    OBVIOUS
  <2>1. TypeOK /\ HolderSound  BY InvParts
  <2>2. CASE UNCHANGED vars
    BY <2>2 DEF vars, callVars, Switching!switchVars, Trying, TryingFamiliar
  <2>3. ASSUME NEW c \in Callers, (\E u \in URLs : Look(c, u)) \/ Resolve(c)
        PROVE  UNCHANGED Switching!switchVars
    <3>1. UNCHANGED <<entries, current, mu, wasKnown>>  BY <2>3 DEF Look, Resolve
    <3>2. mu # c  BY <2>1, <2>3 DEF Look, Resolve, HolderSound
    <3>3. \A d \in Callers \ {c} : url'[d] = url[d]
      BY <2>1, <2>3 DEF Look, Resolve, TypeOK
    <3>4. Trying' = Trying
      <4>1. \A d \in Callers : mu = d => url'[d] = url[d]  BY <3>2, <3>3
      <4> QED  BY <3>1, <4>1 DEF Trying
    <3>5. TryingFamiliar' = TryingFamiliar  BY <3>1 DEF TryingFamiliar
    <3> QED  BY <3>1, <3>4, <3>5 DEF Switching!switchVars
  <2>4. ASSUME NEW c \in Callers, Allow(c) \/ SetOk(c) \/ SetFails(c)
        PROVE  Switching!SwitchNext
    <3>1. url[c] \in URLs  BY <2>1 DEF TypeOK
    <3>2. \/ Switching!Try(url[c]) \/ Switching!Switch(url[c])
          \/ Switching!GiveUp(url[c])
      BY <2>4, AllowIsTry, SetIsEnd
    <3> QED  BY <3>1, <3>2 DEF Switching!SwitchNext
  <2> QED  BY <2>2, <2>3, <2>4 DEF Next
<1> QED
  BY <1>1, <1>2, <1>3, NothingAddedStep, AllowanceInvariant, PTL
  DEF Spec, Switching!SwitchSpec, ImplementsProxySwitch
===============================================================================
