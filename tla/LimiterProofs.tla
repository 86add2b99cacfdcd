---------------------------- MODULE LimiterProofs ----------------------------
(***************************************************************************)
(* Limiter bounds what Allow admits in a window, and in a span that        *)
(* straddles two, keeps blocks, and its read-only operations never send    *)
(* away whom Allow would admit: any keys, callers, limits, window length.  *)
(***************************************************************************)
EXTENDS Limiter, FiniteSetTheorems, SequenceTheorems, TLAPS

-----------------------------------------------------------------------------
(* The inductive invariant.                                                *)

\* A key's entry was started by now; a key without one has the empty one.
Started(e, t) == e.start <= t /\ IF e.known THEN e.start >= 1 ELSE e = NoEntry

EntriesSound == clock >= 1 /\ \A k \in Keys : Started(entry[k], clock)

\* The ticket was handed out by this entry: in its current window, up to its
\* count, or in one that had expired when the current one started.
IssuedBy(x, e) ==
    /\ x.n >= 1 /\ x.win >= 1
    /\ x.at \in x.win..(x.win + Window)
    /\ (x.win = e.start /\ x.n <= e.count) \/ x.win + Window < e.start

\* Two tickets of a key have different numbers in one window, or are of windows
\* that do not overlap.
Apart(x, y) ==
    \/ x.win = y.win /\ x.n # y.n
    \/ x.win + Window < y.win
    \/ y.win + Window < x.win

AllIssued ==
    /\ \A k \in Keys : \A i \in DOMAIN granted[k] : IssuedBy(granted[k][i], entry[k])
    /\ \A c \in Callers : pc[c] = "counted" => IssuedBy(ticket[c], entry[key[c]])

AllApart ==
    /\ \A k \in Keys : \A i, j \in DOMAIN granted[k] :
          i # j => Apart(granted[k][i], granted[k][j])
    /\ \A c \in Callers : pc[c] = "counted" =>
          \A i \in DOMAIN granted[key[c]] : Apart(ticket[c], granted[key[c]][i])
    /\ \A c, d \in Callers :
          pc[c] = "counted" /\ pc[d] = "counted" /\ key[c] = key[d] /\ c # d =>
              Apart(ticket[c], ticket[d])

\* No ticket above the largest cap was granted, and no cap is above it.
UnderTopCap ==
    \A k \in Keys : /\ CapFor(k) <= topCap[k] /\ DefaultCap <= topCap[k]
                    /\ \A i \in DOMAIN granted[k] : granted[k][i].n <= topCap[k]

\* The store keeps the block of a key as it was marked last, and a caller past the
\* check either was there when it was marked or read the clock after its end.
MarksKept ==
    /\ \A k \in Keys : entry[k].until = marked[k]
    /\ \A c \in Callers :
          /\ now[c] <= clock
          /\ pc[c] \in {"passed", "counted"} => early[c] \/ marked[key[c]] <= now[c]

LimiterInv ==
    TypeOK /\ EntriesSound /\ AllIssued /\ AllApart /\ UnderTopCap /\ MarksKept

-----------------------------------------------------------------------------
(* Lemmas on the store's operators.                                        *)

\* getOrCreate keeps the entry's type, and the tickets it has issued.
LEMMA CreatedEffect ==
    ASSUME NEW e \in Entry, NEW t \in Nat, t >= 1, Started(e, t)
    PROVE  /\ Created(e, t) \in Entry
           /\ Created(e, t).known /\ Started(Created(e, t), t)
           /\ Created(e, t).until = e.until
           /\ \A x \in Ticket : IssuedBy(x, e) => IssuedBy(x, Created(e, t))
<1>1. CASE e.known  BY <1>1 DEF Created
<1>2. CASE ~e.known
  <2>1. e = NoEntry  BY <1>2 DEF Started
  <2>2. e.start = 0 /\ e.until = 0  BY <2>1 DEF NoEntry, NoTime
  <2>3. Created(e, t) = [known |-> TRUE, count |-> 0, start |-> t, until |-> 0]
    BY <1>2 DEF Created, NoEntry, NoTime
  <2>4. \A x \in Ticket : ~IssuedBy(x, e)
    BY <2>2, LimiterAssumption DEF IssuedBy, Ticket
  <2> QED  BY <2>2, <2>3, <2>4 DEF Entry, Started
<1> QED  BY <1>1, <1>2

\* Increment's ticket is apart from every ticket its entry has issued.
LEMMA IncrementedEffect ==
    ASSUME NEW e \in Entry, NEW t \in Nat, t >= 1, Started(e, t)
    PROVE  LET f == Incremented(e, t)
               new == [n |-> f.count, win |-> f.start, at |-> t]
           IN  /\ f \in Entry /\ new \in Ticket
               /\ f.known /\ f.until = e.until /\ Started(f, t)
               /\ IssuedBy(new, f)
               /\ \A x \in Ticket : IssuedBy(x, e) => IssuedBy(x, f) /\ Apart(new, x)
<1> DEFINE d == Created(e, t)
           f == Incremented(e, t)
           new == [n |-> f.count, win |-> f.start, at |-> t]
<1>1. /\ d \in Entry /\ d.known /\ d.until = e.until /\ d.start \in 1..t
      /\ \A x \in Ticket : IssuedBy(x, e) => IssuedBy(x, d)
  BY CreatedEffect DEF Started, Entry
<1>3. Window \in Nat  BY LimiterAssumption
<1> HIDE DEF d
<1>4. CASE t - d.start > Window
  <2>1. f = [d EXCEPT !.count = 1, !.start = t]  BY <1>4 DEF Incremented, d
  <2> HIDE DEF f
  <2>0. f.known = d.known  BY <1>1, <2>1 DEF Entry
  <2>2. /\ f \in Entry /\ f.count = 1 /\ f.start = t /\ f.until = d.until /\ f.known
    BY <1>1, <2>0, <2>1 DEF Entry
  <2>3. new \in Ticket /\ new.n = 1 /\ new.win = t /\ new.at = t  BY <2>2 DEF Ticket
  <2> HIDE DEF new
  <2>4. IssuedBy(new, f)  BY <1>3, <2>2, <2>3 DEF IssuedBy
  <2>5. ASSUME NEW x \in Ticket, IssuedBy(x, d)
        PROVE  IssuedBy(x, f) /\ Apart(new, x)
    BY <1>1, <1>3, <1>4, <2>2, <2>3, <2>5 DEF IssuedBy, Apart, Ticket, Entry
  <2>6. Started(f, t)  BY <1>1, <2>2 DEF Started
  <2> QED  BY <1>1, <2>2, <2>3, <2>4, <2>5, <2>6 DEF f, new
<1>5. CASE ~(t - d.start > Window)
  <2>1. f = [d EXCEPT !.count = @ + 1]  BY <1>5 DEF Incremented, d
  <2>2. /\ f \in Entry /\ f.count = d.count + 1 /\ f.start = d.start /\ f.until = d.until
        /\ f.known
    BY <1>1, <2>1 DEF Entry
  <2> HIDE DEF f
  <2>3. new \in Ticket /\ new.n = d.count + 1 /\ new.win = d.start /\ new.at = t
    BY <2>2 DEF Ticket, Entry
  <2> HIDE DEF new
  <2>4. IssuedBy(new, f)
    BY <1>1, <1>3, <1>5, <2>2, <2>3 DEF IssuedBy, Entry
  <2>5. ASSUME NEW x \in Ticket, IssuedBy(x, d)
        PROVE  IssuedBy(x, f) /\ Apart(new, x)
    BY <1>1, <1>3, <1>5, <2>2, <2>3, <2>5 DEF IssuedBy, Apart, Ticket, Entry
  <2>6. Started(f, t)  BY <1>1, <2>2 DEF Started
  <2> QED  BY <1>1, <2>2, <2>3, <2>4, <2>5, <2>6 DEF f, new
<1> QED  BY <1>4, <1>5

-----------------------------------------------------------------------------
(* Types and entries.                                                      *)

\* There are no entries at first.
LEMMA LimiterInit == Init => LimiterInv
<1> SUFFICES ASSUME Init PROVE LimiterInv  OBVIOUS
<1> USE LimiterAssumption
<1>1. NoEntry \in Entry /\ NoTicket \in Ticket
  BY DEF NoEntry, NoTicket, NoTime, Entry, Ticket
<1>2. \A k \in Keys : granted[k] = << >> /\ DOMAIN granted[k] = {}  BY DEF Init
<1>3. TypeOK  BY <1>1, EmptySeq DEF Init, TypeOK, NoTime, Absent
<1>4. EntriesSound  BY DEF Init, EntriesSound, Started, NoEntry, NoTime
<1>5. AllIssued /\ AllApart  BY <1>2 DEF Init, AllIssued, AllApart
<1>6. UnderTopCap  BY <1>2 DEF Init, UnderTopCap, CapFor, Absent
<1>7. MarksKept  BY DEF Init, MarksKept, NoEntry, NoTime
<1> QED  BY <1>3, <1>4, <1>5, <1>6, <1>7 DEF LimiterInv

\* What Increment does to the entry of its caller's key, and to no other.
LEMMA IncrementStep ==
    ASSUME TypeOK, EntriesSound, NEW c \in Callers, Increment(c)
    PROVE  /\ entry' \in [Keys -> Entry] /\ ticket' \in [Callers -> Ticket]
           /\ \A k \in Keys : Started(entry'[k], clock) /\ entry'[k].until = entry[k].until
           /\ \A k \in Keys \ {key[c]} : entry'[k] = entry[k]
           /\ \A d \in Callers \ {c} : ticket'[d] = ticket[d]
           /\ IssuedBy(ticket'[c], entry'[key[c]])
           /\ \A k \in Keys : \A x \in Ticket : IssuedBy(x, entry[k]) => IssuedBy(x, entry'[k])
           /\ \A x \in Ticket : IssuedBy(x, entry[key[c]]) => Apart(ticket'[c], x)
<1> DEFINE k == key[c]
           f == Incremented(entry[k], clock)
           new == [n |-> f.count, win |-> f.start, at |-> clock]
<1>1. k \in Keys /\ entry[k] \in Entry /\ clock \in Nat /\ clock >= 1
      /\ Started(entry[k], clock)
  BY DEF TypeOK, EntriesSound
<1>2. /\ f \in Entry /\ new \in Ticket
      /\ f.known /\ f.until = entry[k].until /\ Started(f, clock)
      /\ IssuedBy(new, f)
      /\ \A x \in Ticket : IssuedBy(x, entry[k]) => IssuedBy(x, f) /\ Apart(new, x)
  BY <1>1, IncrementedEffect
<1>3. entry' = [entry EXCEPT ![k] = f] /\ ticket' = [ticket EXCEPT ![c] = new]
  BY DEF Increment
<1> HIDE DEF f, new
<1>4. entry' \in [Keys -> Entry] /\ ticket' \in [Callers -> Ticket]
  BY <1>1, <1>2, <1>3 DEF TypeOK
<1>5. /\ entry'[k] = f /\ ticket'[c] = new
      /\ \A j \in Keys \ {k} : entry'[j] = entry[j]
      /\ \A d \in Callers \ {c} : ticket'[d] = ticket[d]
  BY <1>1, <1>3 DEF TypeOK
<1> QED  BY <1>1, <1>2, <1>4, <1>5 DEF EntriesSound

\* What MarkRateLimited does to an entry.
LEMMA MarkStep ==
    ASSUME TypeOK, EntriesSound, NEW k \in Keys, NEW until \in Ends, MarkRateLimited(k, until)
    PROVE  /\ entry' \in [Keys -> Entry]
           /\ \A j \in Keys : Started(entry'[j], clock)
           /\ entry'[k].until = until
           /\ \A j \in Keys \ {k} : entry'[j] = entry[j]
           /\ \A j \in Keys : \A x \in Ticket : IssuedBy(x, entry[j]) => IssuedBy(x, entry'[j])
<1> DEFINE d == Created(entry[k], clock)
<1>1. entry[k] \in Entry /\ clock \in Nat /\ clock >= 1 /\ Started(entry[k], clock)
  BY DEF TypeOK, EntriesSound
<1>2. /\ d \in Entry /\ d.known /\ Started(d, clock)
      /\ \A x \in Ticket : IssuedBy(x, entry[k]) => IssuedBy(x, d)
  BY <1>1, CreatedEffect
<1>3. entry' = [entry EXCEPT ![k] = [d EXCEPT !.until = until]]  BY DEF MarkRateLimited
<1> HIDE DEF d
<1>4. until \in Nat  BY LimiterAssumption DEF Ends
<1> DEFINE f == [d EXCEPT !.until = until]
<1>5. f \in Entry /\ f.until = until /\ f.start = d.start /\ f.count = d.count
  BY <1>2, <1>4 DEF Entry
<1>6. f.known  BY <1>2 DEF Entry
<1>7. entry'[k] = f /\ \A j \in Keys \ {k} : entry'[j] = entry[j]
  BY <1>3 DEF TypeOK
<1>8. entry' \in [Keys -> Entry]  BY <1>3, <1>5 DEF TypeOK
<1> HIDE DEF f
<1>9. Started(f, clock)  BY <1>2, <1>5, <1>6 DEF Started
<1>10. \A x \in Ticket : IssuedBy(x, entry[k]) => IssuedBy(x, f)
  BY <1>2, <1>5 DEF IssuedBy
<1> QED  BY <1>5, <1>7, <1>8, <1>9, <1>10 DEF EntriesSound

\* Every step keeps the types, and every entry a window that has begun.
LEMMA LimiterTypeStep ==
    TypeOK /\ EntriesSound /\ [Next]_vars => TypeOK' /\ EntriesSound'
<1> SUFFICES ASSUME TypeOK, EntriesSound, [Next]_vars PROVE TypeOK' /\ EntriesSound'  OBVIOUS
<1> USE LimiterAssumption DEF callVars, history
<1>1. ASSUME Tick PROVE TypeOK' /\ EntriesSound'
  BY <1>1 DEF Tick, TypeOK, EntriesSound, Started, Entry
<1>2. ASSUME NEW k \in Keys, NEW limit \in Limits, UpdateLimit(k, limit)
      PROVE  TypeOK' /\ EntriesSound'
  <2>1. limit \in Nat \ {0}  BY <1>2 DEF UpdateLimit
  <2>2. TypeOK'  BY <1>2, <2>1 DEF UpdateLimit, TypeOK
  <2> QED  BY <1>2, <2>2 DEF UpdateLimit, EntriesSound
<1>3. ASSUME NEW k \in Keys, NEW until \in Ends, MarkRateLimited(k, until)
      PROVE  TypeOK' /\ EntriesSound'
  <2>1. entry' \in [Keys -> Entry] /\ \A j \in Keys : Started(entry'[j], clock)
    BY <1>3, MarkStep
  <2>2. early' \in [Callers -> BOOLEAN] /\ marked' \in [Keys -> Nat]
    BY <1>3 DEF MarkRateLimited, TypeOK, Ends
  <2> QED  BY <1>3, <2>1, <2>2 DEF MarkRateLimited, TypeOK, EntriesSound
<1>4. ASSUME NEW c \in Callers, NEW k \in Keys, Begin(c, k) PROVE TypeOK' /\ EntriesSound'
  BY <1>4 DEF Begin, TypeOK, EntriesSound
<1>5. ASSUME NEW c \in Callers, Refuse(c) PROVE TypeOK' /\ EntriesSound'
  BY <1>5 DEF Refuse, Return, TypeOK, EntriesSound, NoTime, NoTicket, Ticket
<1>6. ASSUME NEW c \in Callers, Pass(c) PROVE TypeOK' /\ EntriesSound'
  BY <1>6 DEF Pass, TypeOK, EntriesSound
<1>7. ASSUME NEW c \in Callers, Increment(c) PROVE TypeOK' /\ EntriesSound'
  <2>1. /\ entry' \in [Keys -> Entry] /\ ticket' \in [Callers -> Ticket]
        /\ \A j \in Keys : Started(entry'[j], clock)
    BY <1>7, IncrementStep
  <2> QED  BY <1>7, <2>1 DEF Increment, TypeOK, EntriesSound
<1>8. ASSUME NEW c \in Callers, Decide(c) PROVE TypeOK' /\ EntriesSound'
  <2>1. Append(granted[key[c]], ticket[c]) \in Seq(Ticket)
    BY AppendProperties DEF TypeOK
  <2>2. granted' \in [Keys -> Seq(Ticket)]  BY <1>8, <2>1 DEF Decide, TypeOK
  <2> QED  BY <1>8, <2>2 DEF Decide, Return, TypeOK, EntriesSound, NoTime, NoTicket, Ticket
<1>9. CASE UNCHANGED vars
  BY <1>9 DEF vars, TypeOK, EntriesSound
<1> QED
  BY <1>1, <1>2, <1>3, <1>4, <1>5, <1>6, <1>7, <1>8, <1>9 DEF Next, AllowStep

-----------------------------------------------------------------------------
(* Tickets.                                                                *)

\* What Decide does to the tickets granted: one more at the end, or none.
LEMMA DecideStep ==
    ASSUME TypeOK, NEW c \in Callers, Decide(c)
    PROVE  /\ \A k \in Keys \ {key[c]} : granted'[k] = granted[k]
           /\ DOMAIN granted[key[c]] = 1..Len(granted[key[c]])
           /\ Len(granted[key[c]]) \in Nat
           /\ \A i \in DOMAIN granted[key[c]] : granted'[key[c]][i] = granted[key[c]][i]
           /\ \/ ~Admits(c) /\ granted'[key[c]] = granted[key[c]]
              \/ /\ Admits(c)
                 /\ DOMAIN granted'[key[c]] = 1..Len(granted[key[c]]) + 1
                 /\ granted'[key[c]][Len(granted[key[c]]) + 1] = ticket[c]
           /\ pc'[c] = "idle" /\ ticket'[c] = NoTicket
           /\ \A d \in Callers \ {c} : pc'[d] = pc[d] /\ ticket'[d] = ticket[d]
           /\ UNCHANGED <<clock, entry, override, key, topCap>>
<1> DEFINE s == granted[key[c]]
<1>1. key[c] \in Keys /\ s \in Seq(Ticket) /\ ticket[c] \in Ticket  BY DEF TypeOK
<1>2. Len(s) \in Nat /\ DOMAIN s = 1..Len(s)  BY <1>1, LenProperties
<1>3. /\ Append(s, ticket[c]) \in Seq(Ticket)
      /\ Len(Append(s, ticket[c])) = Len(s) + 1
      /\ DOMAIN Append(s, ticket[c]) = 1..Len(s) + 1
      /\ Append(s, ticket[c])[Len(s) + 1] = ticket[c]
      /\ \A i \in 1..Len(s) : Append(s, ticket[c])[i] = s[i]
  BY <1>1, AppendProperties
<1>4. /\ granted'[key[c]] = IF Admits(c) THEN Append(s, ticket[c]) ELSE s
      /\ \A k \in Keys \ {key[c]} : granted'[k] = granted[k]
  BY <1>1 DEF Decide, TypeOK
<1>5. /\ pc'[c] = "idle" /\ ticket'[c] = NoTicket
      /\ \A d \in Callers \ {c} : pc'[d] = pc[d] /\ ticket'[d] = ticket[d]
  BY DEF Decide, Return, TypeOK
<1>7. UNCHANGED <<clock, entry, override, key, topCap>>  BY DEF Decide
<1> HIDE DEF s
<1>8. CASE Admits(c)
  BY <1>2, <1>3, <1>4, <1>5, <1>7, <1>8 DEF s
<1>9. CASE ~Admits(c)
  BY <1>2, <1>4, <1>5, <1>7, <1>9 DEF s
<1> QED  BY <1>8, <1>9

\* A ticket that is out or granted was issued by an entry.
LEMMA IssuedStep ==
    TypeOK /\ EntriesSound /\ AllIssued /\ [Next]_vars => AllIssued'
<1> SUFFICES ASSUME TypeOK, EntriesSound, AllIssued, [Next]_vars PROVE AllIssued'  OBVIOUS
<1> USE DEF callVars, history
<1>0. /\ \A k \in Keys : \A i \in DOMAIN granted[k] : granted[k][i] \in Ticket
      /\ \A c \in Callers : ticket[c] \in Ticket /\ key[c] \in Keys
  BY ElementOfSeq, LenProperties DEF TypeOK
<1>1. ASSUME UNCHANGED <<entry, granted>>,
             \A c \in Callers : pc'[c] = "counted" =>
                 pc[c] = "counted" /\ ticket'[c] = ticket[c] /\ key'[c] = key[c]
      PROVE  AllIssued'
  BY <1>1 DEF AllIssued
<1>2. ASSUME Tick PROVE AllIssued'  BY <1>1, <1>2 DEF Tick
<1>3. ASSUME NEW k \in Keys, NEW limit \in Limits, UpdateLimit(k, limit) PROVE AllIssued'
  BY <1>1, <1>3 DEF UpdateLimit
<1>4. ASSUME NEW k \in Keys, NEW until \in Ends, MarkRateLimited(k, until) PROVE AllIssued'
  <2>1. \A j \in Keys : \A x \in Ticket : IssuedBy(x, entry[j]) => IssuedBy(x, entry'[j])
    BY <1>4, MarkStep
  <2>2. UNCHANGED <<pc, key, ticket, granted>>  BY <1>4 DEF MarkRateLimited
  <2> QED  BY <1>0, <2>1, <2>2 DEF AllIssued
<1>5. ASSUME NEW c \in Callers, NEW k \in Keys, Begin(c, k) PROVE AllIssued'
  BY <1>1, <1>5 DEF Begin, TypeOK
<1>6. ASSUME NEW c \in Callers, Refuse(c) PROVE AllIssued'
  BY <1>1, <1>6 DEF Refuse, Return, TypeOK
<1>7. ASSUME NEW c \in Callers, Pass(c) PROVE AllIssued'
  BY <1>1, <1>7 DEF Pass, TypeOK
<1>8. ASSUME NEW c \in Callers, Increment(c) PROVE AllIssued'
  <2>1. /\ \A d \in Callers \ {c} : ticket'[d] = ticket[d]
        /\ IssuedBy(ticket'[c], entry'[key[c]])
        /\ \A k \in Keys : \A x \in Ticket : IssuedBy(x, entry[k]) => IssuedBy(x, entry'[k])
    BY <1>8, IncrementStep
  <2>2. UNCHANGED <<key, granted>>  BY <1>8 DEF Increment
  <2>3. \A d \in Callers \ {c} : pc'[d] = pc[d]  BY <1>8 DEF Increment, TypeOK
  <2> QED  BY <1>0, <2>1, <2>2, <2>3 DEF AllIssued
<1>9. ASSUME NEW c \in Callers, Decide(c) PROVE AllIssued'
  <2>1. /\ \A k \in Keys \ {key[c]} : granted'[k] = granted[k]
        /\ \A i \in DOMAIN granted[key[c]] : granted'[key[c]][i] = granted[key[c]][i]
        /\ \A i \in DOMAIN granted'[key[c]] \ DOMAIN granted[key[c]] :
              granted'[key[c]][i] = ticket[c]
        /\ pc'[c] = "idle"
        /\ \A d \in Callers \ {c} : pc'[d] = pc[d] /\ ticket'[d] = ticket[d]
        /\ UNCHANGED <<entry, key>>
    BY <1>9, DecideStep
  <2>2. IssuedBy(ticket[c], entry[key[c]])  BY <1>9 DEF Decide, AllIssued
  <2>3. ASSUME NEW k \in Keys, NEW i \in DOMAIN granted'[k]
        PROVE  IssuedBy(granted'[k][i], entry'[k])
    <3>1. CASE k # key[c]  BY <2>1, <3>1 DEF AllIssued
    <3>2. CASE k = key[c] /\ i \in DOMAIN granted[k]  BY <2>1, <3>2 DEF AllIssued
    <3>3. CASE k = key[c] /\ i \notin DOMAIN granted[k]  BY <2>1, <2>2, <3>3
    <3> QED  BY <3>1, <3>2, <3>3
  <2> QED  BY <2>1, <2>3 DEF AllIssued
<1>10. CASE UNCHANGED vars  BY <1>1, <1>10 DEF vars
<1> QED
  BY <1>2, <1>3, <1>4, <1>5, <1>6, <1>7, <1>8, <1>9, <1>10 DEF Next, AllowStep

\* Which of two tickets is named first does not matter.
LEMMA ApartSymmetric ==
    ASSUME NEW x, NEW y, Apart(x, y)
    PROVE  Apart(y, x)
BY DEF Apart

\* A new ticket is apart from every earlier one.
LEMMA ApartStep ==
    TypeOK /\ EntriesSound /\ AllIssued /\ AllApart /\ [Next]_vars => AllApart'
<1> SUFFICES ASSUME TypeOK, EntriesSound, AllIssued, AllApart, [Next]_vars PROVE AllApart'
  OBVIOUS
<1> USE DEF callVars, history
<1>0. /\ \A k \in Keys : \A i \in DOMAIN granted[k] : granted[k][i] \in Ticket
      /\ \A c \in Callers : ticket[c] \in Ticket /\ key[c] \in Keys
  BY ElementOfSeq, LenProperties DEF TypeOK
<1>1. ASSUME granted' = granted,
             \A c \in Callers : pc'[c] = "counted" =>
                 pc[c] = "counted" /\ ticket'[c] = ticket[c] /\ key'[c] = key[c]
      PROVE  AllApart'
  BY <1>1 DEF AllApart
<1>2. ASSUME Tick PROVE AllApart'  BY <1>1, <1>2 DEF Tick
<1>3. ASSUME NEW k \in Keys, NEW limit \in Limits, UpdateLimit(k, limit) PROVE AllApart'
  BY <1>1, <1>3 DEF UpdateLimit
<1>4. ASSUME NEW k \in Keys, NEW until \in Ends, MarkRateLimited(k, until) PROVE AllApart'
  BY <1>1, <1>4 DEF MarkRateLimited
<1>5. ASSUME NEW c \in Callers, NEW k \in Keys, Begin(c, k) PROVE AllApart'
  BY <1>1, <1>5 DEF Begin, TypeOK
<1>6. ASSUME NEW c \in Callers, Refuse(c) PROVE AllApart'
  BY <1>1, <1>6 DEF Refuse, Return, TypeOK
<1>7. ASSUME NEW c \in Callers, Pass(c) PROVE AllApart'
  BY <1>1, <1>7 DEF Pass, TypeOK
<1>8. ASSUME NEW c \in Callers, Increment(c) PROVE AllApart'
  <2>1. /\ \A d \in Callers \ {c} : ticket'[d] = ticket[d]
        /\ \A x \in Ticket : IssuedBy(x, entry[key[c]]) => Apart(ticket'[c], x)
    BY <1>8, IncrementStep
  <2>2. UNCHANGED <<key, granted>>  BY <1>8 DEF Increment
  <2>3. \A d \in Callers \ {c} : pc'[d] = pc[d]  BY <1>8 DEF Increment, TypeOK
  <2>4. \A i \in DOMAIN granted[key[c]] : Apart(ticket'[c], granted[key[c]][i])
    BY <1>0, <2>1 DEF AllIssued
  <2>5. ASSUME NEW d \in Callers \ {c}, pc[d] = "counted", key[d] = key[c]
        PROVE  Apart(ticket'[c], ticket[d]) /\ Apart(ticket[d], ticket'[c])
    BY <1>0, <2>1, <2>5, ApartSymmetric DEF AllIssued
  <2> QED  BY <2>1, <2>2, <2>3, <2>4, <2>5 DEF AllApart
<1>9. ASSUME NEW c \in Callers, Decide(c) PROVE AllApart'
  <2>1. /\ \A k \in Keys \ {key[c]} : granted'[k] = granted[k]
        /\ \A i \in DOMAIN granted[key[c]] : granted'[key[c]][i] = granted[key[c]][i]
        /\ \A i \in DOMAIN granted'[key[c]] \ DOMAIN granted[key[c]] :
              granted'[key[c]][i] = ticket[c]
        /\ \A i, j \in DOMAIN granted'[key[c]] \ DOMAIN granted[key[c]] : i = j
        /\ pc'[c] = "idle"
        /\ \A d \in Callers \ {c} : pc'[d] = pc[d] /\ ticket'[d] = ticket[d]
        /\ UNCHANGED <<entry, key>>
    BY <1>9, DecideStep
  <2>2. \A i \in DOMAIN granted[key[c]] : /\ Apart(ticket[c], granted[key[c]][i])
                                          /\ Apart(granted[key[c]][i], ticket[c])
    BY <1>9, ApartSymmetric DEF Decide, AllApart
  <2>3. \A d \in Callers : pc[d] = "counted" /\ key[d] = key[c] /\ d # c =>
            Apart(ticket[d], ticket[c])
    BY <1>9 DEF Decide, AllApart
  <2>4. ASSUME NEW k \in Keys, NEW i \in DOMAIN granted'[k], NEW j \in DOMAIN granted'[k], i # j
        PROVE  Apart(granted'[k][i], granted'[k][j])
    <3>1. CASE k # key[c]  BY <2>1, <2>4, <3>1 DEF AllApart
    <3>2. CASE k = key[c] /\ i \in DOMAIN granted[k] /\ j \in DOMAIN granted[k]
      BY <2>1, <2>4, <3>2 DEF AllApart
    <3>3. CASE k = key[c] /\ i \notin DOMAIN granted[k]
      BY <2>1, <2>2, <2>4, <3>3
    <3>4. CASE k = key[c] /\ j \notin DOMAIN granted[k]
      BY <2>1, <2>2, <2>4, <3>4
    <3> QED  BY <3>1, <3>2, <3>3, <3>4
  <2>5. ASSUME NEW d \in Callers, pc'[d] = "counted", NEW i \in DOMAIN granted'[key[d]]
        PROVE  Apart(ticket'[d], granted'[key[d]][i])
    <3>1. d # c /\ pc[d] = "counted" /\ ticket'[d] = ticket[d] /\ key[d] \in Keys
      BY <1>0, <2>1, <2>5
    <3>2. CASE key[d] # key[c]  BY <2>1, <3>1, <3>2 DEF AllApart
    <3>3. CASE key[d] = key[c] /\ i \in DOMAIN granted[key[d]]
      BY <2>1, <3>1, <3>3 DEF AllApart
    <3>4. CASE key[d] = key[c] /\ i \notin DOMAIN granted[key[d]]
      BY <2>1, <2>3, <3>1, <3>4
    <3> QED  BY <3>2, <3>3, <3>4
  <2>6. \A d, f \in Callers :
            pc'[d] = "counted" /\ pc'[f] = "counted" /\ key'[d] = key'[f] /\ d # f =>
                Apart(ticket'[d], ticket'[f])
    BY <2>1 DEF AllApart
  <2>7. key' = key  BY <2>1
  <2> QED  BY <2>4, <2>5, <2>6, <2>7 DEF AllApart
<1>10. CASE UNCHANGED vars  BY <1>1, <1>10 DEF vars
<1> QED
  BY <1>2, <1>3, <1>4, <1>5, <1>6, <1>7, <1>8, <1>9, <1>10 DEF Next, AllowStep

\* UpdateLimit raises the largest cap before a call can be admitted under it.
LEMMA TopCapStep ==
    TypeOK /\ UnderTopCap /\ [Next]_vars => UnderTopCap'
<1> SUFFICES ASSUME TypeOK, UnderTopCap, [Next]_vars PROVE UnderTopCap'  OBVIOUS
<1> USE LimiterAssumption DEF callVars, history
<1>1. ASSUME UNCHANGED <<override, granted, topCap>> PROVE UnderTopCap'
  BY <1>1 DEF UnderTopCap, CapFor
<1>2. ASSUME NEW k \in Keys, NEW limit \in Limits, UpdateLimit(k, limit) PROVE UnderTopCap'
  <2>1. /\ granted' = granted
        /\ override'[k] = limit /\ topCap'[k] = IF limit > topCap[k] THEN limit ELSE topCap[k]
        /\ \A j \in Keys \ {k} : override'[j] = override[j] /\ topCap'[j] = topCap[j]
    BY <1>2 DEF UpdateLimit, TypeOK
  <2>2. topCap[k] \in Nat /\ limit \in Int  BY DEF TypeOK
  <2>3. topCap'[k] >= limit /\ topCap'[k] >= topCap[k] /\ topCap'[k] \in Int
    BY <2>1, <2>2
  <2>4. CapFor(k)' <= topCap'[k] /\ DefaultCap <= topCap'[k]
    BY <2>1, <2>2, <2>3 DEF CapFor, UnderTopCap
  <2>5. \A i \in DOMAIN granted'[k] : granted'[k][i].n <= topCap'[k]
    <3> SUFFICES ASSUME NEW i \in DOMAIN granted[k] PROVE granted[k][i].n <= topCap'[k]
      BY <2>1
    <3>1. granted[k][i] \in Ticket
      BY ElementOfSeq, LenProperties DEF TypeOK
    <3>2. granted[k][i].n \in Nat  BY <3>1 DEF Ticket
    <3> QED  BY <2>2, <2>3, <3>2 DEF UnderTopCap
  <2>6. ASSUME NEW j \in Keys \ {k}
        PROVE  /\ CapFor(j)' <= topCap'[j] /\ DefaultCap <= topCap'[j]
               /\ \A i \in DOMAIN granted'[j] : granted'[j][i].n <= topCap'[j]
    BY <2>1 DEF UnderTopCap, CapFor
  <2> QED  BY <2>4, <2>5, <2>6 DEF UnderTopCap
<1>3. ASSUME NEW c \in Callers, Decide(c) PROVE UnderTopCap'
  <2>1. /\ \A k \in Keys \ {key[c]} : granted'[k] = granted[k]
        /\ \A i \in DOMAIN granted[key[c]] : granted'[key[c]][i] = granted[key[c]][i]
        /\ \A i \in DOMAIN granted'[key[c]] \ DOMAIN granted[key[c]] :
              granted'[key[c]][i] = ticket[c]
        /\ Admits(c) \/ granted'[key[c]] = granted[key[c]]
        /\ UNCHANGED <<override, topCap>>
    BY <1>3, DecideStep
  <2>2. key[c] \in Keys  BY DEF TypeOK
  <2>3. Admits(c) => ticket[c].n <= topCap[key[c]]
    <3>1. ticket[c].n \in Nat /\ topCap[key[c]] \in Nat /\ CapFor(key[c]) \in Nat
      BY <2>2 DEF TypeOK, Ticket, CapFor, Absent
    <3> QED  BY <2>2, <3>1 DEF Admits, UnderTopCap
  <2>4. ASSUME NEW k \in Keys, NEW i \in DOMAIN granted'[k]
        PROVE  granted'[k][i].n <= topCap[k]
    BY <2>1, <2>2, <2>3 DEF UnderTopCap
  <2> QED  BY <2>1, <2>4 DEF UnderTopCap, CapFor
<1>4. CASE UNCHANGED vars  BY <1>1, <1>4 DEF vars
<1>5. ASSUME Tick \/ (\E k \in Keys, until \in Ends : MarkRateLimited(k, until))
             \/ \E c \in Callers : \/ Refuse(c) \/ Pass(c) \/ Increment(c)
                                   \/ \E k \in Keys : Begin(c, k)
      PROVE  UnderTopCap'
  BY <1>1, <1>5 DEF Tick, MarkRateLimited, Refuse, Pass, Increment, Begin
<1> QED  BY <1>2, <1>3, <1>4, <1>5 DEF Next, AllowStep

\* Increment leaves the block alone, and only a mark that a caller is there for
\* can be later than the time it read.
LEMMA MarksStep ==
    TypeOK /\ EntriesSound /\ MarksKept /\ [Next]_vars => MarksKept'
<1> SUFFICES ASSUME TypeOK, EntriesSound, MarksKept, [Next]_vars PROVE MarksKept'
  OBVIOUS
<1> USE DEF callVars, history
<1>0. clock \in Nat /\ \A c \in Callers : now[c] \in Nat /\ key[c] \in Keys
  BY DEF TypeOK
<1>1. ASSUME Tick \/ \E k \in Keys, limit \in Limits : UpdateLimit(k, limit)
      PROVE  MarksKept'
  BY <1>0, <1>1 DEF Tick, UpdateLimit, MarksKept
<1>2. ASSUME NEW k \in Keys, NEW until \in Ends, MarkRateLimited(k, until)
      PROVE  MarksKept'
  <2>1. entry'[k].until = until /\ \A j \in Keys \ {k} : entry'[j] = entry[j]
    BY <1>2, MarkStep
  <2>2. marked'[k] = until /\ \A j \in Keys \ {k} : marked'[j] = marked[j]
    BY <1>2 DEF MarkRateLimited, TypeOK
  <2>3. UNCHANGED <<clock, pc, key, now>>  BY <1>2 DEF MarkRateLimited
  <2>4. \A c \in Callers : early'[c] <=> early[c] \/ (pc[c] # "idle" /\ key[c] = k)
    BY <1>2 DEF MarkRateLimited
  <2> QED  BY <1>0, <2>1, <2>2, <2>3, <2>4 DEF MarksKept
<1>3. ASSUME NEW c \in Callers, NEW k \in Keys, Begin(c, k) PROVE MarksKept'
  BY <1>0, <1>3 DEF Begin, TypeOK, MarksKept
<1>4. ASSUME NEW c \in Callers, Refuse(c) PROVE MarksKept'
  BY <1>0, <1>4 DEF Refuse, Return, NoTime, TypeOK, MarksKept
<1>5. ASSUME NEW c \in Callers, Pass(c) PROVE MarksKept'
  <2>1. marked[key[c]] <= now[c]
    BY <1>0, <1>5 DEF Pass, Blocked, TypeOK, MarksKept
  <2> QED  BY <1>5, <2>1 DEF Pass, TypeOK, MarksKept
<1>6. ASSUME NEW c \in Callers, Increment(c) PROVE MarksKept'
  <2>1. \A k \in Keys : entry'[k].until = entry[k].until  BY <1>6, IncrementStep
  <2>2. pc[c] = "passed" /\ UNCHANGED <<clock, key, now, marked, early>>  BY <1>6 DEF Increment
  <2>3. \A d \in Callers \ {c} : pc'[d] = pc[d]  BY <1>6 DEF Increment, TypeOK
  <2> QED  BY <2>1, <2>2, <2>3 DEF MarksKept
<1>7. ASSUME NEW c \in Callers, Decide(c) PROVE MarksKept'
  BY <1>0, <1>7 DEF Decide, Return, NoTime, TypeOK, MarksKept
<1>8. CASE UNCHANGED vars  BY <1>8 DEF vars, MarksKept
<1> QED
  BY <1>1, <1>2, <1>3, <1>4, <1>5, <1>6, <1>7, <1>8 DEF Next, AllowStep

\* Every step keeps the invariant.
LEMMA LimiterStep == LimiterInv /\ [Next]_vars => LimiterInv'
BY LimiterTypeStep, IssuedStep, ApartStep, TopCapStep, MarksStep DEF LimiterInv

-----------------------------------------------------------------------------
(* What the invariant says of the tickets granted.                         *)

\* A set of indices with an injection into 1..n has at most n members.
LEMMA CountByInjection ==
    ASSUME NEW S, NEW n \in Nat, NEW f \in [S -> 1..n],
           \A i, j \in S : i # j => f[i] # f[j]
    PROVE  Cardinality(S) <= n
<1>1. f \in Injection(S, 1..n)  BY DEF Injection, IsInjective
<1>2. IsFiniteSet(1..n) /\ Cardinality(1..n) = n  BY FS_Interval
<1> QED  BY <1>1, <1>2, FS_Injection

\* Within a window tickets are told apart by their numbers.
LEMMA WindowCapFollows == LimiterInv => WindowCap
<1> SUFFICES ASSUME LimiterInv, NEW k \in Keys, NEW w \in Times
             PROVE  Cardinality(InWindow(k, w)) <= topCap[k]
  BY DEF WindowCap
<1> DEFINE S == InWindow(k, w)
           f == [i \in S |-> granted[k][i].n]
<1>1. topCap[k] \in Nat  BY DEF LimiterInv, TypeOK
<1>2. ASSUME NEW i \in S
      PROVE  i \in DOMAIN granted[k] /\ granted[k][i].win = w
             /\ granted[k][i].n \in 1..topCap[k]
  <2>1. i \in DOMAIN granted[k] /\ granted[k][i].win = w  BY DEF InWindow
  <2>2. granted[k][i] \in Ticket
    BY <2>1, ElementOfSeq, LenProperties DEF LimiterInv, TypeOK
  <2>3. granted[k][i].n \in Nat  BY <2>2 DEF Ticket
  <2>4. granted[k][i].n >= 1 /\ granted[k][i].n <= topCap[k]
    BY <2>1 DEF LimiterInv, AllIssued, IssuedBy, UnderTopCap
  <2> QED  BY <1>1, <2>1, <2>3, <2>4
<1>3. ASSUME NEW i \in S, NEW j \in S, i # j
      PROVE  granted[k][i].n # granted[k][j].n
  <2>1. Apart(granted[k][i], granted[k][j])  BY <1>2, <1>3 DEF LimiterInv, AllApart
  <2>2. w \in Nat /\ Window \in Nat  BY LimiterAssumption DEF Times
  <2> QED  BY <1>2, <2>1, <2>2 DEF Apart
<1> HIDE DEF S
<1>4. f \in [S -> 1..topCap[k]]  BY <1>2
<1>5. \A i, j \in S : i # j => f[i] # f[j]  BY <1>3
<1> HIDE DEF f
<1>6. Cardinality(S) <= topCap[k]  BY <1>1, <1>4, <1>5, CountByInjection
<1> QED  BY <1>6 DEF S

\* A span of a window's length meets at most two windows of a key.
LEMMA DoubleCapFollows == LimiterInv => DoubleCap
<1> SUFFICES ASSUME LimiterInv, NEW k \in Keys, NEW t \in Times
             PROVE  Cardinality({i \in DOMAIN granted[k] :
                                    granted[k][i].at \in t..(t + Window)}) <= 2 * topCap[k]
  BY DEF DoubleCap
<1> DEFINE S == {i \in DOMAIN granted[k] : granted[k][i].at \in t..(t + Window)}
           g(i) == granted[k][i]
           cap == topCap[k]
<1>1. cap \in Nat /\ t \in Nat /\ Window \in Nat
  BY LimiterAssumption DEF LimiterInv, TypeOK, Times
<1>2. ASSUME NEW i \in S
      PROVE  /\ i \in DOMAIN granted[k] /\ g(i).win \in Nat
             /\ g(i).n \in 1..cap
             /\ t <= g(i).win + Window /\ g(i).win <= t + Window
  <2>1. i \in DOMAIN granted[k] /\ g(i).at \in t..(t + Window)  OBVIOUS
  <2>2. granted[k][i] \in Ticket
    BY <2>1, ElementOfSeq, LenProperties DEF LimiterInv, TypeOK
  <2>3. g(i).n \in Nat /\ g(i).win \in Nat  BY <2>2 DEF Ticket
  <2>4. g(i).n >= 1 /\ g(i).n <= cap /\ g(i).at \in g(i).win..(g(i).win + Window)
    BY <2>1 DEF LimiterInv, AllIssued, IssuedBy, UnderTopCap
  <2> QED  BY <1>1, <2>1, <2>3, <2>4
<1>3. ASSUME NEW i \in S, NEW j \in S, i # j
      PROVE  Apart(g(i), g(j))
  BY <1>2, <1>3 DEF LimiterInv, AllApart
<1> HIDE DEF S, g, cap
<1>4. CASE S = {}
  <2>1. Cardinality(S) = 0  BY <1>4, FS_EmptySet
  <2> QED  BY <1>1, <2>1 DEF S, g, cap
<1>5. CASE S # {}
  <2>1. PICK a \in S : TRUE  BY <1>5
  <2>2. \A i, j \in S : g(i).win # g(a).win /\ g(j).win # g(a).win => g(i).win = g(j).win
    <3> SUFFICES ASSUME NEW i \in S, NEW j \in S,
                        g(i).win # g(a).win, g(j).win # g(a).win, g(i).win # g(j).win
                 PROVE  FALSE
      OBVIOUS
    <3>1. Apart(g(i), g(a)) /\ Apart(g(j), g(a)) /\ Apart(g(i), g(j))
      BY <1>3, <2>1
    <3>2. /\ g(i).win \in Nat /\ t <= g(i).win + Window /\ g(i).win <= t + Window
          /\ g(j).win \in Nat /\ t <= g(j).win + Window /\ g(j).win <= t + Window
          /\ g(a).win \in Nat /\ t <= g(a).win + Window /\ g(a).win <= t + Window
      BY <1>2, <2>1
    <3> QED  BY <1>1, <3>1, <3>2 DEF Apart
  <2> DEFINE f == [i \in S |-> IF g(i).win = g(a).win THEN g(i).n ELSE cap + g(i).n]
  <2>3. ASSUME NEW i \in S
        PROVE  f[i] = (IF g(i).win = g(a).win THEN g(i).n ELSE cap + g(i).n)
               /\ g(i).n \in 1..cap
    BY <1>2
  <2>4. f \in [S -> 1..(2 * cap)]  BY <1>1, <2>3
  <2>5. ASSUME NEW i \in S, NEW j \in S, i # j
        PROVE  f[i] # f[j]
    <3> HIDE DEF f
    <3>1. Apart(g(i), g(j))  BY <1>3, <2>5
    <3>2. g(i).win \in Nat /\ g(j).win \in Nat  BY <1>2
    <3>3. g(i).win = g(j).win => g(i).n # g(j).n  BY <1>1, <3>1, <3>2 DEF Apart
    <3> QED  BY <1>1, <2>2, <2>3, <3>3
  <2> HIDE DEF f
  <2>6. 2 * cap \in Nat  BY <1>1
  <2>7. Cardinality(S) <= 2 * cap  BY <2>4, <2>5, <2>6, CountByInjection
  <2> QED  BY <2>7 DEF S, g, cap
<1> QED  BY <1>4, <1>5

-----------------------------------------------------------------------------
(* The read-only operations.                                               *)

\* The count of the request that would be made at t.
LEMMA NextCount ==
    ASSUME NEW e \in Entry, NEW t \in Nat
    PROVE  Incremented(e, t).count = IF Current(e, t) THEN e.count + 1 ELSE 1
<1>1. CASE e.known
  BY <1>1, LimiterAssumption DEF Incremented, Created, Current, Entry
<1>2. CASE ~e.known
  <2>1. Created(e, t) = [known |-> TRUE, count |-> 0, start |-> t, until |-> NoTime]
    BY <1>2 DEF Created, NoEntry
  <2>2. ~(t - t > Window)  BY LimiterAssumption
  <2>3. Incremented(e, t).count = 1  BY <2>1, <2>2 DEF Incremented
  <2> QED  BY <1>2, <2>3 DEF Current
<1> QED  BY <1>1, <1>2

\* A time before AvailableAt is blocked, or in a window whose requests are used up.
LEMMA NoFalseWaitFollows == TypeOK => NoFalseWait
<1> SUFFICES ASSUME TypeOK, NEW k \in Keys, NEW t \in clock..(AvailableAt(k) - 1),
                    WouldAllow(k, t)
             PROVE  FALSE
  BY DEF NoFalseWait
<1> DEFINE u == entry[k].until
           w == WindowEnd(k)
           a == AvailableAt(k)
           ends == {x \in {u, w} : (x = u /\ clock < x) \/ (x = w /\ Exhausted(k))}
<1>1. /\ entry[k] \in Entry /\ clock \in Nat /\ u \in Nat /\ w \in Nat
      /\ entry[k].start \in Nat /\ entry[k].count \in Nat /\ Window \in Nat
      /\ w = entry[k].start + Window
  BY LimiterAssumption DEF TypeOK, Entry, WindowEnd
<1>2. u <= t /\ Incremented(entry[k], t).count <= CapFor(k)  BY DEF WouldAllow
<1>3. a = IF ends = {} THEN NoTime ELSE CHOOSE x \in ends : \A y \in ends : x <= y
  BY DEF AvailableAt
<1>4. /\ ends \subseteq {u, w} /\ (clock < u => u \in ends)
      /\ w \in ends => Exhausted(k) \/ clock < u
  OBVIOUS
<1> HIDE DEF u, w, a, ends
<1>5. ends # {} => a \in ends /\ \A y \in ends : a <= y
  <2> SUFFICES ASSUME ends # {} PROVE \E x \in ends : \A y \in ends : x <= y
    BY <1>3
  <2>1. u <= w \/ w <= u  BY <1>1
  <2>2. CASE u \in ends /\ u <= w  BY <1>1, <1>4, <2>2
  <2>3. CASE w \in ends /\ w <= u  BY <1>1, <1>4, <2>3
  <2>4. CASE ends = {u} \/ ends = {w}  BY <1>1, <2>4
  <2> QED  BY <1>4, <2>1, <2>2, <2>3, <2>4
<1>6. a \in Int /\ t \in Int /\ clock <= t /\ t < a
  <2>1. a \in Int  BY <1>1, <1>3, <1>4, <1>5 DEF NoTime
  <2> QED  BY <1>1, <2>1 DEF a
<1>7. ends # {}  BY <1>1, <1>3, <1>6 DEF NoTime
<1>8. ~(clock < u)  BY <1>1, <1>2, <1>4, <1>5, <1>6
<1>9. a = w /\ Exhausted(k)
  <2>1. u \notin ends \/ u = w  BY <1>1, <1>8 DEF ends
  <2> QED  BY <1>4, <1>5, <1>7, <1>8, <2>1
<1>10. entry[k].known /\ entry[k].count >= CapFor(k)  BY <1>9 DEF Exhausted, Current
<1>11. Current(entry[k], t)  BY <1>1, <1>6, <1>9, <1>10 DEF Current
<1>12. CapFor(k) \in Nat
  BY LimiterAssumption DEF CapFor, TypeOK, Absent
<1> QED  BY <1>1, <1>2, <1>6, <1>10, <1>11, <1>12, NextCount

\* Both see the same window, cap and block.
LEMMA LimitedMeansRefusedFollows == TypeOK => LimitedMeansRefused
<1> SUFFICES ASSUME TypeOK, DefaultCap > 0, NEW k \in Keys
             PROVE  IsRateLimited(k) <=> ~WouldAllow(k, clock)
  BY DEF LimitedMeansRefused
<1>1. /\ entry[k] \in Entry /\ clock \in Nat
      /\ entry[k].until \in Nat /\ entry[k].count \in Nat
  BY DEF TypeOK, Entry
<1>2. CapFor(k) \in Nat /\ CapFor(k) >= 1
  BY LimiterAssumption DEF CapFor, TypeOK, Absent
<1>3. Incremented(entry[k], clock).count =
          IF Current(entry[k], clock) THEN entry[k].count + 1 ELSE 1
  BY <1>1, NextCount
<1> QED  BY <1>1, <1>2, <1>3 DEF IsRateLimited, WouldAllow

-----------------------------------------------------------------------------
(* The theorems.                                                           *)

\* Allow, Increment and the other operations keep every variable in its range:
\* caps stay positive, counts and times natural.
THEOREM LimiterTypes == Spec => []TypeOK
<1>1. LimiterInv => TypeOK  BY DEF LimiterInv
<1> QED  BY LimiterInit, LimiterStep, <1>1, PTL DEF Spec

\* What Allow admits in one window of a key is at most the largest cap the key has
\* had, and over any span of a window's length at most twice that, however calls of
\* Allow, Increment, UpdateLimit and MarkRateLimited interleave.
THEOREM AdmissionCapHolds == Spec => []AdmissionCap
<1>1. LimiterInv => AdmissionCap
  BY WindowCapFollows, DoubleCapFollows DEF AdmissionCap
<1> QED  BY LimiterInit, LimiterStep, <1>1, PTL DEF Spec

\* While the block that MarkRateLimited set lasts, no call of Allow is past the check
\* but those that were inside when it was set, whatever windows end and whatever
\* Increment the others make meanwhile.
THEOREM BlockHoldsAlways == Spec => []BlockHolds
<1>1. LimiterInv => BlockHolds
  <2> SUFFICES ASSUME LimiterInv, NEW c \in Callers, pc[c] \in {"passed", "counted"},
                      clock < marked[key[c]], ~early[c]
               PROVE  FALSE
    BY DEF BlockHolds
  <2>1. clock \in Nat /\ now[c] \in Nat /\ marked[key[c]] \in Nat
    BY DEF LimiterInv, TypeOK
  <2> QED  BY <2>1 DEF LimiterInv, MarksKept
<1> QED  BY LimiterInit, LimiterStep, <1>1, PTL DEF Spec

\* AvailableAt never names a time later than the first one at which Allow would
\* admit, and IsRateLimited answers exactly whether Allow would refuse now.
THEOREM AnswersRightHolds == Spec => []AnswersRight
<1>1. LimiterInv => AnswersRight
  BY NoFalseWaitFollows, LimitedMeansRefusedFollows DEF LimiterInv, AnswersRight
<1> QED  BY LimiterInit, LimiterStep, <1>1, PTL DEF Spec
=============================================================================
