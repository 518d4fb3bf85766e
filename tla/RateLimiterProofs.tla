------------------------- MODULE RateLimiterProofs -------------------------
(***************************************************************************)
(* The limits of RateLimiter hold for every quota, window and number of    *)
(* requests, whatever is refunded; while no refund meets another's entry   *)
(* what the limiter remembers is exactly what was let in, and it never     *)
(* rejects a request that it has room for.                                 *)
(***************************************************************************)
EXTENDS RateLimiter, FiniteSetTheorems, SequenceTheorems, WellFoundedInduction, TLAPS

\* WithinLimits is inductive beside the types: check() compares before it
\* counts and refund() only shrinks.
IInv == TypeOK /\ WithinLimits

-----------------------------------------------------------------------------

\* The limits of the subject are integers where there are any.
LEMMA LimitType ==
  ASSUME TypeOK
  PROVE  /\ Rpm \in Int \union {NoLimit}
         /\ Daily \in Int \union {NoLimit}
         /\ Rpm # NoLimit => RpmBound \in Nat
BY LimiterAssumption DEF TypeOK, Rpm, Daily, RpmBound

\* Evicting gives a queue that is not longer.
LEMMA EvictedType ==
  ASSUME TypeOK
  PROVE  /\ Evicted(events) \in Seq(Times)
         /\ Len(Evicted(events)) <= Len(events)
<1> DEFINE n == Cardinality(Old(events))
<1>1. events \in Seq(Times) /\ Len(events) \in Nat
  BY DEF TypeOK
<1>2. DOMAIN events = 1 .. Len(events)
  BY <1>1
<1>3. IsFiniteSet(1 .. Len(events)) /\ Cardinality(1 .. Len(events)) = Len(events)
  BY <1>1, FS_Interval
<1>4. Old(events) \in SUBSET (1 .. Len(events))
  BY <1>2 DEF Old
<1>5. n \in Nat /\ n <= Len(events)
  BY <1>3, <1>4, FS_Subset, FS_CardinalityType
<1> HIDE DEF n
<1>6. /\ SubSeq(events, n + 1, Len(events)) \in Seq(Times)
      /\ Len(SubSeq(events, n + 1, Len(events))) <= Len(events)
  BY <1>1, <1>5
<1> QED
  BY <1>6 DEF Evicted, n

\* Taking back the newest entry gives a queue that is not longer.
LEMMA RefundType ==
  ASSUME TypeOK
  PROVE  /\ AfterRefund(events) \in Seq(Times)
         /\ Len(AfterRefund(events)) <= Len(events)
<1>1. events \in Seq(Times) /\ Len(events) \in Nat
  BY DEF TypeOK
<1>2. CASE events = <<>>
  BY <1>1, <1>2 DEF AfterRefund
<1>3. CASE events # <<>>
  <2> DEFINE k == Len(events) - 1
  <2>1. \A seq \in Seq(Times) : seq # <<>> => Len(seq) \in Nat \ {0}
    BY EmptySeq
  <2>2. k \in Nat /\ k <= Len(events)
    BY <1>1, <1>3, <2>1
  <2> HIDE DEF k
  <2>3. /\ SubSeq(events, 1, k) \in Seq(Times)
        /\ Len(SubSeq(events, 1, k)) <= Len(events)
    BY <1>1, <2>2
  <2> QED
    BY <1>3, <2>3 DEF AfterRefund, k
<1> QED
  BY <1>2, <1>3

LEMMA DayType ==
  ASSUME TypeOK
  PROVE  Today \in Nat /\ CountToday \in Nat /\ CountToday <= count
<1>1. now \in Nat /\ DayTicks \in Nat \ {0}
  BY LimiterAssumption DEF TypeOK, Times
<1>2. Today \in Nat
  BY <1>1 DEF Today
<1> QED
  BY <1>2 DEF TypeOK, CountToday

-----------------------------------------------------------------------------

LEMMA InitInvariant == Init => IInv
<1> SUFFICES ASSUME Init PROVE IInv
  OBVIOUS
<1>1. TypeOK
  <2>1. <<>> \in Seq(Times)
    BY EmptySeq
  <2>2. 0 \in Times
    BY LimiterAssumption DEF Times
  <2> QED
    BY <2>1, <2>2 DEF Init, TypeOK
<1>2. WithinLimits
  BY LimiterAssumption, <1>1, LimitType, EmptySeq DEF Init, WithinLimits, DailyLimited
<1> QED
  BY <1>1, <1>2 DEF IInv

LEMMA StepInvariant == IInv /\ [Next]_vars => IInv'
<1> SUFFICES ASSUME IInv, [Next]_vars PROVE IInv'
  OBVIOUS
<1> USE LimiterAssumption DEF IInv
<1>a. quota' = quota
  BY DEF Next, vars, RejectDaily, RejectRpm, Allow, Refund, Fail, Serve, Tick
<1>b. /\ Rpm' = Rpm /\ Daily' = Daily
      /\ RpmBound' = RpmBound /\ DailyLimited' = DailyLimited
  BY <1>a DEF Rpm, Daily, RpmBound, DailyLimited
<1>c. ASSUME Rpm # NoLimit => Len(events') <= RpmBound,
             DailyLimited => count' <= Daily
      PROVE  WithinLimits'
  BY <1>b, <1>c DEF WithinLimits
<1>d. /\ Rpm # NoLimit => RpmBound \in Nat
      /\ DailyLimited => Daily \in Nat
  BY LimitType DEF DailyLimited
<1>e. /\ Len(events) \in Nat
      /\ Rpm # NoLimit => Len(events) <= RpmBound
      /\ DailyLimited => count <= Daily
      /\ count \in Nat
  BY DEF TypeOK, WithinLimits
<1>1. ASSUME NEW r \in Request, RejectDaily(r) PROVE IInv'
  <2>1. TypeOK'
    BY <1>1, <1>a, DayType DEF RejectDaily, TypeOK
  <2>2. Rpm # NoLimit => Len(events') <= RpmBound
    BY <1>1, <1>e DEF RejectDaily
  <2>3. DailyLimited => count' <= Daily
    BY <1>1, <1>d, <1>e, DayType DEF RejectDaily
  <2> QED
    BY <2>1, <2>2, <2>3, <1>c
<1>2. ASSUME NEW r \in Request, RejectRpm(r) PROVE IInv'
  <2>1. TypeOK'
    BY <1>2, <1>a, DayType, EvictedType DEF RejectRpm, TypeOK
  <2>2. Rpm # NoLimit => Len(events') <= RpmBound
    BY <1>2, <1>d, <1>e, EvictedType DEF RejectRpm
  <2>3. DailyLimited => count' <= Daily
    BY <1>2, <1>d, <1>e, DayType DEF RejectRpm
  <2> QED
    BY <2>1, <2>2, <2>3, <1>c
<1>3. ASSUME NEW r \in Request, Allow(r) PROVE IInv'
  <2>1. now \in Times
    BY DEF TypeOK
  <2>2. /\ Append(Evicted(events), now) \in Seq(Times)
        /\ Len(Append(Evicted(events), now)) = Len(Evicted(events)) + 1
    BY <2>1, EvictedType
  <2>3. TypeOK'
    BY <1>3, <1>a, <2>1, <2>2, DayType DEF Allow, TypeOK
  <2>4. Rpm # NoLimit => Len(events') <= RpmBound
    <3>1. Len(Evicted(events)) \in Nat
      BY EvictedType
    <3> QED
      BY <1>3, <1>d, <2>2, <3>1 DEF Allow, RpmFull
  <2>5. DailyLimited => count' <= Daily
    BY <1>3, <1>d, DayType DEF Allow, DailyFull
  <2> QED
    BY <2>3, <2>4, <2>5, <1>c
<1>4. ASSUME NEW r \in Request, Refund(r) PROVE IInv'
  <2>1. TypeOK'
    BY <1>4, <1>a, RefundType DEF Refund, LessOne, TypeOK, Crosses
  <2>2. Rpm # NoLimit => Len(events') <= RpmBound
    BY <1>4, <1>d, <1>e, RefundType DEF Refund
  <2>3. DailyLimited => count' <= Daily
    BY <1>4, <1>d, <1>e DEF Refund, LessOne
  <2> QED
    BY <2>1, <2>2, <2>3, <1>c
<1>5. ASSUME NEW r \in Request, Fail(r) \/ Serve(r) PROVE IInv'
  <2>1. TypeOK'
    BY <1>5, <1>a DEF Fail, Serve, TypeOK
  <2> QED
    BY <1>5, <2>1, <1>c, <1>e DEF Fail, Serve
<1>6. CASE Tick
  <2>1. TypeOK'
    BY <1>6, <1>a DEF Tick, TypeOK, Times
  <2> QED
    BY <1>6, <2>1, <1>c, <1>e DEF Tick
<1>7. CASE UNCHANGED vars
  <2>1. TypeOK'
    BY <1>7 DEF vars, TypeOK
  <2> QED
    BY <1>7, <2>1, <1>c, <1>e DEF vars
<1> QED
  BY <1>1, <1>2, <1>3, <1>4, <1>5, <1>6, <1>7 DEF Next

\* Every state the limiter reaches has the types TypeOK says.
THEOREM TypeCorrect == Spec => []TypeOK
<1>1. IInv => TypeOK
  BY DEF IInv
<1> QED
  BY InitInvariant, StepInvariant, <1>1, PTL DEF Spec

\* The queue never holds more than rpm admissions and the counter never passes
\* the daily limit, for every limit and window (limiter.rs, check and refund).
THEOREM WithinLimitsAlways == Spec => []WithinLimits
<1>1. IInv => WithinLimits
  BY DEF IInv
<1> QED
  BY InitInvariant, StepInvariant, <1>1, PTL DEF Spec

-----------------------------------------------------------------------------
(* What the limiter remembers, against what happened.                       *)

Since(used, a, t) == {r \in used : a[r] >= t}
On(used, a, d) == {r \in used : a[r] \div DayTicks = d}

\* Admissions are in order, and only finitely many requests were let through.
Ordered ==
  /\ \A i, j \in 1 .. Len(events) : i <= j => events[i] <= events[j]
  /\ \A i \in 1 .. Len(events) : events[i] <= now
  /\ \A r \in Request : at[r] <= now
  /\ IsFiniteSet(Used)
  /\ day <= Today
  /\ \A r \in Used : at[r] \div DayTicks <= day

\* Each entry and those behind it stand for as many requests that are at least
\* as young; today's count stands for requests of its day...
Covered(q, used, a) ==
  \A i \in 1 .. Len(q) : Len(q) - i + 1 <= Cardinality(Since(used, a, q[i]))
NotMore == Covered(events, Used, at) /\ count <= Cardinality(On(Used, at, day))

\* ...and without a crossing refund the requests of the window have an entry
\* each, the newest ones, and those of the day are all counted.
Backed(q, used, a, from) ==
  \A t \in Int : t >= from =>
    LET n == Cardinality(Since(used, a, t)) IN
    n <= Len(q) /\ \A i \in 1 .. Len(q) : i > Len(q) - n => q[i] >= t
NotLess ==
  ~crossed =>
    /\ Rpm # NoLimit => Backed(events, Used, at, now - Window)
    /\ Cardinality(On(Used, at, day)) <= count

Memory == IInv /\ Ordered /\ NotMore /\ NotLess

\* The greatest of some of the first numbers.
LEMMA Greatest ==
  ASSUME NEW n \in Nat, NEW T, T \subseteq 1 .. n, T # {}
  PROVE  \E x \in T : \A y \in T : y <= x
<1> DEFINE Before == OpToRel(<, Nat)
<1> DEFINE U == {n - x : x \in T}
<1>1. IsWellFoundedOn(Before, Nat)
  BY NatLessThanWellFounded
<1>2. Before = {ss \in Nat \X Nat : ss[1] < ss[2]}
  BY DEF OpToRel
<1> HIDE DEF Before
<1>3. U \subseteq Nat /\ U # {}
  <2>1. PICK x \in T : TRUE
    OBVIOUS
  <2>2. n - x \in U
    BY <2>1
  <2>3. \A y \in T : n - y \in Nat
    OBVIOUS
  <2> QED BY <2>2, <2>3
<1>4. PICK m \in U : \A y \in U : ~(<<y, m>> \in Before)
  BY <1>1, <1>3, WFMin
<1>5. PICK x \in T : m = n - x
  OBVIOUS
<1>6. ASSUME NEW y \in T PROVE y <= x
  <2>1. n - y \in U /\ n - y \in Nat /\ m \in Nat
    BY <1>3
  <2>2. <<n - y, m>> \in Nat \X Nat /\ <<n - y, m>>[1] = n - y /\ <<n - y, m>>[2] = m
    BY <2>1
  <2>3. ~(n - y < m)
    BY <1>2, <1>4, <2>1, <2>2
  <2> QED BY <1>5, <2>1, <2>3
<1> QED BY <1>5, <1>6

\* Old entries are the front of the queue, so that eviction drops them and no other.
LEMMA EvictedIs ==
  ASSUME TypeOK, Ordered
  PROVE  \E k \in 0 .. Len(events) :
           /\ Old(events) = 1 .. k
           /\ Evicted(events) \in Seq(Times) /\ Len(Evicted(events)) = Len(events) - k
           /\ \A i \in 1 .. Len(events) - k : Evicted(events)[i] = events[i + k]
<1>1. /\ events \in Seq(Times) /\ Len(events) \in Nat /\ DOMAIN events = 1 .. Len(events)
      /\ now \in Int /\ Window \in Nat /\ \A i \in 1 .. Len(events) : events[i] \in Int
  BY LimiterAssumption DEF TypeOK, Times
<1>2. \E k \in 0 .. Len(events) : Old(events) = 1 .. k
  <2>1. Old(events) \subseteq 1 .. Len(events)
    BY <1>1 DEF Old
  <2>2. CASE Old(events) = {}
    <3>1. 1 .. 0 = {} /\ 0 \in 0 .. Len(events)
      BY <1>1
    <3> QED BY <2>2, <3>1
  <2>3. CASE Old(events) # {}
    <3>1. PICK m \in Old(events) : \A y \in Old(events) : y <= m
      BY <1>1, <2>1, <2>3, Greatest
    <3>2. m \in 1 .. Len(events) /\ now - events[m] > Window
      BY <1>1 DEF Old
    <3>3. ASSUME NEW i \in 1 .. m PROVE i \in Old(events)
      <4>1. i \in 1 .. Len(events) /\ i <= m
        BY <1>1, <3>2
      <4>2. events[i] <= events[m]
        BY <3>2, <4>1 DEF Ordered
      <4> QED BY <1>1, <3>2, <4>1, <4>2 DEF Old
    <3>4. \A i \in Old(events) : i \in 1 .. m
      BY <1>1, <2>1, <3>1
    <3>5. Old(events) = 1 .. m
      BY <3>3, <3>4
    <3>6. m \in 0 .. Len(events)
      BY <1>1, <3>2
    <3> QED BY <3>5, <3>6
  <2> QED BY <2>2, <2>3
<1>3. PICK k \in 0 .. Len(events) : Old(events) = 1 .. k
  BY <1>2
<1>4. Cardinality(Old(events)) = k
  BY <1>1, <1>3, FS_Interval
<1>5. Evicted(events) = SubSeq(events, k + 1, Len(events))
  BY <1>4 DEF Evicted
<1>6. /\ SubSeq(events, k + 1, Len(events)) \in Seq(Times)
      /\ Len(SubSeq(events, k + 1, Len(events))) = Len(events) - k
      /\ \A i \in 1 .. Len(events) - k : SubSeq(events, k + 1, Len(events))[i] = events[i + k]
  <2>1. /\ k + 1 \in Int /\ Len(events) \in Int
        /\ \A i \in k + 1 .. Len(events) : events[i] \in Times
        /\ Len(events) - (k + 1) + 1 = Len(events) - k
    BY <1>1
  <2> DEFINE q == SubSeq(events, k + 1, Len(events))
  <2>2. /\ q \in Seq(Times)
        /\ Len(q) = (IF k + 1 <= Len(events) THEN Len(events) - (k + 1) + 1 ELSE 0)
        /\ \A i \in 1 .. Len(events) - (k + 1) + 1 : q[i] = events[k + 1 + i - 1]
    BY <2>1, SubSeqProperties
  <2> HIDE DEF q
  <2>3. \A i \in 1 .. Len(events) - k : k + 1 + i - 1 = i + k
    BY <1>1
  <2>6. k \in Nat /\ Len(events) \in Nat /\ k <= Len(events)
    BY <1>1
  <2>4. Len(q) = Len(events) - k
    BY <2>2, <2>6
  <2>5. ASSUME NEW i \in 1 .. Len(events) - k PROVE q[i] = events[i + k]
    <3>1. i \in 1 .. Len(events) - (k + 1) + 1
      BY <2>1
    <3>2. q[i] = events[k + 1 + i - 1]
      BY <2>2, <3>1
    <3> QED BY <2>3, <3>2
  <2> QED BY <2>2, <2>4, <2>5 DEF q
<1> QED BY <1>3, <1>5, <1>6

\* What is left after it is what it was of the rest.
LEMMA EvictedFits ==
  ASSUME TypeOK, Ordered, NEW e, e = Evicted(events)
  PROVE  /\ e \in Seq(Times) /\ Len(e) \in Nat
         /\ \A i, j \in 1 .. Len(e) : i <= j => e[i] <= e[j]
         /\ \A i \in 1 .. Len(e) : e[i] <= now /\ now - e[i] <= Window
         /\ Covered(events, Used, at) => Covered(e, Used, at)
         /\ Backed(events, Used, at, now - Window) => Backed(e, Used, at, now - Window)
<1>1. PICK k \in 0 .. Len(events) :
        /\ Old(events) = 1 .. k
        /\ e \in Seq(Times) /\ Len(e) = Len(events) - k
        /\ \A i \in 1 .. Len(events) - k : e[i] = events[i + k]
  BY EvictedIs
<1>2. /\ Len(events) \in Nat /\ DOMAIN events = 1 .. Len(events) /\ Len(e) \in Nat
      /\ now \in Int /\ Window \in Nat /\ \A i \in 1 .. Len(events) : events[i] \in Int
  BY <1>1, LimiterAssumption DEF TypeOK, Times
<1>3. \A i \in 1 .. Len(e) :
        i + k \in 1 .. Len(events) /\ i + k \notin 1 .. k /\ e[i] = events[i + k]
  BY <1>1, <1>2
<1>4. ASSUME NEW i \in 1 .. Len(e), NEW j \in 1 .. Len(e), i <= j PROVE e[i] <= e[j]
  <2>1. i + k <= j + k
    BY <1>1, <1>2, <1>4
  <2> QED BY <1>3, <2>1 DEF Ordered
<1>5. ASSUME NEW i \in 1 .. Len(e) PROVE e[i] <= now /\ now - e[i] <= Window
  <2>1. i + k \in 1 .. Len(events) /\ i + k \notin Old(events) /\ e[i] = events[i + k]
    BY <1>1, <1>3
  <2>2. events[i + k] <= now /\ ~(now - events[i + k] > Window)
    BY <1>2, <2>1 DEF Ordered, Old
  <2> QED BY <1>2, <2>1, <2>2
<1>6. ASSUME Covered(events, Used, at) PROVE Covered(e, Used, at)
  <2> SUFFICES ASSUME NEW i \in 1 .. Len(e)
               PROVE  Len(e) - i + 1 <= Cardinality(Since(Used, at, e[i]))
    BY DEF Covered
  <2>1. Len(events) - (i + k) + 1 <= Cardinality(Since(Used, at, events[i + k]))
    BY <1>3, <1>6 DEF Covered
  <2>2. Len(events) - (i + k) + 1 = Len(e) - i + 1
    BY <1>1, <1>2
  <2> QED BY <1>3, <2>1, <2>2
<1>7. ASSUME Backed(events, Used, at, now - Window) PROVE Backed(e, Used, at, now - Window)
  <2> SUFFICES ASSUME NEW t \in Int, t >= now - Window
               PROVE  LET n == Cardinality(Since(Used, at, t)) IN
                      n <= Len(e) /\ \A i \in 1 .. Len(e) : i > Len(e) - n => e[i] >= t
    BY DEF Backed
  <2> DEFINE n == Cardinality(Since(Used, at, t))
  <2>1. /\ n <= Len(events)
        /\ \A i \in 1 .. Len(events) : i > Len(events) - n => events[i] >= t
    BY <1>7 DEF Backed
  <2>2. n \in Nat
    <3>1. Since(Used, at, t) \in SUBSET Used
      BY DEF Since
    <3> QED BY <3>1, FS_Subset, FS_CardinalityType DEF Ordered
  <2> HIDE DEF n
  <2>3. ASSUME n > Len(events) - k PROVE FALSE
    <3>1. k \in 1 .. Len(events) /\ k > Len(events) - n /\ k \in 1 .. k
      BY <1>1, <1>2, <2>1, <2>2, <2>3
    <3>2. now - events[k] > Window
      BY <1>1, <3>1 DEF Old
    <3> QED BY <1>2, <2>1, <3>1, <3>2
  <2>4. n <= Len(e)
    BY <1>1, <1>2, <2>2, <2>3
  <2>5. ASSUME NEW i \in 1 .. Len(e), i > Len(e) - n PROVE e[i] >= t
    <3>1. i + k > Len(events) - n
      BY <1>1, <1>2, <2>2, <2>5
    <3> QED BY <1>3, <2>1, <3>1
  <2>6. n <= Len(e) /\ \A i \in 1 .. Len(e) : i > Len(e) - n => e[i] >= t
    BY <2>4, <2>5
  <2> QED BY <2>6 DEF n
<1> QED BY <1>1, <1>2, <1>4, <1>5, <1>6, <1>7

\* The requests since a moment or on a day, when one is let through or taken back.
LEMMA UsedSets ==
  ASSUME TypeOK, Ordered
  PROVE  /\ \A S \in SUBSET Used : IsFiniteSet(S) /\ Cardinality(S) \in Nat
         /\ \A S, T \in SUBSET Used : T \subseteq S => Cardinality(T) <= Cardinality(S)
         /\ \A t : Since(Used, at, t) \in SUBSET Used /\ On(Used, at, t) \in SUBSET Used
         /\ Used \subseteq Request
<1>1. IsFiniteSet(Used)
  BY DEF Ordered
<1>2. \A S \in SUBSET Used : IsFiniteSet(S)
  BY <1>1, FS_Subset
<1>3. \A S, T \in SUBSET Used : T \subseteq S => Cardinality(T) <= Cardinality(S)
  BY <1>2, FS_Subset
<1> QED BY <1>2, <1>3, FS_CardinalityType DEF Since, On, Used

LEMMA OneMore ==
  ASSUME TypeOK, Ordered, NEW r \in Request, pc[r] = "new",
         pc' = [pc EXCEPT ![r] = "counted"], at' = [at EXCEPT ![r] = now]
  PROVE  /\ Used' = Used \union {r} /\ IsFiniteSet(Used')
         /\ \A s \in Used : at'[s] = at[s]
         /\ \A t \in Int : Cardinality(Since(Used', at', t)) =
                             IF t <= now THEN Cardinality(Since(Used, at, t)) + 1 ELSE 0
         /\ \A t \in Int : t > now => Cardinality(Since(Used, at, t)) = 0
         /\ \A d : Cardinality(On(Used', at', d)) =
                     Cardinality(On(Used, at, d)) + IF Today = d THEN 1 ELSE 0
<1>1. r \notin Used /\ now \in Int /\ \A s \in Request : at[s] \in Int
  BY DEF Used, TypeOK, Times
<1>2. Used' = Used \union {r} /\ at'[r] = now /\ \A s \in Used : at'[s] = at[s]
  BY DEF Used, TypeOK
<1>3. IsFiniteSet(Used')
  BY <1>2, FS_AddElement DEF Ordered
<1>4. Cardinality({}) = 0
  BY FS_EmptySet
<1>5. ASSUME NEW t \in Int, t > now
      PROVE  Since(Used', at', t) = {} /\ Since(Used, at, t) = {}
  BY <1>1, <1>2, <1>5, UsedSets DEF Since, Ordered
<1>6. ASSUME NEW t \in Int, t <= now
      PROVE  Cardinality(Since(Used', at', t)) = Cardinality(Since(Used, at, t)) + 1
  <2>1. Since(Used', at', t) = Since(Used, at, t) \union {r} /\ r \notin Since(Used, at, t)
    BY <1>1, <1>2, <1>6 DEF Since
  <2> QED BY <2>1, UsedSets, FS_AddElement
<1>7. ASSUME NEW d
      PROVE  Cardinality(On(Used', at', d)) =
               Cardinality(On(Used, at, d)) + IF Today = d THEN 1 ELSE 0
  <2>1. CASE Today = d
    <3>1. On(Used', at', d) = On(Used, at, d) \union {r} /\ r \notin On(Used, at, d)
      BY <1>1, <1>2, <2>1 DEF On, Today
    <3> QED BY <2>1, <3>1, UsedSets, FS_AddElement
  <2>2. CASE Today # d
    <3>1. On(Used', at', d) = On(Used, at, d)
      BY <1>1, <1>2, <2>2 DEF On, Today
    <3>2. Cardinality(On(Used, at, d)) \in Nat
      BY UsedSets
    <3> QED BY <2>2, <3>1, <3>2
  <2> QED BY <2>1, <2>2
<1>8. \A t \in Int : t <= now \/ t > now
  BY <1>1
<1> QED BY <1>2, <1>3, <1>4, <1>5, <1>6, <1>7, <1>8

LEMMA OneLess ==
  ASSUME TypeOK, Ordered, NEW r \in Request, pc[r] = "counted",
         pc' = [pc EXCEPT ![r] = "refunded"], at' = at
  PROVE  /\ Used' \subseteq Used /\ IsFiniteSet(Used')
         /\ \A t \in Int : Cardinality(Since(Used', at', t)) =
                             Cardinality(Since(Used, at, t)) - IF at[r] >= t THEN 1 ELSE 0
         /\ \A d : Cardinality(On(Used', at', d)) =
                     Cardinality(On(Used, at, d)) - IF at[r] \div DayTicks = d THEN 1 ELSE 0
<1>1. r \in Used /\ Used' = Used \ {r}
  BY DEF Used, TypeOK
<1>2. IsFiniteSet(Used')
  BY <1>1, FS_RemoveElement DEF Ordered
<1>3. ASSUME NEW t \in Int
      PROVE  Cardinality(Since(Used', at', t)) =
               Cardinality(Since(Used, at, t)) - IF at[r] >= t THEN 1 ELSE 0
  <2>1. CASE at[r] >= t
    <3>1. Since(Used', at', t) = Since(Used, at, t) \ {r} /\ r \in Since(Used, at, t)
      BY <1>1, <2>1 DEF Since
    <3> QED BY <2>1, <3>1, UsedSets, FS_RemoveElement
  <2>2. CASE ~(at[r] >= t)
    <3>1. Since(Used', at', t) = Since(Used, at, t)
      BY <1>1, <2>2 DEF Since
    <3>2. Cardinality(Since(Used, at, t)) \in Nat
      BY UsedSets
    <3> QED BY <2>2, <3>1, <3>2
  <2> QED BY <2>1, <2>2
<1>4. ASSUME NEW d
      PROVE  Cardinality(On(Used', at', d)) =
               Cardinality(On(Used, at, d)) - IF at[r] \div DayTicks = d THEN 1 ELSE 0
  <2>1. CASE at[r] \div DayTicks = d
    <3>1. On(Used', at', d) = On(Used, at, d) \ {r} /\ r \in On(Used, at, d)
      BY <1>1, <2>1 DEF On
    <3> QED BY <2>1, <3>1, UsedSets, FS_RemoveElement
  <2>2. CASE at[r] \div DayTicks # d
    <3>1. On(Used', at', d) = On(Used, at, d)
      BY <1>1, <2>2 DEF On
    <3>2. Cardinality(On(Used, at, d)) \in Nat
      BY UsedSets
    <3> QED BY <2>2, <3>1, <3>2
  <2> QED BY <2>1, <2>2
<1> QED BY <1>1, <1>2, <1>3, <1>4

LEMMA MemoryStarts == Init => Memory
<1> SUFFICES ASSUME Init PROVE Memory
  OBVIOUS
<1>1. /\ Used = {} /\ events = <<>> /\ count = 0 /\ day = 0 /\ now = 0
      /\ \A r \in Request : at[r] = 0
  BY DEF Init, Used
<1>2. /\ IsFiniteSet({}) /\ Cardinality({}) = 0 /\ Len(<<>>) = 0 /\ Today = 0
      /\ \A t : Since({}, at, t) = {} /\ On({}, at, t) = {}
  BY <1>1, FS_EmptySet, LimiterAssumption DEF Since, On, Today
<1>3. Ordered
  BY <1>1, <1>2 DEF Ordered
<1>4. Cardinality(On(Used, at, day)) = 0 /\ \A t : Cardinality(Since(Used, at, t)) = 0
  BY <1>1, <1>2
<1>5. 1 .. Len(events) = {} /\ Len(events) = 0
  BY <1>1, <1>2
<1>6. NotMore
  BY <1>1, <1>4, <1>5 DEF NotMore, Covered
<1>7. NotLess
  BY <1>1, <1>4, <1>5 DEF NotLess, Backed
<1> QED BY <1>3, <1>6, <1>7, InitInvariant DEF Memory

\* The counter once it has been moved on to today.
LEMMA DayCounts ==
  ASSUME TypeOK, Ordered, NotMore, NotLess
  PROVE  /\ Today \in Nat /\ day \in Nat /\ CountToday \in Nat
         /\ \A s \in Used : at[s] \div DayTicks <= Today
         /\ CountToday <= Cardinality(On(Used, at, Today))
         /\ ~crossed => Cardinality(On(Used, at, Today)) <= CountToday
<1>1. Today \in Nat /\ day \in Nat /\ day <= Today /\ CountToday \in Nat
  BY DayType DEF TypeOK, Ordered
<1>2. \A s \in Used : at[s] \div DayTicks \in Nat /\ at[s] \div DayTicks <= day
  <2> SUFFICES ASSUME NEW s \in Used
               PROVE  at[s] \div DayTicks \in Nat /\ at[s] \div DayTicks <= day
    OBVIOUS
  <2>1. at[s] \in Nat /\ DayTicks \in Nat \ {0}
    BY LimiterAssumption DEF TypeOK, Used, Times
  <2>2. at[s] \div DayTicks \in Nat
    BY <2>1
  <2> QED BY <2>2 DEF Ordered
<1>3. CASE day = Today
  BY <1>1, <1>2, <1>3 DEF NotMore, NotLess, CountToday
<1>4. CASE day # Today
  <2>1. On(Used, at, Today) = {}
    BY <1>1, <1>2, <1>4 DEF On
  <2> QED BY <1>1, <1>2, <1>4, <2>1, FS_EmptySet DEF CountToday
<1> QED BY <1>3, <1>4

\* A call that is turned away.
LEMMA RejectStep ==
  ASSUME Memory, NEW r \in Request, RejectDaily(r) \/ RejectRpm(r)
  PROVE  Ordered' /\ NotMore' /\ NotLess'
<1>1. TypeOK /\ Ordered /\ NotMore /\ NotLess
  BY DEF Memory, IInv
<1>2. /\ UNCHANGED <<quota, now, at, crossed>> /\ day' = Today /\ count' = CountToday
      /\ events' = events \/ events' = Evicted(events)
  BY DEF RejectDaily, RejectRpm
<1>3. Used' = Used /\ Rpm' = Rpm /\ Today' = Today
  BY <1>1, <1>2 DEF RejectDaily, RejectRpm, Used, TypeOK, Rpm, Today
<1>4. /\ \A i, j \in 1 .. Len(events') : i <= j => events'[i] <= events'[j]
      /\ \A i \in 1 .. Len(events') : events'[i] <= now
      /\ Covered(events', Used, at)
      /\ ~crossed /\ Rpm # NoLimit => Backed(events', Used, at, now - Window)
  <2>1. CASE events' = events
    BY <1>1, <2>1 DEF Ordered, NotMore, NotLess
  <2>2. CASE events' = Evicted(events)
    <3> DEFINE e == events'
    <3>1. e = Evicted(events)
      BY <2>2
    <3> HIDE DEF e
    <3>2. /\ \A i, j \in 1 .. Len(e) : i <= j => e[i] <= e[j]
          /\ \A i \in 1 .. Len(e) : e[i] <= now
          /\ Covered(e, Used, at)
          /\ ~crossed /\ Rpm # NoLimit => Backed(e, Used, at, now - Window)
      BY <1>1, <3>1, EvictedFits DEF NotMore, NotLess
    <3> QED BY <3>2 DEF e
  <2> QED BY <1>2, <2>1, <2>2
<1>5. /\ Today \in Nat /\ day \in Nat /\ \A s \in Used : at[s] \div DayTicks <= Today
      /\ CountToday <= Cardinality(On(Used, at, Today))
      /\ ~crossed => Cardinality(On(Used, at, Today)) <= CountToday
  BY <1>1, DayCounts
<1>6. Ordered'
  BY <1>1, <1>2, <1>3, <1>4, <1>5 DEF Ordered
<1>7. NotMore'
  BY <1>2, <1>3, <1>4, <1>5 DEF NotMore
<1>8. NotLess'
  BY <1>2, <1>3, <1>4, <1>5 DEF NotLess
<1> QED BY <1>6, <1>7, <1>8

LEMMA AllowStep ==
  ASSUME Memory, NEW r \in Request, Allow(r)
  PROVE  Ordered' /\ NotMore' /\ NotLess'
<1>1. TypeOK /\ Ordered /\ NotMore /\ NotLess
  BY DEF Memory, IInv
<1>2. /\ UNCHANGED <<quota, now, crossed>> /\ day' = Today /\ count' = CountToday + 1
      /\ pc[r] = "new" /\ pc' = [pc EXCEPT ![r] = "counted"] /\ at' = [at EXCEPT ![r] = now]
      /\ events' = IF Rpm = NoLimit THEN events ELSE Append(Evicted(events), now)
  BY DEF Allow
<1>3. /\ Rpm' = Rpm /\ Today' = Today /\ now \in Int /\ now \in Times
      /\ events \in Seq(Times) /\ Len(events) \in Nat /\ Times \subseteq Int /\ Window \in Nat
      /\ at \in [Request -> Times]
  BY <1>1, <1>2, LimiterAssumption DEF TypeOK, Rpm, Today, Times
<1>4. /\ Used' = Used \union {r} /\ IsFiniteSet(Used')
      /\ \A s \in Used : at'[s] = at[s]
      /\ \A t \in Int : Cardinality(Since(Used', at', t)) =
                          IF t <= now THEN Cardinality(Since(Used, at, t)) + 1 ELSE 0
      /\ \A t \in Int : t > now => Cardinality(Since(Used, at, t)) = 0
      /\ \A d : Cardinality(On(Used', at', d)) =
                  Cardinality(On(Used, at, d)) + IF Today = d THEN 1 ELSE 0
  BY <1>1, <1>2, OneMore
<1>5. \A t \in Int : Cardinality(Since(Used, at, t)) \in Nat
  BY <1>1, UsedSets
<1>6. /\ Today \in Nat /\ \A s \in Used : at[s] \div DayTicks <= Today
      /\ CountToday <= Cardinality(On(Used, at, Today)) /\ CountToday \in Nat
      /\ ~crossed => Cardinality(On(Used, at, Today)) <= CountToday
      /\ Cardinality(On(Used, at, Today)) \in Nat
  BY <1>1, DayCounts, UsedSets
<1> DEFINE Fits ==
      /\ \A i, j \in 1 .. Len(events') : i <= j => events'[i] <= events'[j]
      /\ \A i \in 1 .. Len(events') : events'[i] <= now
      /\ Covered(events', Used', at')
      /\ ~crossed /\ Rpm # NoLimit => Backed(events', Used', at', now - Window)
<1>7. ASSUME Rpm = NoLimit PROVE Fits
  <2>1. events' = events
    BY <1>2, <1>7
  <2>2. Covered(events, Used', at')
    <3> SUFFICES ASSUME NEW i \in 1 .. Len(events)
                 PROVE  Len(events) - i + 1 <= Cardinality(Since(Used', at', events[i]))
      BY DEF Covered
    <3>1. events[i] \in Int /\ events[i] <= now
      <4>1. events[i] \in Times
        BY <1>3
      <4> QED BY <1>1, <1>3, <4>1 DEF Ordered
    <3>2. Len(events) - i + 1 <= Cardinality(Since(Used, at, events[i]))
      BY <1>1 DEF NotMore, Covered
    <3>3. Cardinality(Since(Used', at', events[i])) = Cardinality(Since(Used, at, events[i])) + 1
      BY <1>4, <3>1
    <3>4. Cardinality(Since(Used, at, events[i])) \in Nat
      BY <1>5, <3>1
    <3> QED BY <1>3, <3>2, <3>3, <3>4
  <2>3. /\ \A i, j \in 1 .. Len(events') : i <= j => events'[i] <= events'[j]
        /\ \A i \in 1 .. Len(events') : events'[i] <= now
    BY <1>1, <2>1 DEF Ordered
  <2> QED BY <1>7, <2>1, <2>2, <2>3
<1>8. ASSUME Rpm # NoLimit PROVE Fits
  <2> DEFINE e == Evicted(events)
  <2>1. /\ e \in Seq(Times) /\ Len(e) \in Nat
        /\ \A i, j \in 1 .. Len(e) : i <= j => e[i] <= e[j]
        /\ \A i \in 1 .. Len(e) : e[i] <= now
        /\ Covered(e, Used, at)
        /\ ~crossed => Backed(e, Used, at, now - Window)
    BY <1>1, <1>8, EvictedFits DEF NotMore, NotLess
  <2>2. events' = Append(e, now)
    BY <1>2, <1>8
  <2> HIDE DEF e
  <2>3. /\ Len(events') = Len(e) + 1 /\ events'[Len(e) + 1] = now
        /\ \A i \in 1 .. Len(e) : events'[i] = e[i] /\ e[i] \in Int
    <3>1. \A i \in 1 .. Len(e) : e[i] \in Times
      BY <2>1
    <3>2. e \in Seq(Times) /\ now \in Times
      BY <1>3, <2>1
    <3>3. /\ Len(Append(e, now)) = Len(e) + 1 /\ Append(e, now)[Len(e) + 1] = now
          /\ \A i \in 1 .. Len(e) : Append(e, now)[i] = e[i]
      BY <3>2
    <3> QED BY <1>3, <2>2, <3>1, <3>3
  <2>4. \A i \in 1 .. Len(events') : i \in 1 .. Len(e) \/ i = Len(e) + 1
    BY <2>1, <2>3
  <2>5. \A i \in 1 .. Len(events') : events'[i] <= now /\ events'[i] \in Int
    BY <1>3, <2>1, <2>3, <2>4
  <2>6. \A i, j \in 1 .. Len(events') : i <= j => events'[i] <= events'[j]
    <3> SUFFICES ASSUME NEW i \in 1 .. Len(events'), NEW j \in 1 .. Len(events'), i <= j
                 PROVE  events'[i] <= events'[j]
      OBVIOUS
    <3>1. CASE j = Len(e) + 1
      BY <2>3, <2>5, <3>1
    <3>2. CASE j \in 1 .. Len(e)
      BY <2>1, <2>3, <3>2
    <3> QED BY <2>4, <3>1, <3>2
  <2>7. Covered(events', Used', at')
    <3> SUFFICES ASSUME NEW i \in 1 .. Len(events')
                 PROVE  Len(events') - i + 1 <= Cardinality(Since(Used', at', events'[i]))
      BY DEF Covered
    <3>1. Cardinality(Since(Used', at', events'[i])) = Cardinality(Since(Used, at, events'[i])) + 1
      BY <1>4, <2>5
    <3>2. CASE i \in 1 .. Len(e)
      <4>1. Len(e) - i + 1 <= Cardinality(Since(Used, at, e[i]))
        BY <2>1, <3>2 DEF Covered
      <4>2. events'[i] = e[i] /\ e[i] \in Int /\ Cardinality(Since(Used, at, e[i])) \in Nat
        BY <1>5, <2>3, <3>2
      <4> QED BY <2>1, <2>3, <3>1, <3>2, <4>1, <4>2
    <3>3. CASE i = Len(e) + 1
      <4>1. Cardinality(Since(Used, at, events'[i])) \in Nat
        BY <1>5, <2>5
      <4> QED BY <2>1, <2>3, <3>1, <3>3, <4>1
    <3> QED BY <2>4, <3>2, <3>3
  <2>8. ASSUME ~crossed PROVE Backed(events', Used', at', now - Window)
    <3> SUFFICES ASSUME NEW t \in Int, t >= now - Window
                 PROVE  LET n == Cardinality(Since(Used', at', t)) IN
                        /\ n <= Len(events')
                        /\ \A i \in 1 .. Len(events') : i > Len(events') - n => events'[i] >= t
      BY DEF Backed
    <3> DEFINE n == Cardinality(Since(Used', at', t))
               m == Cardinality(Since(Used, at, t))
    <3>1. m <= Len(e) /\ \A i \in 1 .. Len(e) : i > Len(e) - m => e[i] >= t
      BY <2>1, <2>8 DEF Backed
    <3>2. m \in Nat /\ n = IF t <= now THEN m + 1 ELSE 0
      BY <1>4, <1>5
    <3> HIDE DEF n, m
    <3>3. n <= Len(events')
      BY <2>1, <2>3, <3>1, <3>2
    <3>4. ASSUME NEW i \in 1 .. Len(events'), i > Len(events') - n PROVE events'[i] >= t
      <4>1. t <= now /\ n = m + 1
        BY <2>1, <2>3, <3>2, <3>4
      <4>2. CASE i \in 1 .. Len(e)
        BY <2>1, <2>3, <3>1, <3>2, <3>4, <4>1, <4>2
      <4>3. CASE i = Len(e) + 1
        BY <1>3, <2>3, <4>1, <4>3
      <4> QED BY <2>4, <4>2, <4>3
    <3>5. n <= Len(events') /\ \A i \in 1 .. Len(events') : i > Len(events') - n => events'[i] >= t
      BY <3>3, <3>4
    <3> QED BY <3>5 DEF n
  <2> QED BY <2>5, <2>6, <2>7, <2>8
<1>9. Fits
  BY <1>7, <1>8
<1>10. /\ \A s \in Request : at'[s] <= now
       /\ \A s \in Used' : at'[s] \div DayTicks <= Today
  BY <1>1, <1>2, <1>3, <1>4, <1>6 DEF Ordered, Today
<1>11. Ordered'
  BY <1>2, <1>3, <1>4, <1>6, <1>9, <1>10 DEF Ordered
<1>14. Cardinality(On(Used', at', Today)) = Cardinality(On(Used, at, Today)) + 1
  BY <1>4
<1>12. NotMore'
  <2>1. count' <= Cardinality(On(Used', at', day'))
    BY <1>2, <1>6, <1>14
  <2> QED BY <1>9, <2>1 DEF NotMore
<1>13. NotLess'
  <2>1. ~crossed => Cardinality(On(Used', at', day')) <= count'
    BY <1>2, <1>6, <1>14
  <2> QED BY <1>2, <1>3, <1>9, <2>1 DEF NotLess
<1> QED BY <1>11, <1>12, <1>13

LEMMA RefundStep ==
  ASSUME Memory, NEW r \in Request, Refund(r)
  PROVE  Ordered' /\ NotMore' /\ NotLess'
<1>1. TypeOK /\ Ordered /\ NotMore /\ NotLess
  BY DEF Memory, IInv
<1>2. /\ UNCHANGED <<quota, now, day, at>> /\ count' = LessOne(count)
      /\ pc[r] = "counted" /\ pc' = [pc EXCEPT ![r] = "refunded"]
      /\ events' = AfterRefund(events) /\ crossed' = (crossed \/ Crosses(r))
  BY DEF Refund
<1>3. /\ Rpm' = Rpm /\ Today' = Today /\ now \in Int /\ Window \in Nat
      /\ events \in Seq(Times) /\ Len(events) \in Nat /\ Times \subseteq Int
      /\ at[r] \in Int /\ count \in Nat /\ day \in Nat
      /\ r \in Used /\ \A s \in Used : s \in Request
  BY <1>1, <1>2, LimiterAssumption DEF TypeOK, Rpm, Today, Times, Used
<1>4. /\ Used' \subseteq Used /\ IsFiniteSet(Used')
      /\ \A t \in Int : Cardinality(Since(Used', at, t)) =
                          Cardinality(Since(Used, at, t)) - IF at[r] >= t THEN 1 ELSE 0
      /\ \A d : Cardinality(On(Used', at, d)) =
                  Cardinality(On(Used, at, d)) - IF at[r] \div DayTicks = d THEN 1 ELSE 0
  BY <1>1, <1>2, OneLess
<1>5. \A t \in Int : Cardinality(Since(Used, at, t)) \in Nat
  BY <1>1, UsedSets
<1>6. \/ events = <<>> /\ events' = <<>> /\ Len(events') = 0 /\ Len(events) = 0
      \/ /\ events # <<>> /\ Len(events) > 0 /\ Len(events') = Len(events) - 1
         /\ \A i \in 1 .. Len(events') : events'[i] = events[i] /\ i \in 1 .. Len(events)
  <2>1. CASE events = <<>>
    BY <1>2, <2>1 DEF AfterRefund
  <2>2. CASE events # <<>>
    <3>1. Len(events) > 0
      BY <1>3, <2>2, EmptySeq
    <3> DEFINE n == Len(events) - 1
    <3>2. n \in Nat /\ n <= Len(events) /\ \A i \in 1 .. n : events[i] \in Times
      BY <1>3, <3>1
    <3>3. events' = SubSeq(events, 1, n)
      BY <1>2, <2>2 DEF AfterRefund
    <3> HIDE DEF n
    <3>4. /\ Len(SubSeq(events, 1, n)) = (IF 1 <= n THEN n - 1 + 1 ELSE 0)
          /\ \A i \in 1 .. n - 1 + 1 : SubSeq(events, 1, n)[i] = events[1 + i - 1]
      BY <3>2, SubSeqProperties
    <3>5. Len(events') = n
      BY <3>2, <3>3, <3>4
    <3>6. ASSUME NEW i \in 1 .. n PROVE events'[i] = events[i] /\ i \in 1 .. Len(events)
      <4>1. i \in 1 .. n - 1 + 1 /\ 1 + i - 1 = i /\ i \in 1 .. Len(events)
        BY <1>3, <3>2
      <4> QED BY <3>3, <3>4, <4>1
    <3> QED BY <2>2, <3>1, <3>5, <3>6 DEF n
  <2> QED BY <2>1, <2>2
<1>7. /\ Len(events') \in Nat
      /\ \A i \in 1 .. Len(events') :
           /\ i \in 1 .. Len(events) /\ events'[i] = events[i] /\ events[i] \in Int
           /\ Len(events') = Len(events) - 1
  <2>1. Len(events') \in Nat
    BY <1>3, <1>6
  <2> SUFFICES ASSUME NEW i \in 1 .. Len(events')
               PROVE  /\ i \in 1 .. Len(events) /\ events'[i] = events[i] /\ events[i] \in Int
                      /\ Len(events') = Len(events) - 1
    BY <2>1
  <2>2. Len(events') # 0
    BY <2>1
  <2>3. i \in 1 .. Len(events) /\ events'[i] = events[i] /\ Len(events') = Len(events) - 1
    BY <1>6, <2>2
  <2>4. events[i] \in Times
    BY <1>3, <2>3
  <2> QED BY <1>3, <2>3, <2>4
<1>8. Ordered'
  BY <1>1, <1>2, <1>3, <1>4, <1>7 DEF Ordered
<1>9. NotMore'
  <2>1. Covered(events', Used', at)
    <3> SUFFICES ASSUME NEW i \in 1 .. Len(events')
                 PROVE  Len(events') - i + 1 <= Cardinality(Since(Used', at, events'[i]))
      BY DEF Covered
    <3>1. Len(events) - i + 1 <= Cardinality(Since(Used, at, events[i]))
      BY <1>1, <1>7 DEF NotMore, Covered
    <3>2. events[i] \in Int
      BY <1>7
    <3>3. Cardinality(Since(Used, at, events[i])) \in Nat
      BY <1>5, <3>2
    <3>4. Cardinality(Since(Used', at, events[i])) =
            Cardinality(Since(Used, at, events[i])) - IF at[r] >= events[i] THEN 1 ELSE 0
      BY <1>4, <3>2
    <3>5. /\ Cardinality(Since(Used', at, events[i])) >= Cardinality(Since(Used, at, events[i])) - 1
          /\ Cardinality(Since(Used', at, events[i])) \in Int
      BY <3>3, <3>4
    <3> QED BY <1>3, <1>7, <3>1, <3>3, <3>5
  <2>2. count' <= Cardinality(On(Used', at, day))
    <3>1. /\ count <= Cardinality(On(Used, at, day)) /\ Cardinality(On(Used, at, day)) \in Nat
          /\ Cardinality(On(Used', at, day)) >= Cardinality(On(Used, at, day)) - 1
      BY <1>1, <1>4, UsedSets DEF NotMore
    <3>2. Cardinality(On(Used', at, day)) \in Nat
      <4>1. On(Used', at, day) \in SUBSET Used'
        BY DEF On
      <4> QED BY <1>4, <4>1, FS_Subset, FS_CardinalityType
    <3> QED BY <1>2, <1>3, <3>1, <3>2 DEF LessOne
  <2> QED BY <1>2, <2>1, <2>2 DEF NotMore
<1>10. NotLess'
  <2> SUFFICES ASSUME ~crossed, ~Crosses(r)
               PROVE  /\ Rpm # NoLimit => Backed(events', Used', at, now - Window)
                      /\ Cardinality(On(Used', at, day)) <= count'
    BY <1>2, <1>3 DEF NotLess
  <2>1. ASSUME Rpm # NoLimit PROVE Backed(events', Used', at, now - Window)
    <3> SUFFICES ASSUME NEW t \in Int, t >= now - Window
                 PROVE  LET n == Cardinality(Since(Used', at, t)) IN
                        /\ n <= Len(events')
                        /\ \A i \in 1 .. Len(events') : i > Len(events') - n => events'[i] >= t
      BY DEF Backed
    <3> DEFINE n == Cardinality(Since(Used', at, t))
               m == Cardinality(Since(Used, at, t))
    <3>1. m <= Len(events) /\ \A i \in 1 .. Len(events) : i > Len(events) - m => events[i] >= t
      BY <1>1, <2>1 DEF NotLess, Backed
    <3>2. m \in Nat /\ n = m - IF at[r] >= t THEN 1 ELSE 0
      BY <1>4, <1>5
    <3>3. at[r] >= t => m > 0
      <4>1. at[r] >= t => r \in Since(Used, at, t)
        BY <1>3 DEF Since
      <4>2. Since(Used, at, t) # {} => Cardinality(Since(Used, at, t)) # 0
        <5>1. IsFiniteSet(Since(Used, at, t))
          BY <1>1, UsedSets
        <5> QED BY <5>1, FS_EmptySet
      <4> QED BY <3>2, <4>1, <4>2
    <3> HIDE DEF n, m
    <3>4. CASE events = <<>>
      <4>1. m = 0 /\ n = 0 /\ Len(events') = 0
        BY <1>6, <3>1, <3>2, <3>3, <3>4
      <4>2. /\ n <= Len(events')
            /\ \A i \in 1 .. Len(events') : i > Len(events') - n => events'[i] >= t
        BY <4>1
      <4> QED BY <4>2 DEF n
    <3>5. CASE events # <<>>
      <4>1. /\ Len(events) > 0 /\ Len(events') = Len(events) - 1 /\ events[Len(events)] = at[r]
            /\ Len(events) \in 1 .. Len(events)
        BY <1>3, <1>6, <3>5 DEF Crosses
      <4>2. ~(at[r] >= t) => m = 0
        BY <1>3, <3>1, <3>2, <4>1
      <4>3. n <= Len(events')
        BY <1>3, <3>1, <3>2, <3>3, <4>1, <4>2
      <4>4. ASSUME NEW i \in 1 .. Len(events'), i > Len(events') - n PROVE events'[i] >= t
        BY <1>3, <1>7, <3>1, <3>2, <4>1, <4>2, <4>4
      <4>5. /\ n <= Len(events')
            /\ \A i \in 1 .. Len(events') : i > Len(events') - n => events'[i] >= t
        BY <4>3, <4>4
      <4> QED BY <4>5 DEF n
    <3> QED BY <3>4, <3>5
  <2>2. Cardinality(On(Used', at, day)) <= count'
    <3>1. at[r] \div DayTicks = day
      BY DEF Crosses
    <3>2. /\ Cardinality(On(Used', at, day)) = Cardinality(On(Used, at, day)) - 1
          /\ Cardinality(On(Used, at, day)) <= count /\ Cardinality(On(Used, at, day)) \in Nat
      BY <1>1, <1>4, <3>1, UsedSets DEF NotLess
    <3> QED BY <1>2, <1>3, <3>2 DEF LessOne
  <2> QED BY <2>1, <2>2
<1> QED BY <1>8, <1>9, <1>10

LEMMA Later ==
  ASSUME NEW a \in Nat, NEW b \in Nat, NEW d \in Nat \ {0}, NEW w \in Nat, a <= b
  PROVE  /\ a \div d <= b \div d /\ a \div d \in Nat /\ b \div d \in Nat
         /\ \A i \in Int : i <= a => i <= b
         /\ \A t \in Int : t >= b - w => t >= a - w
<1>1. /\ d * (a \div d) <= a /\ b < d * (b \div d + 1)
      /\ a \div d \in Int /\ b \div d \in Int
  OBVIOUS
<1>2. \A p, q \in Int : p >= q + 1 => d * p >= d * (q + 1)
  OBVIOUS
<1>3. a \div d <= b \div d /\ a \div d \in Nat /\ b \div d \in Nat
  BY <1>1, <1>2
<1> QED BY <1>3

\* What changes none of it, or only the clock.
LEMMA OtherStep ==
  ASSUME Memory,
         \/ \E r \in Request : Fail(r) \/ Serve(r)
         \/ Tick \/ UNCHANGED vars
  PROVE  Ordered' /\ NotMore' /\ NotLess'
<1>1. TypeOK /\ Ordered /\ NotMore /\ NotLess
  BY DEF Memory, IInv
<1>2. /\ UNCHANGED <<quota, events, day, count, at, crossed>>
      /\ now' = now \/ now' = now + 1
  BY DEF Fail, Serve, Tick, vars
<1>3. Used' = Used
  BY <1>1 DEF Fail, Serve, Tick, vars, Used, TypeOK
<1>4. /\ Rpm' = Rpm /\ \A r \in Request : at[r] \in Int
      /\ \A i \in 1 .. Len(events) : events[i] \in Int
  <2>1. \A i \in 1 .. Len(events) : events[i] \in Times
    BY <1>1 DEF TypeOK
  <2> QED BY <1>1, <1>2, <2>1 DEF TypeOK, Times, Rpm
<1>5. /\ Today <= Today' /\ Today \in Nat /\ Today' \in Nat /\ day \in Nat
      /\ \A i \in Int : i <= now => i <= now'
      /\ \A t \in Int : t >= now' - Window => t >= now - Window
  <2>1. now \in Nat /\ DayTicks \in Nat \ {0} /\ Window \in Nat /\ day \in Nat
    BY <1>1, LimiterAssumption DEF TypeOK, Times
  <2>2. PICK m \in Nat : m = now' /\ now <= m
    BY <1>2, <2>1
  <2>3. /\ now \div DayTicks <= m \div DayTicks
        /\ now \div DayTicks \in Nat /\ m \div DayTicks \in Nat
        /\ \A i \in Int : i <= now => i <= m
        /\ \A t \in Int : t >= m - Window => t >= now - Window
    BY <2>1, <2>2, Later
  <2> QED BY <2>1, <2>2, <2>3 DEF Today
<1>6. Ordered'
  <2>1. \A i \in 1 .. Len(events) : events[i] <= now'
    BY <1>1, <1>4, <1>5 DEF Ordered
  <2>2. \A r \in Request : at[r] <= now'
    BY <1>1, <1>4, <1>5 DEF Ordered
  <2>3. day <= Today'
    BY <1>1, <1>5 DEF Ordered
  <2> QED BY <1>1, <1>2, <1>3, <2>1, <2>2, <2>3 DEF Ordered
<1>7. NotMore'
  BY <1>1, <1>2, <1>3 DEF NotMore
<1>8. NotLess'
  <2>1. Backed(events, Used, at, now - Window) => Backed(events, Used, at, now' - Window)
    BY <1>5 DEF Backed
  <2> QED BY <1>1, <1>2, <1>3, <1>4, <2>1 DEF NotLess
<1> QED BY <1>6, <1>7, <1>8

LEMMA MemoryStep == Memory /\ [Next]_vars => Memory'
<1> SUFFICES ASSUME Memory, [Next]_vars PROVE Memory'
  OBVIOUS
<1>1. IInv'
  BY StepInvariant DEF Memory
<1>2. Ordered' /\ NotMore' /\ NotLess'
  BY RejectStep, AllowStep, RefundStep, OtherStep DEF Next
<1> QED BY <1>1, <1>2 DEF Memory

\* What the queue and the counter say of now.
LEMMA Remembered ==
  ASSUME Memory
  PROVE  /\ Len(Evicted(events)) <= Cardinality(UsedInWindow) \/ Len(Evicted(events)) = 0
         /\ CountToday <= Cardinality(UsedToday)
         /\ ~crossed /\ Rpm # NoLimit => Cardinality(UsedInWindow) <= Len(events)
         /\ ~crossed => Cardinality(UsedToday) <= CountToday
         /\ Cardinality(UsedInWindow) \in Nat /\ Cardinality(UsedToday) \in Nat
<1>1. TypeOK /\ Ordered /\ NotMore /\ NotLess
  BY DEF Memory, IInv
<1>2. /\ now \in Int /\ Window \in Nat /\ \A r \in Used : at[r] \in Int
      /\ Times \subseteq Int
  BY <1>1, LimiterAssumption DEF TypeOK, Times, Used
<1>3. UsedInWindow = Since(Used, at, now - Window) /\ now - Window \in Int
  BY <1>2 DEF UsedInWindow, Since
<1>4. UsedToday = On(Used, at, Today)
  BY DEF UsedToday, On
<1>5. /\ \A t : Since(Used, at, t) \in SUBSET Used /\ On(Used, at, t) \in SUBSET Used
      /\ \A S, T \in SUBSET Used : T \subseteq S => Cardinality(T) <= Cardinality(S)
      /\ \A S \in SUBSET Used : Cardinality(S) \in Nat
  BY <1>1, UsedSets
<1>6. Len(Evicted(events)) <= Cardinality(UsedInWindow) \/ Len(Evicted(events)) = 0
  <2> DEFINE e == Evicted(events)
  <2>1. /\ e \in Seq(Times) /\ Len(e) \in Nat /\ Covered(e, Used, at)
        /\ \A i \in 1 .. Len(e) : now - e[i] <= Window
    BY <1>1, EvictedFits DEF NotMore
  <2> HIDE DEF e
  <2>2. ASSUME Len(e) # 0 PROVE Len(e) <= Cardinality(UsedInWindow)
    <3>1. 1 \in 1 .. Len(e)
      BY <2>1, <2>2
    <3>2. e[1] \in Times
      BY <2>1, <3>1
    <3>3. e[1] \in Int /\ e[1] >= now - Window
      <4>1. now - e[1] <= Window /\ now \in Int /\ Window \in Nat /\ e[1] \in Int
        BY <1>2, <2>1, <3>1, <3>2
      <4> QED BY <4>1
    <3>4. Len(e) - 1 + 1 <= Cardinality(Since(Used, at, e[1]))
      BY <2>1, <3>1 DEF Covered
    <3>5. Since(Used, at, e[1]) \subseteq Since(Used, at, now - Window)
      BY <1>2, <3>3 DEF Since
    <3>6. Cardinality(Since(Used, at, e[1])) <= Cardinality(UsedInWindow)
      BY <1>3, <1>5, <3>5
    <3>7. Cardinality(Since(Used, at, e[1])) \in Nat /\ Cardinality(UsedInWindow) \in Nat
      BY <1>3, <1>5
    <3> QED BY <2>1, <3>4, <3>6, <3>7
  <2> QED BY <2>2 DEF e
<1>7. /\ CountToday <= Cardinality(UsedToday)
      /\ ~crossed => Cardinality(UsedToday) <= CountToday
  BY <1>1, <1>4, DayCounts
<1>8. ~crossed /\ Rpm # NoLimit => Cardinality(UsedInWindow) <= Len(events)
  BY <1>1, <1>2, <1>3 DEF NotLess, Backed
<1> QED BY <1>3, <1>4, <1>5, <1>6, <1>7, <1>8

\* For any number of requests, any window and any quota, however admissions and
\* refunds interleave: the limiter never counts more than happened, and while
\* each refund takes back what its own request had counted both limits are exact.
THEOREM LimitsAreExact == Spec => []ExactUnlessCrossed
<1>1. Memory => ExactUnlessCrossed
  <2> SUFFICES ASSUME Memory PROVE ExactUnlessCrossed
    OBVIOUS
  <2>1. /\ TypeOK /\ WithinLimits /\ CountToday \in Nat /\ CountToday <= count
        /\ Rpm # NoLimit => RpmBound \in Nat
    BY DayType, LimitType DEF Memory, IInv
  <2>2. NeverOvercounts
    BY Remembered DEF NeverOvercounts
  <2>3. ASSUME ~crossed PROVE PerMinute /\ PerDay
    <3>1. PerMinute
      <4>1. Len(events) \in Nat
        BY <2>1 DEF TypeOK
      <4> QED BY <2>1, <2>3, <4>1, Remembered DEF PerMinute, WithinLimits
    <3>2. PerDay
      <4>1. count \in Nat /\ (DailyLimited => Daily \in Int)
        BY <2>1, LimitType DEF TypeOK, DailyLimited
      <4> QED BY <2>1, <2>3, <4>1, Remembered DEF PerDay, WithinLimits
    <3> QED BY <3>1, <3>2
  <2> QED BY <2>2, <2>3 DEF ExactUnlessCrossed
<1> QED BY MemoryStarts, MemoryStep, <1>1, PTL DEF Spec

\* Nobody is turned away while the requests that were let through and not taken
\* back leave room under both limits.
THEOREM RejectionsAreDue == Spec => RejectsOnlyWhenFull
<1> DEFINE Due ==
      \A r \in Request :
        (pc[r] = "new" /\ pc'[r] = "rejected") =>
          \/ Rpm # NoLimit /\ Cardinality(UsedInWindow) >= RpmBound
          \/ DailyLimited /\ Cardinality(UsedToday) >= Daily
<1>1. Memory /\ [Next]_vars => Due
  <2> SUFFICES ASSUME Memory, [Next]_vars, NEW r \in Request, pc[r] = "new", pc'[r] = "rejected"
               PROVE  \/ Rpm # NoLimit /\ Cardinality(UsedInWindow) >= RpmBound
                      \/ DailyLimited /\ Cardinality(UsedToday) >= Daily
    OBVIOUS
  <2>1. TypeOK /\ CountToday \in Nat
    BY DayType DEF Memory, IInv
  <2>2. RejectDaily(r) \/ RejectRpm(r)
    BY <2>1 DEF Next, vars, RejectDaily, RejectRpm, Allow, Refund, Fail, Serve, Tick, TypeOK
  <2>3. ASSUME DailyFull PROVE DailyLimited /\ Cardinality(UsedToday) >= Daily
    BY <2>1, <2>3, Remembered, LimitType DEF DailyFull, DailyLimited
  <2>4. ASSUME RpmFull(Evicted(events))
        PROVE  Rpm # NoLimit /\ Cardinality(UsedInWindow) >= RpmBound
    <3>1. /\ Rpm # NoLimit /\ Len(Evicted(events)) >= RpmBound /\ RpmBound \in Nat
          /\ Len(Evicted(events)) \in Nat
      BY <2>1, <2>4, LimitType, EvictedType DEF RpmFull
    <3> QED BY <3>1, Remembered
  <2> QED BY <2>2, <2>3, <2>4 DEF RejectDaily, RejectRpm
<1>2. Due => (\A r \in Request :
                (pc[r] = "new" /\ pc'[r] = "rejected") =>
                  \/ Rpm # NoLimit /\ Cardinality(UsedInWindow) >= RpmBound
                  \/ DailyLimited /\ Cardinality(UsedToday) >= Daily)
  OBVIOUS
<1> HIDE DEF Due
<1> QED BY MemoryStarts, MemoryStep, <1>1, <1>2, PTL DEF Spec, RejectsOnlyWhenFull

=============================================================================
