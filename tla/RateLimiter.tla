---------------------------- MODULE RateLimiter ----------------------------
(***************************************************************************)
(* The in-memory limiter (crates/application/src/limiter.rs) for one       *)
(* subject, together with the requests that go through prepare() in        *)
(* crates/application/src/pipeline.rs: check() counts a request, the later *)
(* budget checks may refund() it, every other failure does not.  Subjects  *)
(* never share a map entry, so one subject is enough, with any one quota.   *)
(***************************************************************************)
EXTENDS Integers, Sequences, FiniteSets

CONSTANTS
  Request,   \* requests of the subject, each made once
  Quotas,    \* quotas the subject may have
  NoLimit,   \* Option::None
  Window,    \* the 60 seconds of the sliding window, in ticks
  DayTicks,  \* ticks per UTC day
  MaxTime    \* bound of the model: the clock stops here

ASSUME LimiterAssumption ==
  /\ NoLimit \notin Int
  /\ Quotas \subseteq [rpm : Int \union {NoLimit}, daily : Int \union {NoLimit}]
  /\ Window \in Nat
  /\ DayTicks \in Nat \ {0}
  /\ MaxTime \in Nat

VARIABLES
  quota,   \* the subject's quota, which prepare() reads for every request
  now,     \* Instant::now() and Utc::now()
  events,  \* minute_events: admission times, oldest first
  day,     \* daily_day
  count,   \* daily_count
  pc,      \* where each request is
  at,      \* history: when each request was counted
  crossed  \* history: a refund took back what another request had counted

vars == <<quota, now, events, day, count, pc, at, crossed>>

Rpm == quota.rpm
Daily == quota.daily

Today == now \div DayTicks
Times == 0 .. MaxTime

TypeOK ==
  /\ quota \in Quotas
  /\ now \in Times
  /\ events \in Seq(Times)
  /\ day \in Nat
  /\ count \in Nat
  /\ pc \in [Request -> {"new", "counted", "refunded", "served", "failed", "rejected"}]
  /\ at \in [Request -> Times]
  /\ crossed \in BOOLEAN

\* daily_requests: a negative limit is no limit; rpm: a negative limit is 0.
DailyLimited == Daily # NoLimit /\ Daily >= 0
RpmBound == IF Rpm >= 0 THEN Rpm ELSE 0

\* The requests that were let through and not taken back.
Used == {r \in Request : pc[r] \in {"counted", "served", "failed"}}
UsedInWindow == {r \in Used : now - at[r] <= Window}
UsedToday == {r \in Used : at[r] \div DayTicks = Today}

-----------------------------------------------------------------------------
(* Faulty variants, each a plausible slip in limiter.rs.                    *)

\* The window is cut one tick early (>= for >).
EvictedEarly(q) ==
  SubSeq(q, Cardinality({i \in DOMAIN q : now - q[i] >= Window}) + 1, Len(q))

\* Nothing is ever evicted.
EvictedNever(q) == q

\* <= for < in the comparison with the limit.
RpmFullLate(q) == Rpm # NoLimit /\ Len(q) > RpmBound

-----------------------------------------------------------------------------

\* pop_front while the front is older than the window: admission times never
\* decrease along the queue, so the old entries are its front.
Old(q) == {i \in DOMAIN q : now - q[i] > Window}
Evicted(q) == SubSeq(q, Cardinality(Old(q)) + 1, Len(q))

\* daily_count after the rollover test.
CountToday == IF day = Today THEN count ELSE 0

DailyFull == DailyLimited /\ CountToday >= Daily
RpmFull(q) == Rpm # NoLimit /\ Len(q) >= RpmBound

AfterRefund(q) == IF q = <<>> THEN q ELSE SubSeq(q, 1, Len(q) - 1)

\* saturating_sub(1)
LessOne(n) == IF n > 0 THEN n - 1 ELSE 0

\* A refund of r takes back another request's entry: the newest one is not of
\* r's tick, or the counter has moved on to another day.
Crosses(r) ==
  \/ events # <<>> /\ events[Len(events)] # at[r]
  \/ at[r] \div DayTicks # day

Init ==
  /\ quota \in Quotas
  /\ now = 0
  /\ events = <<>>
  /\ day = 0
  /\ count = 0
  /\ pc = [r \in Request |-> "new"]
  /\ at = [r \in Request |-> 0]
  /\ crossed = FALSE

-----------------------------------------------------------------------------

\* check() -> DailyQuotaExceeded: nothing is counted and nothing evicted.
RejectDaily(r) ==
  /\ pc[r] = "new"
  /\ DailyFull
  /\ day' = Today
  /\ count' = CountToday
  /\ pc' = [pc EXCEPT ![r] = "rejected"]
  /\ UNCHANGED <<quota, now, events, at, crossed>>

\* check() -> RateLimited.
RejectRpm(r) ==
  /\ pc[r] = "new"
  /\ ~DailyFull
  /\ RpmFull(Evicted(events))
  /\ events' = Evicted(events)
  /\ day' = Today
  /\ count' = CountToday
  /\ pc' = [pc EXCEPT ![r] = "rejected"]
  /\ UNCHANGED <<quota, now, at, crossed>>

\* check() -> Allowed; without an rpm no event is recorded.
Allow(r) ==
  /\ pc[r] = "new"
  /\ ~DailyFull
  /\ ~RpmFull(Evicted(events))
  /\ events' = IF Rpm = NoLimit THEN events ELSE Append(Evicted(events), now)
  /\ day' = Today
  /\ count' = CountToday + 1
  /\ pc' = [pc EXCEPT ![r] = "counted"]
  /\ at' = [at EXCEPT ![r] = now]
  /\ UNCHANGED <<quota, now, crossed>>

\* prepare() finds the monthly quota or budget spent: refund(), which takes the
\* newest event and one of daily_count, whichever day that count is of.
Refund(r) ==
  /\ pc[r] = "counted"
  /\ events' = AfterRefund(events)
  /\ count' = LessOne(count)
  /\ pc' = [pc EXCEPT ![r] = "refunded"]
  /\ crossed' = (crossed \/ Crosses(r))
  /\ UNCHANGED <<quota, now, day, at>>

\* prepare() fails after check() (resolve, authorize, no candidate, the request
\* row, a query) or no target answers: no refund.
Fail(r) ==
  /\ pc[r] = "counted"
  /\ pc' = [pc EXCEPT ![r] = "failed"]
  /\ UNCHANGED <<quota, now, events, day, count, at, crossed>>

Serve(r) ==
  /\ pc[r] = "counted"
  /\ pc' = [pc EXCEPT ![r] = "served"]
  /\ UNCHANGED <<quota, now, events, day, count, at, crossed>>

Tick ==
  /\ now < MaxTime
  /\ now' = now + 1
  /\ UNCHANGED <<quota, events, day, count, pc, at, crossed>>

Next ==
  \/ \E r \in Request : RejectDaily(r) \/ RejectRpm(r) \/ Allow(r)
                        \/ Refund(r) \/ Fail(r) \/ Serve(r)
  \/ Tick

Spec == Init /\ [][Next]_vars

-----------------------------------------------------------------------------

\* The queue never holds more than rpm admissions and the counter never passes
\* the daily limit, whatever is refunded in between.
WithinLimits ==
  /\ Rpm # NoLimit => Len(events) <= RpmBound
  /\ DailyLimited => count <= Daily

\* The limiter never remembers more than what happened: the young entries of
\* the queue are at most the uses in the window and today's count at most the
\* uses of today, although refund() takes back an entry that may be another's.
NeverOvercounts ==
  /\ Rpm # NoLimit => Len(Evicted(events)) <= Cardinality(UsedInWindow)
  /\ CountToday <= Cardinality(UsedToday)

\* A request is turned away only when one of the two limits is really reached
\* by requests that were let through and not taken back.
RejectsOnlyWhenFull ==
  [][\A r \in Request :
       (pc[r] = "new" /\ pc'[r] = "rejected") =>
          \/ Rpm # NoLimit /\ Cardinality(UsedInWindow) >= RpmBound
          \/ DailyLimited /\ Cardinality(UsedToday) >= Daily]_vars

\* "rpm: requests per minute" (limiter.rs:46): no window of Window ticks holds
\* more than rpm requests that were let through and not taken back.
PerMinute == Rpm # NoLimit => Cardinality(UsedInWindow) <= RpmBound

\* "daily_requests: requests per day" (limiter.rs:46).
PerDay == DailyLimited => Cardinality(UsedToday) <= Daily

\* The limiter never remembers more than what happened, and both limits are
\* exact for the requests let through and not taken back, as long as every
\* refund takes back what its own request had counted.
ExactUnlessCrossed == NeverOvercounts /\ (~crossed => PerMinute /\ PerDay)

=============================================================================
