---------------------------- MODULE PollingProofs ----------------------------
(***************************************************************************)
(* Feed polling, for any feeds, hosts, slots, replies and bounds.          *)
(*                                                                         *)
(*   - stagger (Spacing) holds the jobs of one host a whole gap apart;     *)
(*   - the queue (JobQueue) never has two jobs of one host in `doing`;     *)
(*   - the waits of the schedule (Schedule, FeedRow) keep to their bounds  *)
(*     over any sequence of answers, and a feed is given up only after     *)
(*     more than a day of outage, however its polls overlap (Cadence);     *)
(*   - Polling implements the queue, does not ask again a feed that        *)
(*     answered 410, keeps validators that name stored bodies, and bounds  *)
(*     the run of failures, because a run counts with the sweeps and the   *)
(*     polls that may still add to it (Runs).                              *)
(***************************************************************************)
EXTENDS Polling, Cadence, Spacing, FiniteSetTheorems, TLAPS

CONSTANTS Keys, Locks, LockOf, NoLock
VARIABLE doing

\* The queue by itself, whatever its subjects and locks; Polling's own is Q.
J == INSTANCE JobQueue

-----------------------------------------------------------------------------
(* The gap between two jobs of one host.                                   *)

\* A Crawl-delay only lengthens the gap, never shortens it below our own.
LEMMA GapBounds ==
  ASSUME NEW Names, NEW host \in Names, NEW minimum \in Nat, NEW crawl \in [Names -> Nat]
  PROVE  /\ GapFor(host, minimum, crawl) \in Nat
         /\ GapFor(host, minimum, crawl) >= minimum
         /\ GapFor(host, minimum, crawl) >= crawl[host]
BY DEF GapFor

\* The jobs ahead of one job are finitely many.
LEMMA AheadFinite ==
  ASSUME NEW Names, NEW hosts \in Seq(Names), NEW n \in DOMAIN hosts
  PROVE  IsFiniteSet(Ahead(hosts, n)) /\ Cardinality(Ahead(hosts, n)) \in Nat
<1>1. n \in Nat
  OBVIOUS
<1>2. IsFiniteSet(1 .. n - 1)
  BY <1>1, FS_Interval
<1>3. Ahead(hosts, n) \subseteq 1 .. n - 1
  BY DEF Ahead
<1> QED
  BY <1>2, <1>3, FS_Subset, FS_CardinalityType

\* A later job of the same host has every job ahead of an earlier one ahead of it, and
\* that earlier one too.
LEMMA AheadGrows ==
  ASSUME NEW Names, NEW hosts \in Seq(Names),
         NEW m \in DOMAIN hosts, NEW n \in DOMAIN hosts, m < n, hosts[m] = hosts[n]
  PROVE  Cardinality(Ahead(hosts, n)) >= Cardinality(Ahead(hosts, m)) + 1
<1>1. Ahead(hosts, m) \cup {m} \subseteq Ahead(hosts, n)
  BY DEF Ahead
<1>2. m \notin Ahead(hosts, m)
  BY DEF Ahead
<1>3. IsFiniteSet(Ahead(hosts, m)) /\ IsFiniteSet(Ahead(hosts, n))
  BY AheadFinite
<1>4. /\ IsFiniteSet(Ahead(hosts, m) \cup {m})
      /\ Cardinality(Ahead(hosts, m) \cup {m}) = Cardinality(Ahead(hosts, m)) + 1
  BY <1>2, <1>3, FS_AddElement
<1>5. Cardinality(Ahead(hosts, m) \cup {m}) <= Cardinality(Ahead(hosts, n))
  BY <1>1, <1>3, FS_Subset
<1> QED
  BY <1>3, <1>4, <1>5, FS_CardinalityType

\* One more job ahead is one more gap at least.
LEMMA MoreGaps ==
  ASSUME NEW a \in Nat, NEW b \in Nat, NEW gap \in Nat, b >= a + 1
  PROVE  b * gap >= a * gap + gap
<1>1. PICK more \in Nat : b = a + 1 + more
  <2>1. b - (a + 1) \in Nat /\ b = a + 1 + (b - (a + 1))
    OBVIOUS
  <2> QED
    BY <2>1
<1>2. more * gap \in Nat
  OBVIOUS
<1>3. b * gap = a * gap + gap + more * gap
  BY <1>1
<1>4. a * gap \in Nat
  OBVIOUS
<1> QED
  BY <1>2, <1>3, <1>4

\* stagger: within one batch two jobs of one host are held at least its gap apart, so a
\* queue that starts each the moment it may spaces the visits (ARCHITECTURE.md:438-440).
THEOREM StaggerSpaces ==
  ASSUME NEW Names, NEW hosts \in Seq(Names), NEW minimum \in Nat,
         NEW crawl \in [Names -> Nat],
         NEW m \in DOMAIN hosts, NEW n \in DOMAIN hosts, m < n, hosts[m] = hosts[n]
  PROVE  Stagger(hosts, minimum, crawl)[n]
           >= Stagger(hosts, minimum, crawl)[m] + GapFor(hosts[n], minimum, crawl)
<1> DEFINE gap == GapFor(hosts[n], minimum, crawl)
           cm  == Cardinality(Ahead(hosts, m))
           cn  == Cardinality(Ahead(hosts, n))
<1>1. gap \in Nat
  <2>1. hosts[n] \in Names
    OBVIOUS
  <2> QED
    BY <2>1, GapBounds
<1>2. cm \in Nat /\ cn \in Nat /\ cn >= cm + 1
  BY AheadFinite, AheadGrows
<1>3. /\ Stagger(hosts, minimum, crawl)[n] = cn * gap
      /\ Stagger(hosts, minimum, crawl)[m] = cm * gap
  BY DEF Stagger
<1> HIDE DEF gap, cm, cn
<1>4. cn * gap >= cm * gap + gap
  BY <1>1, <1>2, MoreGaps
<1> QED
  BY <1>3, <1>4 DEF gap

-----------------------------------------------------------------------------
(* The queue.                                                              *)

\* The queue's variables keep their types.
THEOREM QueueTypes == J!Spec => []J!TypeOK
<1>1. J!Init => J!TypeOK
  BY DEF J!Init, J!TypeOK
<1>2. J!TypeOK /\ [J!Next]_(J!queueVars) => J!TypeOK'
  <2> SUFFICES ASSUME J!TypeOK, [J!Next]_(J!queueVars) PROVE J!TypeOK'
    OBVIOUS
  <2>1. ASSUME NEW k \in Keys, J!DeferUnlessQueued(k) PROVE J!TypeOK'
    BY <2>1 DEF J!TypeOK, J!DeferUnlessQueued
  <2>2. ASSUME NEW s \in Slots, NEW k \in Keys, J!Fetch(s, k) PROVE J!TypeOK'
    BY <2>2 DEF J!TypeOK, J!Fetch
  <2>3. ASSUME NEW s \in Slots, J!Finish(s) PROVE J!TypeOK'
    BY <2>3 DEF J!TypeOK, J!Finish
  <2>4. CASE J!Kill
    BY <2>4 DEF J!TypeOK, J!Kill, J!InDoing
  <2>5. CASE UNCHANGED J!queueVars
    BY <2>5 DEF J!TypeOK, J!queueVars
  <2> QED
    BY <2>1, <2>2, <2>3, <2>4, <2>5 DEF J!Next
<1> QED
  BY <1>1, <1>2, PTL DEF J!Spec

\* A fetch keeps HostExclusive: the lock of the subject fetched is held by nobody.
LEMMA FetchExclusive ==
  ASSUME J!QueueAssumption, J!TypeOK, J!HostExclusive,
         NEW s \in Slots, NEW k \in Keys, J!Fetch(s, k)
  PROVE  J!HostExclusive'
<1>1. /\ doing' = [doing EXCEPT ![s] = k] /\ stuck' = stuck
      /\ doing'[s] = k /\ \A t \in Slots \ {s} : doing'[t] = doing[t]
  BY DEF J!Fetch, J!TypeOK
<1>2. \A t \in Slots : doing[t] # Idle /\ LockOf[k] # NoLock => LockOf[doing[t]] # LockOf[k]
  BY DEF J!Fetch, J!LockHeld, J!InDoing, J!TypeOK
<1>3. \A j \in stuck : LockOf[j] # NoLock => LockOf[k] # LockOf[j]
  BY DEF J!QueueAssumption, J!Fetch, J!LockHeld, J!InDoing, J!TypeOK
<1>4. ASSUME NEW t \in Slots, NEW u \in Slots, t # u,
             doing'[t] # Idle, doing'[u] # Idle, LockOf[doing'[t]] # NoLock
      PROVE  LockOf[doing'[t]] # LockOf[doing'[u]]
  <2>1. CASE t = s
    BY <1>1, <1>2, <1>4, <2>1
  <2>2. CASE u = s
    BY <1>1, <1>2, <1>4, <2>2
  <2>3. CASE t # s /\ u # s
    BY <1>1, <1>4, <2>3 DEF J!HostExclusive
  <2> QED
    BY <2>1, <2>2, <2>3
<1>5. ASSUME NEW t \in Slots, NEW j \in stuck', doing'[t] # Idle, LockOf[j] # NoLock
      PROVE  LockOf[doing'[t]] # LockOf[j]
  <2>1. CASE t = s
    BY <1>1, <1>3, <1>5, <2>1
  <2>2. CASE t # s
    BY <1>1, <1>5, <2>2 DEF J!HostExclusive
  <2> QED
    BY <2>1, <2>2
<1> QED
  BY <1>4, <1>5 DEF J!HostExclusive

\* A host never has two jobs of ours in `doing`, dead or alive, through any sequence of
\* deferrals, failures and kills.
THEOREM HostIsExclusive ==
  ASSUME J!QueueAssumption PROVE J!Spec => []J!HostExclusive
<1>1. J!Init => J!HostExclusive
  BY DEF J!Init, J!HostExclusive
<1>2. J!TypeOK /\ J!HostExclusive /\ [J!Next]_(J!queueVars) => J!HostExclusive'
  <2> SUFFICES ASSUME J!TypeOK, J!HostExclusive, [J!Next]_(J!queueVars) PROVE J!HostExclusive'
    OBVIOUS
  <2>1. ASSUME NEW k \in Keys, J!DeferUnlessQueued(k) PROVE J!HostExclusive'
    BY <2>1 DEF J!HostExclusive, J!DeferUnlessQueued
  <2>2. ASSUME NEW s \in Slots, NEW k \in Keys, J!Fetch(s, k) PROVE J!HostExclusive'
    BY <2>2, FetchExclusive
  <2>3. ASSUME NEW s \in Slots, J!Finish(s) PROVE J!HostExclusive'
    <3>1. /\ doing'[s] = Idle /\ \A t \in Slots \ {s} : doing'[t] = doing[t]
          /\ stuck' = stuck
      BY <2>3 DEF J!Finish, J!TypeOK
    <3> QED
      BY <3>1 DEF J!HostExclusive
  <2>4. CASE J!Kill
    BY <2>4 DEF J!HostExclusive, J!Kill
  <2>5. CASE UNCHANGED J!queueVars
    BY <2>5 DEF J!HostExclusive, J!queueVars
  <2> QED
    BY <2>1, <2>2, <2>3, <2>4, <2>5 DEF J!Next
<1> QED
  BY <1>1, <1>2, QueueTypes, PTL DEF J!Spec

-----------------------------------------------------------------------------
(* The schedule.                                                           *)

\* A power of two is a natural number: it counts the subsets of 1 .. n.
LEMMA PowerOfTwo ==
  ASSUME NEW n \in Nat
  PROVE  2 ^ n \in Nat
<1>1. IsFiniteSet(1 .. n) /\ Cardinality(1 .. n) = n
  BY FS_Interval
<1>2. IsFiniteSet(SUBSET (1 .. n)) /\ Cardinality(SUBSET (1 .. n)) = 2 ^ n
  BY <1>1, FS_SUBSET
<1> QED
  BY <1>2, FS_CardinalityType

\* Whatever is clamped to a feed's bounds is within them.
LEMMA ClampBounds ==
  ASSUME NEW seconds \in Int, NEW ceiling \in {MaxInterval, MaxBackoff},
         NEW w, w = Clamp(seconds, Bounds(ceiling))
  PROVE  w \in Nat /\ MinInterval <= w /\ w <= ceiling
BY ScheduleAssumption DEF Clamp, Bounds

LEMMA DriftBounds ==
  ASSUME NEW current \in Nat, NEW newItems \in Nat, NEW w, w = Drift(current, newItems)
  PROVE  w \in Nat /\ w <= MaxInterval
<1>1. PICK base : base = IF current > 0 THEN current ELSE DefaultInterval
  OBVIOUS
<1>2. PICK moved : moved = IF newItems > 0 THEN base \div 2 ELSE (5 * base) \div 4
  OBVIOUS
<1>3. base \in Nat
  BY <1>1, ScheduleAssumption
<1>4. moved \in Int
  BY <1>2, <1>3
<1>5. w = Clamp(moved, Bounds(MaxInterval))
  BY <1>1, <1>2 DEF Drift, Healthy
<1> QED
  BY <1>4, <1>5, ClampBounds

LEMMA FailureWait ==
  ASSUME NEW failures \in Nat, NEW w, w = IntervalFrom(WaitingOut, failures, DefaultInterval)
  PROVE  w \in Nat /\ w <= MaxBackoff
<1>1. PICK power : power = 2 ^ failures
  OBVIOUS
<1>2. power \in Nat
  BY <1>1, PowerOfTwo
<1>3. DefaultInterval * power \in Int
  BY <1>2, ScheduleAssumption
<1>4. w = Clamp(DefaultInterval * power, Bounds(MaxBackoff))
  BY <1>1 DEF IntervalFrom, WaitingOut, Bounds
<1> QED
  BY <1>3, <1>4, ClampBounds

\* Whatever the publisher names, it is waited out no longer than an outage.
LEMMA RetryAfterBounds ==
  ASSUME NEW header \in Headers, NEW w, w = RetryAfter(header)
  PROVE  w \in Nat /\ w <= MaxBackoff
<1>1. CASE header = Dated
  BY <1>1, ScheduleAssumption DEF RetryAfter
<1>2. CASE header # Dated
  BY <1>2, FeedRowAssumption, ClampBounds DEF RetryAfter, ClampInterval, WaitingOut
<1> QED
  BY <1>1, <1>2

\* The schedule's own wait: a <ttl> raises it and is never undercut, and otherwise it stays
\* under the ceiling of a feed that answers or of one that does not.
LEMMA NextIntervalBounds ==
  ASSUME NEW current \in Nat, NEW failures \in Nat, NEW newItems \in Nat, NEW ttl \in Nat,
         NEW w, w = NextInterval(current, failures, newItems, ttl)
  PROVE  /\ w \in Nat
         /\ w <= MaxBackoff \/ w <= ttl
         /\ failures = 0 => w <= MaxInterval \/ w <= ttl
         /\ HonourTtl => w >= ttl
<1>1. PICK own : own = IF failures > 0 THEN IntervalFrom(WaitingOut, failures, DefaultInterval)
                                       ELSE Drift(current, newItems)
  OBVIOUS
<1>2. own \in Nat /\ own <= MaxBackoff /\ (failures = 0 => own <= MaxInterval)
  <2>1. CASE failures > 0
    BY <1>1, <2>1, FailureWait
  <2>2. CASE ~ failures > 0
    BY <1>1, <2>2, DriftBounds, ScheduleAssumption
  <2> QED
    BY <2>1, <2>2
<1>3. w = IF HonourTtl /\ ttl > own THEN ttl ELSE own
  BY <1>1 DEF NextInterval, Floored
<1> QED
  BY <1>2, <1>3

-----------------------------------------------------------------------------
(* What a visit does to a row.                                             *)

\* What a reply is, and what comes with it.
LEMMA ReplyKinds ==
  ASSUME NEW reply \in Replies
  PROVE  /\ reply.kind \in {"ok", "not_modified", "disallowed", "error", "gone", "unreadable",
                            "limited"}
         /\ reply.kind = "ok" => reply.body \in Bodies /\ reply.tagged \in BOOLEAN
         /\ reply.kind = "limited" => reply.header \in Headers
  BY PollingAssumption DEF Replies, Refusals, Served

\* The bounds of WaitInBounds, on one row.
WaitBounded(r) ==
  /\ r.outcome \in {"ok", "not_modified"} => r.interval <= MaxInterval \/ r.interval <= r.ttl
  /\ r.interval <= MaxBackoff \/ r.interval <= r.ttl
  /\ r.outcome \in {"ok", "not_modified", "failed"} /\ HonourTtl => r.interval >= r.ttl

\* What every visit makes of a row.
Visited(r, d) == d \in Rows /\ d.failures <= r.failures + 1 /\ WaitBounded(d)

LEMMA LoggedRow ==
  ASSUME NEW r \in Rows, NEW outcome \in Outcomes, NEW d, d = Logged(r, outcome)
  PROVE  /\ d \in Rows /\ d.failures <= r.failures + 1 /\ d.outcome = outcome
         /\ outcome \in {"ok", "not_modified"} => d.failures = 0
         /\ d.gone = r.gone /\ d.etag = r.etag
<1>1. PICK n : n = IF outcome \in {"failed", "limited"} THEN r.failures + 1 ELSE 0
  OBVIOUS
<1>2. r.failures \in Nat
  BY DEF Rows
<1>3. n \in Nat /\ n <= r.failures + 1 /\ (outcome \in {"ok", "not_modified"} => n = 0)
  BY <1>1, <1>2
<1>4. d = [r EXCEPT !.outcome = outcome, !.failures = n]
  BY <1>1 DEF Logged
<1> QED
  BY <1>3, <1>4 DEF Rows

\* _reschedule, of a feed that answered.
LEMMA RescheduledRow ==
  ASSUME NEW l \in Rows, NEW newItems \in Nat, NEW d, d = Rescheduled(l, newItems),
         l.outcome \in {"ok", "not_modified"}
  PROVE  d \in Rows /\ WaitBounded(d) /\ d.failures = l.failures /\ d.gone = l.gone
         /\ d.etag = l.etag
<1>1. PICK w : w = NextInterval(l.interval, 0, newItems, l.ttl)
  OBVIOUS
<1>2. l.interval \in Nat /\ l.ttl \in Nat
  BY DEF Rows
<1>3. /\ w \in Nat
      /\ w <= MaxBackoff \/ w <= l.ttl
      /\ w <= MaxInterval \/ w <= l.ttl
      /\ HonourTtl => w >= l.ttl
  BY <1>1, <1>2, NextIntervalBounds
<1>4. d = [l EXCEPT !.interval = w]
  BY <1>1 DEF Rescheduled
<1>5. /\ d \in Rows /\ d.interval = w /\ d.ttl = l.ttl
      /\ d.failures = l.failures /\ d.gone = l.gone /\ d.etag = l.etag
  BY <1>3, <1>4 DEF Rows
<1> QED
  BY <1>3, <1>5 DEF WaitBounded

LEMMA NotModifiedRow ==
  ASSUME NEW r \in Rows, NEW d, d = NotModified(r)
  PROVE  Visited(r, d) /\ d.gone = r.gone /\ d.etag = r.etag
<1>1. PICK l : l = Logged(r, "not_modified")
  OBVIOUS
<1>2. /\ l \in Rows /\ l.failures <= r.failures + 1 /\ l.outcome = "not_modified"
      /\ l.gone = r.gone /\ l.etag = r.etag
  BY <1>1, LoggedRow DEF Outcomes
<1>3. d = Rescheduled(l, 0)
  BY <1>1 DEF NotModified
<1> QED
  BY <1>2, <1>3, RescheduledRow DEF Visited

\* _refresh_feed keeps the <ttl> it has when the document names none.
LEMMA StoredRow ==
  ASSUME NEW r \in Rows, NEW tag \in Bodies \cup {NoTag}, NEW ttl \in Nat, NEW newItems \in Nat,
         NEW d, d = Stored(r, tag, ttl, newItems)
  PROVE  Visited(r, d) /\ d.gone = r.gone /\ d.etag = tag
<1>1. PICK l : l = Logged(r, "ok")
  OBVIOUS
<1>2. PICK m : m = [l EXCEPT !.etag = tag, !.ttl = IF ttl > 0 THEN ttl ELSE @]
  OBVIOUS
<1>3. /\ l \in Rows /\ l.failures <= r.failures + 1 /\ l.outcome = "ok" /\ l.gone = r.gone
  BY <1>1, LoggedRow DEF Outcomes
<1>4. /\ m \in Rows /\ m.failures <= r.failures + 1 /\ m.outcome = "ok" /\ m.gone = r.gone
      /\ m.etag = tag
  BY <1>2, <1>3 DEF Rows
<1>5. d = Rescheduled(m, newItems)
  BY <1>1, <1>2 DEF Stored
<1> QED
  BY <1>4, <1>5, RescheduledRow DEF Visited

LEMMA DisallowedRow ==
  ASSUME NEW r \in Rows, NEW d, d = Disallowed(r)
  PROVE  Visited(r, d) /\ d.gone = r.gone /\ d.etag = r.etag
<1>1. PICK l : l = Logged(r, "disallowed")
  OBVIOUS
<1>2. /\ l \in Rows /\ l.failures <= r.failures + 1 /\ l.outcome = "disallowed"
      /\ l.gone = r.gone /\ l.etag = r.etag
  BY <1>1, LoggedRow DEF Outcomes
<1>3. d = [l EXCEPT !.interval = MaxBackoff]
  BY <1>1 DEF Disallowed
<1>4. /\ d \in Rows /\ d.interval = MaxBackoff /\ d.outcome = "disallowed"
      /\ d.failures = l.failures /\ d.gone = l.gone /\ d.etag = l.etag
  BY <1>2, <1>3, ScheduleAssumption DEF Rows
<1> QED
  BY <1>2, <1>4, ScheduleAssumption DEF Visited, WaitBounded

LEMMA LimitedRow ==
  ASSUME NEW r \in Rows, NEW header \in Headers, NEW d, d = Limited(r, header)
  PROVE  Visited(r, d) /\ d.gone = r.gone /\ d.etag = r.etag
<1>1. PICK l : l = Logged(r, "limited")
  OBVIOUS
<1>2. PICK w : w = RetryAfter(header)
  OBVIOUS
<1>3. /\ l \in Rows /\ l.failures <= r.failures + 1 /\ l.outcome = "limited"
      /\ l.gone = r.gone /\ l.etag = r.etag
  BY <1>1, LoggedRow DEF Outcomes
<1>4. w \in Nat /\ w <= MaxBackoff
  BY <1>2, RetryAfterBounds
<1>5. d = [l EXCEPT !.interval = w]
  BY <1>1, <1>2 DEF Limited
<1>6. /\ d \in Rows /\ d.interval = w /\ d.outcome = "limited"
      /\ d.failures = l.failures /\ d.gone = l.gone /\ d.etag = l.etag
  BY <1>3, <1>4, <1>5 DEF Rows
<1> QED
  BY <1>3, <1>4, <1>6 DEF Visited, WaitBounded

LEMMA FailedRow ==
  ASSUME NEW r \in Rows, NEW isGone \in BOOLEAN, NEW d, d = Failed(r, isGone)
  PROVE  Visited(r, d) /\ d.etag = r.etag /\ (isGone = FALSE => d.gone = r.gone)
<1>1. PICK l : l = Logged(r, "failed")
  OBVIOUS
<1>2. PICK m : m = [l EXCEPT !.gone = @ \/ isGone]
  OBVIOUS
<1>3. PICK w : w = NextInterval(0, m.failures, 0, m.ttl)
  OBVIOUS
<1>4. /\ l \in Rows /\ l.failures <= r.failures + 1 /\ l.outcome = "failed"
      /\ l.gone = r.gone /\ l.etag = r.etag
  BY <1>1, LoggedRow DEF Outcomes
<1>5. /\ m \in Rows /\ m.failures = l.failures /\ m.etag = l.etag /\ m.outcome = "failed"
      /\ isGone = FALSE => m.gone = l.gone
  BY <1>2, <1>4 DEF Rows
<1>6. m.failures \in Nat /\ m.ttl \in Nat
  BY <1>5 DEF Rows
<1>7. /\ w \in Nat
      /\ w <= MaxBackoff \/ w <= m.ttl
      /\ HonourTtl => w >= m.ttl
  BY <1>3, <1>6, NextIntervalBounds
<1>8. d = [m EXCEPT !.interval = w]
  BY <1>1, <1>2, <1>3 DEF Failed
<1>9. /\ d \in Rows /\ d.interval = w /\ d.ttl = m.ttl /\ d.outcome = "failed"
      /\ d.failures = m.failures /\ d.gone = m.gone /\ d.etag = m.etag
  BY <1>5, <1>7, <1>8 DEF Rows
<1> QED
  BY <1>4, <1>5, <1>7, <1>9 DEF Visited, WaitBounded

\* Whatever the reply, the row stays a row, a run grows by one at most, only a 410 marks a
\* feed as gone, and only a body changes the validators.
LEMMA RecordedRow ==
  ASSUME NEW r \in Rows, NEW b, NEW reply \in Replies, NEW newItems \in Nat,
         NEW d, d = Recorded(r, b, reply, newItems)
  PROVE  /\ Visited(r, d)
         /\ reply.kind # "gone" => d.gone = r.gone
         /\ d.etag = IF reply.kind # "ok" THEN r.etag
                     ELSE IF reply.tagged THEN reply.body ELSE NoTag
<1>1. CASE reply.kind = "not_modified"
  BY <1>1, NotModifiedRow DEF Recorded
<1>2. CASE reply.kind = "disallowed"
  BY <1>2, DisallowedRow DEF Recorded
<1>3. CASE reply.kind = "limited"
  <2>1. reply.header \in Headers
    BY <1>3, ReplyKinds
  <2>2. d = Limited(r, reply.header)
    BY <1>3 DEF Recorded
  <2> QED
    BY <1>3, <2>1, <2>2, LimitedRow
<1>4. CASE reply.kind \in {"gone", "error", "unreadable"}
  <2>1. PICK isGone \in BOOLEAN : d = Failed(r, isGone) /\ (isGone = FALSE \/ reply.kind = "gone")
    BY <1>4 DEF Recorded
  <2> QED
    BY <1>4, <2>1, FailedRow
<1>5. CASE reply.kind = "ok"
  <2>1. PICK tag : tag = IF reply.tagged THEN reply.body ELSE NoTag
    OBVIOUS
  <2>2. PICK new : new = IF reply.body = b THEN 0 ELSE newItems
    OBVIOUS
  <2>3. d = Stored(r, tag, 0, new)
    BY <1>5, <2>1, <2>2 DEF Recorded
  <2>4. tag \in Bodies \cup {NoTag} /\ new \in Nat
    BY <1>5, <2>1, <2>2, ReplyKinds
  <2> QED
    BY <1>5, <2>1, <2>3, <2>4, StoredRow
<1> QED
  BY <1>1, <1>2, <1>3, <1>4, <1>5, ReplyKinds

-----------------------------------------------------------------------------
(* One feed over any sequence of answers.                                  *)

CadenceInv ==
  /\ feed \in Rows /\ WaitBounded(feed)
  /\ again \in 0 .. Overlap /\ feed.failures + again <= MaxFailures + Overlap
  /\ down \in Nat /\ asked \in BOOLEAN

LEMMA CadenceInitially == CadenceInit => CadenceInv
<1> SUFFICES ASSUME CadenceInit PROVE CadenceInv
  OBVIOUS
<1>1. FreshRow \in Rows
  BY DEF FreshRow, Rows, Outcomes
<1>2. /\ feed = FreshRow /\ again = 0 /\ down = 0 /\ asked = FALSE
      /\ feed.interval = 0 /\ feed.ttl = 0 /\ feed.failures = 0
  BY DEF CadenceInit, FreshRow
<1>3. WaitBounded(feed)
  BY <1>2, ScheduleAssumption DEF WaitBounded
<1>4. again \in 0 .. Overlap /\ feed.failures + again <= MaxFailures + Overlap
  BY <1>2, ScheduleAssumption, CadenceAssumption
<1> QED
  BY <1>1, <1>2, <1>3, <1>4 DEF CadenceInv

\* A visit that leaves a sound row keeps the invariant: a sweep chose the feed below the
\* limit and at most Overlap jobs follow, or one of those jobs ran.
LEMMA VisitKeeps ==
  ASSUME CadenceInv, NEW next, Visit(next), Visited(feed, next), asked' \in BOOLEAN
  PROVE  CadenceInv'
<1>1. /\ feed.failures \in Nat /\ feed.interval \in Nat /\ next.failures \in Nat
      /\ next.failures <= feed.failures + 1 /\ next \in Rows /\ WaitBounded(next)
  BY DEF CadenceInv, Visited, Rows
<1>2. feed' = next /\ again \in Nat /\ Overlap \in Nat /\ MaxFailures \in Nat
  BY CadenceAssumption, ScheduleAssumption DEF Visit, CadenceInv
<1>3. CASE DueVisit(next)
  <2>1. again' \in 0 .. Overlap /\ next.failures + again' <= MaxFailures + Overlap
    BY <1>1, <1>2, <1>3 DEF DueVisit
  <2>2. down' \in Nat
    BY <1>1, <1>3 DEF DueVisit, CadenceInv
  <2> QED
    BY <1>1, <1>2, <2>1, <2>2 DEF CadenceInv, WaitBounded
<1>4. CASE OverlappingVisit(next)
  <2>1. again' \in 0 .. Overlap /\ next.failures + again' <= MaxFailures + Overlap
    BY <1>1, <1>2, <1>4 DEF OverlappingVisit, CadenceInv
  <2>2. down' \in Nat
    BY <1>1, <1>4 DEF OverlappingVisit, CadenceInv
  <2> QED
    BY <1>1, <1>2, <2>1, <2>2 DEF CadenceInv, WaitBounded
<1> QED
  BY <1>3, <1>4 DEF Visit

LEMMA CadenceInductive == CadenceInv /\ [CadenceNext]_cadenceVars => CadenceInv'
<1> SUFFICES ASSUME CadenceInv, [CadenceNext]_cadenceVars PROVE CadenceInv'
  OBVIOUS
<1>1. PICK r : r = feed
  OBVIOUS
<1>2. r \in Rows /\ asked \in BOOLEAN
  BY <1>1 DEF CadenceInv
<1>3. ASSUME NEW ttl \in Ttls, NEW newItems \in 0 .. 1, Publishes(ttl, newItems)
      PROVE  CadenceInv'
  <2>1. PICK d : d = Stored(r, NoTag, ttl, newItems)
    OBVIOUS
  <2>2. Visit(d) /\ asked' = FALSE
    BY <1>1, <1>3, <2>1 DEF Publishes
  <2>3. ttl \in Nat
    BY CadenceAssumption
  <2>4. Visited(r, d)
    BY <1>2, <2>1, <2>3, StoredRow
  <2> QED
    BY <1>1, <2>2, <2>4, VisitKeeps
<1>4. CASE Quiet
  <2>1. PICK d : d = NotModified(r)
    OBVIOUS
  <2>2. Visit(d) /\ asked' = FALSE /\ Visited(r, d)
    BY <1>1, <1>2, <1>4, <2>1, NotModifiedRow DEF Quiet
  <2> QED
    BY <1>1, <2>2, VisitKeeps
<1>5. CASE Forbidden
  <2>1. PICK d : d = Disallowed(r)
    OBVIOUS
  <2>2. Visit(d) /\ asked' = (asked /\ feed'.failures > 0) /\ Visited(r, d)
    BY <1>1, <1>2, <1>5, <2>1, DisallowedRow DEF Forbidden
  <2>3. asked' \in BOOLEAN
    BY <1>2, <2>2
  <2> QED
    BY <1>1, <2>2, <2>3, VisitKeeps
<1>6. CASE Fails
  <2>1. PICK d : d = Failed(r, FALSE)
    OBVIOUS
  <2>2. Visit(d) /\ asked' = asked /\ Visited(r, d)
    BY <1>1, <1>2, <1>6, <2>1, FailedRow DEF Fails
  <2> QED
    BY <1>1, <1>2, <2>2, VisitKeeps
<1>7. ASSUME NEW header \in Headers, IsLimited(header) PROVE CadenceInv'
  <2>1. PICK d : d = Limited(r, header)
    OBVIOUS
  <2>2. Visit(d) /\ asked' = TRUE /\ Visited(r, d)
    BY <1>1, <1>2, <1>7, <2>1, LimitedRow DEF IsLimited
  <2> QED
    BY <1>1, <2>2, VisitKeeps
<1>8. CASE UNCHANGED cadenceVars
  BY <1>8 DEF cadenceVars, CadenceInv, WaitBounded
<1> QED
  BY <1>3, <1>4, <1>5, <1>6, <1>7, <1>8 DEF CadenceNext

LEMMA CadenceAlways == CadenceSpec => []CadenceInv
  BY CadenceInitially, CadenceInductive, PTL DEF CadenceSpec

\* The row of a feed keeps its types through every sequence of answers, and its run of
\* failures passes the limit by no more jobs than may be left behind one visit: the sweep
\* applies the limit and the jobs do not (service.py:50, 76).
THEOREM CadenceTypes == CadenceSpec => []CadenceTypeOK
<1>1. CadenceInv => CadenceTypeOK
  BY ScheduleAssumption, CadenceAssumption DEF CadenceInv, CadenceTypeOK, Rows
<1> QED
  BY <1>1, CadenceAlways, PTL

\* For every setting of the bounds, every <ttl> and every Retry-After: a feed that answers is
\* seen again within the healthy ceiling, none is parked past the longest backoff, unless its
\* own <ttl> asks for longer, and <ttl> is never undercut (schedule.next_interval).
THEOREM WaitsAreBounded == CadenceSpec => []WaitInBounds
<1>1. CadenceInv => WaitInBounds
  <2> SUFFICES ASSUME CadenceInv PROVE WaitInBounds
    OBVIOUS
  <2>1. feed.interval \in Nat /\ feed.ttl \in Nat
    BY DEF CadenceInv, Rows
  <2>2. QuietBound
    BY <2>1, ScheduleAssumption DEF CadenceInv, WaitBounded, QuietBound, Answered, Larger
  <2>3. ParkedAtMost
    BY <2>1, ScheduleAssumption DEF CadenceInv, WaitBounded, ParkedAtMost, Larger
  <2>4. TtlKept
    BY DEF CadenceInv, WaitBounded, TtlKept
  <2> QED
    BY <2>2, <2>3, <2>4 DEF WaitInBounds
<1> QED
  BY <1>1, CadenceAlways, PTL

-----------------------------------------------------------------------------
(* How long a feed is down before it is given up.                          *)

\* Of the subsets of a set, half hold any one of its elements.
LEMMA SubsetsDouble ==
  ASSUME NEW A, IsFiniteSet(A), NEW x, x \notin A
  PROVE  Cardinality(SUBSET (A \cup {x})) = 2 * Cardinality(SUBSET A)
<1>1. PICK old : old = SUBSET A
  OBVIOUS
<1>2. PICK new : new = {S \in SUBSET (A \cup {x}) : x \in S}
  OBVIOUS
<1>3. PICK f : f = [S \in old |-> S \cup {x}]
  OBVIOUS
<1>4. IsFiniteSet(old)
  BY <1>1, FS_SUBSET
<1>5. \A S \in old : x \notin S /\ S \cup {x} \in new
  BY <1>1, <1>2
<1>6. f \in [old -> new]
  BY <1>3, <1>5
<1>7. \A S, T \in old : f[S] = f[T] => S = T
  <2>1. TAKE S \in old, T \in old
  <2>2. HAVE f[S] = f[T]
  <2>3. S \cup {x} = T \cup {x}
    BY <1>3, <2>2
  <2> QED
    BY <1>5, <2>3
<1>8. \A T \in new : \E S \in old : f[S] = T
  <2>1. TAKE T \in new
  <2>2. x \in T /\ T \subseteq A \cup {x}
    BY <1>2
  <2>3. PICK S : S = T \ {x}
    OBVIOUS
  <2>4. S \in old
    BY <1>1, <2>2, <2>3
  <2>5. S \cup {x} = T
    BY <2>2, <2>3
  <2> QED
    BY <1>3, <2>4, <2>5
<1>9. f \in Injection(old, new)
  BY <1>6, <1>7 DEF Injection, IsInjective
<1>10. f \in Surjection(old, new)
  BY <1>6, <1>8 DEF Surjection
<1>11. ExistsBijection(old, new)
  BY <1>9, <1>10 DEF ExistsBijection, Bijection
<1>12. IsFiniteSet(new) /\ Cardinality(new) = Cardinality(old)
  BY <1>4, <1>11, FS_Bijection
<1>13. old \cap new = {}
  BY <1>2, <1>5
<1>14. old \cup new = SUBSET (A \cup {x})
  <2>1. \A S : S \subseteq A \cup {x} <=> S \subseteq A \/ (S \subseteq A \cup {x} /\ x \in S)
    OBVIOUS
  <2> QED
    BY <1>1, <1>2, <2>1
<1>15. Cardinality(old \cup new) = Cardinality(old) + Cardinality(new) - Cardinality(old \cap new)
  BY <1>4, <1>12, FS_Union
<1>16. Cardinality(old \cap new) = 0
  BY <1>13, FS_EmptySet
<1>17. Cardinality(old) \in Nat
  BY <1>4, FS_CardinalityType
<1>18. Cardinality(old \cup new) = 2 * Cardinality(old)
  BY <1>12, <1>15, <1>16, <1>17
<1> QED
  BY <1>1, <1>14, <1>18

\* One failure more doubles the wait.
LEMMA Doubling ==
  ASSUME NEW n \in Nat
  PROVE  2 ^ (n + 1) = 2 * 2 ^ n
<1>1. /\ IsFiniteSet(1 .. n) /\ Cardinality(1 .. n) = n
      /\ IsFiniteSet(1 .. n + 1) /\ Cardinality(1 .. n + 1) = n + 1
  BY FS_Interval
<1>2. 1 .. n + 1 = (1 .. n) \cup {n + 1} /\ n + 1 \notin 1 .. n
  OBVIOUS
<1>3. Cardinality(SUBSET (1 .. n + 1)) = 2 * Cardinality(SUBSET (1 .. n))
  BY <1>1, <1>2, SubsetsDouble
<1>4. Cardinality(SUBSET (1 .. n)) = 2 ^ n /\ Cardinality(SUBSET (1 .. n + 1)) = 2 ^ (n + 1)
  BY <1>1, FS_SUBSET
<1> QED
  BY <1>3, <1>4

LEMMA SmallPowers ==
  /\ 2 ^ 1 = 2 /\ 2 ^ 2 = 4 /\ 2 ^ 3 = 8 /\ 2 ^ 4 = 16 /\ 2 ^ 5 = 32 /\ 2 ^ 6 = 64
  /\ 2 ^ 7 = 128
<1>1. 2 ^ 0 = 1
  <2>1. IsFiniteSet({}) /\ Cardinality({}) = 0
    BY FS_EmptySet
  <2>2. Cardinality(SUBSET {}) = 2 ^ 0
    BY <2>1, FS_SUBSET
  <2>3. SUBSET {} = {{}}
    OBVIOUS
  <2> QED
    BY <2>2, <2>3, FS_Singleton
<1>2. 2 ^ (0 + 1) = 2 * 2 ^ 0 /\ 2 ^ (1 + 1) = 2 * 2 ^ 1 /\ 2 ^ (2 + 1) = 2 * 2 ^ 2
  BY Doubling
<1>3. 2 ^ (3 + 1) = 2 * 2 ^ 3 /\ 2 ^ (4 + 1) = 2 * 2 ^ 4 /\ 2 ^ (5 + 1) = 2 * 2 ^ 5
      /\ 2 ^ (6 + 1) = 2 * 2 ^ 6
  BY Doubling
<1>4. 0 + 1 = 1 /\ 1 + 1 = 2 /\ 2 + 1 = 3 /\ 3 + 1 = 4 /\ 4 + 1 = 5 /\ 5 + 1 = 6 /\ 6 + 1 = 7
  OBVIOUS
<1>5. 2 ^ 1 = 2 /\ 2 ^ 2 = 4 /\ 2 ^ 3 = 8
  BY <1>1, <1>2, <1>4
<1> QED
  BY <1>3, <1>4, <1>5

\* More failures never shorten a wait.
LEMMA PowersGrow ==
  ASSUME NEW m \in Nat, NEW n \in Nat, m <= n
  PROVE  2 ^ m <= 2 ^ n
<1>1. /\ IsFiniteSet(1 .. m) /\ Cardinality(1 .. m) = m
      /\ IsFiniteSet(1 .. n) /\ Cardinality(1 .. n) = n
  BY FS_Interval
<1>2. /\ Cardinality(SUBSET (1 .. m)) = 2 ^ m
      /\ IsFiniteSet(SUBSET (1 .. n)) /\ Cardinality(SUBSET (1 .. n)) = 2 ^ n
  BY <1>1, FS_SUBSET
<1>3. SUBSET (1 .. m) \subseteq SUBSET (1 .. n)
  OBVIOUS
<1> QED
  BY <1>2, <1>3, FS_Subset

\* Bounds at least as patient as the shipped ones (config/ingest.py:9-18).
Patient ==
  DefaultInterval >= 900 /\ MaxBackoff >= 86400 /\ MaxFailures >= 10 /\ Overlap <= 2

\* The wait after the n-th failure of a run, and how long the run has lasted by then.
LongWait(n, w) ==
  /\ n >= 1 => w >= 1800
  /\ n >= 2 => w >= 3600
  /\ n >= 3 => w >= 7200
  /\ n >= 4 => w >= 14400
  /\ n >= 5 => w >= 28800
  /\ n >= 6 => w >= 57600
  /\ n >= 7 => w >= 86400

LongOutage(n, seconds) ==
  /\ n >= 4 => seconds >= 1800
  /\ n >= 7 => seconds >= 16200
  /\ n >= 10 => seconds >= 102600

LEMMA FailureWaitsLong ==
  ASSUME Patient, NEW n \in Nat, NEW w, w = IntervalFrom(WaitingOut, n, DefaultInterval)
  PROVE  w \in Nat /\ LongWait(n, w)
<1>1. PICK power : power = 2 ^ n
  OBVIOUS
<1>2. /\ power \in Nat
      /\ n >= 1 => power >= 2
      /\ n >= 2 => power >= 4
      /\ n >= 3 => power >= 8
      /\ n >= 4 => power >= 16
      /\ n >= 5 => power >= 32
      /\ n >= 6 => power >= 64
      /\ n >= 7 => power >= 128
  <2>1. \A m \in Nat : m <= n => 2 ^ m <= power
    BY <1>1, PowersGrow
  <2>2. /\ n >= 1 => 2 ^ 1 <= power
        /\ n >= 2 => 2 ^ 2 <= power
        /\ n >= 3 => 2 ^ 3 <= power
        /\ n >= 4 => 2 ^ 4 <= power
        /\ n >= 5 => 2 ^ 5 <= power
        /\ n >= 6 => 2 ^ 6 <= power
        /\ n >= 7 => 2 ^ 7 <= power
    BY <2>1
  <2>3. power \in Nat
    BY <1>1, PowerOfTwo
  <2> QED
    BY <2>2, <2>3, SmallPowers
<1>3. PICK grown : grown = DefaultInterval * power
  OBVIOUS
<1>4. grown \in Nat /\ grown >= 900 * power
  BY <1>2, <1>3, ScheduleAssumption DEF Patient
<1>5. w = Clamp(grown, Bounds(MaxBackoff))
  BY <1>1, <1>3 DEF IntervalFrom, WaitingOut, Bounds
<1>6. w \in Nat /\ (w >= grown \/ w >= 86400)
  BY <1>4, <1>5, ScheduleAssumption DEF Clamp, Bounds, Patient
<1> QED
  BY <1>2, <1>4, <1>6 DEF LongWait

\* A visit that fails of the feed's own adds its whole wait to the outage.
LEMMA FailedWaitsLong ==
  ASSUME Patient, NEW r \in Rows, NEW d, d = Failed(r, FALSE)
  PROVE  d.failures = r.failures + 1 /\ d.interval \in Nat /\ LongWait(d.failures, d.interval)
<1>1. PICK l : l = Logged(r, "failed")
  OBVIOUS
<1>2. PICK m : m = [l EXCEPT !.gone = @ \/ FALSE]
  OBVIOUS
<1>3. l \in Rows /\ l.failures = r.failures + 1
  <2>1. l \in Rows
    BY <1>1, LoggedRow DEF Outcomes
  <2>2. l = [r EXCEPT !.outcome = "failed", !.failures = @ + 1]
    BY <1>1 DEF Logged
  <2> QED
    BY <2>1, <2>2 DEF Rows
<1>4. m \in Rows /\ m.failures = r.failures + 1
  BY <1>2, <1>3 DEF Rows
<1>5. PICK w : w = NextInterval(0, m.failures, 0, m.ttl)
  OBVIOUS
<1>6. d = [m EXCEPT !.interval = w]
  BY <1>1, <1>2, <1>5 DEF Failed
<1>7. m.failures \in Nat /\ m.failures > 0 /\ m.ttl \in Nat
  BY <1>4 DEF Rows
<1>8. PICK own : own = IntervalFrom(WaitingOut, m.failures, DefaultInterval)
  OBVIOUS
<1>9. own \in Nat /\ LongWait(m.failures, own)
  BY <1>7, <1>8, FailureWaitsLong
<1>10. w = IF HonourTtl /\ m.ttl > own THEN m.ttl ELSE own
  BY <1>5, <1>7, <1>8 DEF NextInterval, Floored
<1>11. w \in Nat /\ w >= own
  BY <1>7, <1>9, <1>10
<1>12. LongWait(m.failures, w)
  BY <1>7, <1>9, <1>11 DEF LongWait
<1>13. d.failures = m.failures /\ d.interval = w
  BY <1>4, <1>6 DEF Rows
<1> QED
  BY <1>4, <1>11, <1>12, <1>13

\* A run in which nobody named a wait: the failures logged, and those the jobs left behind
\* may still log, were paid for by the full waits between the sweeps that chose the feed.
OutageInv ==
  /\ asked => feed.failures > 0
  /\ ~ asked /\ feed.failures > 0 =>
       LongWait(feed.failures, feed.interval) /\ LongOutage(feed.failures + again, down)

\* A full wait pays for three failures more: the one it was for, and two that overlap it.
LEMMA OutageGrows ==
  ASSUME NEW n \in Nat, n > 0, NEW k \in Nat, NEW next \in Nat, next <= n + 3,
         NEW w \in Nat, NEW seconds \in Nat,
         LongWait(n, w), LongOutage(n + k, seconds)
  PROVE  LongOutage(next, seconds + w)
BY DEF LongWait, LongOutage

\* A visit that does not fail ends the run.
LEMMA RunEnds ==
  ASSUME CadenceInv, NEW next, Visit(next), next.failures = 0, asked' = FALSE
  PROVE  OutageInv'
BY DEF Visit, OutageInv

LEMMA OutageInductive ==
  ASSUME Patient
  PROVE  CadenceInv /\ OutageInv /\ [CadenceNext]_cadenceVars => OutageInv'
<1> SUFFICES ASSUME CadenceInv, OutageInv, [CadenceNext]_cadenceVars PROVE OutageInv'
  OBVIOUS
<1>1. PICK r : r = feed
  OBVIOUS
<1>2. r \in Rows /\ asked \in BOOLEAN /\ down \in Nat /\ r.failures \in Nat /\ r.interval \in Nat
  BY <1>1 DEF CadenceInv, Rows
<1>3. ASSUME NEW ttl \in Ttls, NEW newItems \in 0 .. 1, Publishes(ttl, newItems)
      PROVE  OutageInv'
  <2>1. PICK d : d = Stored(r, NoTag, ttl, newItems)
    OBVIOUS
  <2>2. d.failures = 0
    BY <1>2, <2>1 DEF Stored, Rescheduled, Logged, Rows
  <2>3. Visit(d) /\ asked' = FALSE
    BY <1>1, <1>3, <2>1 DEF Publishes
  <2> QED
    BY <2>2, <2>3, RunEnds
<1>4. CASE Quiet
  <2>1. PICK d : d = NotModified(r)
    OBVIOUS
  <2>2. d.failures = 0
    BY <1>2, <2>1 DEF NotModified, Rescheduled, Logged, Rows
  <2>3. Visit(d) /\ asked' = FALSE
    BY <1>1, <1>4, <2>1 DEF Quiet
  <2> QED
    BY <2>2, <2>3, RunEnds
<1>5. CASE Forbidden
  <2>1. PICK d : d = Disallowed(r)
    OBVIOUS
  <2>2. d.failures = 0
    BY <1>2, <2>1 DEF Disallowed, Logged, Rows
  <2>3. Visit(d) /\ feed' = d /\ asked' = (asked /\ feed'.failures > 0)
    BY <1>1, <1>5, <2>1 DEF Forbidden, Visit
  <2>4. ~ (feed'.failures > 0)
    BY <2>2, <2>3
  <2>5. asked' = FALSE
    BY <2>3, <2>4, Zenon
  <2> QED
    BY <2>2, <2>3, <2>5, RunEnds
<1>6. CASE Fails
  <2>1. PICK d : d = Failed(r, FALSE)
    OBVIOUS
  <2>2. /\ d.failures = r.failures + 1
        /\ Patient => d.interval \in Nat /\ LongWait(d.failures, d.interval)
    BY <1>2, <2>1, FailedWaitsLong
  <2>3. feed' = d /\ asked' = asked /\ (DueVisit(d) \/ OverlappingVisit(d))
    BY <1>1, <1>6, <2>1 DEF Fails, Visit
  <2>4. ASSUME ~ asked PROVE LongOutage(d.failures + again', down')
    <3>1. Overlap \in Nat /\ Overlap <= 2 /\ again \in 0 .. Overlap
      BY CadenceAssumption DEF Patient, CadenceInv
    <3>2. r.failures > 0 => /\ LongWait(r.failures, r.interval)
                            /\ LongOutage(r.failures + again, down)
      BY <1>1, <2>4 DEF OutageInv
    <3>3. CASE DueVisit(d)
      <4>1. again' \in Nat /\ d.failures + again' \in Nat
            /\ d.failures + again' <= r.failures + 3
        BY <1>2, <2>2, <3>1, <3>3 DEF DueVisit
      <4>2. CASE r.failures = 0
        BY <4>1, <4>2 DEF LongOutage
      <4>3. CASE r.failures > 0
        <5>1. down' = down + r.interval
          BY <1>1, <1>2, <2>2, <3>3, <4>3 DEF DueVisit
        <5>2. again \in Nat
          BY <3>1
        <5> QED
          BY <1>2, <3>2, <4>1, <4>3, <5>1, <5>2, OutageGrows
      <4> QED
        BY <1>2, <4>2, <4>3
    <3>4. CASE OverlappingVisit(d)
      <4>1. /\ d.failures + again' \in Nat /\ r.failures + again \in Nat
            /\ d.failures + again' <= r.failures + again
            /\ d.failures + again' <= r.failures + 2
        BY <1>2, <2>2, <3>1, <3>4 DEF OverlappingVisit
      <4>2. down' = down
        BY <1>2, <2>2, <3>4 DEF OverlappingVisit
      <4>3. CASE r.failures = 0
        BY <4>1, <4>3 DEF LongOutage
      <4>4. CASE r.failures > 0
        BY <1>2, <2>2, <3>2, <4>1, <4>2, <4>4 DEF LongOutage
      <4> QED
        BY <1>2, <4>3, <4>4
    <3> QED
      BY <2>3, <3>3, <3>4
  <2>5. d.failures > 0
    BY <1>2, <2>2
  <2> QED
    BY <2>2, <2>3, <2>4, <2>5 DEF OutageInv
<1>7. ASSUME NEW header \in Headers, IsLimited(header) PROVE OutageInv'
  <2>1. PICK d : d = Limited(r, header)
    OBVIOUS
  <2>2. d.failures > 0
    BY <1>2, <2>1 DEF Limited, Logged, Rows
  <2>3. feed' = d /\ asked' = TRUE
    BY <1>1, <1>7, <2>1 DEF IsLimited, Visit
  <2> QED
    BY <2>2, <2>3 DEF OutageInv
<1>8. CASE UNCHANGED cadenceVars
  BY <1>8 DEF cadenceVars, OutageInv
<1> QED
  BY <1>3, <1>4, <1>5, <1>6, <1>7, <1>8 DEF CadenceNext

\* A feed is given up only after more than a day of outage, for any bounds at least as
\* patient as the shipped ones and at most two jobs left behind a visit, however its polls
\* overlap: a Retry-After is the only way to hurry the limit further.
THEOREM OutagesLastADay ==
  ASSUME Patient
  PROVE  CadenceSpec => []GiveUpTakesADay
<1>1. CadenceInit => OutageInv
  BY DEF CadenceInit, FreshRow, OutageInv
<1>2. CadenceInv /\ OutageInv /\ [CadenceNext]_cadenceVars => OutageInv'
  BY OutageInductive
<1>3. CadenceInv /\ OutageInv => GiveUpTakesADay
  <2> SUFFICES ASSUME CadenceInv, OutageInv, feed.failures >= MaxFailures, ~ asked
               PROVE  down > 24 * 60 * 60
    BY DEF GiveUpTakesADay
  <2>1. feed.failures \in Nat /\ again \in Nat /\ down \in Nat
    BY CadenceAssumption DEF CadenceInv, Rows
  <2>2. feed.failures >= 10
    BY <2>1, ScheduleAssumption DEF Patient
  <2>3. LongOutage(feed.failures + again, down)
    BY <2>1, <2>2 DEF OutageInv
  <2>4. feed.failures + again \in Nat /\ feed.failures + again >= 10
    BY <2>1, <2>2
  <2>5. down >= 102600
    BY <2>3, <2>4 DEF LongOutage
  <2> QED
    BY <2>1, <2>5
<1> QED
  BY <1>1, <1>2, <1>3, CadenceAlways, PTL DEF CadenceSpec

-----------------------------------------------------------------------------
(* The inductive invariant of Polling.                                     *)

Shape ==
  /\ site \in [Feeds -> Bodies] /\ followed \subseteq Feeds
  /\ row \in [Feeds -> Rows]
  /\ latest \in [Feeds -> Bodies \cup {NoBody}]
  /\ todo \subseteq Feeds /\ stuck \subseteq Feeds
  /\ job \in [Slots -> Jobs]

\* HostExclusive, of the polls in doing and of those whose worker died.
Exclusive ==
  /\ \A s, t \in Slots :
       s # t /\ Polled(s) /\ Polled(t) => HostOf[job[s].feed] # HostOf[job[t].feed]
  /\ \A s \in Slots, f \in stuck : Polled(s) => HostOf[job[s].feed] # HostOf[f]

\* What may still fail of a feed: a sweep that will defer it, or a poll not yet recorded.
Pends(s, f) ==
  \/ job[s].task = "sweep" /\ f \in job[s].left
  \/ Polled(s) /\ job[s].feed = f /\ job[s].pc # "done"
Pending(f) == {s \in Slots : Pends(s, f)}
Queued(f) == IF f \in todo THEN 1 ELSE 0

Runs ==
  \A f \in Feeds :
    row[f].failures + Cardinality(Pending(f)) + Queued(f) <= MaxFailures + Cardinality(Slots)

IInv == Shape /\ Exclusive /\ GoneIsFinal /\ ValidatorBacked /\ Runs

-----------------------------------------------------------------------------
(* Jobs.                                                                   *)

\* What a slot runs is nothing, a sweep or a poll, and what it knows.
LEMMA JobKinds ==
  ASSUME NEW j \in Jobs
  PROVE  /\ j.task \in {"none", "sweep", "poll"}
         /\ j.task = "none" => j = NoJob
         /\ j.task = "sweep" => j.left \subseteq Feeds
         /\ j.task = "poll" =>
              /\ j.feed \in Feeds /\ j.pc \in {"begin", "asking", "answered", "done"}
              /\ j.age \in 0 .. MaxAge
              /\ j.pc = "asking" => j.etag \in Bodies \cup {NoTag}
              /\ j.pc = "answered" => j.reply \in Replies
  BY DEF Jobs, NoJob, Sweep

\* The jobs the code makes.
LEMMA JobsMade ==
  /\ NoJob \in Jobs
  /\ \A left \in SUBSET Feeds : Sweep(left) \in Jobs
  /\ \A f \in Feeds : Poll(f) \in Jobs
<1>1. 0 \in 0 .. MaxAge
  BY PollingAssumption
<1>2. ASSUME NEW f \in Feeds
      PROVE  Poll(f) \in [task : {"poll"}, feed : Feeds, pc : {"begin", "done"}, age : 0 .. MaxAge]
  BY <1>1 DEF Poll
<1>3. \A left \in SUBSET Feeds : Sweep(left) \in [task : {"sweep"}, left : SUBSET Feeds]
  BY DEF Sweep
<1> QED BY <1>2, <1>3 DEF Jobs

\* A poll that is a minute older is otherwise the same.
LEMMA Aged ==
  ASSUME NEW j \in Jobs, j.task = "poll", j.age < MaxAge, NEW d, d = [j EXCEPT !.age = @ + 1]
  PROVE  d \in Jobs /\ d.task = "poll" /\ d.feed = j.feed /\ d.pc = j.pc
<1>1. MaxAge \in Nat
  BY PollingAssumption
<1>2. CASE j \in [task : {"poll"}, feed : Feeds, pc : {"begin", "done"}, age : 0 .. MaxAge]
  BY <1>1, <1>2 DEF Jobs
<1>3. CASE j \in [task : {"poll"}, feed : Feeds, pc : {"asking"}, age : 0 .. MaxAge,
                  etag : Bodies \cup {NoTag}]
  BY <1>1, <1>3 DEF Jobs
<1>4. CASE j \in [task : {"poll"}, feed : Feeds, pc : {"answered"}, age : 0 .. MaxAge,
                  reply : Replies]
  BY <1>1, <1>4 DEF Jobs
<1> QED BY <1>2, <1>3, <1>4 DEF Jobs, NoJob, Sweep

-----------------------------------------------------------------------------
(* What is kept by steps that leave it alone.                              *)

LEMMA SlotMoves ==
  ASSUME IInv, NEW s \in Slots, NEW j \in Jobs, job' = [job EXCEPT ![s] = j]
  PROVE  /\ job' \in [Slots -> Jobs] /\ job'[s] = j
         /\ \A t \in Slots \ {s} : job'[t] = job[t]
  BY DEF IInv, Shape

\* Polls that go on, and no new ones.
LEMMA ExclusiveKept ==
  ASSUME IInv, stuck' = stuck,
         \A t \in Slots : Polled(t)' => Polled(t) /\ job'[t].feed = job[t].feed
  PROVE  Exclusive'
  BY DEF IInv, Exclusive, Polled

\* No poll has begun to ask, and no row has changed.
LEMMA GoneKept ==
  ASSUME IInv, row' = row,
         \A t \in Slots :
           Polled(t)' /\ job'[t].pc \in {"asking", "answered"} =>
             \/ ~ row[job'[t].feed].gone
             \/ /\ Polled(t) /\ job[t].pc \in {"asking", "answered"}
                /\ job'[t].feed = job[t].feed
  PROVE  GoneIsFinal'
  BY DEF IInv, GoneIsFinal, At, Polled

LEMMA PendingIsFinite ==
  \A f : IsFiniteSet(Pending(f)) /\ Cardinality(Pending(f)) \in Nat
         /\ Cardinality(Pending(f)) <= Cardinality(Slots) /\ Cardinality(Slots) \in Nat
<1> SUFFICES ASSUME NEW f
             PROVE  /\ IsFiniteSet(Pending(f)) /\ Cardinality(Pending(f)) \in Nat
                    /\ Cardinality(Pending(f)) <= Cardinality(Slots) /\ Cardinality(Slots) \in Nat
  OBVIOUS
<1>1. IsFiniteSet(Slots) /\ Pending(f) \subseteq Slots
  BY PollingAssumption DEF Pending
<1> QED BY <1>1, FS_Subset, FS_CardinalityType

LEMMA PendingIsFiniteNext ==
  \A f : IsFiniteSet(Pending(f)') /\ Cardinality(Pending(f)') \in Nat
         /\ Cardinality(Pending(f)') <= Cardinality(Slots)
<1> SUFFICES ASSUME NEW f
             PROVE  /\ IsFiniteSet(Pending(f)') /\ Cardinality(Pending(f)') \in Nat
                    /\ Cardinality(Pending(f)') <= Cardinality(Slots)
  OBVIOUS
<1>1. IsFiniteSet(Slots) /\ Pending(f)' \subseteq Slots
  BY PollingAssumption DEF Pending
<1> QED BY <1>1, FS_Subset, FS_CardinalityType

\* One feed's run and what may still add to it: no more than before.
RunKept(f) ==
  row'[f].failures + Cardinality(Pending(f)') + Queued(f)'
    <= MaxFailures + Cardinality(Slots)

LEMMA FailuresAreNat == IInv => \A f \in Feeds : row[f].failures \in Nat
<1> SUFFICES ASSUME IInv, NEW f \in Feeds PROVE row[f].failures \in Nat
  OBVIOUS
<1>1. row \in [Feeds -> Rows]
  BY DEF IInv, Shape
<1> QED BY <1>1 DEF Rows

LEMMA RunNotLonger ==
  ASSUME IInv, NEW f \in Feeds, row'[f].failures = row[f].failures,
         \A s \in Slots : Pends(s, f)' => Pends(s, f), f \in todo' => f \in todo
  PROVE  RunKept(f)
<1>1. Pending(f)' \subseteq Pending(f)
  BY DEF Pending
<1>2. Cardinality(Pending(f)') <= Cardinality(Pending(f))
  BY <1>1, PendingIsFinite, FS_Subset
<1>3. Queued(f)' <= Queued(f) /\ Queued(f) \in 0 .. 1 /\ Queued(f)' \in 0 .. 1
  BY DEF Queued
<1>4. row[f].failures + Cardinality(Pending(f)) + Queued(f) <= MaxFailures + Cardinality(Slots)
  BY DEF IInv, Runs
<1> QED BY <1>2, <1>3, <1>4, FailuresAreNat, PendingIsFinite, PendingIsFiniteNext,
           ScheduleAssumption DEF RunKept

\* A slot that has done with the feed makes room for one more: a failure, or a waiting job.
LEMMA RunPassedOn ==
  ASSUME IInv, NEW f \in Feeds, NEW s \in Slots, Pends(s, f), ~ Pends(s, f)',
         \A t \in Slots \ {s} : Pends(t, f)' => Pends(t, f)
  PROVE  Cardinality(Pending(f)') + 1 <= Cardinality(Pending(f))
<1>1. Pending(f)' \subseteq Pending(f) \ {s} /\ s \in Pending(f)
  BY DEF Pending
<1>2. /\ IsFiniteSet(Pending(f) \ {s})
      /\ Cardinality(Pending(f) \ {s}) = Cardinality(Pending(f)) - 1
  BY <1>1, PendingIsFinite, FS_RemoveElement
<1>3. Cardinality(Pending(f)') <= Cardinality(Pending(f) \ {s})
  BY <1>1, <1>2, FS_Subset
<1> QED BY <1>2, <1>3, PendingIsFinite, PendingIsFiniteNext

\* And a slot that takes a job from the queue counts for the one that waited.
LEMMA RunTaken ==
  ASSUME IInv, NEW f \in Feeds, NEW s \in Slots, row'[f].failures = row[f].failures,
         \A t \in Slots \ {s} : Pends(t, f)' => Pends(t, f),
         f \in todo, f \notin todo'
  PROVE  RunKept(f)
<1>1. Pending(f)' \subseteq Pending(f) \cup {s}
  BY DEF Pending
<1>2. /\ IsFiniteSet(Pending(f) \cup {s})
      /\ Cardinality(Pending(f) \cup {s}) <= Cardinality(Pending(f)) + 1
  <2>1. IsFiniteSet(Pending(f)) /\ Cardinality(Pending(f)) \in Nat
    BY PendingIsFinite
  <2>2. CASE s \in Pending(f)
    <3>1. Pending(f) \cup {s} = Pending(f)
      BY <2>2
    <3>2. Cardinality(Pending(f) \cup {s}) = Cardinality(Pending(f))
      BY <3>1
    <3>3. IsFiniteSet(Pending(f) \cup {s})
      BY <2>1, <3>1
    <3> QED BY <2>1, <3>2, <3>3
  <2>3. CASE s \notin Pending(f)
    <3>1. /\ IsFiniteSet(Pending(f) \cup {s})
          /\ Cardinality(Pending(f) \cup {s}) = Cardinality(Pending(f)) + 1
      BY <2>1, <2>3, FS_AddElement
    <3> QED BY <2>1, <3>1
  <2> QED BY <2>2, <2>3
<1>3. Cardinality(Pending(f)') <= Cardinality(Pending(f) \cup {s})
  BY <1>1, <1>2, FS_Subset
<1>4. Queued(f) = 1 /\ Queued(f)' = 0
  BY DEF Queued
<1>5. row[f].failures + Cardinality(Pending(f)) + Queued(f) <= MaxFailures + Cardinality(Slots)
  BY DEF IInv, Runs
<1>6. Cardinality(Pending(f) \cup {s}) \in Nat
  BY <1>2, FS_CardinalityType
<1> QED BY <1>2, <1>3, <1>4, <1>5, <1>6, FailuresAreNat, PendingIsFinite, PendingIsFiniteNext,
           ScheduleAssumption DEF RunKept

LEMMA RunsKept ==
  ASSUME \A f \in Feeds : RunKept(f)
  PROVE  Runs'
  BY DEF RunKept, Runs
-----------------------------------------------------------------------------
(* Every step.                                                             *)

LEMMA TickKeeps == IInv /\ Tick => IInv'
<1> SUFFICES ASSUME IInv, Tick PROVE IInv'
  OBVIOUS
<1>1. /\ \A s \in Slots : Polled(s) => job[s].age < MaxAge
      /\ job' = [s \in Slots |-> IF Polled(s) THEN [job[s] EXCEPT !.age = @ + 1] ELSE job[s]]
      /\ UNCHANGED <<site, followed, row, latest, todo, stuck>>
  BY DEF Tick, publisher
<1>2. ASSUME NEW s \in Slots
      PROVE  /\ job'[s] \in Jobs /\ job'[s].task = job[s].task
             /\ Polled(s) => job'[s].feed = job[s].feed /\ job'[s].pc = job[s].pc
             /\ ~ Polled(s) => job'[s] = job[s]
  <2>1. job[s] \in Jobs
    BY DEF IInv, Shape
  <2>2. CASE Polled(s)
    <3>1. PICK j : j = job[s]
      OBVIOUS
    <3>2. PICK d : d = [j EXCEPT !.age = @ + 1]
      OBVIOUS
    <3>3. job'[s] = d
      BY <1>1, <2>2, <3>1, <3>2
    <3>4. j \in Jobs /\ j.task = "poll" /\ j.age < MaxAge
      BY <1>1, <2>1, <2>2, <3>1 DEF Polled
    <3>5. d \in Jobs /\ d.task = "poll" /\ d.feed = j.feed /\ d.pc = j.pc
      BY <3>2, <3>4, Aged
    <3> QED BY <2>2, <3>1, <3>3, <3>4, <3>5
  <2>3. CASE ~ Polled(s)
    <3>1. job'[s] = job[s]
      BY <1>1, <2>3
    <3> QED BY <2>1, <2>3, <3>1
  <2> QED BY <2>2, <2>3
<1>3. Shape'
  <2>1. job' \in [Slots -> Jobs]
    BY <1>1, <1>2
  <2> QED BY <1>1, <2>1 DEF IInv, Shape
<1>4. \A s \in Slots : Polled(s)' <=> Polled(s)
  BY <1>2 DEF Polled
<1>5. Exclusive'
  BY <1>1, <1>2, <1>4, ExclusiveKept
<1>6. GoneIsFinal'
  BY <1>1, <1>2, <1>4, GoneKept
<1>7. ValidatorBacked'
  BY <1>1 DEF IInv, ValidatorBacked
<1>8. \A f \in Feeds, s \in Slots : Pends(s, f)' => Pends(s, f)
  BY <1>2, <1>4 DEF Pends, Polled
<1>9. Runs'
  BY <1>1, <1>8, RunNotLonger, RunsKept
<1> QED BY <1>3, <1>5, <1>6, <1>7, <1>9 DEF IInv

LEMMA KillKeeps == IInv /\ Kill => IInv'
<1> SUFFICES ASSUME IInv, Kill PROVE IInv'
  OBVIOUS
<1>1. /\ stuck' = stuck \cup {job[s].feed : s \in {t \in Slots : Polled(t)}}
      /\ job' = [s \in Slots |-> NoJob]
      /\ UNCHANGED <<site, followed, row, latest, todo>>
  BY DEF Kill, publisher, archive
<1>2. \A s \in Slots : job'[s] = NoJob /\ job'[s].task = "none"
  BY <1>1 DEF NoJob
<1>3. \A s \in Slots : Polled(s) => job[s].feed \in Feeds
  BY JobKinds DEF IInv, Shape, Polled
<1>4. Shape'
  <2>1. stuck' \subseteq Feeds /\ job' \in [Slots -> Jobs]
    BY <1>1, <1>3, JobsMade DEF IInv, Shape
  <2> QED BY <1>1, <2>1 DEF IInv, Shape
<1>5. Exclusive' /\ GoneIsFinal'
  BY <1>2 DEF Exclusive, GoneIsFinal, At, Polled
<1>6. ValidatorBacked'
  BY <1>1 DEF IInv, ValidatorBacked
<1>7. \A f \in Feeds, s \in Slots : ~ Pends(s, f)'
  BY <1>2 DEF Pends, Polled
<1>8. Runs'
  BY <1>1, <1>7, RunNotLonger, RunsKept
<1> QED BY <1>4, <1>5, <1>6, <1>8 DEF IInv

LEMMA StartSweepKeeps ==
  ASSUME IInv, NEW s \in Slots, StartSweep(s)
  PROVE  IInv'
<1>1. PICK B \in Batches : job' = [job EXCEPT ![s] = Sweep(B)]
  BY DEF StartSweep
<1>2. B \subseteq Due /\ B \in SUBSET Feeds
  BY DEF Batches, Due, IInv, Shape
<1>3. PICK j : j = Sweep(B)
  OBVIOUS
<1>4. j \in Jobs /\ j.task = "sweep" /\ j.left = B
  BY <1>2, <1>3, JobsMade DEF Sweep
<1>5. UNCHANGED <<site, followed, row, latest, todo, stuck>>
  BY DEF StartSweep, publisher, archive
<1>6. job' \in [Slots -> Jobs] /\ job'[s] = j /\ \A t \in Slots \ {s} : job'[t] = job[t]
  BY <1>1, <1>3, <1>4, SlotMoves
<1>7. Shape'
  BY <1>5, <1>6 DEF IInv, Shape
<1>8. \A t \in Slots : Polled(t)' => Polled(t) /\ job'[t] = job[t]
  BY <1>4, <1>6 DEF Polled
<1>9. Exclusive' /\ GoneIsFinal'
  BY <1>5, <1>8, ExclusiveKept, GoneKept
<1>10. ValidatorBacked'
  BY <1>5 DEF IInv, ValidatorBacked
<1>11. ASSUME NEW f \in Feeds PROVE RunKept(f)
  <2>1. CASE f \in B
    <3>1. row'[f].failures < MaxFailures
      BY <1>2, <1>5, <2>1 DEF Due
    <3>2. Queued(f)' \in 0 .. 1
      BY DEF Queued
    <3>3. row'[f].failures \in Nat
      BY <1>5, FailuresAreNat
    <3> QED BY <3>1, <3>2, <3>3, PendingIsFinite, PendingIsFiniteNext, ScheduleAssumption
            DEF RunKept
  <2>2. CASE f \notin B
    <3>1. \A t \in Slots : Pends(t, f)' => Pends(t, f)
      BY <1>4, <1>6, <2>2 DEF Pends, Polled
    <3> QED BY <1>5, <3>1, RunNotLonger
  <2> QED BY <2>1, <2>2
<1>12. Runs'
  BY <1>11, RunsKept
<1> QED BY <1>7, <1>9, <1>10, <1>12 DEF IInv

LEMMA DeferNextKeeps ==
  ASSUME IInv, NEW s \in Slots, DeferNext(s)
  PROVE  IInv'
<1>1. PICK f \in job[s].left :
        todo' = todo \cup {f} /\ job' = [job EXCEPT ![s].left = @ \ {f}]
  BY DEF DeferNext
<1>2. PICK old : old = job[s]
  OBVIOUS
<1>3. old \in Jobs /\ old.task = "sweep" /\ f \in old.left
  BY <1>1, <1>2 DEF DeferNext, IInv, Shape
<1>4. old \in [task : {"sweep"}, left : SUBSET Feeds] /\ f \in Feeds
  BY <1>3 DEF Jobs, NoJob
<1>5. PICK j : j = [old EXCEPT !.left = @ \ {f}]
  OBVIOUS
<1>6. j \in [task : {"sweep"}, left : SUBSET Feeds] /\ j.left = old.left \ {f}
  BY <1>4, <1>5
<1>7. j \in Jobs /\ j.task = "sweep" /\ job' = [job EXCEPT ![s] = j]
  BY <1>1, <1>2, <1>5, <1>6 DEF Jobs
<1>8. UNCHANGED <<site, followed, row, latest, stuck>>
  BY DEF DeferNext, publisher, archive
<1>9. job' \in [Slots -> Jobs] /\ job'[s] = j /\ \A t \in Slots \ {s} : job'[t] = job[t]
  BY <1>7, SlotMoves
<1>10. Shape'
  BY <1>1, <1>4, <1>8, <1>9 DEF IInv, Shape
<1>11. \A t \in Slots : Polled(t)' => Polled(t) /\ job'[t] = job[t]
  BY <1>7, <1>9 DEF Polled
<1>12. Exclusive' /\ GoneIsFinal'
  BY <1>8, <1>11, ExclusiveKept, GoneKept
<1>13. ValidatorBacked'
  BY <1>8 DEF IInv, ValidatorBacked
<1>14. \A g \in Feeds, t \in Slots : Pends(t, g)' => Pends(t, g)
  BY <1>2, <1>3, <1>6, <1>7, <1>9 DEF Pends, Polled
<1>15. ASSUME NEW g \in Feeds PROVE RunKept(g)
  <2>1. CASE g = f
    <3>1. Pends(s, f) /\ ~ Pends(s, f)'
      BY <1>2, <1>3, <1>6, <1>7, <1>9 DEF Pends, Polled
    <3>2. Cardinality(Pending(f)') + 1 <= Cardinality(Pending(f))
      BY <1>4, <1>14, <3>1, RunPassedOn
    <3>3. row[f].failures + Cardinality(Pending(f)) + Queued(f) <= MaxFailures + Cardinality(Slots)
      BY <1>4 DEF IInv, Runs
    <3>4. Queued(f) \in 0 .. 1 /\ Queued(f)' \in 0 .. 1
      BY DEF Queued
    <3> QED BY <1>4, <1>8, <2>1, <3>2, <3>3, <3>4, FailuresAreNat, PendingIsFinite,
               PendingIsFiniteNext, ScheduleAssumption DEF RunKept
  <2>2. CASE g # f
    BY <1>1, <1>8, <1>14, <2>2, RunNotLonger
  <2> QED BY <2>1, <2>2
<1>16. Runs'
  BY <1>15, RunsKept
<1> QED BY <1>10, <1>12, <1>13, <1>16 DEF IInv

LEMMA FetchKeeps ==
  ASSUME IInv, NEW s \in Slots, NEW f \in Feeds, Fetch(s, f)
  PROVE  IInv'
<1>1. /\ job[s] = NoJob /\ f \in todo /\ ~ LockHeld(f)
      /\ todo' = todo \ {f} /\ job' = [job EXCEPT ![s] = Poll(f)]
      /\ UNCHANGED <<site, followed, row, latest, stuck>>
  BY DEF Fetch, publisher, archive
<1>2. PICK j : j = Poll(f)
  OBVIOUS
<1>3. j \in Jobs /\ j.task = "poll" /\ j.feed = f /\ j.pc = "begin"
  BY <1>2, JobsMade DEF Poll
<1>4. job' \in [Slots -> Jobs] /\ job'[s] = j /\ \A t \in Slots \ {s} : job'[t] = job[t]
  BY <1>1, <1>2, <1>3, SlotMoves
<1>5. Shape'
  BY <1>1, <1>4 DEF IInv, Shape
<1>6. /\ \A t \in Slots : Polled(t) => HostOf[job[t].feed] # HostOf[f]
      /\ \A g \in stuck : HostOf[g] # HostOf[f]
  BY <1>1 DEF LockHeld
<1>7. Exclusive'
  <2>1. ASSUME NEW t \in Slots, NEW u \in Slots, t # u, Polled(t)', Polled(u)'
        PROVE  HostOf[job'[t].feed] # HostOf[job'[u].feed]
    <3>1. CASE t = s
      BY <1>3, <1>4, <1>6, <2>1, <3>1 DEF Polled
    <3>2. CASE u = s
      BY <1>3, <1>4, <1>6, <2>1, <3>2 DEF Polled
    <3>3. CASE t # s /\ u # s
      BY <1>4, <2>1, <3>3 DEF Polled, IInv, Exclusive
    <3> QED BY <3>1, <3>2, <3>3
  <2>2. ASSUME NEW t \in Slots, NEW g \in stuck', Polled(t)'
        PROVE  HostOf[job'[t].feed] # HostOf[g]
    BY <1>1, <1>3, <1>4, <1>6, <2>2 DEF Polled, IInv, Exclusive
  <2> QED BY <2>1, <2>2 DEF Exclusive
<1>8. GoneIsFinal'
  <2>1. \A t \in Slots : Polled(t)' /\ job'[t].pc \in {"asking", "answered"} =>
          Polled(t) /\ job'[t] = job[t]
    BY <1>3, <1>4 DEF Polled
  <2> QED BY <1>1, <2>1, GoneKept
<1>9. ValidatorBacked'
  BY <1>1 DEF IInv, ValidatorBacked
<1>10. ASSUME NEW g \in Feeds PROVE RunKept(g)
  <2>1. CASE g = f
    <3>1. \A t \in Slots \ {s} : Pends(t, f)' => Pends(t, f)
      BY <1>4 DEF Pends, Polled
    <3> QED BY <1>1, <2>1, <3>1, RunTaken
  <2>2. CASE g # f
    <3>1. \A t \in Slots : Pends(t, g)' => Pends(t, g)
      BY <1>3, <1>4, <2>2 DEF Pends, Polled
    <3> QED BY <1>1, <3>1, RunNotLonger
  <2> QED BY <2>1, <2>2
<1>11. Runs'
  BY <1>10, RunsKept
<1> QED BY <1>5, <1>7, <1>8, <1>9, <1>11 DEF IInv
\* A slot goes on with the job it has, or is done with it.
LEMMA GoesOn ==
  ASSUME IInv, NEW s \in Slots, NEW j \in Jobs, job' = [job EXCEPT ![s] = j],
         UNCHANGED <<site, followed, row, latest, todo, stuck>>,
         j = NoJob \/ (/\ Polled(s) /\ job[s].pc # "done"
                       /\ j.task = "poll" /\ j.feed = job[s].feed
                       /\ j.pc \in {"asking", "answered"} =>
                            ~ row[j.feed].gone \/ job[s].pc \in {"asking", "answered"})
  PROVE  IInv'
<1>1. job' \in [Slots -> Jobs] /\ job'[s] = j /\ \A t \in Slots \ {s} : job'[t] = job[t]
  BY SlotMoves
<1>2. Shape'
  BY <1>1 DEF IInv, Shape
<1>3. NoJob.task = "none"
  BY DEF NoJob
<1>4. \A t \in Slots : Polled(t)' => Polled(t) /\ job'[t].feed = job[t].feed
  BY <1>1, <1>3 DEF Polled
<1>5. \A t \in Slots :
        Polled(t)' /\ job'[t].pc \in {"asking", "answered"} =>
          ~ row[job'[t].feed].gone \/ job[t].pc \in {"asking", "answered"}
  BY <1>1, <1>3 DEF Polled
<1>6. Exclusive' /\ GoneIsFinal'
  BY <1>4, <1>5, ExclusiveKept, GoneKept
<1>7. ValidatorBacked'
  BY DEF IInv, ValidatorBacked
<1>8. \A f \in Feeds, t \in Slots : Pends(t, f)' => Pends(t, f)
  BY <1>1, <1>3 DEF Pends, Polled
<1>9. Runs'
  BY <1>8, RunNotLonger, RunsKept
<1> QED BY <1>2, <1>6, <1>7, <1>9 DEF IInv

LEMMA EndsKeep ==
  ASSUME IInv, NEW s \in Slots, EndSweep(s) \/ Finish(s)
  PROVE  IInv'
<1>1. /\ job' = [job EXCEPT ![s] = NoJob]
      /\ UNCHANGED <<site, followed, row, latest, todo, stuck>>
  BY DEF EndSweep, Finish, publisher, archive, queue
<1> QED BY <1>1, JobsMade, GoesOn

LEMMA ReadStateKeeps ==
  ASSUME IInv, NEW s \in Slots, ReadState(s)
  PROVE  IInv'
<1>1. PICK f : f = job[s].feed
  OBVIOUS
<1>2. PICK age : age = job[s].age
  OBVIOUS
<1>3. /\ Polled(s) /\ job[s].pc = "begin" /\ f \in Feeds /\ age \in 0 .. MaxAge
      /\ UNCHANGED <<site, followed, row, latest, todo, stuck>>
  BY <1>1, <1>2, JobKinds DEF ReadState, At, Polled, IInv, Shape, publisher, archive, queue
<1>4. CASE row[f].gone
  <2>1. PICK j : j = [task |-> "poll", feed |-> f, pc |-> "done", age |-> age]
    OBVIOUS
  <2>2. job' = [job EXCEPT ![s] = j]
    BY <1>1, <1>2, <1>4, <2>1 DEF ReadState
  <2>3. j \in Jobs /\ j.task = "poll" /\ j.feed = f /\ j.pc = "done"
    BY <1>3, <2>1 DEF Jobs
  <2> QED BY <1>1, <1>3, <2>2, <2>3, GoesOn
<1>5. CASE ~ row[f].gone
  <2>1. PICK etag : etag = row[f].etag
    OBVIOUS
  <2>2. PICK j : j = [task |-> "poll", feed |-> f, pc |-> "asking", age |-> age, etag |-> etag]
    OBVIOUS
  <2>3. job' = [job EXCEPT ![s] = j]
    BY <1>1, <1>2, <1>5, <2>1, <2>2 DEF ReadState
  <2>4. etag \in Bodies \cup {NoTag}
    <3>1. row \in [Feeds -> Rows]
      BY DEF IInv, Shape
    <3> QED BY <1>3, <2>1, <3>1 DEF Rows
  <2>5. j \in Jobs /\ j.task = "poll" /\ j.feed = f /\ j.pc = "asking"
    BY <1>3, <2>2, <2>4 DEF Jobs
  <2> QED BY <1>1, <1>3, <1>5, <2>3, <2>5, GoesOn
<1> QED BY <1>4, <1>5

LEMMA AnswerKeeps ==
  ASSUME IInv, NEW s \in Slots, Answer(s)
  PROVE  IInv'
<1>1. PICK f : f = job[s].feed
  OBVIOUS
<1>2. PICK age : age = job[s].age
  OBVIOUS
<1>3. /\ Polled(s) /\ job[s].pc = "asking" /\ f \in Feeds /\ age \in 0 .. MaxAge
      /\ job[s].etag \in Bodies \cup {NoTag}
      /\ UNCHANGED <<site, followed, row, latest, todo, stuck>>
  BY <1>1, <1>2, JobKinds DEF Answer, At, Polled, IInv, Shape, publisher, archive, queue
<1>4. site[f] \in Bodies
  BY <1>3 DEF IInv, Shape
<1>5. Served(site[f]) \subseteq Replies /\ Refusals \subseteq Replies
  BY <1>4 DEF Replies
<1>6. \A etag : Kept(etag) \subseteq Replies
  BY DEF Kept, Replies
<1>7. PICK reply \in Replies :
        job' = [job EXCEPT ![s] = [task |-> "poll", feed |-> @.feed, pc |-> "answered",
                                   age |-> @.age, reply |-> reply]]
  BY <1>1, <1>5, <1>6 DEF Answer
<1>8. PICK j : j = [task |-> "poll", feed |-> f, pc |-> "answered", age |-> age, reply |-> reply]
  OBVIOUS
<1>9. job' = [job EXCEPT ![s] = j]
  BY <1>1, <1>2, <1>7, <1>8
<1>10. j \in Jobs /\ j.task = "poll" /\ j.feed = f /\ j.pc = "answered"
  BY <1>3, <1>8 DEF Jobs
<1> QED BY <1>1, <1>3, <1>9, <1>10, GoesOn

LEMMA RecordKeeps ==
  ASSUME IInv, NEW s \in Slots, Record(s)
  PROVE  IInv'
<1>1. PICK f : f = job[s].feed
  OBVIOUS
<1>2. PICK age : age = job[s].age
  OBVIOUS
<1>3. PICK reply : reply = job[s].reply
  OBVIOUS
<1>4. /\ Polled(s) /\ job[s].pc = "answered" /\ f \in Feeds /\ age \in 0 .. MaxAge
      /\ reply \in Replies
      /\ UNCHANGED <<site, followed, todo, stuck>>
  BY <1>1, <1>2, <1>3, JobKinds DEF Record, At, Polled, IInv, Shape, publisher, queue
<1>5. PICK newItems \in 0 .. 1 : row' = [row EXCEPT ![f] = Recorded(@, latest[f], reply, newItems)]
  BY <1>1, <1>3 DEF Record
<1>6. PICK j : j = [task |-> "poll", feed |-> f, pc |-> "done", age |-> age]
  OBVIOUS
<1>7. job' = [job EXCEPT ![s] = j]
  BY <1>1, <1>2, <1>6 DEF Record
<1>8. latest' = IF reply.kind = "ok" THEN [latest EXCEPT ![f] = reply.body] ELSE latest
  BY <1>1, <1>3 DEF Record
<1>9. row \in [Feeds -> Rows]
  BY DEF IInv, Shape
<1>10. PICK old : old = row[f]
  OBVIOUS
<1>11. PICK d : d = Recorded(old, latest[f], reply, newItems)
  OBVIOUS
<1>12. old \in Rows
  BY <1>4, <1>9, <1>10
<1>13. d \in Rows
  BY <1>4, <1>11, <1>12, RecordedRow DEF Visited
<1>14. /\ d.failures <= old.failures + 1
       /\ reply.kind # "gone" => d.gone = old.gone
       /\ d.etag = IF reply.kind # "ok" THEN old.etag
                   ELSE IF reply.tagged THEN reply.body ELSE NoTag
  BY <1>4, <1>11, <1>12, RecordedRow DEF Visited
<1>15. row' = [row EXCEPT ![f] = d]
  BY <1>5, <1>10, <1>11
<1>16. row'[f] = d /\ \A g \in Feeds \ {f} : row'[g] = row[g]
  BY <1>4, <1>9, <1>15
<1>17. j \in Jobs /\ j.task = "poll" /\ j.feed = f /\ j.pc = "done"
  BY <1>4, <1>6 DEF Jobs
<1>18. job' \in [Slots -> Jobs] /\ job'[s] = j /\ \A t \in Slots \ {s} : job'[t] = job[t]
  BY <1>7, <1>17, SlotMoves
<1>19. Shape'
  <2>1. row' \in [Feeds -> Rows]
    BY <1>4, <1>9, <1>13, <1>15
  <2>2. latest' \in [Feeds -> Bodies \cup {NoBody}]
    BY <1>4, <1>8, ReplyKinds DEF IInv, Shape
  <2> QED BY <1>4, <1>18, <2>1, <2>2 DEF IInv, Shape
<1>20. \A t \in Slots : Polled(t)' => Polled(t) /\ job'[t].feed = job[t].feed
  BY <1>1, <1>4, <1>17, <1>18 DEF Polled
<1>21. Exclusive'
  BY <1>4, <1>20, ExclusiveKept
<1>22. GoneIsFinal'
  <2> SUFFICES ASSUME NEW t \in Slots, At(t, "asking")' \/ At(t, "answered")'
               PROVE  ~ row'[job'[t].feed].gone
    BY DEF GoneIsFinal
  <2>1. t # s
    BY <1>17, <1>18 DEF At
  <2>2. Polled(t) /\ job'[t] = job[t] /\ (At(t, "asking") \/ At(t, "answered"))
    BY <1>18, <2>1 DEF At, Polled
  <2>3. job[t].feed \in Feeds \ {f}
    BY <1>1, <1>4, <2>1, <2>2, JobKinds DEF IInv, Shape, Exclusive, Polled
  <2>4. ~ row[job[t].feed].gone
    BY <2>2 DEF IInv, GoneIsFinal
  <2> QED BY <1>16, <2>2, <2>3, <2>4
<1>23. ValidatorBacked'
  <2> SUFFICES ASSUME NEW g \in Feeds, row'[g].etag # NoTag PROVE row'[g].etag = latest'[g]
    BY DEF ValidatorBacked
  <2>1. row[g].etag # NoTag => row[g].etag = latest[g]
    BY DEF IInv, ValidatorBacked
  <2>2. CASE g # f
    <3>1. latest'[g] = latest[g]
      BY <1>8, <2>2 DEF IInv, Shape
    <3> QED BY <1>16, <2>1, <2>2, <3>1
  <2>3. CASE g = f /\ reply.kind # "ok"
    BY <1>8, <1>10, <1>14, <1>16, <2>1, <2>3
  <2>4. CASE g = f /\ reply.kind = "ok"
    <3>1. latest'[f] = reply.body
      BY <1>4, <1>8, <2>4 DEF IInv, Shape
    <3> QED BY <1>14, <1>16, <2>4, <3>1
  <2> QED BY <2>2, <2>3, <2>4
<1>24. ASSUME NEW g \in Feeds PROVE RunKept(g)
  <2>1. CASE g = f
    <3>1. Pends(s, f) /\ ~ Pends(s, f)' /\ \A t \in Slots \ {s} : Pends(t, f)' => Pends(t, f)
      BY <1>1, <1>4, <1>17, <1>18 DEF Pends, Polled
    <3>2. Cardinality(Pending(f)') + 1 <= Cardinality(Pending(f))
      BY <1>4, <3>1, RunPassedOn
    <3>3. row[f].failures + Cardinality(Pending(f)) + Queued(f) <= MaxFailures + Cardinality(Slots)
      BY <1>4 DEF IInv, Runs
    <3>4. Queued(f)' = Queued(f) /\ Queued(f) \in 0 .. 1
      BY <1>4 DEF Queued
    <3>5. row[f].failures \in Nat /\ d.failures \in Nat
      BY <1>4, <1>13, FailuresAreNat DEF Rows
    <3> QED BY <1>10, <1>14, <1>16, <2>1, <3>2, <3>3, <3>4, <3>5, PendingIsFinite,
               PendingIsFiniteNext, ScheduleAssumption DEF RunKept
  <2>2. CASE g # f
    <3>1. \A t \in Slots : Pends(t, g)' => Pends(t, g)
      BY <1>17, <1>18 DEF Pends, Polled
    <3> QED BY <1>4, <1>16, <2>2, <3>1, RunNotLonger
  <2> QED BY <2>1, <2>2
<1>25. Runs'
  BY <1>24, RunsKept
<1> QED BY <1>19, <1>21, <1>22, <1>23, <1>25 DEF IInv
-----------------------------------------------------------------------------
LEMMA Initially == Init => IInv
<1> SUFFICES ASSUME Init PROVE IInv
  OBVIOUS
<1>1. \A s \in Slots : job[s] = NoJob /\ job[s].task = "none"
  BY DEF Init, NoJob
<1>2. /\ \A f \in Feeds : row[f] = FreshRow
      /\ FreshRow.failures = 0 /\ FreshRow.etag = NoTag /\ FreshRow \in Rows
  BY DEF Init, FreshRow, Rows, Outcomes
<1>3. Shape
  <2>1. row \in [Feeds -> Rows]
    BY <1>2 DEF Init
  <2>2. job \in [Slots -> Jobs] /\ latest \in [Feeds -> Bodies \cup {NoBody}]
    BY JobsMade DEF Init
  <2> QED BY <2>1, <2>2 DEF Init, Shape
<1>4. Exclusive /\ GoneIsFinal
  BY <1>1 DEF Init, Exclusive, GoneIsFinal, At, Polled
<1>5. ValidatorBacked
  BY <1>2 DEF ValidatorBacked
<1>6. ASSUME NEW f \in Feeds
      PROVE  row[f].failures + Cardinality(Pending(f)) + Queued(f) <= MaxFailures + Cardinality(Slots)
  <2>1. Queued(f) = 0
    BY DEF Init, Queued
  <2> QED BY <1>2, <2>1, PendingIsFinite, ScheduleAssumption
<1> QED BY <1>3, <1>4, <1>5, <1>6 DEF IInv, Runs

\* Publishers, readers, the clock, sweeps, polls and kills all keep the invariant.
LEMMA Inductive == IInv /\ [Next]_vars => IInv'
<1> SUFFICES ASSUME IInv, [Next]_vars PROVE IInv'
  OBVIOUS
<1>1. ASSUME UNCHANGED <<row, latest, todo, stuck, job>>, site' \in [Feeds -> Bodies],
             followed' \subseteq Feeds
      PROVE  IInv'
  BY <1>1 DEF IInv, Shape, Exclusive, GoneIsFinal, ValidatorBacked, Runs, Pending, Pends,
     Queued, Polled, At
<1>2. ASSUME NEW f \in Feeds, NEW b \in Bodies, Publish(f, b) PROVE IInv'
  <2>1. site' \in [Feeds -> Bodies] /\ UNCHANGED <<followed, row, latest, todo, stuck, job>>
    BY <1>2 DEF Publish, archive, queue, IInv, Shape
  <2> QED BY <1>1, <2>1 DEF IInv, Shape
<1>3. ASSUME NEW f \in Feeds, Toggle(f) PROVE IInv'
  <2>1. followed' \subseteq Feeds /\ UNCHANGED <<site, row, latest, todo, stuck, job>>
    BY <1>3 DEF Toggle, archive, queue, IInv, Shape
  <2> QED BY <1>1, <2>1 DEF IInv, Shape
<1>4. CASE Tick \/ Kill
  BY <1>4, TickKeeps, KillKeeps
<1>5. ASSUME NEW s \in Slots, Slot(s) PROVE IInv'
  BY <1>5, StartSweepKeeps, DeferNextKeeps, EndsKeep, ReadStateKeeps, AnswerKeeps, RecordKeeps
  DEF Slot
<1>6. ASSUME NEW s \in Slots, NEW f \in Feeds, Fetch(s, f) PROVE IInv'
  BY <1>6, FetchKeeps
<1>7. CASE UNCHANGED vars
  <2>1. UNCHANGED <<site, followed, row, latest, todo, stuck, job>>
    BY <1>7 DEF vars, publisher, archive, queue
  <2> QED BY <1>1, <2>1 DEF IInv, Shape
<1> QED BY <1>2, <1>3, <1>4, <1>5, <1>6, <1>7 DEF Next

LEMMA Always == Spec => []IInv
  BY Initially, Inductive, PTL DEF Spec

-----------------------------------------------------------------------------
(* Waits and counters: what Shape leaves out of TypeOK.                    *)

Counts ==
  /\ wait \in [Feeds -> Int]
  /\ sweeps \in Nat /\ moves \in Nat /\ faults \in Nat /\ kills \in Nat

\* A visit sets the wait from its row's interval, counted from when the poll started.
LEMMA RecordCounts ==
  ASSUME IInv, IInv', Counts, NEW s \in Slots, Record(s)
  PROVE  Counts'
<1>1. PICK f : f = job[s].feed
  OBVIOUS
<1>2. PICK age : age = job[s].age
  OBVIOUS
<1>3. /\ f \in Feeds /\ age \in 0 .. MaxAge
      /\ wait' = [wait EXCEPT ![f] = row'[f].interval - age]
      /\ UNCHANGED <<sweeps, moves, faults, kills>>
  BY <1>1, <1>2, JobKinds DEF Record, At, Polled, IInv, Shape, publisher, queue
<1>4. PICK w : w = row'[f].interval
  OBVIOUS
<1>5. w \in Nat
  BY <1>3, <1>4 DEF IInv, Shape, Rows
<1>6. age \in Int
  BY <1>3
<1>7. w - age \in Int
  BY <1>5, <1>6
<1>8. wait' = [wait EXCEPT ![f] = w - age]
  BY <1>3, <1>4
<1> QED
  BY <1>3, <1>7, <1>8 DEF Counts

LEMMA Counted == IInv /\ IInv' /\ Counts /\ [Next]_vars => Counts'
<1> SUFFICES ASSUME IInv, IInv', Counts, [Next]_vars PROVE Counts'
  OBVIOUS
<1>1. ASSUME NEW f \in Feeds, Toggle(f) \/ \E b \in Bodies : Publish(f, b) PROVE Counts'
  BY <1>1 DEF Toggle, Publish, archive, queue, Counts
<1>2. CASE Tick
  <2>1. wait' \in [Feeds -> Int]
    BY <1>2, PollingAssumption DEF Tick, Counts
  <2> QED
    BY <1>2, <2>1 DEF Tick, publisher, Counts
<1>3. CASE Kill
  BY <1>3 DEF Kill, publisher, archive, Counts
<1>4. ASSUME NEW s \in Slots, Slot(s) PROVE Counts'
  <2>1. CASE StartSweep(s)
    BY <2>1 DEF StartSweep, publisher, archive, Counts
  <2>2. CASE DeferNext(s) \/ EndSweep(s) \/ ReadState(s) \/ Finish(s)
    BY <2>2 DEF DeferNext, EndSweep, ReadState, Finish, publisher, archive, queue, Counts
  <2>3. CASE Answer(s)
    BY <2>3 DEF Answer, publisher, archive, queue, Counts
  <2> QED
    BY <1>4, <2>1, <2>2, <2>3, RecordCounts DEF Slot
<1>5. ASSUME NEW s \in Slots, NEW f \in Feeds, Fetch(s, f) PROVE Counts'
  BY <1>5 DEF Fetch, publisher, archive, Counts
<1>6. CASE UNCHANGED vars
  BY <1>6 DEF vars, publisher, archive, queue, Counts
<1> QED
  BY <1>1, <1>2, <1>3, <1>4, <1>5, <1>6 DEF Next

\* Every variable of Polling keeps its type: a poll knows what its step needs and no more,
\* and a wait is a number of minutes whatever the schedule made of the row.
THEOREM PollingTypes == Spec => []TypeOK
<1>1. Init => Counts
  BY DEF Init, Counts
<1>2. IInv /\ Counts => TypeOK
  BY DEF IInv, Shape, Counts, TypeOK
<1> QED
  BY <1>1, <1>2, Counted, Always, PTL DEF Spec

-----------------------------------------------------------------------------
(* Each step of polling is a step of the queue, or none.                   *)

\* A step that takes up and finishes no poll, and defers none.
LEMMA QueueStays ==
  ASSUME UNCHANGED <<todo, stuck>>,
         \A s \in Slots : (Polled(s)' <=> Polled(s))
                          /\ (Polled(s) => job'[s].feed = job[s].feed)
  PROVE  UNCHANGED Q!queueVars
  BY DEF Q!queueVars, Polled

LEMMA SweepAndPollStay ==
  ASSUME IInv, NEW s \in Slots, NEW j, job' = [job EXCEPT ![s] = j], UNCHANGED <<todo, stuck>>,
         IF Polled(s) THEN j.task = "poll" /\ j.feed = job[s].feed ELSE j.task # "poll"
  PROVE  UNCHANGED Q!queueVars
<1>1. job'[s] = j /\ \A t \in Slots \ {s} : job'[t] = job[t]
  BY DEF IInv, Shape
<1>2. \A t \in Slots : (Polled(t)' <=> Polled(t)) /\ (Polled(t) => job'[t].feed = job[t].feed)
  BY <1>1 DEF Polled
<1> QED BY <1>2, QueueStays

\* What a slot is doing, for the queue.
Doing == [t \in Slots |-> IF Polled(t) THEN job[t].feed ELSE Idle]

LEMMA DoingAfter ==
  ASSUME IInv, NEW s \in Slots, NEW j, job' = [job EXCEPT ![s] = j]
  PROVE  Doing' = [Doing EXCEPT ![s] = IF j.task = "poll" THEN j.feed ELSE Idle]
<1>1. job'[s] = j /\ \A t \in Slots \ {s} : job'[t] = job[t]
  BY DEF IInv, Shape
<1>2. /\ Polled(s)' <=> j.task = "poll"
      /\ \A t \in Slots \ {s} : Polled(t)' <=> Polled(t)
  BY <1>1 DEF Polled
<1>3. PICK k : k = IF j.task = "poll" THEN j.feed ELSE Idle
  OBVIOUS
<1>4. Doing' = [t \in Slots |-> IF Polled(t)' THEN job'[t].feed ELSE Idle]
  BY DEF Doing
<1>5. Doing'[s] = k /\ \A t \in Slots \ {s} : Doing'[t] = Doing[t]
  BY <1>1, <1>2, <1>3, <1>4 DEF Doing
<1>6. Doing' = [Doing EXCEPT ![s] = k]
  <2>1. [Doing EXCEPT ![s] = k] = [t \in Slots |-> IF t = s THEN k ELSE Doing[t]]
    BY DEF Doing
  <2>2. \A t \in Slots : (IF Polled(t)' THEN job'[t].feed ELSE Idle)
                          = IF t = s THEN k ELSE Doing[t]
    BY <1>4, <1>5
  <2> QED BY <1>4, <2>1, <2>2
<1> QED BY <1>3, <1>6

\* The queue's locks are the ones Polling's LockHeld looks at.
LEMMA LockIsHeld ==
  ASSUME IInv, NEW f \in Feeds, ~ LockHeld(f)
  PROVE  ~ Q!LockHeld(f)
<1> SUFFICES ASSUME NEW g \in Q!InDoing \cap Feeds, HostOf[g] = HostOf[f] PROVE FALSE
  BY DEF Q!LockHeld
<1>1. CASE g \in stuck
  BY <1>1 DEF LockHeld
<1>2. CASE g \notin stuck
  <2>1. PICK s \in Slots : g = IF Polled(s) THEN job[s].feed ELSE Idle
    BY <1>2 DEF Q!InDoing
  <2>2. Polled(s) /\ g = job[s].feed
    BY <2>1, PollingAssumption
  <2> QED BY <2>2 DEF LockHeld
<1> QED BY <1>1, <1>2

LEMMA FetchIsFetched ==
  ASSUME IInv, NEW s \in Slots, NEW f \in Feeds, Fetch(s, f)
  PROVE  Q!Fetch(s, f)
<1>1. ~ Polled(s)
  BY DEF Fetch, NoJob, Polled
<1>2. PICK j : j = Poll(f)
  OBVIOUS
<1>3. job' = [job EXCEPT ![s] = j] /\ j.task = "poll" /\ j.feed = f
  BY <1>2 DEF Fetch, Poll
<1>4. Doing' = [Doing EXCEPT ![s] = f]
  BY <1>3, DoingAfter
<1>5. ~ Q!LockHeld(f)
  BY LockIsHeld DEF Fetch
<1>6. f \in todo /\ todo' = todo \ {f} /\ stuck' = stuck
  BY DEF Fetch
<1> QED BY <1>1, <1>4, <1>5, <1>6 DEF Q!Fetch, Doing

LEMMA FinishIsFinished ==
  ASSUME IInv, NEW s \in Slots, Finish(s)
  PROVE  Q!Finish(s)
<1>1. Polled(s)
  BY DEF Finish, At
<1>2. job[s].feed \in Feeds /\ job[s].feed # Idle
  BY <1>1, JobKinds, PollingAssumption DEF IInv, Shape, Polled
<1>3. PICK j : j = NoJob
  OBVIOUS
<1>4. job' = [job EXCEPT ![s] = j] /\ j.task # "poll"
  BY <1>3 DEF Finish, NoJob
<1>5. Doing' = [Doing EXCEPT ![s] = Idle]
  BY <1>4, DoingAfter
<1>6. todo' = todo /\ stuck' = stuck
  BY DEF Finish, queue
<1> QED BY <1>1, <1>2, <1>5, <1>6 DEF Q!Finish, Doing

LEMMA KillKills ==
  ASSUME IInv, Kill
  PROVE  Q!Kill
<1>1. \A s \in Slots : job'[s] = NoJob /\ ~ Polled(s)'
  BY DEF Kill, NoJob, Polled
<1>2. Doing' = [s \in Slots |-> Idle]
  BY <1>1 DEF Doing
<1>3. \A s \in Slots : Polled(s) => job[s].feed \in Feeds
  BY JobKinds DEF IInv, Shape, Polled
<1>4. {job[s].feed : s \in {t \in Slots : Polled(t)}} \cup stuck = Q!InDoing
  BY <1>3, PollingAssumption DEF Q!InDoing, IInv, Shape
<1>5. stuck' = Q!InDoing /\ todo' = todo
  BY <1>4 DEF Kill
<1> QED BY <1>2, <1>5 DEF Q!Kill, Doing

LEMMA DeferralIsDeferred ==
  ASSUME IInv, NEW s \in Slots, DeferNext(s)
  PROVE  \E f \in Feeds : Q!DeferUnlessQueued(f)
<1>1. PICK f \in job[s].left : todo' = todo \cup {f} /\ job' = [job EXCEPT ![s].left = @ \ {f}]
  BY DEF DeferNext
<1>2. job[s].task = "sweep" /\ f \in Feeds
  BY <1>1, JobKinds DEF DeferNext, IInv, Shape
<1>3. PICK j : j = [job[s] EXCEPT !.left = @ \ {f}]
  OBVIOUS
<1>4. job' = [job EXCEPT ![s] = j]
  BY <1>1, <1>3
<1>5. j.task = "sweep"
  BY <1>2, <1>3, JobKinds DEF IInv, Shape, Jobs, NoJob
<1>6. Doing' = Doing
  BY <1>2, <1>4, <1>5, DoingAfter DEF Doing, Polled
<1>7. stuck' = stuck
  BY DEF DeferNext
<1> QED BY <1>1, <1>2, <1>6, <1>7 DEF Q!DeferUnlessQueued, Doing

\* The other steps of a slot leave the queue alone.
LEMMA SlotStays ==
  ASSUME IInv, NEW s \in Slots,
         StartSweep(s) \/ EndSweep(s) \/ ReadState(s) \/ Answer(s) \/ Record(s)
  PROVE  UNCHANGED Q!queueVars
<1>1. CASE StartSweep(s)
  <2>1. PICK B \in Batches : job' = [job EXCEPT ![s] = Sweep(B)]
    BY <1>1 DEF StartSweep
  <2>2. PICK j : j = Sweep(B)
    OBVIOUS
  <2>3. job' = [job EXCEPT ![s] = j]
    BY <2>1, <2>2
  <2>4. j.task = "sweep"
    BY <2>2 DEF Sweep
  <2>5. ~ Polled(s)
    BY <1>1 DEF StartSweep, NoJob, Polled
  <2> QED BY <1>1, <2>3, <2>4, <2>5, SweepAndPollStay DEF StartSweep
<1>2. CASE EndSweep(s)
  <2>1. PICK j : j = NoJob
    OBVIOUS
  <2>2. job' = [job EXCEPT ![s] = j] /\ j.task = "none" /\ ~ Polled(s)
    BY <1>2, <2>1 DEF EndSweep, NoJob, Polled
  <2> QED BY <1>2, <2>2, SweepAndPollStay DEF EndSweep, queue
<1>3. CASE ReadState(s)
  <2>1. PICK j : j = IF row[job[s].feed].gone
                 THEN [task |-> "poll", feed |-> job[s].feed, pc |-> "done", age |-> job[s].age]
                 ELSE [task |-> "poll", feed |-> job[s].feed, pc |-> "asking", age |-> job[s].age,
                       etag |-> row[job[s].feed].etag]
    OBVIOUS
  <2>2. job' = [job EXCEPT ![s] = j] /\ Polled(s)
    BY <1>3, <2>1 DEF ReadState, At
  <2>3. j.task = "poll" /\ j.feed = job[s].feed
    BY <2>1
  <2> QED BY <1>3, <2>2, <2>3, SweepAndPollStay DEF ReadState, queue
<1>4. CASE Answer(s)
  <2>1. PICK reply : job' = [job EXCEPT ![s] = [task |-> "poll", feed |-> @.feed,
                               pc |-> "answered", age |-> @.age, reply |-> reply]]
    BY <1>4 DEF Answer
  <2>2. PICK j : j = [task |-> "poll", feed |-> job[s].feed, pc |-> "answered",
                      age |-> job[s].age, reply |-> reply]
    OBVIOUS
  <2>3. job' = [job EXCEPT ![s] = j] /\ j.task = "poll" /\ j.feed = job[s].feed /\ Polled(s)
    BY <1>4, <2>1, <2>2 DEF Answer, At
  <2> QED BY <1>4, <2>3, SweepAndPollStay DEF Answer, queue
<1>5. CASE Record(s)
  <2>1. PICK j : j = [task |-> "poll", feed |-> job[s].feed, pc |-> "done", age |-> job[s].age]
    OBVIOUS
  <2>2. job' = [job EXCEPT ![s] = j] /\ j.task = "poll" /\ j.feed = job[s].feed /\ Polled(s)
    BY <1>5, <2>1 DEF Record, At
  <2> QED BY <1>5, <2>2, SweepAndPollStay DEF Record, queue
<1> QED BY <1>1, <1>2, <1>3, <1>4, <1>5

LEMMA InitIsInitial == Init => Q!Init
<1> SUFFICES ASSUME Init PROVE Q!Init
  OBVIOUS
<1>1. \A s \in Slots : ~ Polled(s)
  BY DEF Init, NoJob, Polled
<1> QED BY <1>1 DEF Init, Q!Init

LEMMA StepIsAStep == IInv /\ [Next]_vars => [Q!Next]_(Q!queueVars)
<1> SUFFICES ASSUME IInv, [Next]_vars PROVE Q!Next \/ UNCHANGED Q!queueVars
  OBVIOUS
<1>1. ASSUME UNCHANGED <<todo, stuck, job>> PROVE UNCHANGED Q!queueVars
  BY <1>1, QueueStays DEF Polled
<1>2. ASSUME NEW f \in Feeds, Toggle(f) \/ \E b \in Bodies : Publish(f, b)
      PROVE  UNCHANGED Q!queueVars
  BY <1>1, <1>2 DEF Publish, Toggle, queue
<1>3. CASE Tick
  <2>1. UNCHANGED <<todo, stuck>>
    BY <1>3 DEF Tick
  <2>2. ASSUME NEW s \in Slots
        PROVE  (Polled(s)' <=> Polled(s)) /\ (Polled(s) => job'[s].feed = job[s].feed)
    <3>1. job[s] \in Jobs
      BY DEF IInv, Shape
    <3>2. CASE Polled(s)
      <4>1. PICK d : d = [job[s] EXCEPT !.age = @ + 1]
        OBVIOUS
      <4>2. job[s].task = "poll" /\ job[s].age < MaxAge
        BY <1>3, <3>2 DEF Tick, Polled
      <4>3. d.task = "poll" /\ d.feed = job[s].feed
        BY <3>1, <4>1, <4>2, Aged
      <4>4. job'[s] = d
        BY <1>3, <3>2, <4>1 DEF Tick
      <4> QED BY <3>2, <4>3, <4>4 DEF Polled
    <3>3. CASE ~ Polled(s)
      BY <1>3, <3>3 DEF Tick, Polled
    <3> QED BY <3>2, <3>3
  <2> QED BY <2>1, <2>2, QueueStays
<1>4. ASSUME NEW s \in Slots, Slot(s) PROVE Q!Next \/ UNCHANGED Q!queueVars
  <2>1. CASE DeferNext(s)
    BY <2>1, DeferralIsDeferred DEF Q!Next
  <2>2. CASE Finish(s)
    BY <2>2, FinishIsFinished DEF Q!Next
  <2> QED BY <1>4, <2>1, <2>2, SlotStays DEF Slot
<1>5. ASSUME NEW s \in Slots, NEW f \in Feeds, Fetch(s, f) PROVE Q!Next
  BY <1>5, FetchIsFetched DEF Q!Next
<1>6. CASE Kill
  BY <1>6, KillKills DEF Q!Next
<1>7. CASE UNCHANGED vars
  BY <1>1, <1>7 DEF vars, queue
<1> QED BY <1>2, <1>3, <1>4, <1>5, <1>6, <1>7 DEF Next

\* Through sweeps, visits, failures and kills, polling keeps the promises of its queue.
THEOREM QueueIsImplemented == Spec => ImplementsQueue
  BY Initially, Inductive, InitIsInitial, StepIsAStep, PTL DEF Spec, ImplementsQueue, Q!Spec

-----------------------------------------------------------------------------
\* No job, queued or running when a 410 is recorded, asks that publisher again.
THEOREM GoneStaysGone == Spec => []GoneIsFinal
  BY Always, PTL DEF IInv

\* The validators on a row always name a body stored with its items.
THEOREM ValidatorsAreBacked == Spec => []ValidatorBacked
  BY Always, PTL DEF IInv

\* However sweeps and polls interleave, the visits past the limit are at most one a slot.
THEOREM FailureRunIsBounded == Spec => []RunBounded
<1>1. IInv => RunBounded
  <2> SUFFICES ASSUME IInv, NEW f \in Feeds
               PROVE  row[f].failures <= MaxFailures + Cardinality(Slots)
    BY DEF RunBounded
  <2>1. row[f].failures + Cardinality(Pending(f)) + Queued(f) <= MaxFailures + Cardinality(Slots)
    BY DEF IInv, Runs
  <2>2. row[f].failures \in Nat /\ Queued(f) \in 0 .. 1
    BY FailuresAreNat DEF Queued
  <2> QED BY <2>1, <2>2, PendingIsFinite, ScheduleAssumption
<1> QED BY <1>1, Always, PTL

\* A host sees one poll of ours at a time, counting the polls whose worker died.
THEOREM HostsSeeOnePoll == Spec => []Q!HostExclusive
<1>1. IInv => Q!HostExclusive
  <2> SUFFICES ASSUME IInv PROVE Q!HostExclusive
    OBVIOUS
  <2>1. ASSUME NEW s \in Slots, Doing[s] # Idle
        PROVE  Polled(s) /\ Doing[s] = job[s].feed
    BY <2>1 DEF Doing
  <2>2. \A s, t \in Slots :
          s # t /\ Doing[s] # Idle /\ Doing[t] # Idle => HostOf[Doing[s]] # HostOf[Doing[t]]
    BY <2>1 DEF IInv, Exclusive
  <2>3. \A s \in Slots, k \in stuck : Doing[s] # Idle => HostOf[Doing[s]] # HostOf[k]
    BY <2>1 DEF IInv, Exclusive
  <2> QED BY <2>2, <2>3 DEF Q!HostExclusive, Doing
<1> QED BY <1>1, Always, PTL
=============================================================================
