------------------------------ MODULE Schedule ------------------------------
(***************************************************************************)
(* ingest/schedule.py, and the Retry-After rule of ingest/service.py: when *)
(* a feed is polled next.  Pure, over the bounds of config/ingest.py.      *)
(***************************************************************************)
EXTENDS Backoff

CONSTANTS
  MinInterval,      \* min_interval_seconds
  DefaultInterval,  \* default_interval_seconds
  MaxInterval,      \* max_interval_seconds: how long a quiet feed may go unseen
  MaxBackoff,       \* max_backoff_seconds: how long a publisher gets to be down
  MaxFailures,      \* max_consecutive_failures
  HonourTtl,        \* honour_feed_ttl
  Dated             \* a Retry-After that is a date, or anything int() refuses

ASSUME ScheduleAssumption ==
  /\ {MinInterval, DefaultInterval, MaxInterval, MaxBackoff, MaxFailures} \subseteq Nat \ {0}
  /\ MinInterval <= MaxInterval /\ MaxInterval <= MaxBackoff
  /\ HonourTtl \in BOOLEAN
  /\ Dated \notin Int

Bounds(ceiling) ==
  [minimum |-> MinInterval, maximum |-> ceiling, factor |-> 2, max_failures |-> MaxFailures]

\* schedule.policy: a healthy feed's bounds.
Healthy == Bounds(MaxInterval)

\* FAULT: a broken feed asked again as often as a quiet one.
WaitingOutBriefly == Bounds(MaxInterval)

\* schedule.waiting_out: the bounds of a feed that is not answering.
WaitingOut == Bounds(MaxBackoff)

\* schedule.clamp_interval: a wait somebody else asked for.
ClampInterval(seconds) == Clamp(seconds, WaitingOut)

\* FAULT: one ceiling for a quiet feed and for a broken one.
DriftOneCeiling(current, newItems) ==
  LET base == IF current > 0 THEN current ELSE DefaultInterval
  IN  Clamp(IF newItems > 0 THEN base \div 2 ELSE (5 * base) \div 4, WaitingOut)

\* A feed that published is halved and a quiet one drifts by a quarter.  `current`
\* is 0 where there is none, which Python's `or` also reads as the default.
Drift(current, newItems) ==
  LET base == IF current > 0 THEN current ELSE DefaultInterval
  IN  Clamp(IF newItems > 0 THEN base \div 2 ELSE (5 * base) \div 4, Healthy)

\* <ttl> raises the floor and may push past our own ceiling; 0 is a feed naming none.
Floored(seconds, ttl) == IF HonourTtl /\ ttl > seconds THEN ttl ELSE seconds

\* FAULT: the floor kept for a feed that answers and forgotten for one that fails.
NextIntervalUnfloored(current, failures, newItems, ttl) ==
  IF failures > 0 THEN IntervalFrom(WaitingOut, failures, DefaultInterval)
  ELSE Floored(Drift(current, newItems), ttl)

\* schedule.next_interval.
NextInterval(current, failures, newItems, ttl) ==
  Floored(IF failures > 0
            THEN IntervalFrom(WaitingOut, failures, DefaultInterval)
            ELSE Drift(current, newItems),
          ttl)

\* FAULT: the publisher's number taken as it comes.
RetryAfterTrusted(header) == IF header = Dated THEN MaxBackoff ELSE header

\* service._retry_after, on a 429 or a 503 that names a wait: a number of seconds
\* is clamped, and a date is the whole backoff.
RetryAfter(header) == IF header = Dated THEN MaxBackoff ELSE ClampInterval(header)
=============================================================================
