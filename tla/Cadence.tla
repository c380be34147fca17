------------------------------ MODULE Cadence ------------------------------
(***************************************************************************)
(* One feed's schedule over any sequence of answers, with the numbers of   *)
(* config/ingest.py.  The queue is here only as what it does to one feed:  *)
(* a sweep that reads the feed while a poll of it still runs defers it     *)
(* again, and that job asks with no wait and no look at the limit          *)
(* (ingest/service.py:71-81).  Polling has the queue itself.               *)
(***************************************************************************)
EXTENDS FeedRow

CONSTANTS
  Ttls,     \* the <ttl> values a document may carry, 0 for none
  Overlap   \* jobs of the feed a visit may leave behind it: one a slot of the queue (2)

\* parser._ttl_seconds: a negative <ttl> is none.
ASSUME CadenceAssumption == Ttls \subseteq Nat /\ Overlap \in Nat

VARIABLES
  feed,      \* its row
  again,     \* further jobs of it, deferred or about to be, when its newest visit was logged
  down,      \* seconds since the first failure of the current run
  asked      \* a failure of the run was an answer asking us to come back later

cadenceVars == <<feed, again, down, asked>>

CadenceInit == feed = FreshRow /\ again = 0 /\ down = 0 /\ asked = FALSE

\* FAULT: a feed is chosen whatever its run.
DueVisitGivenUp(next) ==
  /\ again' \in 0 .. Overlap
  /\ down' = IF next.failures = 0 \/ feed.failures = 0 THEN 0 ELSE down + feed.interval

\* Its wait over, a sweep of due_polls chose it: the only place the limit is applied.
DueVisit(next) ==
  /\ feed.failures < MaxFailures
  /\ again' \in 0 .. Overlap
  /\ down' = IF next.failures = 0 \/ feed.failures = 0 THEN 0 ELSE down + feed.interval

\* A job left behind the last visit runs: nothing was waited, and the limit is not read.
OverlappingVisit(next) ==
  /\ again > 0 /\ again' \in 0 .. again - 1
  /\ down' = IF next.failures = 0 THEN 0 ELSE down

Visit(next) == feed' = next /\ (DueVisit(next) \/ OverlappingVisit(next))

Publishes(ttl, newItems) == Visit(Stored(feed, NoTag, ttl, newItems)) /\ asked' = FALSE
Quiet == Visit(NotModified(feed)) /\ asked' = FALSE
Forbidden == Visit(Disallowed(feed)) /\ asked' = (asked /\ feed'.failures > 0)
Fails == Visit(Failed(feed, FALSE)) /\ UNCHANGED asked
IsLimited(header) == Visit(Limited(feed, header)) /\ asked' = TRUE

CadenceNext ==
  \/ \E ttl \in Ttls, newItems \in 0 .. 1 : Publishes(ttl, newItems)
  \/ Quiet
  \/ Forbidden
  \/ Fails
  \/ \E header \in Headers : IsLimited(header)

CadenceSpec == CadenceInit /\ [][CadenceNext]_cadenceVars

-----------------------------------------------------------------------------
Answered == feed.outcome \in {"ok", "not_modified"}
Larger(a, b) == IF a > b THEN a ELSE b

CadenceTypeOK ==
  /\ feed.interval \in Nat /\ feed.ttl \in Nat /\ down \in Nat /\ asked \in BOOLEAN
  /\ feed.outcome \in Outcomes
  /\ again \in 0 .. Overlap
  /\ feed.failures \in Nat /\ feed.failures + again <= MaxFailures + Overlap

\* Bounds on every wait, whatever went before.  A feed that answers is seen again within the
\* healthy ceiling, or within its own <ttl> where that is longer: a wait taken during an outage
\* or a robots refusal never survives the first answer (config/ingest.py:19-22).  Nothing
\* a publisher sends parks a feed past the longest backoff but its <ttl> (ingest/service.py:203).
\* And <ttl> is kept on every visit whose wait is the schedule's own.
QuietBound == Answered => feed.interval <= Larger(MaxInterval, feed.ttl)
ParkedAtMost == feed.interval <= Larger(MaxBackoff, feed.ttl)
TtlKept ==
  feed.outcome \in {"ok", "not_modified", "failed"} /\ HonourTtl => feed.interval >= feed.ttl
WaitInBounds == QuietBound /\ ParkedAtMost /\ TtlKept

\* Giving a feed up takes more than a day of failures of its own, however its polls overlap.
\* "The limit is days of outage rather than hours" (test_schedule.py:60) adds up one full
\* wait a failure, over four days; polls that overlap log three failures to a wait and bring
\* it down to a day and a few hours.  Answers naming a short Retry-After end it within the
\* hour, and are left out.
GiveUpTakesADay == feed.failures >= MaxFailures /\ ~asked => down > 24 * 60 * 60
=============================================================================
