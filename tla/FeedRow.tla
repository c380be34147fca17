------------------------------ MODULE FeedRow ------------------------------
(***************************************************************************)
(* What one visit does to a feed: the row of db/models/feed.py together    *)
(* with the facts read off its poll log (db/models/poll.py), as written by *)
(* the _record_* functions of ingest/service.py.                           *)
(*                                                                         *)
(*   interval   next_poll_at - last_polled_at, 0 before the first visit    *)
(*   ttl        ttl_seconds, 0 for none                                    *)
(*   failures   the run of `failed` rows at the tail of the log            *)
(*   gone       whether any row of the log is a 410                        *)
(*   etag       the body the stored validators name, NoTag for none        *)
(*   outcome    the outcome of the newest row of the log                   *)
(***************************************************************************)
EXTENDS Schedule

CONSTANTS
  Bodies, NoTag,
  Unvisited,
  Headers    \* the Retry-After values a 429 or a 503 may carry

ASSUME FeedRowAssumption == NoTag \notin Bodies /\ Headers \subseteq Int \cup {Dated}

\* What the log can say of the newest visit.  `limited` is a `failed` row whose
\* wait the publisher named, which the schedule treats apart.
Outcomes == {"ok", "not_modified", "disallowed", "failed", "limited", Unvisited}

FreshRow ==
  [interval |-> 0, ttl |-> 0, failures |-> 0, gone |-> FALSE, etag |-> NoTag,
   outcome |-> Unvisited]

\* _log: append the visit.  Only `failed` extends the run; every other outcome ends it.
Logged(row, outcome) ==
  [row EXCEPT !.outcome = outcome,
              !.failures = IF outcome \in {"failed", "limited"} THEN @ + 1 ELSE 0]

\* _reschedule, from the wait the row was already on.
Rescheduled(row, newItems) ==
  [row EXCEPT !.interval = NextInterval(row.interval, 0, newItems, row.ttl)]

\* _record_not_modified.
NotModified(row) == Rescheduled(Logged(row, "not_modified"), 0)

\* _record_disallowed: backed off for the longest wait there is, and not failed.
Disallowed(row) == [Logged(row, "disallowed") EXCEPT !.interval = MaxBackoff]

\* _record_failure without a Retry-After; the run counts the row just logged.
Failed(row, isGone) ==
  LET logged == [Logged(row, "failed") EXCEPT !.gone = @ \/ isGone]
  IN  [logged EXCEPT !.interval = NextInterval(0, logged.failures, 0, logged.ttl)]

\* _record_failure with one: the publisher's wait replaces the schedule's.
Limited(row, header) == [Logged(row, "limited") EXCEPT !.interval = RetryAfter(header)]

\* _refresh_feed, whose ttl a document naming none leaves alone, then _reschedule.
Stored(row, tag, ttl, newItems) ==
  LET refreshed == [Logged(row, "ok") EXCEPT !.etag = tag,
                                             !.ttl = IF ttl > 0 THEN ttl ELSE @]
  IN  Rescheduled(refreshed, newItems)
=============================================================================
