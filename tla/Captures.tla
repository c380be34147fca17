------------------------------ MODULE Captures ------------------------------
(***************************************************************************)
(* Article pages: which are due (extract/due.py), what a visit does        *)
(* (extract/capture.py), when a whole host is left alone                   *)
(* (extract/breaker.py), and the robots rules all of that reads            *)
(* (robots/service.py, tasks/robots.py).  One Tick is the minute between   *)
(* two sweeps.                                                             *)
(*                                                                         *)
(* A page is the head of a subscribed item, settled and not filtered, and  *)
(* stays one; pages are numbered by `observed_at`.  Its rows in            *)
(* page_captures, and a host's run of failures in that log, are kept as    *)
(* what the queries read off them.  Captures and refreshes of one host     *)
(* exclude each other by its lock, so what a capture checks before its     *)
(* request is checked in one step.  A retry on `www.` is part of a reply.  *)
(***************************************************************************)
EXTENDS Backoff, FiniteSets

CONSTANTS
  Pages,          \* numbered oldest first
  Hosts,
  HostOf,         \* host_of(canonical_url or url)
  FinalHost,      \* the host a page's redirects end on
  Rules,          \* what a robots.txt may forbid: sets of pages
  Dead,           \* pages that answer 404 or 410
  PageRetry,      \* capture_retry, a Policy
  Probe,          \* host_probe, a Policy
  Threshold,      \* host_failure_threshold
  Batch,          \* capture_batch_size
  Slots,          \* jobs the pages queue runs at once (4), sweeps among them
  Ttl,            \* robots.ttl_seconds
  FailureTtl,     \* robots.failure_ttl_seconds
  Unread,         \* a host with no robots_policies row
  MaxRun,         \* bound: the longest run of a host's failures told apart
  MaxMoves        \* bound: rules published anew

ASSUME CapturesAssumption ==
  /\ Pages \subseteq Nat /\ IsFiniteSet(Pages) /\ Pages \cap Hosts = {}
  /\ IsFiniteSet(Slots)
  /\ HostOf \in [Pages -> Hosts] /\ FinalHost \in [Pages -> Hosts] /\ Dead \subseteq Pages
  /\ Rules \subseteq SUBSET Pages
  /\ PageRetry \in Policy /\ Probe \in Policy
  /\ PageRetry.max_failures > 0
  /\ {Threshold, Batch, Ttl, FailureTtl, MaxRun, MaxMoves} \subseteq Nat
  /\ Threshold \in 1 .. MaxRun
  /\ Unread \notin [forbids : SUBSET Pages, fresh : Nat]

VARIABLES
  published,   \* published[h]: the pages h forbids in its robots.txt
  policy,      \* policy[h]: the robots_policies row, or Unread
  rows,        \* rows[p]: what page_captures says of p
  run,         \* run[h]: the failures at the end of h's log
  wait,        \* minutes until a page is off its backoff, or a shut host's probe is due
  batch,       \* batch[s]: what the sweep in slot s has read and not deferred yet
  todo,        \* pages and hosts with a capture_page or refresh_robots job waiting
  doing,       \* those whose request is under way
  moves

world == <<published, moves>>
store == <<policy, rows, run, wait>>
queue == <<batch, todo, doing>>
vars == <<world, store, queue>>

\* article_hosts, the only hosts here whose robots.txt is ever read.
ArticleHosts == {HostOf[p] : p \in Pages}

\* What is counted and compared of a page's rows.  `refused` is a DISALLOWED row newer than
\* the rules held ("after") or than the ones being read now ("before" that refresh began).
Unvisited ==
  [held |-> FALSE, visited |-> FALSE, unasked |-> FALSE, refused |-> "no",
   failures |-> 0]

Init ==
  /\ published \in [ArticleHosts -> Rules]
  /\ policy = [h \in Hosts |-> Unread]
  /\ rows = [p \in Pages |-> Unvisited]
  /\ run = [h \in Hosts |-> 0]
  /\ wait = [k \in Pages \cup Hosts |-> 0]
  /\ batch = [s \in Slots |-> {}] /\ todo = {} /\ doing = {}
  /\ moves = 0

-----------------------------------------------------------------------------
(* The world outside.                                                      *)

Republish(h) ==
  /\ moves < MaxMoves
  /\ \E forbidden \in Rules \ {published[h]} :
       published' = [published EXCEPT ![h] = forbidden]
  /\ moves' = moves + 1
  /\ UNCHANGED <<store, queue>>

Less(n) == IF n > 0 THEN n - 1 ELSE 0

\* FAULT: a wait goes on shrinking once it is over.
TickOn ==
  /\ wait' = [k \in Pages \cup Hosts |-> wait[k] - 1]
  /\ UNCHANGED <<world, policy, rows, run, queue>>

\* A minute passes.
Tick ==
  /\ wait' = [k \in Pages \cup Hosts |-> Less(wait[k])]
  /\ policy' = [h \in Hosts |->
                  IF policy[h] = Unread THEN Unread ELSE [policy[h] EXCEPT !.fresh = Less(@)]]
  /\ UNCHANGED <<world, rows, run, queue>>

-----------------------------------------------------------------------------
(* The sweeps.                                                             *)

\* FAULT: no probe.  Nothing is asked, so nothing can end the run.
RefusingForGood(h) == run[h] >= Threshold

\* Shut, and its probe not due yet.
Refusing(h) == run[h] >= Threshold /\ wait[h] > 0

\* The subquery `settled` of due_captures.
Settled(p) ==
  \/ rows[p].held
  \/ (rows[p].visited /\ Refusing(HostOf[p]))
  \/ rows[p].refused # "no"
  \/ (rows[p].unasked /\ policy[HostOf[p]] = Unread)

\* FAULT: only the backoff is looked at.
MayTryForEver(p) == wait[p] = 0

\* Never tried, or refused and now off its backoff with tries still left.
MayTry(p) ==
  \/ rows[p].failures = 0
  \/ (rows[p].failures < PageRetry.max_failures /\ wait[p] = 0)

Due == {p \in Pages : ~ Settled(p) /\ MayTry(p)}

\* ORDER BY observed_at LIMIT batch; a host without rules is dropped after the limit.
DueCaptures ==
  {p \in Due : /\ Cardinality({q \in Due : q < p}) < Batch
               /\ policy[HostOf[p]] # Unread}

\* A slot of the pages queue is idle.  Refreshes run on the ingest queue, and take none.
SlotFree ==
  Cardinality({s \in Slots : batch[s] # {}}) + Cardinality(doing \cap Pages)
    < Cardinality(Slots)

\* schedule_captures reads its own batch.  It takes no lock: sweeps may overlap.
SweepPages(s) ==
  /\ batch[s] = {} /\ SlotFree
  /\ batch' = [batch EXCEPT ![s] = DueCaptures]
  /\ UNCHANGED <<world, store, todo, doing>>

\* stale_hosts among the hosts of articles.
StaleHosts ==
  {h \in ArticleHosts : policy[h] = Unread \/ policy[h].fresh = 0}

\* schedule_robots.  Deferred as they are read: a refresh too many changes no outcome.
SweepRobots ==
  /\ todo' = todo \cup StaleHosts
  /\ UNCHANGED <<world, store, batch, doing>>

\* defer_each, one page at a time, unless a job of it is waiting already.
Defer(s, p) ==
  /\ p \in batch[s]
  /\ batch' = [batch EXCEPT ![s] = @ \ {p}]
  /\ todo' = todo \cup {p}
  /\ UNCHANGED <<world, store, doing>>

-----------------------------------------------------------------------------
(* One job, under the lock of its host.                                    *)

HostOfJob(k) == IF k \in Pages THEN HostOf[k] ELSE k

\* FAULT: refresh_robots deferred without the hosts it visits, so under no lock.
LockFreeOfPages(k) == \A j \in doing \cap Pages : k \in Pages => HostOf[j] # HostOf[k]

LockFree(k) == \A j \in doing : HostOfJob(j) # HostOfJob(k)

Forbids(h, p) == policy[h] # Unread /\ p \in policy[h].forbids

\* FAULT: the breaker consulted by the sweep alone.
VerdictUnbroken(p) ==
  LET h == HostOf[p]
  IN  CASE policy[h] = Unread -> "unknown_rules"
        [] Forbids(h, p)      -> "disallowed"
        [] OTHER              -> "send"

\* What capture_page decides before the request, in its order.
Verdict(p) ==
  LET h == HostOf[p]
  IN  CASE policy[h] = Unread -> "unknown_rules"
        [] Forbids(h, p)      -> "disallowed"
        [] Refusing(h)        -> "refused"
        [] OTHER              -> "send"

\* A row of page_captures, as due_captures will read it.
Noted(row, outcome) ==
  [row EXCEPT !.visited = TRUE,
              !.held = @ \/ outcome = "ok",
              !.unasked = @ \/ outcome = "unknown_rules",
              !.refused = IF outcome = "disallowed" THEN "after" ELSE @,
              !.failures = IF outcome = "failed" THEN @ + 1 ELSE @]

\* The same row, as failure_run will read it: only "failed" counts, only "ok" clears.
Counted(length, outcome) ==
  CASE outcome = "failed" /\ length < MaxRun -> length + 1
    [] outcome = "ok"                         -> 0
    [] OTHER                                  -> length

\* _store: one row per visit, including the visits we decided not to make.  A failure
\* starts the page's backoff anew, and its host's from the threshold on.
Record(p, outcome) ==
  LET h == HostOf[p]
  IN  /\ rows' = [rows EXCEPT ![p] = Noted(@, outcome)]
      /\ run' = [run EXCEPT ![h] = Counted(@, outcome)]
      /\ wait' = IF outcome # "failed" THEN wait ELSE
                   [wait EXCEPT
                      ![p] = DueAfter(PageRetry, rows[p].failures + 1),
                      ![h] = IF run'[h] < Threshold THEN 0
                                                    ELSE DueAfter(Probe, run'[h] - Threshold)]
      /\ UNCHANGED policy

Start(k) ==
  /\ k \in todo /\ LockFree(k)
  /\ k \in Pages => SlotFree
  /\ todo' = todo \ {k}
  /\ UNCHANGED <<world, batch>>

Decline(p) ==
  /\ Start(p) /\ Verdict(p) # "send"
  /\ Record(p, Verdict(p))
  /\ UNCHANGED doing

Send(p) ==
  /\ Start(p) /\ Verdict(p) = "send"
  /\ doing' = doing \cup {p}
  /\ UNCHANGED store

\* Only the first host of a redirect was asked for its rules before the request.
AllowedAfterRedirect(p) ==
  \/ FinalHost[p] = HostOf[p]
  \/ (policy[FinalHost[p]] # Unread /\ ~ Forbids(FinalHost[p], p))

\* What a reply amounts to.  "error" is a FetchError, "refusal" any other failing status.
Outcome(p, reply) ==
  CASE reply = "error"            -> "failed"
    [] ~ AllowedAfterRedirect(p)  -> "disallowed"
    [] reply = "page"             -> "ok"
    [] reply = "dead"             -> "gone"
    [] reply = "refusal"          -> "failed"

Replies(p) ==
  {"error", "refusal", IF p \in Dead THEN "dead" ELSE "page"}

Answer(p) ==
  /\ p \in doing
  /\ doing' = doing \ {p}
  /\ \E reply \in Replies(p) : Record(p, Outcome(p, reply))
  /\ UNCHANGED <<world, batch, todo>>

\* robots.refresh notes the time before it asks: refusals from now on outlast its answer.
Refresh(h) ==
  /\ Start(h)
  /\ doing' = doing \cup {h}
  /\ rows' = [p \in Pages |->
                IF HostOf[p] = h /\ rows[p].refused = "after"
                  THEN [rows[p] EXCEPT !.refused = "before"] ELSE rows[p]]
  /\ UNCHANGED <<policy, run, wait>>

\* No answer, an error status and a redirect to another host store a body that allows all.
RulesReceived(h, answered) ==
  [forbids |-> IF answered THEN published[h] ELSE {},
   fresh |-> IF answered THEN Ttl ELSE FailureTtl]

\* _store_policy, and with it the end of the refusals older than the rules.
StorePolicy(h) ==
  /\ h \in doing
  /\ doing' = doing \ {h}
  /\ \E answered \in BOOLEAN : policy' = [policy EXCEPT ![h] = RulesReceived(h, answered)]
  /\ rows' = [p \in Pages |->
                IF HostOf[p] = h /\ rows[p].refused = "before"
                  THEN [rows[p] EXCEPT !.refused = "no"] ELSE rows[p]]
  /\ UNCHANGED <<world, batch, todo, run, wait>>

-----------------------------------------------------------------------------
Next ==
  \/ \E h \in ArticleHosts : Republish(h) \/ Refresh(h) \/ StorePolicy(h)
  \/ \E p \in Pages : Decline(p) \/ Send(p) \/ Answer(p)
  \/ \E s \in Slots : SweepPages(s) \/ \E p \in Pages : Defer(s, p)
  \/ SweepRobots \/ Tick

Spec == Init /\ [][Next]_vars

\* The request under way at a host ends.
Ends(h) == StorePolicy(h) \/ \E p \in Pages : HostOf[p] = h /\ Answer(p)

\* From some minute on, sweeps that overlap leave a slot to the jobs: they come one a minute.
Brisk == <>[](\E s \in Slots : batch[s] = {})

FairSpec ==
  /\ Spec /\ Brisk
  /\ WF_vars(Tick) /\ WF_vars(SweepRobots)
  /\ \A p \in Pages :
       /\ SF_vars(\E s \in Slots : SweepPages(s) /\ p \in DueCaptures)
       /\ \A s \in Slots : WF_vars(Defer(s, p))
       /\ SF_vars(Decline(p) \/ Send(p))
  /\ \A h \in ArticleHosts : SF_vars(Refresh(h)) /\ WF_vars(Ends(h))

-----------------------------------------------------------------------------
RobotsPolicy == [forbids : SUBSET Pages, fresh : Nat]

Row == [held : BOOLEAN, visited : BOOLEAN, unasked : BOOLEAN,
        refused : {"no", "before", "after"}, failures : Nat]

StoreOK ==
  /\ rows \in [Pages -> Row] /\ run \in [Hosts -> 0 .. MaxRun]
  /\ published \in [ArticleHosts -> SUBSET Pages]
  /\ policy \in [Hosts -> {Unread} \cup RobotsPolicy]
  /\ batch \in [Slots -> SUBSET Pages] /\ todo \cup doing \subseteq Pages \cup ArticleHosts

TypeOK ==
  /\ StoreOK
  /\ wait \in [Pages \cup Hosts -> Nat]

\* A host that refuses everything is one fact, not one per article (ARCHITECTURE.md:460):
\* until the probe of a shut host is due, its log gets no further failure, however many of
\* its pages are due, queued or being read by a sweep.
OneClockPerHost ==
  [][\A p \in Pages : rows'[p].failures > rows[p].failures => ~ Refusing(HostOf[p])]_vars

\* A page's tries are limited (config/extract.py:48).  The limit is applied by the sweep
\* alone, and a sweep may read a page that others hold, the queue holds or a job is
\* fetching: each of those may still fail, so a page goes past it by one a slot at most.
TriesBounded ==
  \A p \in Pages : rows[p].failures <= PageRetry.max_failures + Cardinality(Slots)

\* robots.txt is a cache, not a verdict (test_due.py:293): a page that is held back by its
\* host's rules is forbidden by the rules we hold now, never by a version since replaced.
RefusedByTheRulesHeld ==
  \A p \in Pages :
    (rows[p].refused # "no" /\ FinalHost[p] = HostOf[p]) => Forbids(HostOf[p], p)

\* A page may be fetched, and the host would answer.
Obtainable(p) ==
  /\ p \notin Dead /\ FinalHost[p] = HostOf[p] /\ p \notin published[HostOf[p]]
  /\ rows[p].failures < PageRetry.max_failures

\* Every page of ours that can be had is had in the end: through a shut host, refusals,
\* rules that come and go, and older pages that lead nowhere.
CapturedInTheEnd == <>[](\A p \in Pages : rows[p].held \/ ~ Obtainable(p))
=============================================================================
