------------------------------ MODULE Polling ------------------------------
(***************************************************************************)
(* Feed polling as a whole: the publisher, the sweep of tasks/ingest.py,   *)
(* the job queue, and poll_feed of ingest/service.py on the rows of        *)
(* FeedRow.  One Tick is the minute between two sweeps.                    *)
(*                                                                         *)
(* Waiting jobs may start at any time, in any order: `schedule_in`, and    *)
(* the order of the jobs under one lock, are below this grain.             *)
(***************************************************************************)
EXTENDS FeedRow, FiniteSets

CONSTANTS
  Feeds,
  HostOf,      \* the host politeness groups a feed under
  Hosts,
  Slots,       \* jobs the ingest queue runs at once (2)
  Idle,
  NoBody,
  Tagging,     \* whether an answer may carry validators, and whether it may not
  Batch,       \* poll_batch_size
  MaxAge,      \* bound: minutes one poll may last
  MaxLate,     \* bound: how far overdue is told apart
  MaxSweeps,   \* bound: sweeps waiting for a slot
  MaxMoves,    \* bound: publications, and times a feed is dropped or taken up again
  MaxFaults,   \* bound: refusals, errors and kills
  MaxKills     \* bound: of which kills of the worker

ASSUME PollingAssumption ==
  /\ HostOf \in [Feeds -> Hosts] /\ Idle \notin Feeds /\ NoBody \notin Bodies
  /\ IsFiniteSet(Slots) /\ Tagging \subseteq BOOLEAN
  /\ {Batch, MaxAge, MaxLate, MaxSweeps, MaxMoves, MaxFaults, MaxKills} \subseteq Nat

VARIABLES
  site,        \* site[f]: the body the publisher serves now
  followed,    \* feeds with an active subscription
  row,         \* row[f]: the feed's row and the tail of its log
  wait,        \* wait[f]: minutes until next_poll_at, negative when overdue
  latest,      \* latest[f]: the newest body stored, with its items
  sweeps,      \* schedule_polls jobs waiting
  todo,        \* feeds with a poll_feed job waiting
  job,         \* job[s]: what slot s is running
  stuck,       \* feeds whose poll died in `doing`
  moves, faults, kills

publisher == <<site, followed, moves>>
archive == <<row, wait, latest>>
queue == <<sweeps, todo, stuck>>
vars == <<publisher, archive, queue, job, faults, kills>>

NoJob == [task |-> "none"]
Sweep(left) == [task |-> "sweep", left |-> left]
Poll(f) == [task |-> "poll", feed |-> f, pc |-> "begin", age |-> 0]

Polled(s) == job[s].task = "poll"

Init ==
  /\ site \in [Feeds -> Bodies]
  /\ followed = Feeds
  /\ row = [f \in Feeds |-> FreshRow]
  /\ wait = [f \in Feeds |-> 0]           \* next_poll_at defaults to the insert
  /\ latest = [f \in Feeds |-> NoBody]
  /\ sweeps = 0 /\ todo = {} /\ stuck = {}
  /\ job = [s \in Slots |-> NoJob]
  /\ moves = 0 /\ faults = 0 /\ kills = 0

-----------------------------------------------------------------------------
(* The world outside.                                                      *)

Publish(f, b) ==
  /\ moves < MaxMoves /\ b # site[f]
  /\ site' = [site EXCEPT ![f] = b]
  /\ moves' = moves + 1
  /\ UNCHANGED <<followed, archive, queue, job, faults, kills>>

\* subscriptions.drop and subscriptions.add.  Neither touches the queue.
Toggle(f) ==
  /\ moves < MaxMoves
  /\ followed' = IF f \in followed THEN followed \ {f} ELSE followed \cup {f}
  /\ moves' = moves + 1
  /\ UNCHANGED <<site, archive, queue, job, faults, kills>>

\* FAULT: no time limit on a poll.
TickPatient ==
  /\ wait' = [f \in Feeds |-> IF wait[f] > -MaxLate THEN wait[f] - 1 ELSE wait[f]]
  /\ sweeps' = IF sweeps < MaxSweeps THEN sweeps + 1 ELSE sweeps
  /\ job' = [s \in Slots |-> IF Polled(s) THEN [job[s] EXCEPT !.age = @ + 1] ELSE job[s]]
  /\ UNCHANGED <<publisher, row, latest, todo, stuck, faults, kills>>

\* A minute passes: every wait shortens, and the cron of schedule_polls fires.
Tick ==
  /\ \A s \in Slots : Polled(s) => job[s].age < MaxAge
  /\ wait' = [f \in Feeds |-> IF wait[f] > -MaxLate THEN wait[f] - 1 ELSE wait[f]]
  /\ sweeps' = IF sweeps < MaxSweeps THEN sweeps + 1 ELSE sweeps
  /\ job' = [s \in Slots |-> IF Polled(s) THEN [job[s] EXCEPT !.age = @ + 1] ELSE job[s]]
  /\ UNCHANGED <<publisher, row, latest, todo, stuck, faults, kills>>

-----------------------------------------------------------------------------
(* The sweep.                                                              *)

\* FAULT: giving up forgotten by the query that applies it.
DueGivenUp == {f \in followed : ~ row[f].gone /\ wait[f] <= 0}

\* The WHERE of due_polls.
Due == {f \in followed : ~ row[f].gone /\ row[f].failures < MaxFailures /\ wait[f] <= 0}

\* ORDER BY next_poll_at LIMIT batch, ties and the long overdue in any order.
Batches ==
  {B \in SUBSET Due :
     /\ Cardinality(B) = IF Cardinality(Due) <= Batch THEN Cardinality(Due) ELSE Batch
     /\ \A f \in B, g \in Due \ B : wait[f] <= wait[g]}

\* schedule_polls is fetched and reads its batch, in one transaction.
StartSweep(s) ==
  /\ job[s] = NoJob /\ sweeps > 0
  /\ sweeps' = sweeps - 1
  /\ \E B \in Batches : job' = [job EXCEPT ![s] = Sweep(B)]
  /\ UNCHANGED <<publisher, archive, todo, stuck, faults, kills>>

\* defer_each defers one feed of the batch, unless a job of it is waiting already.
DeferNext(s) ==
  /\ job[s].task = "sweep"
  /\ \E f \in job[s].left :
       /\ todo' = todo \cup {f}
       /\ job' = [job EXCEPT ![s].left = @ \ {f}]
  /\ UNCHANGED <<publisher, archive, sweeps, stuck, faults, kills>>

EndSweep(s) ==
  /\ job[s].task = "sweep" /\ job[s].left = {}
  /\ job' = [job EXCEPT ![s] = NoJob]
  /\ UNCHANGED <<publisher, archive, queue, faults, kills>>
-----------------------------------------------------------------------------
(* One poll_feed job.                                                      *)

\* A host has a job in `doing`, alive or dead, so its lock is held.
LockHeld(f) ==
  \E g \in {job[s].feed : s \in {t \in Slots : Polled(t)}} \cup stuck : HostOf[g] = HostOf[f]

\* FAULT: the queueing lock alone: two feeds of one host may run together.
FetchUnlocked(s, f) ==
  /\ job[s] = NoJob /\ sweeps = 0 /\ f \in todo
  /\ todo' = todo \ {f}
  /\ job' = [job EXCEPT ![s] = Poll(f)]
  /\ UNCHANGED <<publisher, archive, sweeps, stuck, faults, kills>>

\* A slot fetches a poll.  Sweeps carry SCHEDULER_PRIORITY, so they go first.
Fetch(s, f) ==
  /\ job[s] = NoJob /\ sweeps = 0 /\ f \in todo /\ ~ LockHeld(f)
  /\ todo' = todo \ {f}
  /\ job' = [job EXCEPT ![s] = Poll(f)]
  /\ UNCHANGED <<publisher, archive, sweeps, stuck, faults, kills>>

At(s, pc) == Polled(s) /\ job[s].pc = pc

\* FAULT: whatever the row says by now, the queued job goes ahead.
ReadStateUnguarded(s) ==
  /\ At(s, "begin")
  /\ job' = [job EXCEPT ![s] = [task |-> "poll", feed |-> @.feed, pc |-> "asking",
                                age |-> @.age, etag |-> row[@.feed].etag]]
  /\ UNCHANGED <<publisher, archive, queue, faults, kills>>

\* _fetch_state: the validators are copied out, and a withdrawn feed ends the job.
ReadState(s) ==
  /\ At(s, "begin")
  /\ job' = [job EXCEPT ![s] =
               IF row[@.feed].gone
                 THEN [task |-> "poll", feed |-> @.feed, pc |-> "done", age |-> @.age]
                 ELSE [task |-> "poll", feed |-> @.feed, pc |-> "asking", age |-> @.age,
                       etag |-> row[@.feed].etag]]
  /\ UNCHANGED <<publisher, archive, queue, faults, kills>>

\* What a request comes back with.  Only a publisher still serving the body the
\* validators name answers 304; it may also serve that body again.
Kept(etag) == {[kind |-> "not_modified"] : x \in {etag} \ {NoTag}}
Served(b) == [kind : {"ok"}, body : {b}, tagged : Tagging]
Refusals ==
  [kind : {"disallowed", "error", "gone", "unreadable"}]
    \cup [kind : {"limited"}, header : Headers]

Answer(s) ==
  /\ At(s, "asking")
  /\ \/ /\ \E reply \in Served(site[job[s].feed])
                         \cup (IF job[s].etag = site[job[s].feed] THEN Kept(job[s].etag) ELSE {}) :
             job' = [job EXCEPT ![s] = [task |-> "poll", feed |-> @.feed, pc |-> "answered",
                                        age |-> @.age, reply |-> reply]]
        /\ UNCHANGED faults
     \/ /\ faults < MaxFaults
        /\ \E reply \in Refusals :
             job' = [job EXCEPT ![s] = [task |-> "poll", feed |-> @.feed, pc |-> "answered",
                                        age |-> @.age, reply |-> reply]]
        /\ faults' = faults + 1
  /\ UNCHANGED <<publisher, archive, queue, kills>>

\* The row after each reply: one transaction, and nothing else moves (poll_feed).  An
\* unreadable body fails the poll after its store rolled back, and the job with it.
Recorded(old, b, reply, newItems) ==
  CASE reply.kind = "not_modified" -> NotModified(old)
    [] reply.kind = "disallowed"   -> Disallowed(old)
    [] reply.kind = "limited"      -> Limited(old, reply.header)
    [] reply.kind = "gone"         -> Failed(old, TRUE)
    [] reply.kind \in {"error", "unreadable"} -> Failed(old, FALSE)
    [] reply.kind = "ok" ->
         Stored(old, IF reply.tagged THEN reply.body ELSE NoTag, 0,
                IF reply.body = b THEN 0 ELSE newItems)

\* FAULT: the validators refreshed outside the transaction that stores the body.
RecordSplit(s) ==
  /\ At(s, "answered")
  /\ LET f == job[s].feed  reply == job[s].reply IN
     /\ row' = [row EXCEPT ![f] = Recorded(@, latest[f], reply, 0)]
     /\ latest' \in IF reply.kind = "ok"
                      THEN {latest, [latest EXCEPT ![f] = reply.body]}
                      ELSE {latest}
     /\ wait' = [wait EXCEPT ![f] = row'[f].interval - job[s].age]
     /\ job' = [job EXCEPT ![s] = [task |-> "poll", feed |-> f, pc |-> "done", age |-> @.age]]
  /\ UNCHANGED <<publisher, queue, faults, kills>>

\* FAULT: the visit logged and the schedule left where it was.
RecordUnscheduled(s) ==
  /\ At(s, "answered")
  /\ LET f == job[s].feed  reply == job[s].reply IN
     /\ \E newItems \in 0 .. 1 : row' = [row EXCEPT ![f] = Recorded(@, latest[f], reply, newItems)]
     /\ latest' = IF reply.kind = "ok" THEN [latest EXCEPT ![f] = reply.body] ELSE latest
     /\ wait' = wait
     /\ job' = [job EXCEPT ![s] = [task |-> "poll", feed |-> f, pc |-> "done", age |-> @.age]]
  /\ UNCHANGED <<publisher, queue, faults, kills>>

\* _store_poll, _record_not_modified, _record_disallowed or _record_failure.
Record(s) ==
  /\ At(s, "answered")
  /\ LET f == job[s].feed  reply == job[s].reply IN
     /\ \E newItems \in 0 .. 1 : row' = [row EXCEPT ![f] = Recorded(@, latest[f], reply, newItems)]
     /\ latest' = IF reply.kind = "ok" THEN [latest EXCEPT ![f] = reply.body] ELSE latest
     /\ wait' = [wait EXCEPT ![f] = row'[f].interval - job[s].age]   \* `now` is the start
     /\ job' = [job EXCEPT ![s] = [task |-> "poll", feed |-> f, pc |-> "done", age |-> @.age]]
  /\ UNCHANGED <<publisher, queue, faults, kills>>

\* The job leaves `doing`, deleted or failed, and its lock with it.
Finish(s) ==
  /\ At(s, "done")
  /\ job' = [job EXCEPT ![s] = NoJob]
  /\ UNCHANGED <<publisher, archive, queue, faults, kills>>

\* The worker dies: every poll it was running stays in `doing`, and so does its lock.
Kill ==
  /\ faults < MaxFaults /\ kills < MaxKills
  /\ stuck' = stuck \cup {job[s].feed : s \in {t \in Slots : Polled(t)}}
  /\ job' = [s \in Slots |-> NoJob]
  /\ faults' = faults + 1 /\ kills' = kills + 1
  /\ UNCHANGED <<publisher, archive, sweeps, todo>>

-----------------------------------------------------------------------------
Slot(s) ==
  \/ StartSweep(s) \/ DeferNext(s) \/ EndSweep(s)
  \/ ReadState(s) \/ Answer(s) \/ Record(s) \/ Finish(s)

Next ==
  \/ \E f \in Feeds, b \in Bodies : Publish(f, b)
  \/ \E f \in Feeds : Toggle(f)
  \/ Tick
  \/ \E s \in Slots : Slot(s)
  \/ \E s \in Slots, f \in Feeds : Fetch(s, f)
  \/ Kill

Spec == Init /\ [][Next]_vars

\* Time passes, a running job goes on to its end (timeout_seconds bounds the fetch), and a
\* job that is fetchable again and again is fetched: the queue hands them out oldest first.
Fairness ==
  /\ WF_vars(Tick)
  /\ \A s \in Slots : WF_vars(Slot(s))
  /\ \A f \in Feeds : SF_vars(\E s \in Slots : Fetch(s, f))

\* No sweep waits or runs.
SweepsOver == sweeps = 0 /\ \A s \in Slots : job[s].task # "sweep"

\* From some minute on, a sweep is over before the next minute begins.
Brisk == <>[][Tick => SweepsOver]_vars

FairSpec == Spec /\ Fairness /\ Brisk

-----------------------------------------------------------------------------
Replies == Refusals \cup {[kind |-> "not_modified"]} \cup UNION {Served(b) : b \in Bodies}

Jobs ==
  {NoJob} \cup [task : {"sweep"}, left : SUBSET Feeds]
    \cup [task : {"poll"}, feed : Feeds, pc : {"begin", "done"}, age : 0 .. MaxAge]
    \cup [task : {"poll"}, feed : Feeds, pc : {"asking"}, age : 0 .. MaxAge,
          etag : Bodies \cup {NoTag}]
    \cup [task : {"poll"}, feed : Feeds, pc : {"answered"}, age : 0 .. MaxAge,
          reply : Replies]

Rows ==
  [interval : Nat, ttl : Nat, failures : Nat, gone : BOOLEAN,
   etag : Bodies \cup {NoTag}, outcome : Outcomes]

TypeOK ==
  /\ site \in [Feeds -> Bodies] /\ followed \subseteq Feeds
  /\ row \in [Feeds -> Rows] /\ wait \in [Feeds -> Int]
  /\ latest \in [Feeds -> Bodies \cup {NoBody}]
  /\ todo \subseteq Feeds /\ stuck \subseteq Feeds
  /\ job \in [Slots -> Jobs]
  /\ {sweeps, moves, faults, kills} \subseteq Nat

\* The queue as JobQueue has it: which feed each slot is polling.
Q == INSTANCE JobQueue WITH
  Keys <- Feeds, Locks <- Hosts, LockOf <- HostOf, NoLock <- NoTag,
  doing <- [s \in Slots |-> IF Polled(s) THEN job[s].feed ELSE Idle]

ASSUME PollingQueueAssumption == Q!QueueAssumption

\* The worker keeps the queue's promises through sweeps, failures and kills.
ImplementsQueue == Q!Spec

\* The validators a poll will send name a body that was stored with its items: a 304 to
\* them never hides one that was not (service.py:93, 98-105).
ValidatorBacked == \A f \in Feeds : row[f].etag # NoTag => row[f].etag = latest[f]

\* A publisher that answered 410 is not asked again, by any job queued or running before
\* the answer was recorded (service.py:73).
GoneIsFinal ==
  \A s \in Slots : (At(s, "asking") \/ At(s, "answered")) => ~ row[job[s].feed].gone

\* Giving up is read by the sweep and not by the job, so jobs queued before the limit still
\* run: the visits past it are at most one per slot (service.py:50, 71-81).
RunBounded == \A f \in Feeds : row[f].failures <= MaxFailures + Cardinality(Slots)

\* A poll of this host died in `doing`: nothing takes its lock back (tasks/maintenance.py:14).
HostDead(f) == \E g \in stuck : HostOf[g] = HostOf[f]

\* A due feed of ours is visited, or stops being due, whatever else is in the queue, unless
\* its host is dead, or as many feeds of dead hosts as a batch holds are due: those are
\* never visited, so they stay the most overdue and fill the head of every batch
\* (service.py:53-54).
DueIsVisited ==
  \A f \in Feeds :
    (f \in Due) ~> (\/ f \notin Due \/ \E s \in Slots : Polled(s) /\ job[s].feed = f
                   \/ HostDead(f)
                   \/ Cardinality({g \in Due : HostDead(g)}) >= Batch)

\* Once the publisher stops changing, what we hold is what it serves, unless we gave up on
\* the feed, were told it is gone, or dropped it.
CatchesUp ==
  \A f \in Feeds :
    <>[](\/ latest[f] = site[f]
         \/ f \notin followed \/ row[f].gone \/ row[f].failures >= MaxFailures)
=============================================================================
