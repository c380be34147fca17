------------------------------- MODULE Kindle -------------------------------
(***************************************************************************)
(* The periodical: the cron that defers a build, the build itself          *)
(* (kindle/service.py: select, convert, record, post), builds and resends  *)
(* by hand (__main__.py), and Amazon's side of the mail.  One Tick is a    *)
(* day or less: all that matters is which items have left the window.      *)
(*                                                                         *)
(* An item is wanted while everything in selection.wanted but its age and  *)
(* its text holds: followed, of the kindle tier, unread, not blocked.  The *)
(* text comes later, by other jobs (Readings).                             *)
(***************************************************************************)
EXTENDS Integers, Sequences, FiniteSets

CONSTANTS
  Items,
  Hands,       \* commands run by hand, each a process of its own
  Worker,      \* the kindle queue's one slot
  Window,      \* window_days, in ticks
  Period,      \* ticks between two firings of the cron
  Modes,       \* the settings tried: "off", "built" (enabled, no address) or "posted"
  Unseen,
  MaxIssues,   \* bound: issues built
  MaxMoves,    \* bound: resends, and times an item stops being wanted or is wanted again
  MaxFaults    \* bound: conversions that fail, refused mail, kills and missed firings

ASSUME KindleAssumption ==
  /\ Worker \notin Hands /\ Unseen \notin Int
  /\ {Window, Period, MaxIssues, MaxMoves, MaxFaults} \subseteq Nat
  /\ Modes \subseteq {"off", "built", "posted"}

VARIABLES
  mode,        \* KindleSettings.enabled and .deliverable
  age,         \* age[i]: ticks since first_seen_at, told apart up to the window
  wanted,      \* items selection.wanted would take at any age, had they a text
  readable,    \* items a reading with text is stored for: selection.has_reading
  issues,      \* the issues table: the items in it, sent_at, and for the properties how
               \* many issues there were when its contents were selected
  mailed,      \* mailed[n]: times issue n reached Amazon
  cronIn,      \* ticks until the cron fires
  queued,      \* a build_issue job is waiting
  job,         \* job[p]: what a process is doing
  lapsed,      \* for a property only: items that some build should have taken and a fault,
               \* a delay or the reader kept it from
  bare,        \* for a property only: items that had no text when the cron's last build
               \* within their window looked
  moves, faults

vars == <<mode, age, wanted, readable, issues, mailed, cronIn, queued, job, lapsed, bare,
          moves, faults>>
world == <<mode, age, wanted, readable, cronIn, moves>>
mail == <<issues, mailed>>

Processes == Hands \cup {Worker}

Idle == [pc |-> "idle"]
Converting(contents, after) == [pc |-> "converting", items |-> contents, after |-> after]
Posting(n) == [pc |-> "posting", issue |-> n]
Stamping(n, ok) == [pc |-> "stamping", issue |-> n, ok |-> ok]

Init ==
  /\ mode \in Modes
  /\ age = [i \in Items |-> Unseen] /\ wanted = {} /\ readable = {}
  /\ issues = <<>> /\ mailed = <<>>
  /\ cronIn = Period /\ queued = FALSE
  /\ job = [p \in Processes |-> Idle]
  /\ lapsed = {} /\ bare = {} /\ moves = 0 /\ faults = 0

Seen == {i \in Items : age[i] # Unseen}

-----------------------------------------------------------------------------
(* The archive and the reader.                                             *)

\* An item is first seen, before any reading of it.
Arrive(i) ==
  /\ age[i] = Unseen
  /\ age' = [age EXCEPT ![i] = 0] /\ wanted' = wanted \cup {i}
  /\ UNCHANGED <<mode, readable, mail, cronIn, queued, job, lapsed, bare, moves, faults>>

\* A reading of it is stored that has text.
StoreReading(i) ==
  /\ i \in Seen \ readable
  /\ readable' = readable \cup {i}
  /\ UNCHANGED <<mode, age, wanted, mail, cronIn, queued, job, lapsed, bare, moves, faults>>

\* Read to the end, blocked, dropped or refiled; or the other way about.
Toggle(i) ==
  /\ moves < MaxMoves /\ i \in Seen
  /\ wanted' = IF i \in wanted THEN wanted \ {i} ELSE wanted \cup {i}
  /\ lapsed' = lapsed \cup {i}
  /\ moves' = moves + 1
  /\ UNCHANGED <<mode, age, readable, mail, cronIn, queued, job, bare, faults>>

\* Time passes.  A build still waiting looks back from a later day.
Tick ==
  /\ cronIn > 0
  /\ age' = [i \in Items |-> IF i \in Seen /\ age[i] <= Window THEN age[i] + 1 ELSE age[i]]
  /\ cronIn' = cronIn - 1
  /\ lapsed' = IF queued THEN lapsed \cup Seen ELSE lapsed
  /\ UNCHANGED <<mode, wanted, readable, mail, queued, job, bare, moves, faults>>

\* schedule_issue: deferred unless one is waiting already (queueing_lock).
Cron ==
  /\ cronIn = 0
  /\ cronIn' = Period
  /\ queued' = (queued \/ mode # "off")
  /\ UNCHANGED <<mode, age, wanted, readable, mail, job, lapsed, bare, moves, faults>>

\* No worker was there to fire it.
MissCron ==
  /\ cronIn = 0 /\ faults < MaxFaults
  /\ cronIn' = Period
  /\ lapsed' = lapsed \cup Seen
  /\ faults' = faults + 1
  /\ UNCHANGED <<mode, age, wanted, readable, mail, queued, job, bare, moves>>

-----------------------------------------------------------------------------
(* A build.                                                                *)

\* FAULT: an issue counts once it has a sent_at.
LedgerOfSent == UNION {issues[n].items : n \in {m \in DOMAIN issues : issues[m].sent}}

\* selection.sent: items that are in some issue.
Ledger == UNION {issues[n].items : n \in DOMAIN issues}

\* FAULT: the far end of the window left out.
QueuedShort == {i \in Seen \cap wanted \cap readable : age[i] < Window} \ Ledger

\* selection.queued, with first_seen_at >= cutoff.
Queued == {i \in Seen \cap wanted \cap readable : age[i] <= Window} \ Ledger

\* FAULT: posted before it is recorded.
SelectAndPost(p) ==
  /\ job' = [job EXCEPT ![p] = IF Queued = {} THEN Idle ELSE Posting(Len(issues) + 1)]

\* The candidates are read in a transaction of their own; a quiet week ends the build.
Select(p) ==
  /\ job' = [job EXCEPT ![p] = IF Queued = {} THEN Idle ELSE Converting(Queued, Len(issues))]

\* The worker takes the waiting job.
BuildByTimer ==
  /\ queued /\ job[Worker] = Idle
  /\ queued' = FALSE
  /\ Select(Worker)
  /\ bare' = {i \in Seen : IF age[i] <= Window THEN i \notin readable ELSE i \in bare}
  /\ UNCHANGED <<world, mail, lapsed, faults>>

\* `old-news kindle build`: no queue, so no lock either.
BuildByHand(p) ==
  /\ job[p] = Idle /\ Queued # {}
  /\ Select(p)
  /\ UNCHANGED <<world, mail, queued, lapsed, bare, faults>>

\* FAULT: the issue stamped as it is recorded.
RecordStamped(p) ==
  /\ job[p].pc = "converting" /\ Len(issues) < MaxIssues
  /\ issues' = Append(issues, [items |-> job[p].items, sent |-> mode = "posted",
                               after |-> job[p].after])
  /\ mailed' = Append(mailed, 0)
  /\ job' = [job EXCEPT ![p] = IF mode = "posted" THEN Posting(Len(issues')) ELSE Idle]
  /\ UNCHANGED <<world, queued, lapsed, bare, faults>>

\* _record: the issue and its items in one transaction, then on to the mail if there is one.
Record(p) ==
  /\ job[p].pc = "converting" /\ Len(issues) < MaxIssues
  /\ issues' = Append(issues, [items |-> job[p].items, sent |-> FALSE, after |-> job[p].after])
  /\ mailed' = Append(mailed, 0)
  /\ job' = [job EXCEPT ![p] = IF mode = "posted" THEN Posting(Len(issues')) ELSE Idle]
  /\ UNCHANGED <<world, queued, lapsed, bare, faults>>

\* The items a process has taken and not recorded.
Carrying(p) == IF job[p].pc = "converting" THEN job[p].items ELSE {}

\* ConversionFailed ends the job; nothing was written.
FailToConvert(p) ==
  /\ job[p].pc = "converting" /\ faults < MaxFaults
  /\ job' = [job EXCEPT ![p] = Idle]
  /\ lapsed' = lapsed \cup Carrying(p)
  /\ faults' = faults + 1
  /\ UNCHANGED <<world, mail, queued, bare>>

\* `old-news kindle resend`, of any issue, whatever became of it (_stored).
Resend(p) ==
  /\ job[p] = Idle /\ moves < MaxMoves
  /\ \E n \in DOMAIN issues : job' = [job EXCEPT ![p] = Posting(n)]
  /\ moves' = moves + 1
  /\ UNCHANGED <<mode, age, wanted, readable, mail, cronIn, queued, lapsed, bare, faults>>

\* deliver.send: taken, refused, or taken with the answer lost.
Send(p) ==
  /\ job[p].pc = "posting"
  /\ LET n == job[p].issue IN
     \/ /\ mode # "built"
        /\ mailed' = [mailed EXCEPT ![n] = @ + 1]
        /\ job' = [job EXCEPT ![p] = Stamping(n, TRUE)]
        /\ UNCHANGED faults
     \/ /\ faults < MaxFaults
        /\ \E taken \in {0, 1} : mailed' = [mailed EXCEPT ![n] = @ + taken]
        /\ job' = [job EXCEPT ![p] = Stamping(n, FALSE)]
        /\ faults' = faults + 1
  /\ UNCHANGED <<world, issues, queued, lapsed, bare>>

\* _posted: sent_at, or null where there was an error.
Stamp(p) ==
  /\ job[p].pc = "stamping"
  /\ issues' = [issues EXCEPT ![job[p].issue].sent = job[p].ok]
  /\ job' = [job EXCEPT ![p] = Idle]
  /\ UNCHANGED <<world, mailed, queued, lapsed, bare, faults>>

\* A process dies wherever it is.  Nothing takes its work up again.
Kill(p) ==
  /\ job[p] # Idle /\ faults < MaxFaults
  /\ job' = [job EXCEPT ![p] = Idle]
  /\ lapsed' = lapsed \cup Carrying(p)
  /\ faults' = faults + 1
  /\ UNCHANGED <<world, mail, queued, bare>>

-----------------------------------------------------------------------------
Next ==
  \/ \E i \in Items : Arrive(i) \/ StoreReading(i) \/ Toggle(i)
  \/ Tick \/ Cron \/ MissCron
  \/ BuildByTimer
  \/ \E p \in Hands : BuildByHand(p) \/ Resend(p)
  \/ \E p \in Processes : Record(p) \/ FailToConvert(p) \/ Send(p) \/ Stamp(p) \/ Kill(p)

Spec == Init /\ [][Next]_vars

-----------------------------------------------------------------------------
Rows == [items : SUBSET Items, sent : BOOLEAN, after : Nat]

Jobs ==
  {Idle} \cup [pc : {"converting"}, items : SUBSET Items, after : Nat]
    \cup [pc : {"posting"}, issue : DOMAIN issues]
    \cup [pc : {"stamping"}, issue : DOMAIN issues, ok : BOOLEAN]

TypeOK ==
  /\ mode \in Modes
  /\ age \in [Items -> Nat \cup {Unseen}] /\ wanted \subseteq Items
  /\ readable \subseteq Items
  /\ issues \in Seq(Rows) /\ mailed \in Seq(Nat) /\ Len(mailed) = Len(issues)
  /\ cronIn \in Nat /\ queued \in BOOLEAN
  /\ job \in [Processes -> Jobs]
  /\ lapsed \subseteq Items /\ bare \subseteq Items /\ moves \in Nat /\ faults \in Nat

\* The ledger is "the only reason not to resend" (selection.py:38) and is written with the
\* issue, before the mail: an item goes into a second issue only when the two builds ran at
\* once.  A build never takes what was recorded before it looked, posted or not.
TwiceOnlyIfOverlapping ==
  \A m, n \in DOMAIN issues :
    (m < n /\ issues[m].items \cap issues[n].items # {}) => m > issues[n].after

\* "An error leaves sent_at null, so a resend can find it" (service.py:79): an issue with a
\* sent_at has reached Amazon, through crashes, lost answers and resends at the same time.
SentIsMailed == \A n \in DOMAIN issues : issues[n].sent => mailed[n] > 0

\* The window is as long as the time between two builds, and a build that does not happen is
\* not made up for (selection.py:69, tasks/kindle.py:32).  An item that has left the window is
\* in an issue or in a build's hands, unless it had no text yet when the last build within its
\* window looked, or a build that should have taken it came late, failed or was missed, or the
\* reader changed their mind.
OnlyLapsesLose ==
  mode # "off" =>
    \A i \in Seen : age[i] > Window =>
      i \in Ledger \cup lapsed \cup bare \cup UNION {Carrying(p) : p \in Processes}
=============================================================================
