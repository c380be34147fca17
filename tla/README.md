# old-news, formally

TLA+ specifications of old-news, the TLC configurations that check them, and proofs checked by
TLAPS. Every definition is translated from the source; paths below are relative to `src/old_news/`
unless they begin with `docs/`, `tests/` or `web/`. The `\* FAULT:` operators in the modules are
deliberate mistakes, each next to the definition it would replace: a property is worth its run only
if some such mistake breaks it.

## The system

old-news follows feeds. A worker process polls them, keeps every document and every version of
every item, carves and fetches the texts and pictures behind them, and posts a Kindle issue; an API
serves the result to a web client. Everything is Postgres: the data, the job queue (procrastinate),
and the locks that keep us polite to a host.

| component | state it keeps | operations | what makes it correct | modules |
| --- | --- | --- | --- | --- |
| schedule: `politeness/backoff.py`, `ingest/schedule.py` | `feeds.next_poll_at`, `last_polled_at`, `ttl_seconds` | interval, clamp, drift, Retry-After | a wait stays in its bounds, a ttl is kept, no outage of hours gives a feed up | `Backoff`, `Schedule`, `FeedRow`, `Cadence` |
| polling: `ingest/service.py`, `tasks/ingest.py` | the feed row, `feed_polls` (the log the run of failures is read from) | sweep, read state, ask, record one of five outcomes | a due feed is visited, a withdrawn one is not; validators never hide a body | `Polling` |
| storage: `ingest/store.py`, `db/models/item.py` | `documents`, `items`, `item_versions` | record a document, apply its items | a document lands whole; the versions of an item are one chain; no invented edits | `Archive`, `ItemVersions` |
| parsing: `ingest/parser.py`, `normalise.py` | none | bytes to entries | string work | - |
| queue: `tasks/app.py`, `sweep.py`, `tracing.py` (procrastinate) | the jobs table | defer unless queued, fetch, finish | one waiting job per subject, one running job per host | `JobQueue`, `Polling` |
| spacing: `politeness/spacing.py`, `hosts.py` | none: a delay per job | stagger | the jobs of one host are deferred a gap apart | `Spacing` |
| robots: `robots/` | `robots_policies`, one row per host | refresh, allow, Crawl-delay | a refusal ends with the rules it came from; no answer is no prohibition | `Captures` |
| page capture: `extract/due.py`, `capture.py`, `breaker.py` | `page_captures`, `hosts` | due, break, fetch, store | every page that can be had is captured; a broken host is left alone but for a probe; tries are limited, but for those under way | `Captures` |
| readings: `extract/feed.py`, `service.py`, `tasks/extract.py` | `feed_captures`, `extractions` | carve, read, show | text once found is never hidden; the head ends up read by what runs | `Readings` |
| images: `extract/images.py`, `encode.py`, `db/models/image.py` | `image_captures`, `extraction_images` | link, ask, store, re-encode | nothing held is asked for again; bytes are re-encoded once per encoder; only what can never be filled keeps the rest waiting | `Images` |
| Kindle: `kindle/`, `tasks/kindle.py` | `issues` | select, convert, record, post, stamp, resend | an item is in one issue; what is stamped was mailed; nothing is left out silently | `Kindle` |
| subscriptions: `subscriptions/`, `politeness/store.py` | `subscriptions`, `feeds`, `hosts` | follow, drop, refile, OPML import | an import can be repeated; one feed's transaction never fails another's; a filing is whole | `Subscriptions`, `Polling` (add, drop) |
| river, archive, search: `ui/` | none: queries | page by key, page by depth | paging skips nothing and repeats nothing | `River`, `Screen` |
| the list on screen: `web/src/lib/components/River.svelte`, `+layout.svelte` | the view, its first page, the pages behind | load, refresh, more | an answer that comes late lands only where it belongs | `Screen` |
| transactions: `db/session.py` | an `_open` flag per context | one function, one transaction | nothing half written | `ItemVersions`, `Subscriptions` (rollback) |
| dictionaries, filters, API, admin, passwords, rendering, telemetry, migrations, deployment, the rest of the web client | - | - | - | not modelled |

How they interact: the worker runs four queues in one process (`ingest` two jobs at once, `pages`
four, `kindle` and `default` one each). Crons defer sweeps; a sweep reads due rows in one transaction
and defers a job for each; a job reads its row, works without a transaction open, and writes the
outcome in another transaction. Jobs share nothing but rows and the host's lock. API requests and
commands of the CLI are processes of their own on the same rows. What is hard is therefore: rows
that change between the two transactions of a job, or between a sweep and the job it deferred;
overlapping transactions at READ COMMITTED; a worker killed between any two steps (a deploy does
that, `docs/ARCHITECTURE.md:590-600`), and another build of it started; waits that replace one
another; a screen that asks for pages of a list that goes on changing; and everything that has to
happen eventually on two slots.

`PROJECT.json` lists the hazards at their lines, with the properties that watch them.

## The modules

**`Backoff`, `Schedule`** are `politeness/backoff.py` and `ingest/schedule.py` function by function,
in whole seconds. `int()` of a float product becomes `\div`; `x or default` keeps Python's reading of
0 as absent. `factor` is a whole number because every factor in `config/` is. `RetryAfter` is
`service._retry_after`; a header `int()` refuses is the constant `Dated`.

**`FeedRow`** is one feed's row with what its log says: the wait it is on
(`next_poll_at - last_polled_at`), ttl, run of failures, whether a 410 was ever logged, the validators
and the last outcome. Each `_record_*` function is an operator on it. The run is a counter here and a
query over the log in the code (`db/models/poll.py:60-69`); the two agree while the log's rows are in
the order they were recorded.

**`Cadence`** visits one such row again and again with every answer a publisher can give. A
`DueVisit` is one a sweep chose: its wait is over and its run within the limit, which `due_polls`
alone reads (`service.py:50`). Such a visit may leave `Overlap` further jobs behind it, put in the
queue by sweeps that read the feed before the visit was logged (`tasks/sweep.py:34`); an
`OverlappingVisit` is one of these, with no wait and no look at the limit. That two is enough for two
slots is what `Polling` shows (`RunBounded`): the queue holds one job of a feed at a time, and one
more can be in the batch of a sweep.

**`Archive`** is the promise of `ingest/store.py`: storing a body at once. **`ItemVersions`** keeps it
row by row: a poll transaction opens, reads the newest document's hash, inserts a document, reads all
heads once, and inserts what differs; its rows appear together at the commit. The three constraints
of `db/models/item.py:293-301` and the identity constraint on items refuse a commit (`Violates`),
`db.session` rolls back (`Refused`), a killed worker rolls back too (`Abort`). An item is its
identity; the key of a version is the instant of its insert, as uuidv7 is. Fingerprints are texts.
Two things are simplified: a body that repeats one *older than the newest by timestamp* while two
transactions share a start instant cannot happen, as the clock ticks with every begin; and an insert
waiting for a rival's commit is a commit that happens after it.

**`JobQueue`** is the abstract queue: subjects waiting, subjects running per slot, subjects whose
worker died. procrastinate's code is not in the repository, so it is modelled from how
`tasks/sweep.py` and `tasks/tracing.py` use it. It has no run of its own: `Polling` is checked, and
proved, to implement it.

**`Polling`** composes publisher, sweep, queue and `poll_feed` on `FeedRow`s. One `Tick` is a minute.
A job is `begin -> asking -> answered -> done`: `ReadState` is `_fetch_state`, `Answer` the request with
no transaction open, `Record` the one write transaction of whichever outcome it was. The archive is
here only as the newest body stored (`latest`); `ItemVersions` shows that storing can be taken as
one step. `wait` is relative to now, so that a state does not depend on the date, and stops at
`-MaxLate`. A sweep is a job like any other, ahead of polls by priority, that reads its batch and
then defers it feed by feed. `Kill` ends the worker: running polls stay in `doing`, with their host
locked. A robots refusal is one of the replies, decided before the request (`service.py:220`).

**`Spacing`** is the stagger: the delay each job of a batch is deferred with.

**`Captures`** composes what decides about article pages: the due query, the job, the breaker and
the robots rules. A page stands for a head version, numbered by `observed_at`; what its rows in
`page_captures` amount to for the queries is a record (`Noted`): held, visited, refused by rules
that still stand, never asked because the rules were unread, and how often it failed. "A DISALLOWED
row newer than the rules" is `refused`: it becomes `"before"` when a refresh takes its timestamp
(`Refresh`, `robots/service.py:49`) and `"no"` when the answer is stored under that timestamp
(`StorePolicy`). A host's run of failures is the count `failure_run` reads (`Counted`), told apart
up to `MaxRun`. `wait` holds both clocks, a page's backoff and a shut host's probe, in minutes. What
`capture_page` checks before its request is one step (`Verdict`, then `Decline` or `Send`), since
only jobs of its own host could change the answer and the host's lock keeps them out; the reply and
its row are another (`Answer`). Sweeps read and defer in separate steps, each a batch of its own on
a slot of the `pages` queue, which it shares with the jobs (`SlotFree`); they take no lock, so a
page may be in several batches, in the queue and in `doing` at once. Left out: the settling and
superseding of versions, filters and unsubscribing (a page stays wanted), the learned `www.` prefix,
the bytes, spacing, kills, and the limit of 50 hosts on a robots sweep.

**`Readings`** is one item's text. Versions are numbered in the order they became head, and a text
is its fullness. `says[v][p]` is what parser `p` makes of the document version `v` came in, so that
a deploy can find text where there was none and lose text that was there. `SweepCarvings` and
`SweepExtractions` are the cron queries; `Carve` is `capture_feed` with its second look at what is
wanted and its upsert; `Pending` and `Store` are the two transactions a reading is made in, with the
parse between them; `Shown` is `Item.reading_body`. `Restart` kills the jobs in hand and may bring
another parser or extractor; what waits in the queue is kept. The page itself comes from `Captures`,
here one step per version.

**`Images`** is the pictures of one host. Slots are the `extraction_images` rows, numbered as
inserted; `Look` and `Answer` are the halves of `capture_image` around its request. An answer is
bytes and whether they came as a picture below 300; a row keeps what it first came with (`ok`), as
the upsert of `_store` does (`images.py:225-231`), so `Usable` is asked of the row. A row also
keeps, as `form`, which encoders' output its bytes are, and its `size`, by which `DueEncodes` takes
a batch, the biggest first. `Encoded` is what an encoder may make of a row: nothing, or something
smaller. `Replace` stamps either way; `Raise` is the picture on which Pillow raises what
`encode_image` does not catch (`Bombs`, `encode.py:170`), whose job fails with no stamp. Encoding
has no lock: a sweep may queue a picture again while a job has it in hand, on another place.
`encoder` is the spec and version of the running worker, and `reigns` counts, for one property, how
often each was brought in.

**`Kindle`** is the periodical with Amazon's side of the mail: the cron, the queue's one slot, and
commands by hand. A build is select and convert, record, post, stamp, in the transactions the code
has; a death, a refused mail or an answer lost on the way is a fault. An item is `wanted` as far as
the reader goes from when it is seen, and `readable` from when a reading with text of it is stored
(`StoreReading`, another job's doing); the query needs both (`Queued`). Only what has left the window
matters of time, so a tick is a day or less. Two variables are kept for one property: `lapsed`, the
items a build would have had in its window but for a fault, a delay or the reader, and `bare`, the
items that had no text when the cron's last build within their window looked.

**`Subscriptions`** is follow, drop, refile and the import, statement by statement at READ COMMITTED,
with the host and feed rows they make on the way: a row inserted and not yet committed is its
client's own, and a second insert of its key waits. `Rewrite` is the two statements of `refile`: it
reads the row and writes what differs. The import runs outline by outline, each in its own
transaction, and may be killed anywhere and started again. `contested`, `withdrawn` and `sent` are kept
for the properties.

**`River`** is the lists (`river`, `section`, `archive`, `search`) a page at a time: what is listed,
the key each is ordered by, the cursor of a page, the rows a cursor leaves. The archive arrives,
edits, blocks, expires and is unsubscribed from between any two pages. **`Screen`** is the reader's
side of it: a view with its first page, the pages fetched behind it, a refresh on its way. A page's
request and its answer are read in one step when it is sent and land in another; what the archive
does in between commutes with the reading.

`MCCadence`, `MCItemVersions`, `MCPolling`, `MCCaptures`, `MCReadings`, `MCImages`, `MCKindle`,
`MCSubscriptions` and `MCScreen` supply constants. `ItemVersionsAlone` is `ItemVersions` beside a
history variable, `overlapped`, which remembers whether two transactions were ever under way at
once; until they were, the chains implement `Archive`, one atomic step per poll
(`AloneImplementsArchive`). The eight `*Proofs` modules hold the theorems.

## The runs

| run | checks | bounds |
| --- | --- | --- |
| `Cadence` | `WaitInBounds`: an answering feed is seen again within `max_interval` or its ttl, whatever went before; nothing parks a feed past the longest backoff but its ttl; the schedule never undercuts a ttl. `GiveUpTakesADay`: a feed is given up only after more than a day of failures of its own, however its polls overlap. `CadenceTypeOK` bounds the run past the limit too. | the shipped seconds, three ttls, four Retry-Afters, two jobs left behind a visit; unbounded in visits |
| `ItemVersions` | `Chained`, `EditsChange`, `Applied` with two polls of one feed overlapping, which the host lock should prevent: the schema alone guarantees as much. `AloneImplementsArchive` (refinement): until two polls overlap, rows amount to storing a body at once, kills included. | 2 writers, 2 items, 3 bodies, 7 instants |
| `PollingHost` | `ImplementsQueue` (refinement): sweeps, jobs and kills keep the queue's promise. `DueIsVisited`: a due feed is visited or stops being due, unless its host is held by a dead poll, or as many due feeds of such hosts as a batch holds are ahead of it. | 2 feeds on 2 hosts, 2 slots, a batch of 1, 1 fault or kill, no validators (`PollingFeed` has those) |
| `PollingFeed` | `GoneIsFinal`: no request after a 410 is recorded. `RunBounded`: the run of failures passes the limit by at most one per slot. `ValidatorBacked`: validators name the newest stored body. `CatchesUp`: once publications and faults stop, we hold what is served, or gave up, or were told to stop. | 1 feed, 2 slots, 2 bodies, 2 publications or drops, 4 refusals or errors, a limit of 1 |
| `Captures` | `OneClockPerHost`: a shut host's log gets no failure before its probe is due. `TriesBounded`: a page fails past its limit at most once per slot. `RefusedByTheRulesHeld`: a page held back by robots.txt is forbidden by the rules now held. `CapturedInTheEnd`: what can be had is had, through shut hosts, failures, changed rules and an older page that leads nowhere. | 2 pages of 1 host, 2 slots for sweeps and jobs, a batch of 1, a threshold of 1, 1 change of rules, 2 tries |
| `Readings` | `TextNeverHidden`: a version some parser found text for has text where the sweeps look. `NeverBlankAgain`: what could be read goes blank only in the step that stores an empty reading; no edit, deploy, capture or kill blanks it. `HeadIsReadInTheEnd`: the head ends up carved and read by what runs. | 2 versions, 1 page, 2 parsers that disagree, 2 extractors of which one cannot read teasers, 1 restart or raised job |
| `Images` | `NothingHeldIsAsked`: no two requests for one picture, none for one held. `OneGenerationPerEncoder`: no encoder is given its own output, unless it was rolled back to. `PicturesArriveInTheEnd`: every slot whose picture can be had gets it, and every picture is read by the encoder that runs, unless slots that cannot be filled, or pictures that fail their job, take up the batch. | 2 URLs: a lead and a body share one, which answers with a picture, the same under an error, or is barred; a lead behind has the other, a picture no job gets through; batches of 1, 2 encoders, 2 encode jobs at once, 1 change, 2 restarts |
| `Kindle` | `TwiceOnlyIfOverlapping`: an item is in two issues only if their builds ran at once. `SentIsMailed`: a `sent_at` is proof of delivery. `OnlyLapsesLose`: an item leaves the window unsent only if it had no text when the last build of its window looked, through a late, failed or missed build, or by the reader's doing. | 2 items whose text comes at any time, the worker and 1 command, 2 issues, 1 move, 2 faults, three settings |
| `Subscriptions` | `FailsOnlyOnItsOwnFeed`: a transaction fails only on a feed another client was about. `FiledWhole`: the filing in a row was asked for as a whole. `ImportedInTheEnd`: an import cut short is made whole by running it again. | 2 feeds of 1 host, 2 API clients with 2 requests, an OPML file with a feed, a mail address and a page; 1 deletion, 2 kills or silent pages |
| `Screen` | `SteadyRowsShownOnce`: no row that kept its place is drawn twice. `NothingSkipped`: once there is no more, every row in the list all along is on screen. Both as long as no first page landed while another page was on its way (`crossed`). `SearchWhole`: a search of a still archive shows what it reaches, once. | 3 items, a page of 1 row, 2 views, 1 refresh, 1 change besides arrivals and the clock; a section of two items (the river is the section every feed is in), the archive and a search |
| `CapturesDeadLinks`, `ScreenTwice` | one property each, violated: see Disagreements | as `Captures` with a dead link; as `Screen`, a search alone |

Waits in `Polling` are all one minute: their lengths are checked in `Cadence`. `PollingFeed` leaves
Retry-After out of its refusals, which count as any other failure; `PollingHost` and `Cadence` have
it. The bounds are the smallest at which every fault in the modules is caught. Two slots is the
shipped number of the ingest queue. The feeds of `PollingHost` are on two hosts, so that one host
can die and its feed fill the batch of one while the other's is due: without that exception the run
fails. Two feeds behind one host's lock are left to the proofs (`QueueIsImplemented`,
`HostsSeeOnePoll`), which hold for any number of feeds and hosts. Two bodies are what a stale
validator needs, and three what an addition, an edit and a reversion need. In `PollingFeed` four
faults are the limit (1), the slots (2) and one more that would break the bound; `MaxLate` is 2 in
`PollingHost`, because ties in `next_poll_at` are broken either way and a lower cap would turn every
overdue feed into a tie. In `Captures` a batch of one and two pages are the smallest contest for a
place, and two slots let two sweeps read one page, or a sweep read it beside its job (the shipped
four are the theorem's, which is for any number); with a threshold of one every failure shuts the
host, so its probe and the page's own backoff always run side by side. Two restarts in `Images` are
a deploy and its rollback, the one way an encoder meets its own output; the one change is the
publisher mending, or breaking, what the shared URL answers; the picture that encodes is the bigger
of the two, so that the one that fails its job is ahead of it as soon as it has been made smaller.
In `Screen` the slowest poll and the window are 0, so that the hold on an item's place and its
expiry both bind within one tick. Symmetry is used only in `Kindle`, which checks invariants alone
and never tells items or hands apart. Where a cfg says `CHECK_DEADLOCK FALSE` the bounds stop the
system: everything published, asked for and failed has been.

### Fairness

`Polling.FairSpec` assumes that time passes, that a slot goes on with the job it has (a fetch is
bounded by `http.timeout_seconds`; a transaction ends), and that a job which is fetchable again and
again is fetched. The last is strong fairness because another job of the host may take the lock in
between; it is justified by the queue handing out the jobs under a lock oldest first. And
it assumes `Brisk`: from some minute on, a sweep is over before the next minute begins. Without
it the liveness properties are false: with two
slots, a sweep that is still deferring when the next one is fetched can keep both slots on sweeps,
which outrank polls, for as long as that goes on (`tasks/ingest.py:16-17`). The code does not
guarantee it; fifty inserts in a minute is what it rests on. The safety properties assume nothing
of the kind.

`Captures.FairSpec` assumes that time passes, that requests end and that deferring goes on, and a
`Brisk` of its own: in the end the sweeps, one a minute and without a lock, leave a slot of the
`pages` queue to the jobs. Three of its assumptions are strong. A page that is due again and again
is read by some sweep: what stops being due does so for a probe's or a backoff's wait, fifteen
minutes at least, and what it made room for stays due through the sweeps of those minutes. The
model's waits are one and two minutes and its sweeps come at any time, so weak fairness would miss
that. And a page's or host's job that may start again and again is started, as above.

`Readings.FairSpec` and `Images.FairSpec` assume that the crons fire, that a job waiting is taken up
and one in hand ends. Taking up a picture's job is strong, as the host's lock comes and goes, and so
is reading a picture to encode it, as the places do; everything else is weak. Of a picture no job
gets through nothing is assumed. `Subscriptions.FairSpec` assumes that a transaction and a look at a
page end, and that an import is run again until one goes through: that is the person at the
keyboard, told by the exit code and the list of outlines without a feed (`__main__.py:120-125`).
Deploys, kills and publications are never fair.

### Disagreements

Two runs end in a violation on purpose, each about something the repository says of itself.

- `CapturesDeadLinks`: `extract/due.py:96` calls a page due when it was "never tried, or refused and now
  off its backoff with tries still left". A 404 or 410 is recorded as `gone`, which settles nothing
  (`due.py:51-64`) and is not counted as a try (`due.py:78`): the page is due again in the next
  minute, and every minute after it, and keeps its place at the head of the batch. Twenty-five such
  pages (`capture_batch_size`) and no other page is captured. The migration that brought the
  column in (`20260820_0638`) tells of that outage for other outcomes.
- `ScreenTwice`: `web/src/lib/components/River.browser.test.ts:336` says a row rendered twice "takes the
  whole screen down". Lists paged by key are safe; a search is paged by depth (`ui/search.py:231`), and
  an item that arrives above the cut between two pages brings the last row of one page back as the
  first of the next.

Met while modelling, without a run of their own:

- `config/http.py:10` calls the gap to a host a floor between two requests. It is a delay given out
  when jobs are deferred: a poll that had to wait for a slot starts late, the next one on time.
- `tests/unit/ingest/test_schedule.py:60` says the failure limit is days of outage, and adds up one
  full wait a failure, over four days. A poll still running when the sweep reads its feed is deferred
  again, and the next job fails with no wait; three failures may go to one wait, and then ten take
  102,600 seconds, a little over a day, which is what `GiveUpTakesADay` claims. A 503 with a short
  Retry-After counts as a failure and is waited out for five minutes (`ingest/service.py:177-188`):
  ten of those give a feed up within the hour. The property leaves such runs out (`asked`).
- A poll that dies leaves its host locked and its host's feeds due. They are the most overdue, so
  once there are a batch of them (`ingest/service.py:53-54`, fifty) no other feed is polled.
- `docs/ARCHITECTURE.md:595` has a killed job reclaimed after `stalled_worker_timeout`. Nothing in the
  repository retries or finishes one (`tasks/maintenance.py:37` counts them), and its host stays locked.
- A `ttl` is "honoured as a floor" (`config/ingest.py:28`) except after a robots refusal or a
  Retry-After (`service.py:147`, `187`); one above `max_backoff_seconds` keeps a healthy feed
  unpolled for longer than `ui/entries.py:100` reckons with.
- "One job per subject in flight" (`tasks/sweep.py:33`) is one waiting beside one running.
- "Skipping writes no `page_captures` row" (`docs/ARCHITECTURE.md:474`), where `capture.py:193-203`
  writes one; "one probe per interval is let through" (`:471`), where a probe answered 404 or
  redirected away counts for nothing and the next page is asked at once; and a page that redirects
  to a host nobody reads the rules of is asked for again each time its own host's rules are read.
- A text carved anew by a new parser is never due for an extractor that has read the version already
  (`extract/service.py:80-85`): it is read when the extractor changes. `HeadIsReadInTheEnd` claims
  no more.
- An image slot that cannot be filled has no backoff and no limit (`extract/images.py:112`); a batch of
  them at the head is all that is asked for. And it may never be: bytes first served under an
  error are one row with the same bytes served well, which keeps the status it came with
  (`images.py:225-231`), so the slot stays empty and its picture is asked for at every sweep.
- "An image that will not decode is not worth offering again every sweep" (`extract/encode.py:171`)
  holds for `OSError` and `ValueError`. On anything else, such as Pillow's `DecompressionBombError`,
  the job fails with no stamp, and the picture is offered again, ahead of every smaller one.
- The Kindle's window is as long as its period (`config/kindle.py:10-15`), so an item is in the
  window of one build, or two at best. One whose text is extracted only after it is in no issue
  (`bare`).
- `docs/ARCHITECTURE.md:93-96` has readings span the versions so that an edit does not blank an article
  "for an hour". When the page of the new head then reads as nothing, and the feed has no text, it
  blanks for good: the newest reading of a source counts, an empty one too. `NeverBlankAgain` allows
  that step and no other.
- An encoder rolled back to reads its own output: the stamp names the last encoder, not all there
  were (`extract/encode.py:67`).
- Two refiles of one feed at once may leave a mixture nobody asked for (`subscriptions/service.py:212`),
  and two adds of it may fail one of them; the import then stops before its later outlines.
- A first page that lands while another page is on its way can leave the appended rows behind a cursor
  they do not follow (`River.svelte`, `more` keeps the `beyond` it saw): `crossed` in `Screen`.
- `Feeds.svelte` drops a change made while another is on its way.
- Dictionary training takes the scopes with most bodies first and never notes a scope that failed
  (`tasks/maintenance.py:57-65`): such scopes stay in front.

## The proofs

TLC checks the instances above; the following hold for every value of the constants, under the named
assumptions in the modules that declare them.

- `PollingProofs`, the queue: `QueueTypes` and `HostIsExclusive`, about a queue `J` of any subjects
  under any locks, the latter assuming `QueueAssumption`. `HostExclusive` is inductive beside
  `TypeOK`; `FetchExclusive` is the one step that could break it. `StaggerSpaces`: two jobs of one
  host in a batch of any length and any mix of hosts are deferred at least that host's gap apart.
- `PollingProofs`, the schedule: `WaitsAreBounded`: after any sequence of answers a feed that
  answers is seen again within the healthy ceiling, none is parked past the longest backoff, in both
  unless its own `<ttl>` is longer, and `<ttl>` is never undercut. It holds for every setting
  `ScheduleAssumption` admits, any ttls in `Nat` and any headers, integers or dates. It needs
  `CadenceTypes`, and that needs the type of `2 ^ failures`, an operator no backend interprets: the
  lemma `PowerOfTwo` reads `FS_SUBSET`, by which `2 ^ n` is the number of subsets of a set of `n`
  and so a natural. From it come what `Clamp`, `Backoff`, `Drift` and `NextInterval` return, and
  `WaitBounded`, the invariant of one row, which `PollingTypes` then uses for every feed.
  `CadenceTypes` also says how far the run passes the limit: with the jobs a visit left behind, by
  `Overlap` at most. `OutagesLastADay` proves `GiveUpTakesADay` for any bounds at least as patient
  as the shipped ones (`Patient`: a base of 15 minutes, a backoff of a day, ten failures, two jobs
  left behind a visit): `Doubling`, again by counting subsets, gives the wait after each failure
  (`LongWait`), and a run in which no answer named a wait has lasted at least what its failures, and
  those its jobs left behind may still add, cost at three to a wait (`LongOutage`, `OutageGrows`):
  102,600 seconds at the tenth.
- `PollingProofs`, the polls: `QueueIsImplemented` is the step simulation: fetch, finish, kill and
  deferral are the queue's, every other step leaves it alone. `GoneStaysGone`,
  `ValidatorsAreBacked`, `FailureRunIsBounded` and `HostsSeeOnePoll` follow from one invariant.
  `RunBounded` is not inductive: `Runs` adds to a feed's failures the sweeps and polls that may
  still add one, and the job waiting; what one of them gives up another takes over, so the sum stays
  within the limit and the slots. `Exclusive` is the lock, which `GoneIsFinal` needs: a 410 is
  recorded by the only poll of its feed.
- `ItemVersionsProofs`: `VersionTypes`, `ChainsHold`, `EditsAreChanges`, `DocumentsAreApplied`, for
  any number of overlapping transactions. `Chained` is not inductive. The invariant `IInv` adds:
  every stamp is in the past (`Stamped`, so a new key is new), keys identify versions (`Keyed`), a
  version supersedes one of its own item and older (part of `EditsChange`), and the heads a
  transaction read were heads of its feed once and are still versions, one per item at most
  (`HeadsRead`). A head that has since been superseded is caught by the unique constraint on
  `supersedes_id`, which is exactly what the proof of `CommitLinks` uses. `StoringIsAtOnce` is the
  refinement, `AloneImplementsArchive`: begin, read and insert are stutters of `Archive`, a commit
  is its step. A commit works from what it read, so `AloneInv` carries that across the steps
  between: while nothing overlapped, the versions an open transaction read are still those of its
  feed (`StillSo`), and every document stored is older than the one under way (`DocumentsDated`).
  The new heads are the newest of their items; that a newest one exists is `Least`, the
  well-foundedness of `<` on the naturals applied to a set of dates.
- `CapturesProofs`: `TriesAreBounded`, `RefusedOnlyByTheRulesHeld` and `HostHasOneClock`, for any pages,
  hosts, retry policies and rules, and also where pages redirect. None is inductive alone. `IInv` adds
  that one request of ours is out at a host (`Alone`), that the host of a page being asked for is
  open or its probe due (`Open`), that a refresh under way has aged every refusal of its host
  (`Renewing`), and that a page's failures and the places where it still waits to be tried, one for
  each batch that holds it, one in the queue and one in `doing` (`Holding`, `Places`), add up to no more
  than the limit and one a slot (`Tries`): a sweep takes a free slot before it adds a place.
  `Alone` carries the rest: with it, what is written
  about a host while a request is out is written by that request. `OneClockPerHost` is an action
  property: only `Answer` adds a failure, and `Open` says the host was not refusing. `CaptureTypes`
  proves `TypeOK` under one hypothesis of arithmetic, `PowersAreNatural`: no backend knows `^`, and the
  subsets that type a power of two say nothing of the factor 3 of a page's retries.
- `ReadingsProofs`: `TypeCorrect`, `NoTextIsHidden`, `ReadableStaysReadable`. `TextNeverHidden` is
  inductive beside the types, because what a carving keeps is the text found or the one held. For
  `NeverBlankAgain`: no step takes a reading away or puts one before another, so the newest of a
  source stays the newest until one is stored (`LastIsShownNow`, `LastIsShownNext`); if what is
  shown turned to nothing, the one now newest is empty, and either it is new or it was written over.
- `ImagesProofs`: `TypeCorrect`, `NothingHeldIsFetched`, `NoSecondGeneration`. The lock leaves one
  request out at a time (`OneAsked`). `Made` ties the encoders a picture went through, as held and
  as a job in hand has read it, to their reigns: the running encoder is not the last of a form it is
  still to read, unless it was rolled back to. A job that raises changes no row (`RaiseKeeps`), and
  `Restamped` is the one step that does.
- `KindleProofs`: `TypeCorrect`, `NothingGoesTwice`, `StampedIsMailed`. `Holding` says that what a
  build holds is disjoint from every issue recorded before it looked. `WindowIsLongEnough` proves
  `OnlyLapsesLose` under `Period <= Window`, which is the shipped pair (`config/kindle.py:10-15`: a
  weekly tick and a window of seven days). `OnlyLapsesLose` alone does not say why an item is not
  lost: `OnTime` does. An item still in no issue, build or lapse is wanted; while the digest is on
  and no build has found it without text, the next tick of the timer, or the build it has queued,
  comes before the item is one period old, and that build takes it or notes it as `bare`.
- `SubscriptionsProofs`: `TypeCorrect`, `FailsOnItsOwn`, `FilingStaysWhole`. `Clientele` says of
  every client in a transaction on an uncontested feed that it finds the rows as it read them
  (`Alone`), so its inserts and writes fit them, and that two transactions on one feed have made it
  contested (`Met`).
- `ScreenProofs`: `TypesHold`, `SteadyRowsOnce`, `KeysetSkipsNothing` and `SearchShowsAll`, for any
  items, dates and page size. The lemmas say that `Before` orders the rows of a list, what a page
  holds, and what two runs of rows joined hold. By key, a run of rows fits between two cursors
  (`Fits`) when the rows that kept their place are in it once and between them, and no item in the
  list all along is missing; what is on screen fits between the top and the cursor it ends with
  (`ScreenFits`). The search pages by depth: what is on screen is a beginning of one ordered list of
  matches as long as none joins it (`SearchReaches`).

Only model-checked is all liveness, since fairness and ENABLED are beyond the prover. No recursive
operator is used, and no theorem with an operator for a parameter, so no induction over data.

## Not modelled, and why

Parsing of feeds and pages, normalising, rendering, search ranking and the search grammar, filters'
rules, export and listings have no state that two actors share. Telemetry, configuration, passwords
and the API's plumbing keep none. Dictionary training is zstd's. Of the web client only the list is
modelled; its other screens show what they were sent. A feed deleted in Admin mid-poll (every
`_record_*` returns early) is left out of `Polling`: the job then changes nothing. Postgres and
procrastinate are taken at their documented behaviour.

The map covers the behaviour, not the bulk: of the repository's lines most are generated Pulumi SDKs
under `infra/sdks/`, migrations, the web client's markup and the string work named above. None of
them has a state machine, and a model of them would restate them, so the share of lines mapped
stays small.

## Plan

Done: everything listed above. Next, in order of worth:

1. `FailureRun`: `db/base.run_of` over a log against the counters `FeedRow` and `Captures` keep.
2. `Captures` extended: settling and superseding versions, unsubscribing, the learned `www.`, kills.
3. `Dictionaries`: train, choose, decompress, with the starvation noted above as a run.
4. Proofs: the invariants of each of these as it comes.
