------------------------------ MODULE Readings ------------------------------
(***************************************************************************)
(* One item's text, from the stored documents and pages to what a reader   *)
(* is shown: the sweeps of tasks/extract.py, the carving of feed text      *)
(* (extract/feed.py), the readings of both sources (extract/service.py),   *)
(* and the text an item has across its versions (db/models/item.py).       *)
(*                                                                         *)
(* Versions are numbered in the order they became head.  A text is its     *)
(* fullness: None, or how much of the article it is.  Every job goes by    *)
(* the parser and the extractor of the worker that runs it, and a deploy   *)
(* changes both under the jobs that wait.                                  *)
(***************************************************************************)
EXTENDS Naturals, Sequences, FiniteSets

CONSTANTS
  Parsers, Extractors,
  Fullest,       \* texts are 0 .. Fullest
  Documents,     \* what the parsers find for the item in the documents a publisher may serve
  Reads,         \* Reads[e][text]: what extractor e makes of a text
  MaxVersions,   \* bound: versions of the item
  MaxPages,      \* bound: versions whose page is captured
  MaxRestarts    \* bound: deploys, kills and jobs that raise

None == 0
Texts == None .. Fullest

ASSUME ReadingsAssumption ==
  /\ {Fullest, MaxVersions, MaxPages, MaxRestarts} \subseteq Nat
  /\ Parsers # {} /\ Extractors # {}
  /\ Documents \subseteq [Parsers -> Texts]
  /\ Reads \in [Extractors -> [Texts -> Texts]]

VARIABLES
  parser, extractor,   \* what the running worker stamps its work with
  says,       \* says[v][p]: the text parser p finds for version v in its document
  page,       \* page[v]: the text of v's captured page, None before there is one
  carvings,   \* carvings[v]: feed_captures rows of v, [text, parser], by captured_at
  readings,   \* extractions rows, [version, source, extractor, text], by created_at
  todo,       \* jobs waiting, [task, version]: a queueing lock keeps one of each
  reading,    \* jobs that have read their artefact: [version, source, text]
  restarts

vars == <<parser, extractor, says, page, carvings, readings, todo, reading, restarts>>
worker == <<parser, extractor, restarts>>
archive == <<says, page>>

Sources == {"feed", "page"}
Versions == 1 .. Len(says)
Jobs == [task : {"carve", "feed", "page"}, version : Versions]
Job(task, v) == [task |-> task, version |-> v]

Init ==
  /\ parser = CHOOSE p \in Parsers : TRUE
  /\ extractor = CHOOSE e \in Extractors : TRUE
  /\ says = <<>> /\ page = <<>> /\ carvings = <<>> /\ readings = <<>>
  /\ todo = {} /\ reading = {} /\ restarts = 0

\* ItemVersion.is_head: the version nothing supersedes.
IsHead(v) == v = Len(says)

-----------------------------------------------------------------------------
(* The rest of the archive.                                                *)

\* A poll stores a version, and its document with it (ItemVersions).
Publish ==
  /\ Len(says) < MaxVersions
  /\ \E text \in Documents : says' = Append(says, text)
  /\ page' = Append(page, None) /\ carvings' = Append(carvings, <<>>)
  /\ UNCHANGED <<worker, readings, todo, reading>>

\* A version's page is captured, once (Captures).
CapturePage(v) ==
  /\ page[v] = None
  /\ Cardinality({u \in Versions : page[u] # None}) < MaxPages
  /\ \E text \in Texts \ {None} : page' = [page EXCEPT ![v] = text]
  /\ UNCHANGED <<worker, says, carvings, readings, todo, reading>>

\* The worker stops with its jobs in hand and another starts, of this build or another.
\* What waits is kept; a job in `doing` is not run again.
Restart ==
  /\ restarts < MaxRestarts
  /\ parser' \in Parsers /\ extractor' \in Extractors
  /\ reading' = {}
  /\ restarts' = restarts + 1
  /\ UNCHANGED <<archive, carvings, readings, todo>>

\* A job raises, or dies before it wrote anything.
Raise(job) ==
  /\ job \in todo /\ restarts < MaxRestarts
  /\ todo' = todo \ {job}
  /\ restarts' = restarts + 1
  /\ UNCHANGED <<parser, extractor, archive, carvings, readings, reading>>

-----------------------------------------------------------------------------
(* Carving.                                                                *)

\* _carved: the current parser has read text out of this version.
Carved(v) == \E n \in DOMAIN carvings[v] : carvings[v][n].parser = parser

\* ItemVersion.feed_capture, _held: the newest carving.
Held(v) == IF carvings[v] = <<>> THEN None ELSE carvings[v][Len(carvings[v])].text

\* schedule_feed_captures.
SweepCarvings ==
  /\ \E v \in Versions : IsHead(v) /\ ~ Carved(v) /\ Job("carve", v) \notin todo
  /\ todo' = todo \cup {Job("carve", v) : v \in {u \in Versions : IsHead(u) /\ ~ Carved(u)}}
  /\ UNCHANGED <<worker, archive, carvings, readings, reading>>

\* FAULT: what this parse found is kept, even where it is nothing.
KeptAsFound(v) == says[v][parser]

\* What _store keeps: the text found, or what was held where nothing was.
Kept(v) == IF says[v][parser] # None THEN says[v][parser] ELSE Held(v)

\* FAULT: on_conflict_do_nothing, as page and image rows have it.
StampedNever(v, text) ==
  IF \E n \in DOMAIN carvings[v] : carvings[v][n].text = text
    THEN carvings[v]
    ELSE Append(carvings[v], [text |-> text, parser |-> parser])

\* FAULT: stamped with the extractor's version.
StampedByExtractor(v, text) == Append(carvings[v], [text |-> text, parser |-> extractor])

\* The upsert: unique by text, and a text held already only moves its stamp.
Stamped(v, text) ==
  IF \E n \in DOMAIN carvings[v] : carvings[v][n].text = text
    THEN [n \in DOMAIN carvings[v] |->
            IF carvings[v][n].text = text THEN [carvings[v][n] EXCEPT !.parser = parser]
                                          ELSE carvings[v][n]]
    ELSE Append(carvings[v], [text |-> text, parser |-> parser])

\* capture_feed: parses the stored document, then asks again what is wanted of it.
Carve(v) ==
  /\ Job("carve", v) \in todo
  /\ todo' = todo \ {Job("carve", v)}
  /\ carvings' = IF IsHead(v) /\ ~ Carved(v)
                   THEN [carvings EXCEPT ![v] = Stamped(v, Kept(v))] ELSE carvings
  /\ UNCHANGED <<worker, archive, readings, reading>>

-----------------------------------------------------------------------------
(* Reading.                                                                *)

\* The artefact a source is read from: the newest carving, or the captured page.
Artefact(source, v) == IF source = "feed" THEN Held(v) ELSE page[v]

\* _extracted: the current extractor has a reading of this source of this version.
Extracted(source, v) ==
  \E n \in DOMAIN readings :
    /\ readings[n].version = v /\ readings[n].source = source
    /\ readings[n].extractor = extractor

\* due_feed_extractions, due_extractions.
DueExtractions(source) ==
  {v \in Versions : IsHead(v) /\ Artefact(source, v) # None /\ ~ Extracted(source, v)}

\* schedule_feed_extractions, schedule_extractions.
SweepExtractions(source) ==
  /\ \E v \in DueExtractions(source) : Job(source, v) \notin todo
  /\ todo' = todo \cup {Job(source, v) : v \in DueExtractions(source)}
  /\ UNCHANGED <<worker, archive, carvings, readings, reading>>

\* pending_feed, pending: the artefact is read in one transaction, and parsed outside any.
\* Whether the version is still the head, or still unread, is not asked again.
Pending(source, v) ==
  /\ Job(source, v) \in todo
  /\ todo' = todo \ {Job(source, v)}
  /\ reading' = IF Artefact(source, v) = None THEN reading
                ELSE reading \cup {[version |-> v, source |-> source, text |-> Artefact(source, v)]}
  /\ UNCHANGED <<worker, archive, carvings, readings>>

\* The upsert on READING_KEY: the body moves, created_at does not.
Upsert(row) ==
  LET same(r) == r.version = row.version /\ r.source = row.source /\ r.extractor = row.extractor
  IN  IF \E n \in DOMAIN readings : same(readings[n])
        THEN [n \in DOMAIN readings |-> IF same(readings[n]) THEN row ELSE readings[n]]
        ELSE Append(readings, row)

\* store: an extractor may make nothing of a text, and that too is a reading.
Store(job) ==
  /\ job \in reading
  /\ readings' = Upsert([version |-> job.version, source |-> job.source,
                         extractor |-> extractor, text |-> Reads[extractor][job.text]])
  /\ reading' = reading \ {job}
  /\ UNCHANGED <<worker, archive, carvings, todo>>

-----------------------------------------------------------------------------
Next ==
  \/ Publish \/ Restart
  \/ \E v \in Versions : CapturePage(v) \/ Carve(v)
  \/ SweepCarvings
  \/ \E job \in todo : Raise(job)
  \/ \E source \in Sources : SweepExtractions(source)
  \/ \E source \in Sources, v \in Versions : Pending(source, v)
  \/ \E job \in reading : Store(job)

Spec == Init /\ [][Next]_vars

\* The crons fire, and the worker gets to every job that waits and finishes what it starts.
FairSpec ==
  /\ Spec
  /\ WF_vars(SweepCarvings) /\ \A source \in Sources : WF_vars(SweepExtractions(source))
  /\ \A v \in 1 .. MaxVersions :
       WF_vars(v \in Versions /\ Carve(v))
  /\ \A source \in Sources, v \in 1 .. MaxVersions :
       WF_vars(v \in Versions /\ Pending(source, v))
  /\ WF_vars(\E job \in reading : Store(job))

-----------------------------------------------------------------------------
(* What a reader is shown.                                                 *)

\* The newest reading of one source, across every version of the item.
NewestReading(source) ==
  LET mine == {n \in DOMAIN readings : readings[n].source = source}
  IN  IF mine = {} THEN None
      ELSE readings[CHOOSE n \in mine : \A m \in mine : m <= n].text

\* FAULT: the head's readings alone.
ShownOfHead ==
  LET of(source) == {n \in DOMAIN readings : IsHead(readings[n].version)
                                               /\ readings[n].source = source}
      newest(source) ==
        IF of(source) = {} THEN None
        ELSE readings[CHOOSE n \in of(source) : \A m \in of(source) : m <= n].text
  IN  IF newest("page") > newest("feed") THEN newest("page") ELSE newest("feed")

\* Item.reading_body: the fullest of them.
Shown ==
  IF NewestReading("page") > NewestReading("feed") THEN NewestReading("page")
                                                   ELSE NewestReading("feed")

-----------------------------------------------------------------------------
Carvings == [text : Texts, parser : Parsers]
Rows == [version : Versions, source : Sources, extractor : Extractors, text : Texts]

TypeOK ==
  /\ parser \in Parsers /\ extractor \in Extractors
  /\ says \in Seq([Parsers -> Texts])
  /\ page \in Seq(Texts) /\ carvings \in Seq(Seq(Carvings))
  /\ Len(page) = Len(says) /\ Len(carvings) = Len(says)
  /\ readings \in Seq(Rows)
  /\ todo \subseteq Jobs
  /\ reading \subseteq [version : Versions, source : Sources, text : Texts \ {None}]
  /\ restarts \in Nat

\* "An empty row would hide text an earlier parse did find" (feed.py:130): through any deploys,
\* a version some parser found text for has text where the sweeps and the jobs look for it.
TextNeverHidden ==
  \A v \in Versions :
    (\E n \in DOMAIN carvings[v] : carvings[v][n].text # None) => Held(v) # None

\* An article that can be read goes blank only in the step that stores an empty reading: no
\* edit, deploy, capture or kill blanks it, nor any reading that found text, whatever came
\* before (ARCHITECTURE.md:93-96).
NeverBlankAgain ==
  [][Shown # None /\ Shown' = None =>
       \E n \in DOMAIN readings' :
         /\ readings'[n].text = None
         /\ n \in DOMAIN readings => readings'[n] # readings[n]]_vars

\* Once publishing and deploys stop, the head is carved by the running parser and each text it
\* has is read by the running extractor, whatever was raised, killed or superseded on the way.
HeadIsReadInTheEnd ==
  <>[](says # <<>> =>
        /\ Carved(Len(says))
        /\ \A source \in Sources :
             Artefact(source, Len(says)) # None => Extracted(source, Len(says)))
=============================================================================
