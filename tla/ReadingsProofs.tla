--------------------------- MODULE ReadingsProofs ---------------------------
(***************************************************************************)
(* For any parsers, extractors, documents and bounds: text found is never  *)
(* hidden from the readings, and an article once readable stays so until   *)
(* an extractor makes nothing of a text.                                   *)
(***************************************************************************)
EXTENDS Readings, TLAPS, WellFoundedInduction

IInv == TypeOK /\ TextNeverHidden

-----------------------------------------------------------------------------
\* Some place in a list is the last of any there are.
LEMMA HasLast ==
  ASSUME NEW L \in Nat, NEW S, S \subseteq 1 .. L, S # {}
  PROVE  \E n \in S : \A m \in S : m <= n
<1> DEFINE T == {L - n : n \in S}
           R == OpToRel(<, Nat)
<1>1. T \subseteq Nat /\ T # {}
  <2>1. \A n \in S : n \in Nat /\ n <= L
    OBVIOUS
  <2>2. \A n \in S : L - n \in Nat
    BY <2>1
  <2> QED BY <2>2
<1>2. IsWellFoundedOn(R, Nat)
  BY NatLessThanWellFounded
<1> HIDE DEF T, R
<1>3. PICK x \in T : \A y \in T : ~ (<<y, x>> \in R)
  BY <1>1, <1>2, WFMin
<1>4. \A y \in T : ~ y < x
  BY <1>1, <1>3 DEF R, OpToRel
<1>5. PICK n \in S : x = L - n
  BY DEF T
<1>6. \A m \in S : L - m \in T
  BY DEF T
<1> QED BY <1>4, <1>5, <1>6

\* A list rewritten place by place is a list as long.
LEMMA Listed ==
  ASSUME NEW S, NEW s \in Seq(S), NEW f \in [DOMAIN s -> S]
  PROVE  f \in Seq(S) /\ Len(f) = Len(s) /\ DOMAIN f = DOMAIN s
  OBVIOUS

LEMMA Wider ==
  ASSUME NEW S, NEW T, S \subseteq T, NEW s \in Seq(S)
  PROVE  s \in Seq(T)
  OBVIOUS

\* One more at the end of a list.
LEMMA Appended ==
  ASSUME NEW S, NEW s \in Seq(S), NEW e \in S
  PROVE  /\ Append(s, e) \in Seq(S)
         /\ Len(s) \in Nat /\ Len(Append(s, e)) = Len(s) + 1
         /\ DOMAIN Append(s, e) = 1 .. Len(s) + 1
         /\ \A n \in DOMAIN s : Append(s, e)[n] = s[n] /\ s[n] \in S
         /\ Append(s, e)[Len(s) + 1] = e
  OBVIOUS

\* A carving whose stamp is moved keeps its text.
LEMMA Restamped ==
  ASSUME NEW c \in Carvings, NEW p \in Parsers
  PROVE  [c EXCEPT !.parser = p] \in Carvings /\ [c EXCEPT !.parser = p].text = c.text
  BY DEF Carvings

-----------------------------------------------------------------------------
\* Of a version's carvings, the newest is a text.
LEMMA HeldIsText ==
  ASSUME TypeOK, NEW v \in Versions
  PROVE  /\ carvings[v] \in Seq(Carvings) /\ Held(v) \in Texts
         /\ carvings[v] # <<>> => Len(carvings[v]) \in DOMAIN carvings[v]
<1>1. carvings[v] \in Seq(Carvings)
  BY DEF TypeOK, Versions
<1>2. carvings[v] # <<>> =>
        Len(carvings[v]) \in DOMAIN carvings[v] /\ carvings[v][Len(carvings[v])] \in Carvings
  BY <1>1
<1>3. None \in Texts
  BY ReadingsAssumption DEF Texts, None
<1> QED BY <1>1, <1>2, <1>3 DEF Held, Carvings

\* What carving a version leaves of it: a list of carvings whose newest is text if any is.
LEMMA StampedKeepsText ==
  ASSUME IInv, NEW v \in Versions
  PROVE  LET kept == Stamped(v, Kept(v)) IN
         /\ kept \in Seq(Carvings)
         /\ (\E n \in DOMAIN kept : kept[n].text # None) =>
              kept # <<>> /\ kept[Len(kept)].text # None
<1> DEFINE kept == Stamped(v, Kept(v))
           text == Kept(v)
           old  == carvings[v]
<1>1. TypeOK /\ TextNeverHidden /\ parser \in Parsers /\ None \in Texts
  BY ReadingsAssumption DEF IInv, TypeOK, Texts, None
<1>2. /\ old \in Seq(Carvings) /\ Held(v) \in Texts
      /\ old # <<>> => Len(old) \in DOMAIN old
      /\ DOMAIN old = 1 .. Len(old) /\ Len(old) \in Nat
  BY <1>1, HeldIsText
<1>3. text \in Texts
  <2>1. says[v] \in [Parsers -> Texts]
    BY <1>1 DEF TypeOK, Versions
  <2> QED BY <1>1, <1>2, <2>1 DEF Kept
<1>4. \A n \in DOMAIN old : old[n] \in Carvings
  BY <1>2
<1> HIDE DEF text, old
<1>5. CASE \E n \in DOMAIN old : old[n].text = text
  <2>1. kept = [n \in DOMAIN old |->
                  IF old[n].text = text THEN [old[n] EXCEPT !.parser = parser] ELSE old[n]]
    BY <1>5 DEF Stamped, text, old
  <2>2. \A n \in DOMAIN old : kept[n] \in Carvings /\ kept[n].text = old[n].text
    BY <1>1, <1>4, <2>1, Restamped
  <2> HIDE DEF kept
  <2>3. kept \in Seq(Carvings) /\ Len(kept) = Len(old) /\ DOMAIN kept = DOMAIN old
    <3>1. kept \in [DOMAIN old -> Carvings]
      BY <2>1, <2>2
    <3> QED BY <1>2, <3>1, Listed
  <2>4. ASSUME NEW n \in DOMAIN kept, kept[n].text # None
        PROVE  kept # <<>> /\ kept[Len(kept)].text # None
    <3>1. n \in DOMAIN old /\ old[n].text # None
      BY <2>2, <2>3, <2>4
    <3>2. Held(v) # None
      BY <1>1, <3>1 DEF TextNeverHidden, old
    <3>3. old # <<>> /\ old[Len(old)].text # None
      BY <3>2 DEF Held, old
    <3>4. kept # <<>>
      BY <1>2, <2>3, <3>1
    <3> QED BY <1>2, <2>2, <2>3, <3>3, <3>4
  <2> QED BY <2>3, <2>4 DEF kept
<1>6. CASE ~ \E n \in DOMAIN old : old[n].text = text
  <2> DEFINE row == [text |-> text, parser |-> parser]
  <2>1. kept = Append(old, row) /\ row \in Carvings /\ row.text = text
    BY <1>1, <1>3, <1>6 DEF Stamped, Carvings, text, old
  <2> HIDE DEF row, kept
  <2>2. /\ kept \in Seq(Carvings) /\ Len(kept) = Len(old) + 1 /\ DOMAIN kept = 1 .. Len(old) + 1
        /\ kept[Len(old) + 1] = row /\ \A n \in DOMAIN old : kept[n] = old[n]
    BY <1>2, <2>1, Appended
  <2>3. kept # <<>>
    BY <1>2, <2>2
  <2>4. ASSUME NEW n \in DOMAIN kept, kept[n].text # None
        PROVE  text # None
    <3>1. CASE old = <<>>
      <4>1. n = Len(old) + 1
        BY <1>2, <2>2, <3>1
      <4> QED BY <2>1, <2>2, <2>4, <4>1
    <3>2. CASE old # <<>>
      <4>1. Held(v) = old[Len(old)].text
        BY <3>2 DEF Held, old
      <4>2. Held(v) # text
        BY <1>2, <1>6, <3>2, <4>1
      <4>3. text # None
        BY <4>2 DEF Kept, text
      <4> QED BY <4>3
    <3> QED BY <3>1, <3>2
  <2> QED BY <2>1, <2>2, <2>3, <2>4 DEF kept
<1> QED BY <1>5, <1>6

\* A reading stored takes the place of its like, or a place of its own.
LEMMA UpsertKeeps ==
  ASSUME TypeOK, NEW row \in Rows
  PROVE  /\ Upsert(row) \in Seq(Rows)
         /\ DOMAIN readings \subseteq DOMAIN Upsert(row)
         /\ \A n \in DOMAIN readings : Upsert(row)[n].source = readings[n].source
<1> DEFINE same(r) == r.version = row.version /\ r.source = row.source
                        /\ r.extractor = row.extractor
<1>1. readings \in Seq(Rows)
  BY DEF TypeOK
<1>2. CASE \E n \in DOMAIN readings : same(readings[n])
  <2> DEFINE next == [n \in DOMAIN readings |-> IF same(readings[n]) THEN row ELSE readings[n]]
  <2>1. Upsert(row) = next
    BY <1>2 DEF Upsert
  <2>2. next \in [DOMAIN readings -> Rows]
    BY <1>1
  <2>3. \A n \in DOMAIN readings : next[n].source = readings[n].source
    OBVIOUS
  <2> HIDE DEF next
  <2>4. next \in Seq(Rows) /\ DOMAIN next = DOMAIN readings
    BY <1>1, <2>2, Listed
  <2> QED BY <2>1, <2>3, <2>4
<1>3. CASE ~ \E n \in DOMAIN readings : same(readings[n])
  <2>1. Upsert(row) = Append(readings, row)
    BY <1>3 DEF Upsert
  <2>2. DOMAIN readings = 1 .. Len(readings)
    BY <1>1
  <2> QED BY <1>1, <2>1, <2>2, Appended
<1> QED BY <1>2, <1>3

-----------------------------------------------------------------------------
LEMMA Starts == Init => IInv
<1> SUFFICES ASSUME Init PROVE IInv
  OBVIOUS
<1>1. parser \in Parsers /\ extractor \in Extractors
  BY ReadingsAssumption DEF Init
<1>2. says = <<>> /\ page = <<>> /\ carvings = <<>> /\ readings = <<>>
      /\ todo = {} /\ reading = {} /\ restarts = 0
  BY DEF Init
<1>3. Versions = {}
  BY <1>2 DEF Versions
<1> QED BY <1>1, <1>2, <1>3 DEF IInv, TypeOK, TextNeverHidden

\* A version more: the types of everything about versions grow with it.
LEMMA PublishKeeps == ASSUME IInv, Publish PROVE IInv'
<1>1. TypeOK /\ TextNeverHidden
  BY DEF IInv
<1>2. PICK text \in Documents : says' = Append(says, text)
  BY DEF Publish
<1>3. /\ page' = Append(page, None) /\ carvings' = Append(carvings, <<>>)
      /\ UNCHANGED <<parser, extractor, restarts, readings, todo, reading>>
  BY DEF Publish, worker
<1>4. None \in Texts /\ text \in [Parsers -> Texts] /\ <<>> \in Seq(Carvings)
  BY ReadingsAssumption DEF Texts, None
<1>5. /\ says' \in Seq([Parsers -> Texts]) /\ Len(says) \in Nat /\ Len(says') = Len(says) + 1
  BY <1>1, <1>2, <1>4, Appended DEF TypeOK
<1>6. page' \in Seq(Texts) /\ Len(page') = Len(page) + 1
  BY <1>1, <1>3, <1>4, Appended DEF TypeOK
<1>7. /\ carvings' \in Seq(Seq(Carvings)) /\ Len(carvings') = Len(carvings) + 1
      /\ \A v \in Versions : carvings'[v] = carvings[v]
      /\ carvings'[Len(says) + 1] = <<>>
  <2>1. DOMAIN carvings = Versions
    BY <1>1 DEF TypeOK, Versions
  <2> QED BY <1>1, <1>3, <1>4, <2>1, Appended DEF TypeOK
<1>8. Versions' = Versions \cup {Len(says) + 1}
  BY <1>5 DEF Versions
<1>9. TypeOK'
  <2>1. readings \in Seq(Rows) /\ Rows \subseteq Rows'
    BY <1>1, <1>8 DEF TypeOK, Rows
  <2>2. readings' \in Seq(Rows')
    BY <1>3, <2>1, Wider
  <2>3. todo' \subseteq Jobs'
    BY <1>1, <1>3, <1>8 DEF TypeOK, Jobs
  <2>4. reading' \subseteq [version : Versions', source : Sources, text : Texts \ {None}]
    BY <1>1, <1>3, <1>8 DEF TypeOK
  <2> QED BY <1>1, <1>3, <1>5, <1>6, <1>7, <2>2, <2>3, <2>4 DEF TypeOK, Carvings
<1>10. TextNeverHidden'
  <2>1. ASSUME NEW v \in Versions', \E n \in DOMAIN carvings'[v] : carvings'[v][n].text # None
        PROVE  Held(v)' # None
    <3>1. v \in Versions /\ carvings'[v] = carvings[v]
      BY <1>7, <1>8, <2>1
    <3>2. Held(v)' = Held(v)
      BY <3>1 DEF Held
    <3> QED BY <1>1, <2>1, <3>1, <3>2 DEF TextNeverHidden
  <2> QED BY <2>1 DEF TextNeverHidden
<1> QED BY <1>9, <1>10 DEF IInv

\* What is found in a version is held with what was.
LEMMA CarveKeeps == ASSUME IInv, NEW v \in Versions, Carve(v) PROVE IInv'
<1>1. TypeOK /\ TextNeverHidden
  BY DEF IInv
<1>2. UNCHANGED <<parser, extractor, restarts, says, page, readings, reading>>
      /\ todo' \subseteq todo /\ Versions' = Versions
  BY DEF Carve, worker, archive, Versions
<1>3. DOMAIN carvings = Versions /\ \A u \in Versions : carvings[u] \in Seq(Carvings)
  BY <1>1 DEF TypeOK, Versions
<1>4. CASE ~ (IsHead(v) /\ ~ Carved(v))
  <2>1. carvings' = carvings
    BY <1>4 DEF Carve
  <2> QED BY <1>1, <1>2, <2>1 DEF IInv, TypeOK, TextNeverHidden, Held, Jobs, Rows, Carvings
<1>5. CASE IsHead(v) /\ ~ Carved(v)
  <2> DEFINE kept == Stamped(v, Kept(v))
  <2>1. carvings' = [carvings EXCEPT ![v] = kept]
    BY <1>5 DEF Carve
  <2>2. /\ kept \in Seq(Carvings)
        /\ (\E n \in DOMAIN kept : kept[n].text # None) =>
             kept # <<>> /\ kept[Len(kept)].text # None
    BY StampedKeepsText
  <2> HIDE DEF kept
  <2>3. \A u \in Versions : carvings'[u] = IF u = v THEN kept ELSE carvings[u]
    BY <1>3, <2>1
  <2>4. carvings' \in Seq(Seq(Carvings)) /\ Len(carvings') = Len(carvings)
    <3>1. carvings' \in [DOMAIN carvings -> Seq(Carvings)]
      BY <1>3, <2>1, <2>2
    <3> QED BY <1>1, <3>1, Listed DEF TypeOK
  <2>5. TypeOK'
    BY <1>1, <1>2, <2>4 DEF TypeOK, Jobs, Rows, Carvings
  <2>6. TextNeverHidden'
    <3> SUFFICES ASSUME NEW u \in Versions, NEW n \in DOMAIN carvings'[u],
                        carvings'[u][n].text # None
                 PROVE  Held(u)' # None
      BY <1>2 DEF TextNeverHidden
    <3>1. CASE u = v
      BY <2>2, <2>3, <3>1 DEF Held
    <3>2. CASE u # v
      BY <1>1, <2>3, <3>2 DEF Held, TextNeverHidden
    <3> QED BY <3>1, <3>2
  <2> QED BY <2>5, <2>6 DEF IInv
<1> QED BY <1>4, <1>5

\* What an extractor makes of a text is a reading of the version it was taken from.
LEMMA StoredIsRow ==
  ASSUME TypeOK, NEW job \in reading
  PROVE  [version |-> job.version, source |-> job.source,
          extractor |-> extractor, text |-> Reads[extractor][job.text]] \in Rows
<1>1. job.version \in Versions /\ job.source \in Sources /\ job.text \in Texts
      /\ extractor \in Extractors
  BY DEF TypeOK
<1>2. Reads[extractor][job.text] \in Texts
  BY <1>1, ReadingsAssumption
<1> QED BY <1>1, <1>2 DEF Rows

\* A step that leaves versions and carvings alone.
LEMMA Untouched ==
  ASSUME IInv, UNCHANGED <<says, carvings>>, TypeOK'
  PROVE  IInv'
BY DEF IInv, TextNeverHidden, Held, Versions

\* The rest: pages, sweeps, readings, and the worker's stops.
LEMMA OthersKeep ==
  ASSUME IInv,
         \/ Restart \/ SweepCarvings
         \/ \E v \in Versions : CapturePage(v)
         \/ \E job \in todo : Raise(job)
         \/ \E source \in Sources : SweepExtractions(source)
         \/ \E source \in Sources, v \in Versions : Pending(source, v)
         \/ \E job \in reading : Store(job)
         \/ UNCHANGED vars
  PROVE  IInv'
<1> USE DEF worker, archive
<1>1. TypeOK
  BY DEF IInv
<1>2. UNCHANGED <<says, carvings>> /\ Versions' = Versions
  BY DEF Restart, SweepCarvings, CapturePage, Raise, SweepExtractions, Pending, Store, vars,
         Versions
<1>3. Rows' = Rows /\ Jobs' = Jobs
  BY <1>2 DEF Rows, Jobs
<1>4. CASE Restart
  BY <1>1, <1>2, <1>3, <1>4, Untouched DEF Restart, TypeOK
<1>5. CASE SweepCarvings
  <2>1. todo' \subseteq Jobs
    BY <1>1, <1>5 DEF SweepCarvings, TypeOK, Jobs, Job
  <2> QED BY <1>1, <1>2, <1>3, <1>5, <2>1, Untouched DEF SweepCarvings, TypeOK
<1>6. ASSUME NEW v \in Versions, CapturePage(v) PROVE IInv'
  <2>1. PICK text \in Texts : page' = [page EXCEPT ![v] = text]
    BY <1>6 DEF CapturePage
  <2>2. page \in Seq(Texts)
    BY <1>1 DEF TypeOK
  <2>3. page' \in Seq(Texts) /\ Len(page') = Len(page)
    <3>1. \A n \in DOMAIN page : page[n] \in Texts
      BY <2>2
    <3>2. page' \in [DOMAIN page -> Texts]
      BY <2>1, <3>1
    <3> QED BY <2>2, <3>2, Listed
  <2> QED BY <1>1, <1>2, <1>3, <1>6, <2>3, Untouched DEF CapturePage, TypeOK
<1>7. ASSUME NEW job \in todo, Raise(job) PROVE IInv'
  BY <1>1, <1>2, <1>3, <1>7, Untouched DEF Raise, TypeOK
<1>8. ASSUME NEW source \in Sources, SweepExtractions(source) PROVE IInv'
  <2>1. todo' \subseteq Jobs
    BY <1>1, <1>8 DEF SweepExtractions, DueExtractions, TypeOK, Jobs, Job, Sources
  <2> QED BY <1>1, <1>2, <1>3, <1>8, <2>1, Untouched DEF SweepExtractions, TypeOK
<1>9. ASSUME NEW source \in Sources, NEW v \in Versions, Pending(source, v) PROVE IInv'
  <2>1. Artefact(source, v) \in Texts
    BY <1>1, HeldIsText DEF Artefact, TypeOK, Versions
  <2>2. reading' \subseteq [version : Versions, source : Sources, text : Texts \ {None}]
    BY <1>1, <1>9, <2>1 DEF Pending, TypeOK
  <2>3. todo' \subseteq Jobs
    BY <1>1, <1>9 DEF Pending, TypeOK
  <2> QED BY <1>1, <1>2, <1>3, <1>9, <2>2, <2>3, Untouched DEF Pending, TypeOK
<1>10. ASSUME NEW job \in reading, Store(job) PROVE IInv'
  <2>1. readings' \in Seq(Rows)
    BY <1>1, <1>10, StoredIsRow, UpsertKeeps DEF Store
  <2>2. reading' \subseteq reading
    BY <1>10 DEF Store
  <2> QED BY <1>1, <1>2, <1>3, <1>10, <2>1, <2>2, Untouched DEF Store, TypeOK
<1>11. CASE UNCHANGED vars
  BY <1>1, <1>2, <1>3, <1>11, Untouched DEF vars, TypeOK
<1> QED BY <1>4, <1>5, <1>6, <1>7, <1>8, <1>9, <1>10, <1>11

LEMMA Inductive == IInv /\ [Next]_vars => IInv'
BY PublishKeeps, CarveKeeps, OthersKeep DEF Next

LEMMA Always == Spec => []IInv
BY Starts, Inductive, PTL DEF Spec

-----------------------------------------------------------------------------
\* Every table keeps its shape: one row of pages and carvings to a version, and readings of
\* versions that are there.
THEOREM TypeCorrect == Spec => []TypeOK
<1>1. IInv => TypeOK
  BY DEF IInv
<1> QED BY <1>1, Always, PTL

\* A parser that finds nothing never hides what another carved of the same document, in whatever
\* order deploys bring them (extract/feed.py:130).
THEOREM NoTextIsHidden == Spec => []TextNeverHidden
<1>1. IInv => TextNeverHidden
  BY DEF IInv
<1> QED BY <1>1, Always, PTL

\* No reading is lost: what is read keeps its place and its source.
LEMMA ReadingsStay ==
  ASSUME IInv, [Next]_vars
  PROVE  /\ DOMAIN readings \subseteq DOMAIN readings'
         /\ \A n \in DOMAIN readings : readings'[n].source = readings[n].source
<1>1. TypeOK
  BY DEF IInv
<1>2. CASE \E job \in reading : Store(job)
  BY <1>1, <1>2, StoredIsRow, UpsertKeeps DEF Store
<1>3. CASE ~ \E job \in reading : Store(job)
  <2>1. readings' = readings
    BY <1>3 DEF Next, vars, worker, archive, Publish, Restart, CapturePage, Carve, SweepCarvings,
                Raise, SweepExtractions, Pending
  <2> QED BY <2>1
<1> QED BY <1>2, <1>3

\* The newest reading of a source is the last of its readings.
LEMMA NewestIsLast ==
  ASSUME TypeOK, NEW source \in Sources
  PROVE  LET mine == {n \in DOMAIN readings : readings[n].source = source}
         IN  \/ mine = {} /\ NewestReading(source) = None
             \/ \E n \in mine : /\ NewestReading(source) = readings[n].text
                               /\ \A m \in mine : m <= n
<1> DEFINE mine == {n \in DOMAIN readings : readings[n].source = source}
           last == CHOOSE n \in mine : \A m \in mine : m <= n
<1>1. mine \subseteq 1 .. Len(readings) /\ Len(readings) \in Nat
  BY DEF TypeOK
<1>2. NewestReading(source) = IF mine = {} THEN None ELSE readings[last].text
  BY DEF NewestReading
<1> HIDE DEF mine
<1>3. mine # {} => last \in mine /\ \A m \in mine : m <= last
  BY <1>1, HasLast
<1> QED BY <1>2, <1>3 DEF mine

\* The newest readings are texts.
LEMMA NewestIsText ==
  ASSUME TypeOK, NEW source \in Sources
  PROVE  NewestReading(source) \in Nat
<1>1. \A n \in DOMAIN readings : readings[n].text \in Nat
  <2>1. \A n \in DOMAIN readings : readings[n] \in Rows
    BY DEF TypeOK
  <2>2. Texts \subseteq Nat
    BY ReadingsAssumption DEF Texts, None
  <2> QED BY <2>1, <2>2 DEF Rows
<1>2. None \in Nat
  BY DEF None
<1> QED BY <1>1, <1>2, NewestIsLast

\* What is last of a source is shown, if it has text.
LastIsShown ==
  TypeOK => \A source \in Sources, n \in DOMAIN readings :
    /\ readings[n].source = source /\ readings[n].text # None
    /\ \A m \in DOMAIN readings : readings[m].source = source => m <= n
    => Shown # None

LEMMA LastIsShownNow == LastIsShown
<1> SUFFICES ASSUME TypeOK, NEW source \in Sources, NEW n \in DOMAIN readings,
                    readings[n].source = source, readings[n].text # None,
                    \A m \in DOMAIN readings : readings[m].source = source => m <= n
             PROVE  Shown # None
  BY DEF LastIsShown
<1>1. DOMAIN readings \subseteq Nat
  BY DEF TypeOK
<1>2. NewestReading(source) # None
  <2>1. PICK k \in DOMAIN readings :
          /\ readings[k].source = source /\ NewestReading(source) = readings[k].text
          /\ n <= k
    BY NewestIsLast
  <2>2. k = n
    BY <1>1, <2>1
  <2> QED BY <2>1, <2>2
<1>3. "page" \in Sources /\ "feed" \in Sources /\ (source = "page" \/ source = "feed")
  BY DEF Sources
<1>4. NewestReading("page") \in Nat /\ NewestReading("feed") \in Nat
  BY <1>3, NewestIsText
<1> QED BY <1>2, <1>3, <1>4 DEF Shown, None

LEMMA LastIsShownNext == LastIsShown'
BY LastIsShownNow, PTL

\* A source that has a reading has a last one.
LEMMA HasLastNext ==
  ASSUME TypeOK', NEW source, NEW k \in DOMAIN readings', readings'[k].source = source
  PROVE  \E n \in DOMAIN readings' :
           /\ readings'[n].source = source
           /\ \A m \in DOMAIN readings' : readings'[m].source = source => m <= n
<1> DEFINE mine == {n \in DOMAIN readings' : readings'[n].source = source}
<1>1. mine \subseteq 1 .. Len(readings') /\ Len(readings') \in Nat /\ mine # {}
  BY DEF TypeOK
<1> HIDE DEF mine
<1>2. \E n \in mine : \A m \in mine : m <= n
  BY <1>1, HasLast
<1> QED BY <1>2 DEF mine

\* A readable article goes blank only in the step that stores an empty reading, whatever is
\* published, deployed, captured, killed or raised, and whatever was stored before
\* (db/models/item.py:102).
THEOREM ReadableStaysReadable == Spec => NeverBlankAgain
<1>1. IInv /\ [Next]_vars /\ IInv' =>
        [Shown # None /\ Shown' = None =>
           \E n \in DOMAIN readings' :
             /\ readings'[n].text = None
             /\ n \in DOMAIN readings => readings'[n] # readings[n]]_vars
  <2> SUFFICES ASSUME IInv, [Next]_vars, IInv', Shown # None,
                      \A n \in DOMAIN readings' :
                        readings'[n].text # None
                          \/ (n \in DOMAIN readings /\ readings'[n] = readings[n])
               PROVE  Shown' # None
    OBVIOUS
  <2>1. TypeOK /\ TypeOK'
    BY DEF IInv
  <2>2. PICK source \in Sources : NewestReading(source) # None
    BY DEF Shown, Sources
  <2>3. PICK n \in DOMAIN readings :
          /\ readings[n].source = source /\ readings[n].text # None
          /\ \A m \in DOMAIN readings : readings[m].source = source => m <= n
    BY <2>1, <2>2, NewestIsLast
  <2>4. n \in DOMAIN readings' /\ readings'[n].source = source
    BY <2>3, ReadingsStay
  <2>5. PICK k \in DOMAIN readings' :
          /\ readings'[k].source = source
          /\ \A m \in DOMAIN readings' : readings'[m].source = source => m <= k
    BY <2>1, <2>4, HasLastNext
  <2>6. readings'[k].text # None
    <3> SUFFICES ASSUME k \in DOMAIN readings, readings'[k] = readings[k]
                 PROVE  readings[k].text # None
      OBVIOUS
    <3>1. k \in Nat /\ n \in Nat /\ k <= n /\ n <= k
      BY <2>1, <2>3, <2>4, <2>5 DEF TypeOK
    <3> QED BY <2>3, <3>1
  <2> QED BY <2>1, <2>5, <2>6, LastIsShownNext DEF LastIsShown
<1> QED BY <1>1, Always, PTL DEF Spec, NeverBlankAgain
=============================================================================
