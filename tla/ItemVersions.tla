---------------------------- MODULE ItemVersions ----------------------------
(***************************************************************************)
(* ingest/store.py on the tables of db/models/item.py and document.py: the *)
(* write half of a poll as the statements of one transaction, and the      *)
(* constraints Postgres holds the rows to.                                 *)
(*                                                                         *)
(* A transaction reads what has committed when each statement runs (READ   *)
(* COMMITTED) and its own rows become visible together, at the commit.     *)
(* The per-host job lock lets one poll of a feed run at a time; Writers    *)
(* may hold several to ask what the schema guarantees without it.          *)
(***************************************************************************)
EXTENDS Naturals, Sequences, FiniteSets

CONSTANTS
  Feeds, Items, Texts,
  Bodies,    \* bodies a publisher may serve
  Entries,   \* Entries[b]: the parsed entries of b, in document order
  Writers,   \* transactions that may be open at once
  Unsaid, NoBody,
  NoVersion,
  MaxClock   \* bound: no transaction begins after this instant

ASSUME EntriesAssumption ==
  /\ Entries \in [Bodies -> Seq([item : Items, text : Texts])]
  /\ Unsaid \notin Texts /\ NoBody \notin Bodies
  /\ MaxClock \in Nat

\* A version's key: the feed, the item, and the instant its row was inserted.
Keys == [feed : Feeds, item : Items, stamp : Nat]

ASSUME NoVersionAssumption == NoVersion \notin Keys

VARIABLES
  documents,   \* committed documents: [feed, body, at]
  versions,    \* committed item versions: [id, text, supersedes, document]
  validators,  \* validators[f]: the body the feed's stored etag names
  txn,         \* txn[w]: the poll transaction w has open
  clock        \* CURRENT_TIMESTAMP and uuidv7, which only ever go forward

tables == <<documents, versions, validators>>
vars == <<tables, txn, clock>>

-----------------------------------------------------------------------------
\* The same identity twice in one document: the first wins (apply_items).
Mentions(b, i) == {n \in DOMAIN Entries[b] : Entries[b][n].item = i}
FirstSaid(b, i) ==
  IF Mentions(b, i) = {} THEN Unsaid
  ELSE Entries[b][CHOOSE n \in Mentions(b, i) : \A m \in Mentions(b, i) : n <= m].text

\* ItemVersion.is_head: the version nothing supersedes.
IsHead(v) == \A w \in versions : w.supersedes # v.id

VersionsOf(f, i) == {v \in versions : v.id.feed = f /\ v.id.item = i}

\* current_versions: every item's head in this feed.
Heads(f) == {v \in versions : v.id.feed = f /\ IsHead(v)}

\* previous_document_hash: the body of the document with the newest timestamp.
Latest(mine) ==
  IF mine = {} THEN NoBody
  ELSE (CHOOSE d \in mine : \A e \in mine : e.at <= d.at).body
Newest(f) == Latest({d \in documents : d.feed = f})

-----------------------------------------------------------------------------
\* The document transaction w writes, stamped with the instant it began.
Document(w) == [feed |-> txn[w].feed, body |-> txn[w].body, at |-> txn[w].at]

\* What the transaction's document says of item i.
Says(w, i) == FirstSaid(txn[w].body, i)

\* The heads apply_items found for item i: at most one (ItemVersionsProofs).
Found(w, i) == {v \in txn[w].heads : v.id.item = i}

\* A version of item i, superseding what was found (_version).
Row(w, i, supersedes) ==
  [id         |-> [feed |-> txn[w].feed, item |-> i, stamp |-> clock],
   text       |-> Says(w, i),
   supersedes |-> supersedes,
   document   |-> Document(w)]

\* FAULT: a version for every item the document mentions, moved or not.
EditsUnfiltered(w) ==
  {Row(w, v.id.item, v.id) : v \in {u \in txn[w].heads : Says(w, u.id.item) # Unsaid}}

\* FAULT: a first version for every item not found, said or not.
FirstsUnsaid(w) ==
  {Row(w, i, NoVersion) : i \in {j \in Items : Found(w, j) = {}}}

\* The rows apply_items adds: an item never seen gets its first version, and one whose
\* text is not the head's gets the version that supersedes that head.
Firsts(w) ==
  {Row(w, i, NoVersion) : i \in {j \in Items : Says(w, j) # Unsaid /\ Found(w, j) = {}}}

Edits(w) ==
  {Row(w, v.id.item, v.id) :
     v \in {u \in txn[w].heads : Says(w, u.id.item) \notin {Unsaid, u.text}}}

NewRows(w) == Firsts(w) \cup Edits(w)

\* FAULT: items keyed, versions not: nothing stops a second successor.
ViolatesItemsOnly(w) ==
  \E r \in NewRows(w) :
    r.supersedes = NoVersion /\ VersionsOf(r.id.feed, r.id.item) # {}

\* What Postgres refuses: a second identity in one feed (items), a second root, a second
\* successor, or a key no later than the one it supersedes (item_versions).
Violates(w) ==
  \E r \in NewRows(w) :
    \/ r.supersedes = NoVersion /\ VersionsOf(r.id.feed, r.id.item) # {}
    \/ r.supersedes # NoVersion /\ \E v \in versions : v.supersedes = r.supersedes
    \/ r.supersedes # NoVersion /\ r.supersedes.stamp >= r.id.stamp

-----------------------------------------------------------------------------
Closed == [pc |-> "closed"]

Init ==
  /\ documents = {} /\ versions = {}
  /\ validators = [f \in Feeds |-> NoBody]
  /\ txn = [w \in Writers |-> Closed]
  /\ clock = 0

\* _store_poll opens its transaction with a fetched and parsed body in hand.
Begin(w, f, b) ==
  /\ txn[w].pc = "closed" /\ clock < MaxClock
  /\ txn' = [txn EXCEPT ![w] = [pc |-> "open", feed |-> f, body |-> b, at |-> clock]]
  /\ clock' = clock + 1
  /\ UNCHANGED tables

\* FAULT: a body stored at any time before is not looked at again.
UnchangedSinceEver(w) ==
  /\ txn[w].pc = "open"
  /\ \E d \in documents : d.feed = txn[w].feed /\ d.body = txn[w].body
  /\ validators' = [validators EXCEPT ![txn[w].feed] = txn[w].body]
  /\ txn' = [txn EXCEPT ![w] = Closed]
  /\ UNCHANGED <<documents, versions, clock>>

\* record_document, where the body is the one before it: nothing to apply, and the
\* validators are refreshed all the same.
Unchanged(w) ==
  /\ txn[w].pc = "open" /\ Newest(txn[w].feed) = txn[w].body
  /\ validators' = [validators EXCEPT ![txn[w].feed] = txn[w].body]
  /\ txn' = [txn EXCEPT ![w] = Closed]
  /\ UNCHANGED <<documents, versions, clock>>

\* FAULT: the document committed by itself, ahead of the items it carries.
RecordDocumentAlone(w) ==
  /\ txn[w].pc = "open" /\ Newest(txn[w].feed) # txn[w].body
  /\ txn' = [txn EXCEPT ![w].pc = "recorded"]
  /\ documents' = documents \cup {Document(w)}
  /\ UNCHANGED <<versions, validators, clock>>

\* record_document, where it differs: the row is flushed, and visible only to itself.
RecordDocument(w) ==
  /\ txn[w].pc = "open" /\ Newest(txn[w].feed) # txn[w].body
  /\ txn' = [txn EXCEPT ![w].pc = "recorded"]
  /\ UNCHANGED <<tables, clock>>

\* apply_items begins by reading every head of the feed, once.
ReadHeads(w) ==
  /\ txn[w].pc = "recorded"
  /\ txn' = [txn EXCEPT ![w] =
               [pc |-> "applying", feed |-> txn[w].feed, body |-> txn[w].body,
                at |-> txn[w].at, heads |-> Heads(txn[w].feed)]]
  /\ UNCHANGED <<tables, clock>>

\* The inserts are accepted and the transaction commits: it lands whole.
Commit(w) ==
  /\ txn[w].pc = "applying" /\ ~ Violates(w)
  /\ documents' = documents \cup {Document(w)}
  /\ versions' = versions \cup NewRows(w)
  /\ validators' = [validators EXCEPT ![txn[w].feed] = txn[w].body]
  /\ txn' = [txn EXCEPT ![w] = Closed]
  /\ clock' = clock + 1

\* A constraint refuses an insert: db.session rolls the whole transaction back.
Refused(w) ==
  /\ txn[w].pc = "applying" /\ Violates(w)
  /\ txn' = [txn EXCEPT ![w] = Closed]
  /\ UNCHANGED <<tables, clock>>

\* The worker or the connection dies with the transaction open.
Abort(w) ==
  /\ txn[w].pc # "closed"
  /\ txn' = [txn EXCEPT ![w] = Closed]
  /\ UNCHANGED <<tables, clock>>

Next ==
  \E w \in Writers :
    \/ \E f \in Feeds, b \in Bodies : Begin(w, f, b)
    \/ Unchanged(w) \/ RecordDocument(w) \/ ReadHeads(w)
    \/ Commit(w) \/ Refused(w) \/ Abort(w)

Spec == Init /\ [][Next]_vars

-----------------------------------------------------------------------------
Documents == [feed : Feeds, body : Bodies, at : Nat]
Versions ==
  [id : Keys, text : Texts, supersedes : Keys \cup {NoVersion}, document : Documents]
Transactions ==
  {Closed}
    \cup [pc : {"open", "recorded"}, feed : Feeds, body : Bodies, at : Nat]
    \cup [pc : {"applying"}, feed : Feeds, body : Bodies, at : Nat,
          heads : SUBSET versions]

TypeOK ==
  /\ documents \subseteq Documents
  /\ versions \subseteq Versions
  /\ validators \in [Feeds -> Bodies \cup {NoBody}]
  /\ txn \in [Writers -> Transactions]
  /\ clock \in Nat

\* The versions of an item are one chain: one version nothing precedes, one nothing
\* follows, and no version with two successors (item.py:351-353).  Everything that asks
\* for "the" current text of an item, current_versions first, reads its one head.
OneRoot ==
  \A u, v \in versions :
    (u.supersedes = NoVersion /\ v.supersedes = NoVersion
      /\ u.id.feed = v.id.feed /\ u.id.item = v.id.item) => u = v

NoFork ==
  \A u, v \in versions : u.supersedes = v.supersedes /\ u.supersedes # NoVersion => u = v

OneHead ==
  \A u \in versions :
    \E h \in VersionsOf(u.id.feed, u.id.item) :
      \A v \in VersionsOf(u.id.feed, u.id.item) : IsHead(v) <=> v = h

Chained == OneRoot /\ NoFork /\ OneHead

\* Every edit is one: it follows an earlier version of the same item that read otherwise,
\* so history never shows a change nobody made (store.py:140-145, 174).
EditsChange ==
  \A v \in versions : v.supersedes # NoVersion =>
    \E u \in versions :
      /\ u.id = v.supersedes /\ u.id.feed = v.id.feed /\ u.id.item = v.id.item
      /\ u.id.stamp < v.id.stamp /\ u.text # v.text

\* A stored document was applied: everything it says was kept as some version of its item.
\* A document whose items were lost would never be looked at again (service.py:93).
Applied ==
  \A d \in documents, i \in Items : FirstSaid(d.body, i) # Unsaid =>
    \E v \in VersionsOf(d.feed, i) : v.text = FirstSaid(d.body, i)

-----------------------------------------------------------------------------
\* The rows read as the archive they stand for.
TextNow(f, i) ==
  IF \E v \in Heads(f) : v.id.item = i
    THEN (CHOOSE v \in Heads(f) : v.id.item = i).text
    ELSE Unsaid

A == INSTANCE Archive WITH
  Said   <- [b \in Bodies |-> [i \in Items |-> FirstSaid(b, i)]],
  latest <- validators,
  head   <- [f \in Feeds |-> [i \in Items |-> TextNow(f, i)]],
  kept   <- [f \in Feeds |-> {<<v.id.item, v.text>> :
                                 v \in {u \in versions : u.id.feed = f}}]
=============================================================================
