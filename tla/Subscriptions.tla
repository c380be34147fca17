---------------------------- MODULE Subscriptions ----------------------------
(***************************************************************************)
(* What is followed (subscriptions/service.py): following a pasted         *)
(* address, dropping, refiling, and the import of an OPML file, each       *)
(* statement by statement at READ COMMITTED, with the rows of hosts        *)
(* (politeness/store.py) and feeds they make on the way.                   *)
(*                                                                         *)
(* A row inserted and not yet committed is its client's own: whoever       *)
(* inserts the same key waits for that transaction to end.                 *)
(***************************************************************************)
EXTENDS Naturals, Sequences

CONSTANTS
  Feeds, Pages, Mail,  \* addresses: of feeds, of pages, and one there is no fetching of
  Hosts, HostOf,       \* HostOf[f]
  Names,               \* Names[page]: the feed a page names, or NoFeed
  NoFeed,
  Outlines,            \* the OPML file: [url, section]; a page is there as its site alone
  Readers, Importer,   \* API requests, and `old-news import`
  Sections, Tiers, Wire,
  NoRow,
  MaxRequests,         \* bound: API requests
  MaxDeletes,          \* bound: subscriptions deleted in Admin
  MaxFaults            \* bound: processes killed and pages that do not answer

Clients == Readers \cup {Importer}
Addresses == Feeds \cup Pages \cup {Mail}
Filings == [section : Sections, tier : Tiers]

ASSUME SubscriptionsAssumption ==
  /\ HostOf \in [Feeds -> Hosts] /\ Names \in [Pages -> Feeds \cup {NoFeed}]
  /\ Outlines \in Seq([url : Addresses, section : Sections])
  /\ Importer \notin Readers
  /\ Wire \in Tiers /\ Sections # {} /\ NoRow \notin Sections \cup Tiers
  /\ NoFeed \notin Feeds /\ Feeds \cap Pages = {} /\ Mail \notin Feeds \cup Pages
  /\ {MaxRequests, MaxDeletes, MaxFaults} \subseteq Nat

VARIABLES
  hosts, feeds,     \* rows committed, by name and by url
  subs,             \* subs[f]: NoRow, or [id, active, filing]
  client,           \* client[p]: what a client is doing
  outline,          \* where the import is, 0 between two runs of it
  missed,           \* this run of the import found no feed where there is one
  imported,         \* a run of the import has gone through
  requests, deletes, faults,
  \* For the properties:
  contested,        \* feeds two clients were about at once, or deleted in Admin
  failed,           \* feeds a transaction failed on
  withdrawn,        \* feeds dropped or deleted since an add last answered for them
  sent              \* the whole filings asked for, of each feed

rows == <<hosts, feeds, subs>>
import == <<outline, missed, imported>>
bounds == <<requests, deletes, faults>>
ghosts == <<contested, failed, withdrawn, sent>>
vars == <<rows, client, import, bounds, ghosts>>

Idle == [pc |-> "idle"]
Doing(pc, f, filing) ==
  [pc |-> pc, url |-> f, filing |-> filing, row |-> NoRow, ownHost |-> FALSE, ownFeed |-> FALSE]

Init ==
  /\ hosts = {} /\ feeds = {} /\ subs = [f \in Feeds |-> NoRow]
  /\ client = [p \in Clients |-> Idle]
  /\ outline = 0 /\ missed = FALSE /\ imported = FALSE
  /\ requests = 0 /\ deletes = 0 /\ faults = 0
  /\ contested = {} /\ failed = {} /\ withdrawn = {} /\ sent = [f \in Feeds |-> {}]

Active(f) == subs[f] # NoRow /\ subs[f].active

-----------------------------------------------------------------------------
(* Steps of a transaction.                                                 *)

At(p, pc) == client[p].pc = pc

\* The client goes on to pc with what it read, or has answered.  An import goes on to its
\* next outline, and one whose add raises ends there.
Step(p, next) == client' = [client EXCEPT ![p] = next]
Goes(p, pc) == Step(p, [client[p] EXCEPT !.pc = pc])

Answers(p) ==
  /\ Step(p, Idle)
  /\ outline' = IF p = Importer THEN outline + 1 ELSE outline
  /\ UNCHANGED <<missed, imported>>

\* IntegrityError or StaleDataError: everything the transaction wrote goes with it.
Fails(p) ==
  /\ Step(p, Idle)
  /\ outline' = IF p = Importer THEN 0 ELSE outline
  /\ failed' = failed \cup {client[p].url}
  /\ UNCHANGED <<rows, missed, imported, bounds, contested, withdrawn, sent>>

\* A client that opens a transaction about a feed meets whoever is about it already.
Contests(p, f) ==
  contested' = IF \E q \in Clients \ {p} : client[q].pc \notin {"idle", "discovering"}
                                             /\ client[q].url = f
               THEN contested \cup {f} ELSE contested

-----------------------------------------------------------------------------
(* add.                                                                    *)

\* FAULT: a row is enough to be on the list.
LookForRow(p) ==
  LET f == client[p].url IN
  /\ At(p, "adding")
  /\ IF subs[f] # NoRow
     THEN Answers(p) /\ withdrawn' = withdrawn \ {f}
     ELSE /\ Goes(p, IF f \in feeds THEN "subscribing" ELSE "hosting")
          /\ UNCHANGED <<import, withdrawn>>
  /\ Contests(p, f)
  /\ UNCHANGED <<rows, bounds, failed, sent>>

\* The feed and its subscription as they are now: none, dropped, or already on.
Look(p) ==
  LET f == client[p].url IN
  /\ At(p, "adding")
  /\ IF Active(f)
     THEN Answers(p) /\ withdrawn' = withdrawn \ {f}
     ELSE /\ Step(p, [client[p] EXCEPT
               !.pc = IF f \notin feeds THEN "hosting"
                      ELSE IF subs[f] = NoRow THEN "subscribing" ELSE "reactivating",
               !.row = IF subs[f] = NoRow THEN NoRow ELSE subs[f].id])
          /\ UNCHANGED <<import, withdrawn>>
  /\ Contests(p, f)
  /\ UNCHANGED <<rows, bounds, failed, sent>>

\* FAULT: found in a cache that is filled before the row is committed.
LookForHostCached(p) ==
  LET h == HostOf[client[p].url]
      cached == \E q \in Clients \ {p} :
                  ~ At(q, "idle") /\ client[q].ownHost /\ HostOf[client[q].url] = h
  IN  /\ At(p, "hosting")
      /\ Goes(p, IF h \in hosts \/ cached THEN "feeding" ELSE "creating")
      /\ UNCHANGED <<rows, import, bounds, ghosts>>

\* store.ensure: the host row is looked for, and inserted where there is none.
LookForHost(p) ==
  /\ At(p, "hosting")
  /\ Goes(p, IF HostOf[client[p].url] \in hosts THEN "feeding" ELSE "creating")
  /\ UNCHANGED <<rows, import, bounds, ghosts>>

\* Nobody else has an uncommitted row of the key.
HostFree(p) ==
  \A q \in Clients \ {p} :
    ~ At(q, "idle") /\ client[q].ownHost => HostOf[client[q].url] # HostOf[client[p].url]
FeedFree(p) ==
  \A q \in Clients \ {p} : ~ At(q, "idle") /\ client[q].ownFeed => client[q].url # client[p].url

\* FAULT: a plain insert.
CreateHostPlainly(p) ==
  LET h == HostOf[client[p].url] IN
  /\ At(p, "creating") /\ HostFree(p)
  /\ \/ h \in hosts /\ Fails(p)
     \/ /\ h \notin hosts
        /\ Step(p, [client[p] EXCEPT !.pc = "feeding", !.ownHost = TRUE])
        /\ UNCHANGED <<rows, import, bounds, ghosts>>

\* on_conflict_do_nothing: a host committed since it was looked for is as good.
CreateHost(p) ==
  /\ At(p, "creating") /\ HostFree(p)
  /\ Step(p, [client[p] EXCEPT !.pc = "feeding",
                               !.ownHost = HostOf[client[p].url] \notin hosts])
  /\ UNCHANGED <<rows, import, bounds, ghosts>>

\* The new feed is flushed: its url is unique.
InsertFeed(p) ==
  /\ At(p, "feeding") /\ FeedFree(p)
  /\ IF client[p].url \in feeds THEN Fails(p)
     ELSE /\ Step(p, [client[p] EXCEPT !.pc = "subscribing", !.ownFeed = TRUE])
          /\ UNCHANGED <<rows, import, bounds, ghosts>>

\* The subscription is inserted, one to a feed, and the transaction commits.
Subscribe(p) ==
  LET f == client[p].url IN
  /\ At(p, "subscribing")
  /\ IF subs[f] # NoRow THEN Fails(p)
     ELSE /\ hosts' = IF client[p].ownHost THEN hosts \cup {HostOf[f]} ELSE hosts
          /\ feeds' = IF client[p].ownFeed THEN feeds \cup {f} ELSE feeds
          /\ subs' = [subs EXCEPT ![f] =
                       [id |-> deletes, active |-> TRUE, filing |-> client[p].filing]]
          /\ withdrawn' = withdrawn \ {f}
          /\ sent' = [sent EXCEPT ![f] = @ \cup {client[p].filing}]
          /\ Answers(p)
          /\ UNCHANGED <<bounds, contested, failed>>

\* The row that was read, if it is still there.
Found(p) == subs[client[p].url] # NoRow /\ subs[client[p].url].id = client[p].row

\* FAULT: filed anew with what came with the address.
ReactivateFiled(p) ==
  LET f == client[p].url IN
  /\ At(p, "reactivating")
  /\ IF ~ Found(p) THEN Fails(p)
     ELSE /\ subs' = [subs EXCEPT ![f].active = TRUE,
                                  ![f].filing.section = client[p].filing.section]
          /\ withdrawn' = withdrawn \ {f}
          /\ Answers(p)
          /\ UNCHANGED <<hosts, feeds, bounds, contested, failed, sent>>

\* A dropped feed goes on as it was filed.
Reactivate(p) ==
  LET f == client[p].url IN
  /\ At(p, "reactivating")
  /\ IF ~ Found(p) THEN Fails(p)
     ELSE /\ subs' = [subs EXCEPT ![f].active = TRUE]
          /\ withdrawn' = withdrawn \ {f}
          /\ Answers(p)
          /\ UNCHANGED <<hosts, feeds, bounds, contested, failed, sent>>

-----------------------------------------------------------------------------
(* Requests.                                                               *)

\* subscribe: an address already followed is answered before the network is asked.
Follow(p, url, section) ==
  /\ At(p, "idle") /\ requests < MaxRequests
  /\ ~ (url \in Feeds /\ Active(url))
  /\ Step(p, Doing("discovering", url, [section |-> section, tier |-> Wire]))
  /\ requests' = requests + 1
  /\ UNCHANGED <<rows, import, deletes, faults, ghosts>>

\* discover: the feed itself, the feed a page names, or neither.
Discover(p) ==
  LET url == client[p].url
      found == IF url \in Pages THEN Names[url] ELSE url
  IN  /\ At(p, "discovering")
      /\ \/ /\ found # NoFeed
            /\ Step(p, Doing("adding", found, client[p].filing))
            /\ UNCHANGED <<import, faults>>
         \/ /\ found = NoFeed
            /\ Answers(p)
            /\ UNCHANGED faults
         \/ /\ faults < MaxFaults
            /\ faults' = faults + 1
            /\ Step(p, Idle)
            /\ outline' = IF p = Importer THEN outline + 1 ELSE outline
            /\ missed' = (missed \/ p = Importer)
            /\ UNCHANGED imported
      /\ UNCHANGED <<rows, requests, deletes, ghosts>>

\* drop and refile read the subscription, and answer 404 where nothing is followed.
AskDrop(p, f) ==
  /\ At(p, "idle") /\ requests < MaxRequests /\ Active(f)
  /\ Step(p, [Doing("dropping", f, subs[f].filing) EXCEPT !.row = subs[f].id])
  /\ Contests(p, f)
  /\ requests' = requests + 1
  /\ UNCHANGED <<rows, import, deletes, faults, failed, withdrawn, sent>>

Drop(p) ==
  /\ At(p, "dropping")
  /\ IF ~ Found(p) THEN Fails(p)
     ELSE /\ subs' = [subs EXCEPT ![client[p].url].active = FALSE]
          /\ withdrawn' = withdrawn \cup {client[p].url}
          /\ Answers(p)
          /\ UNCHANGED <<hosts, feeds, bounds, contested, failed, sent>>

\* Of a filing, only what differs from the row as it was read is written.
Changed(filing, old) ==
  [section |-> IF filing.section = old.section THEN NoRow ELSE filing.section,
   tier    |-> IF filing.tier = old.tier THEN NoRow ELSE filing.tier]

Merged(changed, old) ==
  [section |-> IF changed.section = NoRow THEN old.section ELSE changed.section,
   tier    |-> IF changed.tier = NoRow THEN old.tier ELSE changed.tier]

AskRefile(p, f, filing) ==
  /\ At(p, "idle") /\ requests < MaxRequests /\ Active(f)
  /\ Step(p, [Doing("refiling", f, Changed(filing, subs[f].filing)) EXCEPT !.row = subs[f].id])
  /\ Contests(p, f)
  /\ sent' = [sent EXCEPT ![f] = @ \cup {filing}]
  /\ requests' = requests + 1
  /\ UNCHANGED <<rows, import, deletes, faults, failed, withdrawn>>

Refile(p) ==
  LET f == client[p].url IN
  /\ At(p, "refiling")
  /\ IF ~ Found(p) THEN Fails(p)
     ELSE /\ subs' = [subs EXCEPT ![f].filing = Merged(client[p].filing, @)]
          /\ Answers(p)
          /\ UNCHANGED <<hosts, feeds, bounds, ghosts>>

-----------------------------------------------------------------------------
(* The import.                                                             *)

StartImport ==
  /\ outline = 0 /\ ~ imported
  /\ outline' = 1 /\ missed' = FALSE
  /\ UNCHANGED <<rows, client, imported, bounds, ghosts>>

\* The next outline: left out, looked up, or added as it is.
Import ==
  /\ At(Importer, "idle") /\ outline \in DOMAIN Outlines
  /\ LET url == Outlines[outline].url IN
     IF url = Mail THEN Answers(Importer)
     ELSE /\ Step(Importer, Doing(IF url \in Pages THEN "discovering" ELSE "adding", url,
                                  [section |-> Outlines[outline].section, tier |-> Wire]))
          /\ UNCHANGED import
  /\ UNCHANGED <<rows, bounds, ghosts>>

\* It prints its result, and is run again where a page should have named a feed.
EndImport ==
  /\ At(Importer, "idle") /\ outline > Len(Outlines)
  /\ outline' = 0 /\ imported' = ~ missed
  /\ UNCHANGED <<rows, client, missed, bounds, ghosts>>

-----------------------------------------------------------------------------
(* What goes wrong, and Admin.                                             *)

\* A client dies, and its transaction with it.
Kill(p) ==
  /\ ~ At(p, "idle") /\ faults < MaxFaults
  /\ Step(p, Idle)
  /\ outline' = IF p = Importer THEN 0 ELSE outline
  /\ faults' = faults + 1
  /\ UNCHANGED <<rows, missed, imported, requests, deletes, ghosts>>

\* A subscription is deleted in Admin: its feed is left with none.
Delete(f) ==
  /\ subs[f] # NoRow /\ deletes < MaxDeletes
  /\ subs' = [subs EXCEPT ![f] = NoRow]
  /\ deletes' = deletes + 1
  /\ contested' = contested \cup {f} /\ withdrawn' = withdrawn \cup {f}
  /\ UNCHANGED <<hosts, feeds, client, import, requests, faults, failed, sent>>

-----------------------------------------------------------------------------
Transaction(p) ==
  \/ Look(p) \/ LookForHost(p) \/ CreateHost(p) \/ InsertFeed(p)
  \/ Subscribe(p) \/ Reactivate(p) \/ Drop(p) \/ Refile(p)

Next ==
  \/ \E p \in Clients : Transaction(p) \/ Discover(p) \/ Kill(p)
  \/ \E p \in Readers :
       \/ \E url \in Feeds \cup Pages, section \in Sections : Follow(p, url, section)
       \/ \E f \in Feeds : AskDrop(p, f) \/ \E filing \in Filings : AskRefile(p, f, filing)
  \/ StartImport \/ Import \/ EndImport
  \/ \E f \in Feeds : Delete(f)

Spec == Init /\ [][Next]_vars

\* Transactions end, and an import that raised or found too little is run again.
FairSpec ==
  /\ Spec
  /\ \A p \in Clients : WF_vars(Transaction(p) \/ Discover(p))
  /\ WF_vars(StartImport \/ Import \/ EndImport)

-----------------------------------------------------------------------------
Fields == [section : Sections \cup {NoRow}, tier : Tiers \cup {NoRow}]
Rows == [id : Nat, active : BOOLEAN, filing : Filings]

TypeOK ==
  /\ hosts \subseteq Hosts /\ feeds \subseteq Feeds
  /\ subs \in [Feeds -> Rows \cup {NoRow}]
  /\ \A f \in feeds : HostOf[f] \in hosts
  /\ \A f \in Feeds : subs[f] # NoRow => f \in feeds
  /\ \A p \in Clients : At(p, "idle") \/
       /\ client[p].url \in Addresses /\ client[p].filing \in Fields
       /\ client[p].row \in Nat \cup {NoRow}
       /\ {client[p].ownHost, client[p].ownFeed} \subseteq BOOLEAN
  /\ outline \in 0 .. Len(Outlines) + 1 /\ missed \in BOOLEAN /\ imported \in BOOLEAN
  /\ {requests, deletes, faults} \subseteq Nat

\* "Two feeds arriving at once both succeed" (store.py ensure): nothing of one feed's
\* transaction fails another's.  One fails only where another client was about the very same
\* feed, or its subscription was deleted in Admin.
FailsOnlyOnItsOwnFeed == failed \subseteq contested

\* "Every per-feed choice at once" (refile), and "reactivating a dropped feed rather than
\* starting again" (add): the filing in a row is one that was asked for as a whole, through
\* drops and imports, as long as no two clients were about the feed at once.
FiledWhole ==
  \A f \in Feeds : subs[f] # NoRow /\ f \notin contested => subs[f].filing \in sent[f]

\* An import cut short in the middle is made whole by running it again: every outline that
\* leads to a feed is followed in the end, or was dropped or deleted since.
Resolved(url) ==
  IF url \in Pages THEN Names[url] ELSE IF url = Mail THEN NoFeed ELSE url
ImportedInTheEnd ==
  <>[](\A n \in DOMAIN Outlines :
         LET f == Resolved(Outlines[n].url) IN f # NoFeed => Active(f) \/ f \in withdrawn)
=============================================================================
