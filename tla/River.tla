------------------------------- MODULE River -------------------------------
(***************************************************************************)
(* The lists of ui/service.py, ui/archive.py and ui/search.py, a page at a *)
(* time, over an archive that goes on changing between two pages.          *)
(*                                                                         *)
(* The river and its sections are cut by the place of a row, the archive   *)
(* by its date, and both are paged by key; a search goes by relevance and  *)
(* is paged by depth.  A listing is its rows in order and the cursor that  *)
(* asks for the next: Top before any page, End where nothing is left.      *)
(***************************************************************************)
EXTENDS Integers, Sequences, FiniteSets, SequencesExt

CONSTANTS
  Ids,             \* items.id, in the order of the values
  Filed,           \* the items whose feed is in the section
  Relevance,       \* Relevance[i]: what the words asked for make of item i
  SlowestPoll, SlowestArrival,
  Window,          \* Subscription.expires_after
  Limit,           \* rows to a page
  MaxDepth,        \* how deep a search may be paged
  MaxNow,          \* bound: the clock
  MaxChanges       \* bound: new heads with another date, filters written, feeds left

Lists == {"river", "section", "archive", "search"}

ASSUME RiverAssumption ==
  /\ Ids \subseteq Nat /\ IsFiniteSet(Ids) /\ Filed \subseteq Ids
  /\ Relevance \in [Ids -> Nat]
  /\ {SlowestPoll, SlowestArrival, Window, MaxDepth, MaxNow, MaxChanges} \subseteq Nat
  /\ Limit \in Nat \ {0}

VARIABLES
  now,
  rows,      \* the items held: their id -> [seen, published], published None where undated
  blocked,   \* held back by a filter, or by a state the query asks for
  left,      \* of a feed that is no longer followed
  changes

archive == <<now, rows, blocked, left, changes>>

None == -1
Held == DOMAIN rows
Dates == {None} \cup 0 .. now     \* a date in the future is stored as now
Larger(a, b) == IF a > b THEN a ELSE b
Smaller(a, b) == IF a < b THEN a ELSE b

-----------------------------------------------------------------------------
(* One page.                                                               *)

Dated(i) == IF rows[i].published = None THEN rows[i].seen ELSE rows[i].published

Placed(i) == Larger(Dated(i), rows[i].seen - SlowestPoll)

Unexpired(i) ==
  /\ rows[i].seen >= now - Window
  /\ Dated(i) >= rows[i].seen - Larger(Window, SlowestArrival)

Listed(list) ==
  { i \in Held \ blocked :
      /\ list \in {"river", "section"} => Unexpired(i) /\ i \notin left
      /\ list = "section" => i \in Filed }

Keys(list, i) ==
  CASE list \in {"river", "section"} -> <<Placed(i), rows[i].seen, i>>
    [] list = "archive" -> <<Dated(i), rows[i].seen, i>>
    [] list = "search" -> <<Relevance[i], rows[i].seen, i>>

\* Postgres compares rows left to right.
Before(a, b) ==
  \/ a[1] < b[1]
  \/ a[1] = b[1] /\ a[2] < b[2]
  \/ a[1] = b[1] /\ a[2] = b[2] /\ a[3] < b[3]

\* ORDER BY ... DESC: the nth row has n - 1 above it.
Above(keys, i) == {j \in DOMAIN keys : Before(keys[i], keys[j])}
Ranked(keys) ==
  [n \in 1 .. Cardinality(DOMAIN keys) |->
     CHOOSE i \in DOMAIN keys : Cardinality(Above(keys, i)) = n - 1]

KeysOf(list, items) == [i \in items |-> Keys(list, i)]
Ordered(list, items) == Ranked(KeysOf(list, items))

\* FAULT: cut on the date, whatever the list is sorted by.
ValuesOfDate(list, i) == <<Dated(i), rows[i].seen, i>>

\* The keys again, off the row a page ended on.
Values(list, i) ==
  LET date == IF rows[i].published # None THEN rows[i].published ELSE rows[i].seen
  IN  IF list = "archive"
      THEN <<date, rows[i].seen, i>>
      ELSE <<Larger(date, rows[i].seen - SlowestPoll), rows[i].seen, i>>

Top == <<>>
End == <<None, None>>

\* FAULT: the row over the limit is served as well.
PageAndOne(list, after) ==
  LET found == Ordered(list, {i \in Listed(list) : after = Top \/ Before(Keys(list, i), after)})
      shown == SubSeq(found, 1, Smaller(Limit + 1, Len(found)))
  IN  [entries |-> shown,
       cursor |-> IF Len(found) > Limit THEN Values(list, Last(shown)) ELSE End]

\* FAULT: a bound that lets the row it was cut on through again.
PageAgain(list, after) ==
  LET found == Ordered(list, {i \in Listed(list) : after = Top \/ ~ Before(after, Keys(list, i))})
      shown == SubSeq(found, 1, Smaller(Limit, Len(found)))
  IN  [entries |-> shown,
       cursor |-> IF Len(found) > Limit THEN Values(list, Last(shown)) ELSE End]

\* entries.page: a row over the limit says there is more, and the last one shown says where.
Page(list, after) ==
  LET found == Ordered(list, {i \in Listed(list) : after = Top \/ Before(Keys(list, i), after)})
      shown == SubSeq(found, 1, Smaller(Limit, Len(found)))
  IN  [entries |-> shown,
       cursor |-> IF Len(found) > Limit THEN Values(list, Last(shown)) ELSE End]

\* FAULT: the next page starts after the row over the limit.
DeepPast(after) ==
  LET depth == IF after = Top THEN 0 ELSE after[1]
      found == Ordered("search", Listed("search"))
  IN  [entries |-> SubSeq(found, depth + 1, Smaller(depth + Limit, Len(found))),
       cursor |-> IF Len(found) > depth + Limit /\ depth + Limit <= MaxDepth
                  THEN <<depth + Limit + 1>> ELSE End]

\* search.deep: the depth so far is the cursor, and beyond MaxDepth there is none.
Deep(after) ==
  LET depth == IF after = Top THEN 0 ELSE after[1]
      found == Ordered("search", Listed("search"))
  IN  [entries |-> SubSeq(found, depth + 1, Smaller(depth + Limit, Len(found))),
       cursor |-> IF Len(found) > depth + Limit /\ depth + Limit <= MaxDepth
                  THEN <<depth + Limit>> ELSE End]

Listing(list, after) == IF list = "search" THEN Deep(after) ELSE Page(list, after)

-----------------------------------------------------------------------------
(* The archive under the lists.                                            *)

ArchiveInit ==
  /\ now = 0 /\ rows = <<>> /\ blocked = {} /\ left = {} /\ changes = 0

\* A poll stores an item it has not seen: seen now, published whenever the document says.
Arrive(i) ==
  /\ i \notin Held
  /\ \E date \in Dates :
       rows' = [j \in Held \cup {i} |->
                  IF j = i THEN [seen |-> now, published |-> date] ELSE rows[j]]
  /\ UNCHANGED <<now, blocked, left, changes>>

\* A poll stores a new version, and its date becomes the item's.
Edit(i) ==
  /\ changes < MaxChanges
  /\ \E date \in Dates \ {rows[i].published} :
       rows' = [rows EXCEPT ![i].published = date]
  /\ changes' = changes + 1
  /\ UNCHANGED <<now, blocked, left>>

\* A filter is written or deleted, a feed left or followed again.
Turn(i) ==
  /\ changes < MaxChanges
  /\ \/ /\ blocked' = IF i \in blocked THEN blocked \ {i} ELSE blocked \cup {i}
        /\ UNCHANGED left
     \/ /\ left' = IF i \in left THEN left \ {i} ELSE left \cup {i}
        /\ UNCHANGED blocked
  /\ changes' = changes + 1
  /\ UNCHANGED <<now, rows>>

Tick ==
  /\ now < MaxNow
  /\ now' = now + 1
  /\ UNCHANGED <<rows, blocked, left, changes>>

ArchiveNext ==
  \/ Tick
  \/ \E i \in Ids \ Held : Arrive(i)
  \/ \E i \in Held : Edit(i) \/ Turn(i)
=============================================================================
