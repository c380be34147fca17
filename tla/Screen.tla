------------------------------- MODULE Screen -------------------------------
(***************************************************************************)
(* The list on the reader's screen (web/src/lib/components/River.svelte    *)
(* and web/src/routes/+layout.svelte): a first page that navigating and    *)
(* refreshing replace, and the pages appended behind it, each asked for    *)
(* while the archive and the screen go on changing (River).                *)
(*                                                                         *)
(* A view is its number: every load builds a new one, and they are told    *)
(* apart by identity.                                                      *)
(***************************************************************************)
EXTENDS River

CONSTANTS
  ShownLists,    \* the lists the reader goes to
  MaxViews,      \* bound: loads
  MaxRefreshes   \* bound: refreshes asked for

ASSUME ScreenAssumption ==
  /\ ShownLists \subseteq Lists /\ ShownLists # {}
  /\ {MaxViews, MaxRefreshes} \subseteq Nat

VARIABLES
  view, list,   \* the view on screen and the list it names
  page,         \* the first page, a listing
  appended,     \* the pages fetched after it: [of, behind, entries, cursor]
  more,         \* the request for a page, [of, behind, answer], or Nothing
  fresh,        \* the refresh on its way, [of, answer], or Nothing
  refreshes,
  \* What the properties compare the screen with, since the view was loaded:
  steady,       \* the items that have been in the list all along, in their place
  moved,        \* the items that have changed place
  stirred,      \* an item has joined or left a search, whose rows never change place
  crossed       \* a first page has landed while another page was on its way

screen == <<view, list, page, appended>>
ghosts == <<steady, moved, stirred, crossed>>
vars == <<archive, screen, more, fresh, refreshes, ghosts>>

Nothing == <<>>

\* Drawn only under the view and the page they were fetched behind.
Beyond == appended.of = view /\ appended.behind = page.cursor
Entries == page.entries \o (IF Beyond THEN appended.entries ELSE <<>>)
Cursor == IF Beyond THEN appended.cursor ELSE page.cursor

Load(v, l) ==
  /\ view' = v /\ list' = l
  /\ page' = Listing(l, Top)
  /\ steady' = Listed(l) /\ moved' = {}
  /\ stirred' = FALSE /\ crossed' = FALSE

Init ==
  /\ ArchiveInit
  /\ view = 0 /\ list \in ShownLists
  /\ page = [entries |-> <<>>, cursor |-> End]
  /\ appended = [of |-> None, behind |-> Top, entries |-> <<>>, cursor |-> End]
  /\ more = Nothing /\ fresh = Nothing /\ refreshes = 0
  /\ steady = {} /\ moved = {} /\ stirred = FALSE /\ crossed = FALSE

-----------------------------------------------------------------------------
\* A tap or a search: the list is on screen once its first page is here.
Navigate(l) ==
  /\ view < MaxViews
  /\ Load(view + 1, l)
  /\ UNCHANGED <<archive, appended, more, fresh, refreshes>>

\* `refresh` asks for the river again, whatever its age; the archive is never refreshed.
AskFresh ==
  /\ fresh = Nothing
  /\ list \in {"river", "section"}
  /\ refreshes < MaxRefreshes
  /\ fresh' = [of |-> view, answer |-> Listing(list, Top)]
  /\ refreshes' = refreshes + 1
  /\ UNCHANGED <<archive, screen, more, ghosts>>

\* A refresh of another view is dropped.
LandFresh ==
  /\ fresh # Nothing
  /\ IF fresh.of = view
     THEN page' = fresh.answer /\ crossed' = (crossed \/ more # Nothing)
     ELSE UNCHANGED <<page, crossed>>
  /\ fresh' = Nothing
  /\ UNCHANGED <<archive, view, list, appended, more, refreshes, steady, moved, stirred>>

\* `more`: one page at a time, asked for from where the list on screen ends.  The answer is
\* of the archive as it is now: what changes on the way might as well have changed before.
AskMore ==
  /\ Cursor # End
  /\ more = Nothing
  /\ more' = [of |-> view, behind |-> page.cursor, answer |-> Listing(list, Cursor)]
  /\ UNCHANGED <<archive, screen, fresh, refreshes, ghosts>>

\* The page joins what is appended when it lands, tagged with what it was asked behind.
LandMore ==
  /\ more # Nothing
  /\ appended' = [of |-> more.of, behind |-> more.behind,
                  entries |-> (IF Beyond THEN appended.entries ELSE <<>>) \o more.answer.entries,
                  cursor |-> more.answer.cursor]
  /\ more' = Nothing
  /\ UNCHANGED <<archive, view, list, page, fresh, refreshes, ghosts>>

\* A request that times out, or is refused, leaves the list as it was.
Fail ==
  /\ \/ more # Nothing /\ more' = Nothing /\ UNCHANGED fresh
     \/ fresh # Nothing /\ fresh' = Nothing /\ UNCHANGED more
  /\ UNCHANGED <<archive, screen, refreshes, ghosts>>

\* The archive changes, and what the reader is owed with it.
Change ==
  /\ ArchiveNext
  /\ UNCHANGED <<screen, more, fresh, refreshes, crossed>>
  /\ steady' = {i \in steady \cap Listed(list)' : Keys(list, i)' = Keys(list, i)}
  /\ moved' = moved \cup {i \in Held : Keys(list, i)' # Keys(list, i)}
  /\ stirred' = (stirred \/ (list = "search" /\ Listed(list)' # Listed(list)))

Next ==
  \/ Change
  \/ \E l \in ShownLists : Navigate(l)
  \/ AskFresh \/ LandFresh
  \/ AskMore \/ LandMore
  \/ Fail

Spec == Init /\ [][Next]_vars

-----------------------------------------------------------------------------
(* Properties.                                                             *)

IsListing(l) ==
  /\ l.entries \in Seq(Held) /\ Len(l.entries) <= Limit
  /\ l.cursor = End \/ l.entries # <<>>

\* Types.  A page never has more rows than it was asked for, though one more was fetched,
\* and one that says there is more has shown a row (entries.py page, search.py deep).
TypeOK ==
  /\ IsListing(page)
  /\ fresh # Nothing => IsListing(fresh.answer)
  /\ more # Nothing => IsListing(more.answer)
  /\ appended.entries \in Seq(Held)
  /\ steady \subseteq Held /\ moved \subseteq Held
  /\ {stirred, crossed} \subseteq BOOLEAN

ByKey == list # "search"
OnScreen == Range(Entries)
Rank(i) == Cardinality(Above(KeysOf(list, Listed(list)), i))
Twice(i) == \E a, b \in DOMAIN Entries : a # b /\ Entries[a] = i /\ Entries[b] = i

\* No row that kept its place is on the screen twice, whatever arrives, leaves or expires
\* between its pages, as long as no first page landed while another was on its way.
SteadyRowsShownOnce ==
  ByKey /\ ~crossed => \A i \in Held \ moved : ~Twice(i)

\* "Keyset, so a new item skips nothing" (ui/cursor.py): once the list says it has no more,
\* every item that has been in it all along is on the screen, as long as no first page
\* landed while another was on its way.
NothingSkipped ==
  ByKey /\ ~crossed /\ view # 0 /\ Cursor = End => steady \subseteq OnScreen

\* A search of an archive that keeps still shows every item it reaches, once, as far down
\* as a search may be paged.
SearchWhole ==
  list = "search" /\ view # 0 /\ ~stirred =>
    /\ \A i \in Held : ~Twice(i)
    /\ Cursor = End => \A i \in steady : i \in OnScreen \/ Rank(i) > MaxDepth

\* River.browser.test.ts: "Rendering both is a duplicate key, and Svelte takes the whole
\* screen down for one."
NoRowTwice == \A i \in Held : ~Twice(i)
=============================================================================
