------------------------------ MODULE Archive ------------------------------
(***************************************************************************)
(* What storing a feed document promises, whatever the tables look like:   *)
(* the newest body is remembered, every item it mentions reads the way it  *)
(* says, and nothing ever stored is lost.  ItemVersions implements it row  *)
(* by row.  Unsaid is no text and NoBody no body.                          *)
(***************************************************************************)
CONSTANTS
  Feeds, Items, Bodies,
  Said,      \* Said[b][i]: what body b says of item i, Unsaid where it says nothing
  Unsaid,
  NoBody

VARIABLES
  latest,    \* the newest body stored for a feed
  head,      \* head[f][i]: the current text of item i, Unsaid before it is first seen
  kept       \* kept[f]: every <<item, text>> ever stored

archiveVars == <<latest, head, kept>>

\* The items of body b that are new to feed f, and the ones whose text moved.
NewItems(f, b) == {i \in Items : Said[b][i] # Unsaid /\ head[f][i] = Unsaid}
Edited(f, b) ==
  {i \in Items : Said[b][i] \notin {Unsaid, head[f][i]} /\ head[f][i] # Unsaid}

Applied(f, b) == [i \in Items |-> IF Said[b][i] = Unsaid THEN head[f][i] ELSE Said[b][i]]

ArchiveInit ==
  /\ latest = [f \in Feeds |-> NoBody]
  /\ head = [f \in Feeds |-> [i \in Items |-> Unsaid]]
  /\ kept = [f \in Feeds |-> {}]

\* A body equal to the one before it is not looked at again.
Store(f, b) ==
  \/ b = latest[f] /\ UNCHANGED archiveVars
  \/ /\ b # latest[f]
     /\ latest' = [latest EXCEPT ![f] = b]
     /\ head' = [head EXCEPT ![f] = Applied(f, b)]
     /\ kept' = [kept EXCEPT ![f] = @ \cup {<<i, Said[b][i]>> :
                                              i \in NewItems(f, b) \cup Edited(f, b)}]

ArchiveNext == \E f \in Feeds, b \in Bodies : Store(f, b)

ArchiveSpec == ArchiveInit /\ [][ArchiveNext]_archiveVars

=============================================================================
