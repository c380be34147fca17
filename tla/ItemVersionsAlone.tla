------------------------- MODULE ItemVersionsAlone -------------------------
(***************************************************************************)
(* ItemVersions beside a history variable that remembers whether two polls *)
(* of one feed were ever open at once, which the per-host job lock is      *)
(* there to prevent, and what storing a document amounts to until then.    *)
(***************************************************************************)
EXTENDS ItemVersions

VARIABLE overlapped

Open(w, f) == txn[w].pc # "closed" /\ txn[w].feed = f
TwoOpen == \E w, u \in Writers, f \in Feeds : w # u /\ Open(w, f) /\ Open(u, f)

AloneInit == Init /\ overlapped = FALSE
AloneNext == Next /\ overlapped' = (overlapped \/ TwoOpen')
aloneVars == <<vars, overlapped>>
AloneSpec == AloneInit /\ [][AloneNext]_aloneVars

\* While no two polls of a feed have overlapped, storing a document row by row is storing it
\* at once, whole, and a transaction that dies stores nothing (service.py _store_poll).
AloneImplementsArchive ==
  A!ArchiveInit /\ [][overlapped' \/ A!ArchiveNext]_(A!archiveVars)
=============================================================================
