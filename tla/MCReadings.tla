----------------------------- MODULE MCReadings -----------------------------
(***************************************************************************)
(* Readings of an item whose documents one parser or the other makes       *)
(* nothing of, and of teasers only the first extractor can read.           *)
(***************************************************************************)
EXTENDS Readings, TLC

CONSTANTS p1, p2, e1, e2

MCDocuments == {(p1 :> 1) @@ (p2 :> None), (p1 :> None) @@ (p2 :> 2)}

MCReads ==
  (e1 :> [text \in Texts |-> text]) @@
  (e2 :> [text \in Texts |-> IF text = Fullest THEN text ELSE None])
=============================================================================
