------------------------------ MODULE MCScreen ------------------------------
(***************************************************************************)
(* A reader of the lists of three items.                                   *)
(***************************************************************************)
EXTENDS Screen

MCRelevance == [i \in Ids |-> IF i = 1 THEN 1 ELSE 0]
=============================================================================
