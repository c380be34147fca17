------------------------------ MODULE MCKindle ------------------------------
(***************************************************************************)
(* Kindle with items and hands interchangeable.                            *)
(***************************************************************************)
EXTENDS Kindle, TLC

Interchangeable == Permutations(Items) \cup Permutations(Hands)
=============================================================================
