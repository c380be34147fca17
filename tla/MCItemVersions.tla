--------------------------- MODULE MCItemVersions ---------------------------
(***************************************************************************)
(* ItemVersions on one feed with two items.  The bodies add an item, edit  *)
(* it, drop it again, and repeat an identity with two texts.               *)
(***************************************************************************)
EXTENDS ItemVersionsAlone, TLC

CONSTANTS i1, i2, old, new, plain, edited, repeated

MCEntries ==
  (plain    :> <<[item |-> i1, text |-> old]>>) @@
  (edited   :> <<[item |-> i1, text |-> new], [item |-> i2, text |-> old]>>) @@
  (repeated :> <<[item |-> i2, text |-> new], [item |-> i1, text |-> old],
                 [item |-> i2, text |-> old]>>)
=============================================================================
