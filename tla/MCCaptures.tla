----------------------------- MODULE MCCaptures -----------------------------
(***************************************************************************)
(* Captures with two pages of one host.  The older one may redirect to a   *)
(* host whose rules nobody reads.                                          *)
(***************************************************************************)
EXTENDS Captures, TLC

CONSTANTS site, elsewhere, Away

MCHostOf == [p \in Pages |-> site]
MCFinalHost == [p \in Pages |-> IF p \in Away THEN elsewhere ELSE site]
MCPageRetry == [minimum |-> 1, maximum |-> 1, factor |-> 3, max_failures |-> 2]
MCProbe == [minimum |-> 1, maximum |-> 2, factor |-> 2, max_failures |-> 0]
=============================================================================
