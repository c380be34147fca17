----------------------------- MODULE MCCadence -----------------------------
(***************************************************************************)
(* Cadence with the shipped configuration: seconds, not scaled units.      *)
(***************************************************************************)
EXTENDS Cadence

\* A feed naming no ttl, one inside our bounds and one past the longest backoff.
MCTtls == {0, 3600, 172800}

\* A short wait, one between the bounds, one meant to park the feed, and a date.
MCHeaders == {120, 7200, 999999999, Dated}
=============================================================================
