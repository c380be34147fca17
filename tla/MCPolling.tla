----------------------------- MODULE MCPolling -----------------------------
(***************************************************************************)
(* Polling with minutes for seconds and every wait one of them: how long a *)
(* wait is, Cadence checks with the shipped numbers.                       *)
(***************************************************************************)
EXTENDS Polling, TLC

CONSTANTS shared, other, apart

\* Every feed on one host, the case politeness is about, but one where there is another host.
MCHostOf == [f \in Feeds |-> IF f = apart THEN other ELSE shared]

MCHeaders == {Dated}
=============================================================================
