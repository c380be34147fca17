------------------------------ MODULE Spacing ------------------------------
(***************************************************************************)
(* politeness/spacing.py: how far apart the jobs of one sweep are held.    *)
(* Pure; what the delays come to under the queue is not modelled.          *)
(***************************************************************************)
EXTENDS Naturals, Sequences, FiniteSets

\* gap_for: our own gap or the host's Crawl-delay, 0 for a host that states none.
GapFor(host, minimum, crawl) == IF crawl[host] > minimum THEN crawl[host] ELSE minimum

\* The jobs of the batch ahead of the nth on its own host.
Ahead(hosts, n) == {m \in 1 .. n - 1 : hosts[m] = hosts[n]}

\* stagger: each job is held back by its position within its own host.
Stagger(hosts, minimum, crawl) ==
  [n \in DOMAIN hosts |->
     Cardinality(Ahead(hosts, n)) * GapFor(hosts[n], minimum, crawl)]
=============================================================================
