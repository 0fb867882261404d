---------------------------- MODULE MCCrawlIter ----------------------------
(* Six events for TLC, three on each of two dates. *)
EXTENDS CrawlIter

MCEndOf == [e \in Events |-> IF e <= 3 THEN 1 ELSE 2]
=============================================================================
