---------------------------- MODULE MCCrawlQueue ----------------------------
(* CrawlQueue on small instances: the configurations give the constants      *)
(* their values, this module the symmetry of the interchangeable ones.       *)
EXTENDS CrawlQueue, TLC

Symmetry == Permutations(Scopes) \cup Permutations(Drains) \cup Permutations(Clients)
=============================================================================
