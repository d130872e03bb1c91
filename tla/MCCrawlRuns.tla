---------------------------- MODULE MCCrawlRuns ----------------------------
(* One world in which listings move and the volume stays, one the other way. *)
EXTENDS CrawlRuns

MCWorlds == {[volumes |-> {1}, levels |-> {1}, pages |-> TRUE],
             [volumes |-> {1, 2, 10}, levels |-> {2, 10}, pages |-> FALSE]}
=============================================================================
