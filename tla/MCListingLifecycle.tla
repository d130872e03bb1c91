------------------------- MODULE MCListingLifecycle -------------------------
(* ListingLifecycle on small instances.                                      *)
EXTENDS ListingLifecycle, TLC

Symmetry == Permutations(Crawlers)
=============================================================================
