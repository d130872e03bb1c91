---------------------------- MODULE MCPhotoCache ----------------------------
(* PhotoCache on small instances.                                            *)
EXTENDS PhotoCache, TLC

Symmetry == Permutations(Listings) \cup Permutations(Procs)
=============================================================================
