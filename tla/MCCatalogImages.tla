-------------------------- MODULE MCCatalogImages --------------------------
(* Small instances of CatalogImages for TLC. *)
EXTENDS CatalogImages, TLC

\* Names are alike, and so are threads.
Symmetry == Permutations(Image) \cup Permutations(Request)
=============================================================================
