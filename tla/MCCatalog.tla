----------------------------- MODULE MCCatalog -----------------------------
EXTENDS Catalog, TLC

CONSTANTS p1, p2, r1, r2

Symmetric == Permutations(Paper) \cup Permutations(Refresher)
=============================================================================
