-------------------------- MODULE MCGlobalNumbering --------------------------
EXTENDS GlobalNumbering, TLC

\* The ids of drafts are interchangeable.
Symmetry == Permutations(Docs)
=============================================================================
