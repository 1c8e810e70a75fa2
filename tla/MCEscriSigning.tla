---------------------------- MODULE MCEscriSigning ----------------------------
EXTENDS EscriSigning, FiniteSets, TLC

\* Workers and requests differ in nothing but their names.
Symmetry == Permutations(Workers) \union Permutations(Requests)

\* Bound: requests of the GLOBAL regime come one at a time.
OneGlobalRequest == regime = "GLOBAL" => Cardinality({r \in Requests : ~AtR(r, "idle")}) <= 1
=============================================================================
