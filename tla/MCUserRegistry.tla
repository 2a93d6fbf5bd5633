--------------------------- MODULE MCUserRegistry ---------------------------
(* UserRegistry on small instances.                                        *)
EXTENDS UserRegistry, TLC

\* Sessions, and uids, are interchangeable: no definition names one of them.
Symmetry == Permutations(Sessions) \cup Permutations(Uids \ {NoUid})
=============================================================================
