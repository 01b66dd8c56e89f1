-------------------------- MODULE MCSearchEngine --------------------------
(***************************************************************************)
(* Instances of SearchEngine for TLC.                                      *)
(***************************************************************************)
EXTENDS SearchEngine, TLC

CONSTANTS k1, k2, k3, k4

SymFour == Permutations({k1, k2, k3, k4})
=============================================================================
