-------------------------- MODULE MCStrategySearch --------------------------
(***************************************************************************)
(* A space of four architectures for TLC; one of them has no mutation.     *)
(***************************************************************************)
EXTENDS StrategySearch, TLC

Neighbours == (1 :> {2, 3}) @@ (2 :> {3, 4}) @@ (3 :> {1, 4}) @@ (4 :> {})

\* A sampler that misses between its finds, and soon finds nothing.
Scarce == {<<2, 0, 1, 0, 3>>}

\* A sampler that finds something new every time.
Plenty == {<<2, 1, 3, 4>>}
=============================================================================
