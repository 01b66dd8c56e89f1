-------------------------- MODULE MCHalvingSearch --------------------------
(***************************************************************************)
(* A bracket for TLC.  The sizes are those ResourceLadder computes for     *)
(* three candidates divided by 3/2, so that rung 0 may have too few        *)
(* survivors to fill rung 1.                                               *)
(***************************************************************************)
EXTENDS HalvingSearch, TLC

ThreeTwo == (0 :> 3) @@ (1 :> 2)

\* One order, longer than rung 0, that is neither along nor against the
\* order that breaks ties, and a space too small for rung 0.
SomeDraws == {<<2, 3, 1, 4>>, <<2, 1>>}
=============================================================================
