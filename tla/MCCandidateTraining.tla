------------------------ MODULE MCCandidateTraining ------------------------
(***************************************************************************)
(* Settings for TLC: with and without patience, a margin, checkpoints      *)
(* after every epoch, every other one or at the end only.                  *)
(***************************************************************************)
EXTENDS CandidateTraining

MCSettings ==
    {[patience |-> 1, delta |-> 1, every |-> 1, restore |-> TRUE, save |-> TRUE, limited |-> TRUE],
     [patience |-> 0, delta |-> 0, every |-> 2, restore |-> TRUE, save |-> TRUE, limited |-> TRUE],
     [patience |-> 2, delta |-> 0, every |-> 0, restore |-> FALSE, save |-> TRUE, limited |-> FALSE],
     [patience |-> 1, delta |-> 0, every |-> 1, restore |-> TRUE, save |-> FALSE, limited |-> TRUE]}
=============================================================================
