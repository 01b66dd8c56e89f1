-------------------------- MODULE EngineAlgorithms --------------------------
(***************************************************************************)
(* The two sequential computations of the engine that keep state over      *)
(* several turns of a loop and share nothing: the rungs of a bracket, and  *)
(* the ranking of the completed rows.  A behaviour does one of them.       *)
(***************************************************************************)
EXTENDS ResourceLadder, Ranking

VARIABLE job     \* "ladder" or "ranking"

vars == <<job, lvars, rvars>>

LadderIdle ==
    /\ ladder = CHOOSE l \in Ladders : Usable(l)
    /\ allowed = CHOOSE n \in Evaluations : TRUE
    /\ candidates = 1
    /\ budgets = <<>>
    /\ sizes = <<>>

RankIdle ==
    /\ objectives = CHOOSE os \in ObjectiveSets : TRUE
    /\ constraints = {}
    /\ population = <<>>
    /\ remaining = {}
    /\ fronts = <<>>
    /\ ranked = NotRanked

Init ==
    \/ job = "ladder" /\ LadderInit /\ RankIdle
    \/ job = "ranking" /\ RankInit /\ LadderIdle

Next ==
    \/ job = "ladder" /\ AddRung /\ UNCHANGED <<job, rvars>>
    \/ job = "ranking" /\ (Peel \/ Rank) /\ UNCHANGED <<job, lvars>>

Spec == Init /\ [][Next]_vars
=============================================================================
