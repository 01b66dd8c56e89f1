-------------------------- MODULE MCSearchSessions --------------------------
(***************************************************************************)
(* Two projects, the first of which is resumed with another population     *)
(* size and with another strategy.  Three builds: the second knows newer   *)
(* checkpoints, the third a newer schema too.                              *)
(***************************************************************************)
EXTENDS SearchSessions

Config(n, s, p, e, t, k) ==
    [name |-> n, strategy |-> s, plan |-> p, evaluations |-> e, epochs |-> t, keep |-> k]

MCConfigs ==
    {Config("a", "evolution", 2, 1, 1, FALSE), Config("a", "evolution", 3, 2, 2, TRUE),
     Config("b", "halving", 2, 2, 2, TRUE)}

MCBuilds ==
    {[schema |-> 1, format |-> 1], [schema |-> 1, format |-> 2],
     [schema |-> 2, format |-> 2]}
=============================================================================
