------------------------- MODULE MCEngineAlgorithms -------------------------
(***************************************************************************)
(* Ladders for TLC: one to four rungs, factors that a float holds exactly, *)
(* every subset of the three dimensions.                                   *)
(*                                                                         *)
(* Populations: one to three completed rows with an accuracy among 9, 10   *)
(* and 11, of which neighbours are equal within the tolerance and the ends *)
(* are not, or NaN, and a latency, or none.                                *)
(***************************************************************************)
EXTENDS EngineAlgorithms

MCLadders ==
    [rungs : 1..4,
     eta : {Frac(3, 2), Frac(2, 1), Frac(5, 2), Frac(3, 1)},
     epochs : {1, 3},
     fraction : {Frac(1, 4), Frac(1, 1)},
     resolution : {Native, 5, 8},
     native : {16},
     scaleEpochs : BOOLEAN, scaleFraction : BOOLEAN, scaleResolution : BOOLEAN]

MCEvaluations == {1, 3, 4, 7, 13, 20}

MCCandidates == 1..3

\* Even, and a multiple of the reference.
MCScale == 198

MCLog10Of ==
    [x \in {1, 10, 11, 12, 100} |->
        CASE x = 1 -> 0 [] x = 10 -> 1000 [] x = 11 -> 1041 [] x = 12 -> 1079
          [] x = 100 -> 2000]

Row(a, p, l, s) ==
    [m \in {"validation_accuracy", "trainable_parameters", "latency_median_ms",
            "model_size_bytes"} |->
        CASE m = "validation_accuracy" -> a [] m = "trainable_parameters" -> p
          [] m = "latency_median_ms" -> l [] m = "model_size_bytes" -> s]

\* The last three dominate each other in a circle.
MCMetricValues ==
    {Row(a, 9, l, 9) : a \in {9, 10, 11, NaN}, l \in {0, 9, 99, Absent}}
        \cup {Row(11, 11, Absent, 10), Row(10, 9, Absent, 11), Row(9, 10, Absent, 9)}

Accuracy(n) ==
    [metric |-> "validation_accuracy", sign |-> 1, weight |-> 1, normalization |-> n,
     reference |-> IF n = "reference" THEN 1 ELSE 0,
     required |-> TRUE, missing |-> Absent]

Minimise(m, n, w, r) ==
    [metric |-> m, sign |-> -1, weight |-> w, normalization |-> n,
     reference |-> IF n = "reference" THEN 9 ELSE 0,
     required |-> r, missing |-> IF r THEN Absent ELSE Inf]

Latency(n, w, r) == Minimise("latency_median_ms", n, w, r)

MCObjectiveSets ==
    {DefaultObjectives,
     <<Accuracy("minmax"), Latency("minmax", 1, TRUE)>>,
     <<Accuracy("none"), Latency("reference", 2, FALSE)>>,
     <<Accuracy("reference"), Latency("zscore", 1, FALSE)>>,
     <<Latency("log", 1, TRUE), Accuracy("zscore")>>,
     <<Accuracy("minmax"), Minimise("trainable_parameters", "minmax", 1, TRUE),
       Minimise("model_size_bytes", "minmax", 1, TRUE)>>}

MCConstraintSets ==
    {{}, {[metric |-> "latency_median_ms", operator |-> "le", threshold |-> 9,
           required |-> TRUE]}}
=============================================================================
