------------------------------ MODULE Ranking -------------------------------
(***************************************************************************)
(* objectives/ranking.py as SearchEngine.ranking calls it: the completed   *)
(* rows of a search are sorted into Pareto fronts, one front per turn of   *)
(* the loop of non_dominated_sort, and put in one total order.             *)
(*                                                                         *)
(* The crowding distances are not modelled: they are reported and take no  *)
(* part in the order.                                                      *)
(***************************************************************************)
EXTENDS Objectives

CONSTANTS
    Candidates,     \* candidate ids, positive integers in the order of ids
    ObjectiveSets,  \* the objective sets to examine
    ConstraintSets, \* the sets of constraints to examine
    MetricValues    \* what a completed row may hold: functions from metrics

UNRANKED_FRONT == 1000000

ReadingsOf(os) ==
    {os[i].missing : i \in DOMAIN os}
        \cup {m[os[i].metric] : i \in DOMAIN os, m \in MetricValues}

\* What is read under a logarithm.
Amounts ==
    {v \in UNION {ReadingsOf(os) : os \in ObjectiveSets} : 0 <= v /\ v < Inf}

\* max_evaluations is at most UNRANKED_FRONT, and a logarithm grows.
ASSUME RankingAssumption ==
    /\ Candidates \subseteq Nat \ {0}
    /\ IsFiniteSet(Candidates) /\ Cardinality(Candidates) <= UNRANKED_FRONT
    /\ ObjectiveSets \subseteq Seq(ObjectiveRecords)
    /\ \A os \in ObjectiveSets : ReadingsOf(os) \subseteq Readings
    /\ \A v, w \in Amounts :
          Log10Of[1 + v] \in Int /\ (v < w => Log10Of[1 + v] < Log10Of[1 + w])

\* The unit is fine enough: a whole number divided by a reference is a whole
\* number of units, as a quotient of floats is not rounded to units at all.
ASSUME UnitsAssumption ==
    \A os \in ObjectiveSets : \A i \in DOMAIN os :
        os[i].reference # 0 => Scale % Magnitude(os[i].reference) = 0

VARIABLES
    objectives,     \* the objective set of the configuration
    constraints,    \* the constraint set of the configuration
    population,     \* completed_metrics(): completed candidate -> its metrics
    remaining,      \* the vectors not on a front yet
    fronts,         \* the fronts so far, sets of candidates
    ranked          \* the result: candidate -> position, or NotRanked

rvars == <<objectives, constraints, population, remaining, fronts, ranked>>

NotRanked == <<>>

-----------------------------------------------------------------------------
\* completed_metrics: rows that completed, with metrics.
Populations ==
    UNION {[S -> MetricValues] : S \in (SUBSET Candidates) \ {{}}}

IsFeasible(c) == Feasible(population[c], constraints)

VectorOf(c) == Vector(population[c], objectives)

\* Only feasible candidates whose required metrics are there take part.
Vectorised ==
    {c \in DOMAIN population :
        IsFeasible(c) /\ ~LacksRequired(population[c], objectives)}

ScoreOf(c) == Score(population[c], objectives, PopulationStats(population, objectives))

FrontRank(c) ==
    LET F == {i \in DOMAIN fronts : c \in fronts[i]}
    IN IF F = {} THEN UNRANKED_FRONT ELSE Min(F) - 1

\* The direction-corrected raw value of the primary objective.
PrimaryValue(c) ==
    LET v == population[c][Primary(objectives).metric]
    IN IF v = Absent \/ ~IsFinite(v) THEN NoScore ELSE Primary(objectives).sign * v

\* sort_key, smallest first.
SortKey(c) ==
    <<IF IsFeasible(c) THEN 0 ELSE 1, FrontRank(c), -ScoreOf(c), -PrimaryValue(c), c>>

KeyBefore(k, l) ==
    \E i \in DOMAIN k : k[i] < l[i] /\ \A j \in 1..(i - 1) : k[j] = l[j]

-----------------------------------------------------------------------------
RankInit ==
    /\ objectives \in {os \in ObjectiveSets :
                          IsObjectiveSet(os) /\ \A i \in DOMAIN os : IsObjective(os[i])}
    /\ constraints \in ConstraintSets
    /\ population \in Populations
    /\ remaining = Vectorised
    /\ fronts = <<>>
    /\ ranked = NotRanked

\* One turn of the loop of non_dominated_sort.
Peel ==
    /\ remaining # {}
    /\ LET front == ParetoFront([c \in remaining |-> VectorOf(c)], remaining)
       IN /\ front # {}
          /\ fronts' = Append(fronts, front)
          /\ remaining' = remaining \ front
    /\ UNCHANGED <<objectives, constraints, population, ranked>>

\* Variant: the weighted score decides before the front.
RankByScore ==
    /\ remaining = {} /\ ranked = NotRanked
    /\ LET key == [c \in DOMAIN population |->
                      <<SortKey(c)[1], SortKey(c)[3], SortKey(c)[2], SortKey(c)[5]>>]
       IN ranked' = [c \in DOMAIN population |->
                        Cardinality({d \in DOMAIN population : KeyBefore(key[d], key[c])})]
    /\ UNCHANGED <<objectives, constraints, population, remaining, fronts>>

\* No vector is left, or no front was found: the candidates are sorted.
Rank ==
    /\ \/ remaining = {}
       \/ ParetoFront([c \in remaining |-> VectorOf(c)], remaining) = {}
    /\ ranked = NotRanked
    /\ LET key == [c \in DOMAIN population |-> SortKey(c)]
       IN ranked' = [c \in DOMAIN population |->
                        Cardinality({d \in DOMAIN population : KeyBefore(key[d], key[c])})]
    /\ UNCHANGED <<objectives, constraints, population, remaining, fronts>>

-----------------------------------------------------------------------------
(***************************************************************************)
(* Properties.                                                             *)
(***************************************************************************)
Done == ranked # NotRanked

\* Values are compared with a tolerance that is not transitive, the fronts
\* are peeled one by one, and a score breaks ties: still a candidate that is
\* dominated by another one that can be chosen is ranked after it, a
\* constraint violated or not measured comes after everything that can be
\* chosen, and the order is total.  The exception is a circle of dominance,
\* which takes three objectives: its members are on no front.
RankingRespectsDominance ==
    Done =>
        /\ \A c, d \in DOMAIN population :
            /\ (/\ c \in Vectorised /\ d \in Vectorised
                /\ FrontRank(c) # UNRANKED_FRONT \/ Len(objectives) < 3
                /\ Dominates(VectorOf(c), VectorOf(d)))
                  => ranked[c] < ranked[d]
            /\ (IsFeasible(c) /\ ~IsFeasible(d)) => ranked[c] < ranked[d]
            /\ ranked[c] = ranked[d] => c = d
        /\ \A c \in UNION {fronts[i] : i \in DOMAIN fronts} : IsFeasible(c)

\* At least as good everywhere, in the values compared without tolerance.
AtLeastAsGood(l, r) == \A i \in DOMAIN l : l[i] # NaN /\ r[i] # NaN /\ l[i] >= r[i]

\* An infinity, a fallback for a missing metric as a rule, has a place among
\* the finite values, and the reference keeps the direction.
Comparable(c, i) ==
    /\ IsInf(ValueOf(population[c], objectives[i]))
          => objectives[i].normalization \in {"minmax", "log"}
    /\ objectives[i].normalization = "reference" => objectives[i].reference > 0

\* A score is relative to the population, clamped, flipped and mixed from
\* five normalisations: it never contradicts dominance, or a front would
\* list its members in an order the objectives contradict.
ScoresRespectDominance ==
    \A c, d \in DOMAIN population :
        (/\ ~LacksRequired(population[c], objectives) /\ ~LacksRequired(population[d], objectives)
         /\ \A i \in DOMAIN objectives : Comparable(c, i) /\ Comparable(d, i)
         /\ AtLeastAsGood(VectorOf(c), VectorOf(d)))
            => ScoreOf(c) >= ScoreOf(d)

\* Measured in every objective.
Measured(c) ==
    \A i \in DOMAIN objectives :
        population[c][objectives[i].metric] # Absent
            /\ IsFinite(population[c][objectives[i].metric])

\* What steers the search while it runs agrees with what the report says at
\* its end, where both read the same objectives and only those normalised by
\* a reference have one: the strategy prefers, of two measured candidates,
\* the one the final score prefers.
OnlineAgreesWithFinal ==
    (/\ StableObjectives(objectives) = {i \in DOMAIN objectives : objectives[i].weight > 0}
     /\ \A i \in DOMAIN objectives :
            objectives[i].normalization = "none" => objectives[i].reference = 0)
        => \A c, d \in DOMAIN population :
              (Measured(c) /\ Measured(d)) =>
                 (OnlineObjectiveValue(population[c], objectives)
                    > OnlineObjectiveValue(population[d], objectives)
                  <=> ScoreOf(c) > ScoreOf(d))

=============================================================================
