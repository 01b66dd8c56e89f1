------------------------ MODULE ProposalStrategies ------------------------
(***************************************************************************)
(* The two strategies that need no rungs: random search                    *)
(* (search/random_search.py) and regularized evolution                     *)
(* (search/evolution.py).  One record holds the state of either; the       *)
(* operators are the bodies of its methods.                                *)
(*                                                                         *)
(* An architecture is a number, and the order of numbers is that of the    *)
(* hashes that break ties.  A stream is what one seed makes the sampler    *)
(* try; Miss stands for a whole budget of attempts that found nothing new. *)
(***************************************************************************)
EXTENDS Integers, Sequences, FiniteSets

CONSTANTS
    Archs,           \* the architectures of the space
    Scores,          \* objective values
    Children,        \* Children[a]: what mutating a may give
    PopulationSize,  \* population_size
    TournamentSize,  \* tournament_size
    MaxEvaluations,  \* max_evaluations
    MaxMisses        \* max_consecutive_exhaustions

\* What the constructor refuses.
PlanValid ==
    /\ PopulationSize \in Nat /\ PopulationSize >= 2
    /\ TournamentSize \in 1..PopulationSize
    /\ MaxEvaluations \in Nat \ {0}

ASSUME StrategyAssumption ==
    /\ Archs \subseteq Nat \ {0}
    /\ Scores \subseteq Nat
    /\ Children \in [Archs -> SUBSET Archs]
    /\ PlanValid
    /\ MaxMisses \in Nat \ {0}

Miss == 0        \* sample_unique returns None
NoParent == 0    \* parent_id is None
Unscored == -1   \* objective_value is None

\* The configurations of algorithm.name and allow_duplicate_children.
Settings ==
    { [evolving |-> FALSE, twins |-> FALSE],
      [evolving |-> TRUE, twins |-> FALSE],
      [evolving |-> TRUE, twins |-> TRUE] }

Fresh ==
    [ seen |-> {}, drawn |-> 0,
      proposed |-> 0, observed |-> 0, succeeded |-> 0, failed |-> 0, duplicates |-> 0,
      misses |-> 0, exhausted |-> FALSE,
      population |-> <<>>, pending |-> {}, generation |-> 0,
      fallbacks |-> 0, mutation_failures |-> 0, retired |-> 0 ]

-----------------------------------------------------------------------------
(***************************************************************************)
(* ArchitectureSampler.sample_unique.                                      *)
(***************************************************************************)
\* Variant: the draws do not skip what was seen.
NewDrawsSeen(s, stream) == s.drawn + 1 .. Len(stream)

NewDraws(s, stream) ==
    {i \in s.drawn + 1 .. Len(stream) : stream[i] \notin s.seen}

FirstDraw(s, stream) ==
    CHOOSE i \in NewDraws(s, stream) : \A j \in NewDraws(s, stream) : i <= j

SampledArch(s, stream) ==
    IF NewDraws(s, stream) = {} THEN Miss ELSE stream[FirstDraw(s, stream)]

\* The generator has moved on, whatever was found.
AfterDraw(s, stream) ==
    [s EXCEPT !.drawn = IF NewDraws(s, stream) = {} THEN Len(stream)
                        ELSE FirstDraw(s, stream)]

-----------------------------------------------------------------------------
(***************************************************************************)
(* What the two strategies share.                                          *)
(***************************************************************************)
Registered(s, a) == [s EXCEPT !.seen = @ \cup {a}, !.proposed = @ + 1]

Finished(s) == s.exhausted \/ s.proposed >= MaxEvaluations

Rejected(s, a) == [s EXCEPT !.duplicates = @ + 1, !.seen = @ \cup {a}]

Remaining(s) == MaxEvaluations - s.proposed

-----------------------------------------------------------------------------
(***************************************************************************)
(* Random search.                                                          *)
(***************************************************************************)
RandomProposal(s, a) == [Registered(s, a) EXCEPT !.misses = 0]

Missed(s) ==
    [s EXCEPT !.misses = @ + 1, !.exhausted = @ \/ s.misses + 1 >= MaxMisses]

RandomObserved(s, a, succeeded) ==
    [s EXCEPT !.observed = @ + 1, !.seen = @ \cup {a},
              !.succeeded = IF succeeded THEN @ + 1 ELSE @,
              !.failed = IF succeeded THEN @ ELSE @ + 1]

-----------------------------------------------------------------------------
(***************************************************************************)
(* Regularized evolution.                                                  *)
(***************************************************************************)
Founding(s) == s.proposed < PopulationSize

Fitter(m, n) == m.value > n.value \/ (m.value = n.value /\ m.arch > n.arch)

\* _select_parent: the fittest of TournamentSize distinct members.
Winners(s) ==
    LET Entries == DOMAIN s.population
        size == IF TournamentSize < Cardinality(Entries) THEN TournamentSize
                ELSE Cardinality(Entries)
        Beaten(i) == {j \in Entries \ {i} : ~Fitter(s.population[j], s.population[i])}
    IN {s.population[i] : i \in {e \in Entries : Cardinality(Beaten(e)) >= size - 1}}

\* A child enters with its parent's candidate.
ChildProposal(s, a, parent) ==
    [Registered(s, a) EXCEPT !.pending = {p \in @ : p[1] # a} \cup {<<a, parent>>}]

\* Variant: the population is sorted by fitness, so that the worst leaves.
AppendedFittest(s, m) ==
    LET grown == Append(s.population, m)
        worst == CHOOSE i \in DOMAIN grown :
                    \A j \in DOMAIN grown : ~Fitter(grown[i], grown[j])
    IN IF Len(s.population) < PopulationSize THEN grown
       ELSE SubSeq(grown, 1, worst - 1) \o SubSeq(grown, worst + 1, Len(grown))

\* deque(maxlen=population_size).append: the oldest leaves.
Appended(s, m) ==
    IF Len(s.population) < PopulationSize THEN Append(s.population, m)
    ELSE Append(Tail(s.population), m)

\* What observe does before it looks at the result.
Noted(s, a) ==
    [s EXCEPT !.observed = @ + 1, !.seen = @ \cup {a}, !.pending = {p \in @ : p[1] # a}]

EvolutionObserved(s, a, succeeded, value, parent) ==
    IF ~succeeded \/ value = Unscored
    THEN [Noted(s, a) EXCEPT !.failed = @ + 1]
    ELSE [Noted(s, a) EXCEPT
            !.succeeded = @ + 1, !.generation = @ + 1,
            !.population = Appended(s, [arch |-> a, value |-> value, parent |-> parent,
                                        generation |-> s.generation + 1]),
            !.retired = IF Len(s.population) = PopulationSize THEN @ + 1 ELSE @]
=============================================================================
