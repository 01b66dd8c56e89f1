-------------------------- MODULE SuccessiveHalving --------------------------
(***************************************************************************)
(* search/successive_halving.py, SuccessiveHalving: a bracket of rungs     *)
(* with a barrier between them, as operators on the strategy's state.      *)
(* HalvingSearch runs them under the engine.                               *)
(*                                                                         *)
(* A candidate key "hash:rung" is the architecture in the rung's record.   *)
(* An architecture is a natural number, in the order of the hashes that    *)
(* breaks ties.  The sampler's generator is a position in a fixed stream   *)
(* of draws: equal states draw equal architectures.                        *)
(***************************************************************************)
EXTENDS Integers, Sequences, FiniteSets

CONSTANTS
    Archs,       \* the architectures of the space
    NumRungs,    \* ladder.num_rungs
    Sizes,       \* rung_sizes(initial_candidates), see ResourceLadder
    Scores       \* values of the objective

ASSUME HalvingAssumption ==
    /\ Archs \subseteq Nat
    /\ IsFiniteSet(Archs)
    /\ NumRungs \in Nat \ {0}
    /\ Sizes \in [0..(NumRungs - 1) -> Nat \ {0}]
    /\ Scores \subseteq Nat

Rungs == 0..(NumRungs - 1)

Last == NumRungs - 1

\* results[a]: no result yet, None for a failed evaluation, or the objective.
Pending == -2

None == -1

Succeeded(v) == v >= 0

-----------------------------------------------------------------------------
(***************************************************************************)
(* The state of the strategy.                                              *)
(***************************************************************************)
EmptyRung == [proposed |-> <<>>, results |-> [a \in Archs |-> Pending], promoted |-> <<>>]

FreshBracket ==
    [rungs |-> [r \in Rungs |-> EmptyRung],
     current |-> 0,          \* _current_rung, NumRungs once the bracket is done
     seen |-> {},            \* _seen
     drawn |-> 0,            \* the sampler's position
     exhausted |-> FALSE]    \* _exhausted

Entrants(b, r) == {b.rungs[r].proposed[i] : i \in DOMAIN b.rungs[r].proposed}

Reported(b, r) == {a \in Archs : b.rungs[r].results[a] # Pending}

\* _RungState.outstanding.
Outstanding(b, r) == Len(b.rungs[r].proposed) - Cardinality(Reported(b, r))

Filled(b, r) == Len(b.rungs[r].proposed) >= Sizes[r]

\* is_finished.
Finished(b) ==
    \/ b.exhausted
    \/ b.current >= NumRungs
    \/ b.current = Last /\ Filled(b, Last) /\ Outstanding(b, Last) = 0

-----------------------------------------------------------------------------
(***************************************************************************)
(* propose: the steps of its loop.                                         *)
(***************************************************************************)
\* sample_unique: the next draws of the stream that are not in _seen.
NextDraws(b, stream) ==
    {i \in DOMAIN stream : i > b.drawn /\ stream[i] \notin b.seen}

IsFirstDraw(b, stream, i) ==
    i \in NextDraws(b, stream) /\ \A j \in NextDraws(b, stream) : i <= j

WithEntrant(b, r, a) == [b.rungs EXCEPT ![r].proposed = Append(@, a)]

Sampled(b, stream, i) ==
    [b EXCEPT !.rungs = WithEntrant(b, 0, stream[i]),
              !.seen = @ \cup {stream[i]},
              !.drawn = i]

SamplerDry(b) == [b EXCEPT !.exhausted = TRUE]

\* The survivor at the position of the next proposal of rung r, if any.
SurvivorsLeft(b, r) == Len(b.rungs[r].proposed) < Len(b.rungs[r - 1].promoted)

NextSurvivor(b, r) == b.rungs[r - 1].promoted[Len(b.rungs[r].proposed) + 1]

Promoted(b, r) == [b EXCEPT !.rungs = WithEntrant(b, r, NextSurvivor(b, r))]

\* The order of promotion: by objective, ties by key.
\* Ascending instead of descending.
Better(res, a, c) == res[a] > res[c] \/ (res[a] = res[c] /\ a < c)

\* Every report taken for a success.
SuccessesAndFailures(res) == {a \in Archs : res[a] # Pending}

Successes(res) == {a \in Archs : Succeeded(res[a])}

\* The position of a in the sorted list of successes.
Place(res, a) == 1 + Cardinality({c \in Successes(res) : Better(res, c, a)})

\* scored[:survivors].
Best(res, n) ==
    LET m == Cardinality(Successes(res))
    IN [i \in 1..(IF n < m THEN n ELSE m) |->
            CHOOSE a \in Successes(res) : Place(res, a) = i]

\* _advance_rung, once the current rung is filled and has every result.
Advanced(b) ==
    IF b.current = Last THEN [b EXCEPT !.current = NumRungs]
    ELSE LET top == Best(b.rungs[b.current].results, Sizes[b.current + 1])
         IN IF top = <<>> THEN [b EXCEPT !.exhausted = TRUE]
            ELSE [b EXCEPT !.rungs[b.current].promoted = top,
                           !.current = @ + 1]

-----------------------------------------------------------------------------
(***************************************************************************)
(* observe and on_duplicate.                                               *)
(***************************************************************************)
\* A failure that is not recorded leaves the rung waiting.
ObservedSuccessOnly(b, a, r, v) ==
    IF v = None THEN b ELSE [b EXCEPT !.rungs[r].results[a] = v]

\* A key that the rung never proposed (a row of an earlier process) is added
\* to its proposals first.
Observed(b, a, r, v) ==
    [b EXCEPT !.rungs[r] =
        [proposed |-> IF a \in Entrants(b, r) THEN @.proposed ELSE Append(@.proposed, a),
         results |-> [@.results EXCEPT ![a] = v],
         promoted |-> @.promoted]]

Duplicated(b, a) == [b EXCEPT !.seen = @ \cup {a}]
=============================================================================
