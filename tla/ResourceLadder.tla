--------------------------- MODULE ResourceLadder ---------------------------
(***************************************************************************)
(* search/successive_halving.py, ResourceLadder: the budgets and the sizes *)
(* of the rungs of a bracket, computed one rung at a time, and the choice  *)
(* of the number of candidates in search/registry.py.                      *)
(*                                                                         *)
(* The reduction factor and the data fraction are floats in the code.      *)
(* Here they are fractions, records [n, d]; the instances use factors and  *)
(* fractions that a float holds exactly.                                   *)
(***************************************************************************)
EXTENDS Integers, Sequences

CONSTANTS
    Ladders,      \* the configurations to examine, records (see LadderAssumption)
    Evaluations   \* the values of max_evaluations to examine

VARIABLES
    ladder,       \* the configuration of this run
    candidates,   \* initial_candidates
    allowed,      \* max_evaluations, from which candidates is derived
    budgets,      \* budgets(): one TrainingBudget per rung so far
    sizes         \* rung_sizes(): one count per rung so far

lvars == <<ladder, candidates, allowed, budgets, sizes>>

\* resolution None: the dataset's own size.
Native == 0

-----------------------------------------------------------------------------
(***************************************************************************)
(* Arithmetic.                                                             *)
(***************************************************************************)
Larger(a, b) == IF a < b THEN b ELSE a

Smaller(a, b) == IF a < b THEN a ELSE b

\* reduction_factor ** rung is Power(num, rung) / Power(den, rung).
Power(b, e) ==
    LET p[i \in Nat] == IF i = 0 THEN 1 ELSE b * p[i - 1] IN p[e]

\* Python's round(n / d): to the nearest integer, halves to the even one.
RoundHalfEven(n, d) ==
    LET q == n \div d
        twice == 2 * (n % d)
    IN IF twice > d \/ (twice = d /\ q % 2 = 1) THEN q + 1 ELSE q

AtMost(x, y) == x.n * y.d <= y.n * x.d

Frac(n, d) == [n |-> n, d |-> d]

Fractions == [n : Nat \ {0}, d : Nat \ {0}]

-----------------------------------------------------------------------------
(***************************************************************************)
(* One rung of the ladder.                                                 *)
(***************************************************************************)
Factor(l, r) == Frac(Power(l.eta.n, r), Power(l.eta.d, r))

EpochsAt(l, r) ==
    IF l.scaleEpochs
    THEN Larger(1, RoundHalfEven(l.epochs * Factor(l, r).n, Factor(l, r).d))
    ELSE l.epochs

FractionAt(l, r) ==
    LET f == Frac(l.fraction.n * Factor(l, r).n, l.fraction.d * Factor(l, r).d)
    IN IF ~l.scaleFraction THEN l.fraction
       ELSE IF AtMost(Frac(1, 1), f) THEN Frac(1, 1) ELSE f

\* An even size, at least 4; the native size is written as no size at all.
ResolutionAt(l, r) ==
    LET s == RoundHalfEven(l.resolution * Factor(l, r).n, Factor(l, r).d)
        size == Smaller(l.native, Larger(4, s - (s % 2)))
    IN IF ~l.scaleResolution \/ l.resolution = Native THEN l.resolution
       ELSE IF size >= l.native THEN Native ELSE size

BudgetAt(l, r) ==
    [epochs |-> EpochsAt(l, r), fraction |-> FractionAt(l, r),
     resolution |-> ResolutionAt(l, r), rung |-> r]

SizeAt(l, n, r) == Larger(1, (n * Factor(l, r).d) \div Factor(l, r).n)

\* The registry inverts n * (sum of eta^-r) to fit max_evaluations.
\* Over the common denominator num^(rungs-1), sum of eta^-r is
\*     sum of den^r * num^(rungs-1-r)  /  num^(rungs-1).
GeometricSum(l) ==
    LET last == l.rungs - 1
        s[r \in 0..last] ==
            Power(l.eta.d, r) * Power(l.eta.n, last - r)
                + (IF r = 0 THEN 0 ELSE s[r - 1])
    IN Frac(s[last], Power(l.eta.n, last))

\* Only rung 0 counted.
InitialCandidatesFlat(l, m) == Larger(1, m)

InitialCandidates(l, m) ==
    Larger(1, (m * GeometricSum(l).d) \div GeometricSum(l).n)

-----------------------------------------------------------------------------
(***************************************************************************)
(* ResourceLadder.__post_init__ accepts the configuration.                 *)
(***************************************************************************)
Usable(l) ==
    /\ l.rungs >= 1
    /\ l.eta.n > l.eta.d
    /\ l.rungs > 1 => (l.scaleEpochs \/ l.scaleFraction \/ l.scaleResolution)
    /\ l.scaleResolution => l.native # Native

\* A base budget is one that TrainingBudget accepts; some ladder is usable.
ASSUME LadderAssumption ==
    /\ Evaluations \subseteq Nat \ {0}
    /\ \A l \in Ladders :
          /\ l.rungs \in Nat /\ l.eta \in Fractions
          /\ l.epochs \in Nat \ {0}
          /\ l.fraction \in Fractions /\ AtMost(l.fraction, Frac(1, 1))
          /\ l.resolution \in {Native} \cup {n \in Nat : n >= 4}
          /\ l.native \in Nat
          /\ {l.scaleEpochs, l.scaleFraction, l.scaleResolution} \subseteq BOOLEAN
    /\ \E l \in Ladders : Usable(l)

LadderInit ==
    /\ ladder \in {l \in Ladders : Usable(l)}
    /\ allowed \in Evaluations
    /\ candidates = InitialCandidates(ladder, allowed)
    /\ budgets = <<>>
    /\ sizes = <<>>

\* One turn of the loops of budgets() and rung_sizes().
AddRung ==
    /\ Len(budgets) < ladder.rungs
    /\ budgets' = Append(budgets, BudgetAt(ladder, Len(budgets)))
    /\ sizes' = Append(sizes, SizeAt(ladder, candidates, Len(sizes)))
    /\ UNCHANGED <<ladder, candidates, allowed>>

-----------------------------------------------------------------------------
\* Every budget passes TrainingBudget.__post_init__: a bracket never fails
\* half-way because a scaled budget is out of range.
BudgetUsable(b) ==
    /\ b.epochs >= 1
    /\ b.fraction \in Fractions /\ AtMost(b.fraction, Frac(1, 1))
    /\ b.resolution = Native \/ b.resolution >= 4

-----------------------------------------------------------------------------
(***************************************************************************)
(* Properties.                                                             *)
(***************************************************************************)
Complete == Len(budgets) = ladder.rungs

SizeOf(b) == IF b.resolution = Native THEN ladder.native ELSE b.resolution

\* No rung is cheaper than the one before it in any dimension, whatever the
\* rounding of epochs and sizes and the ceilings do ("cheapest first"; the
\* native size is above every explicit one), no scaled budget is one that
\* TrainingBudget refuses half-way through a bracket, and no rung asks for
\* more candidates than the one below it has.
LadderClimbs ==
    /\ \A i \in DOMAIN budgets : BudgetUsable(budgets[i])
    /\ \A i, j \in DOMAIN budgets :
          i < j =>
            /\ budgets[i].epochs <= budgets[j].epochs
            /\ AtMost(budgets[i].fraction, budgets[j].fraction)
            /\ SizeOf(budgets[i]) <= SizeOf(budgets[j])
            /\ sizes[j] <= sizes[i]

Total(s) ==
    LET t[i \in 0..Len(s)] == IF i = 0 THEN 0 ELSE s[i] + t[i - 1] IN t[Len(s)]

\* While the last rung's size is not the floor of one, the derived bracket
\* fits max_evaluations.
DerivedBracketFits ==
    (Complete /\ candidates * Factor(ladder, ladder.rungs - 1).d
                    >= Factor(ladder, ladder.rungs - 1).n)
        => Total(sizes) <= allowed

\* Together: a derived bracket is one the evaluator accepts and the budget pays.
LadderHolds == LadderClimbs /\ DerivedBracketFits
=============================================================================
