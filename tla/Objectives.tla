----------------------------- MODULE Objectives -----------------------------
(***************************************************************************)
(* objectives/: what the metrics of a candidate are worth.  Objectives,    *)
(* constraints, dominance between objective vectors, the weighted score    *)
(* that is relative to a population, and the online value that is not.     *)
(*                                                                         *)
(* Metrics are floats in the code.  Here they are integers, with markers   *)
(* for the three values that are no measurement.  A normalised value is    *)
(* counted in units of 1/Scale; a quotient that is not whole is rounded    *)
(* down, which keeps the order.                                            *)
(***************************************************************************)
EXTENDS Integers, Sequences, FiniteSets, FiniteSetsExt

CONSTANTS
    Scale,        \* units of a normalised value of 1.0
    Closeness,    \* values within 1/Closeness of the larger one are equal
    Log10Of       \* math.log10 on the values of the instance plus 1, rounded

ASSUME ScaleAssumption == Scale \in Nat /\ Scale % 2 = 0
ASSUME ClosenessAssumption == Closeness \in Nat \ {0}

Inf == 100000
NaN == 200000
Absent == 300000      \* the metrics have no such key

Magnitude(x) == IF x < 0 THEN -x ELSE x

IsInf(x) == Magnitude(x) = Inf

IsFinite(x) == x # NaN /\ ~IsInf(x)

\* What a metric or a fallback may read.
Readings == ((-Inf)..Inf) \cup {NaN, Absent}

\* The midpoint.
NEUTRAL == Scale \div 2

\* Rounded down, for any divisor but 0.
Quotient(a, b) == IF b > 0 THEN a \div b ELSE (-a) \div (-b)

\* The sum of the values of a function.
SumOf(h) == MapThenSumSet(LAMBDA i : h[i], DOMAIN h)

-----------------------------------------------------------------------------
(***************************************************************************)
(* Objective and ObjectiveSet: an objective is a record                    *)
(*   [metric, sign, weight, normalization, reference, required, missing]   *)
(* with sign 1 to maximise and -1 to minimise; a set is a sequence.        *)
(***************************************************************************)
ObjectiveRecords ==
    [metric : STRING, sign : {1, -1}, weight : Int,
     normalization : {"none", "minmax", "zscore", "log", "reference"},
     reference : Int, required : BOOLEAN, missing : Readings]

\* Objective.__post_init__.  missing = Absent: no missing_value.
IsObjective(o) ==
    /\ o.weight >= 0
    /\ o.normalization = "reference" => o.reference # 0
    /\ ~o.required => o.missing # Absent

\* ObjectiveSet.__post_init__.
IsObjectiveSet(os) ==
    /\ os # <<>>
    /\ \A i, j \in DOMAIN os : os[i].metric = os[j].metric => i = j
    /\ \E i \in DOMAIN os : os[i].weight > 0

Primary(os) == os[1]

\* The value an objective reads: the metric, or the declared fallback of an
\* optional one; Absent when a required metric is missing.
ValueOf(m, o) ==
    IF m[o.metric] = Absent /\ ~o.required THEN o.missing ELSE m[o.metric]

\* default_objectives(), with the weights in tenths.
DefaultObjectives ==
    LET objective(m, s, w, n, r, f) ==
            [metric |-> m, sign |-> s, weight |-> w, normalization |-> n,
             reference |-> 0, required |-> r, missing |-> f]
    IN <<objective("validation_accuracy", 1, 10, "minmax", TRUE, Absent),
         objective("trainable_parameters", -1, 2, "log", TRUE, Absent),
         objective("latency_median_ms", -1, 1, "minmax", FALSE, Inf),
         objective("model_size_bytes", -1, 1, "log", FALSE, Inf)>>

LacksRequired(m, os) == \E i \in DOMAIN os : ValueOf(m, os[i]) = Absent

-----------------------------------------------------------------------------
(***************************************************************************)
(* Constraints: [metric, operator, threshold, required].                   *)
(***************************************************************************)
\* ComparisonOperator.compare.  No comparison with NaN is true.
Compare(op, value, threshold) ==
    /\ value # NaN
    /\ \/ op = "le" /\ value <= threshold
       \/ op = "lt" /\ value < threshold
       \/ op = "ge" /\ value >= threshold
       \/ op = "gt" /\ value > threshold

Violates(m, k) ==
    IF m[k.metric] = Absent
    THEN k.required
    ELSE ~Compare(k.operator, m[k.metric], k.threshold)

Feasible(m, ks) == \A k \in ks : ~Violates(m, k)

-----------------------------------------------------------------------------
(***************************************************************************)
(* Dominance.  A vector has one direction-corrected value per objective.   *)
(***************************************************************************)
Oriented(sign, v) == IF v = NaN THEN NaN ELSE sign * v

Vector(m, os) == [i \in DOMAIN os |-> Oriented(os[i].sign, ValueOf(m, os[i]))]

\* math.isclose with a relative tolerance only: infinities are close to
\* themselves, and nothing but zero is close to zero.
ApproximatelyEqual(x, y) ==
    \/ x = y
    \/ /\ ~IsInf(x) /\ ~IsInf(y)
       /\ Magnitude(x - y) * Closeness <= Max({Magnitude(x), Magnitude(y)})

Worse(x, y) == x < y /\ ~ApproximatelyEqual(x, y)

\* A vector with a NaN neither dominates nor is dominated.
Dominates(l, r) ==
    /\ \A i \in DOMAIN l : l[i] # NaN /\ r[i] # NaN /\ ~Worse(l[i], r[i])
    /\ \E i \in DOMAIN l : Worse(r[i], l[i])

\* The vectors nothing else in the set dominates; vs is a function from ids.
ParetoFront(vs, ids) ==
    {c \in ids : ~\E d \in ids \ {c} : Dominates(vs[d], vs[c])}

-----------------------------------------------------------------------------
(***************************************************************************)
(* Scores.                                                                 *)
(***************************************************************************)
\* compute_stats: the finite ones of the measured values, a function from
\* candidates.
Stats(values) ==
    LET finite == {c \in DOMAIN values : IsFinite(values[c])}
        range == {values[c] : c \in finite}
    IN [count |-> Cardinality(finite),
        total |-> SumOf([c \in finite |-> values[c]]),
        minimum |-> IF finite = {} THEN 0 ELSE Min(range),
        maximum |-> IF finite = {} THEN 0 ELSE Max(range)]

Degenerate(s) == s.count = 0 \/ s.minimum = s.maximum

Clamp(x) == Max({0, Min({Scale, x})})

Linear(v, s) == (Scale * (v - s.minimum)) \div (s.maximum - s.minimum)

\* log10(1 + x), linear where a logarithm has no meaning.
Logarithmic(v, s) ==
    IF v < 0 \/ s.minimum < 0
    THEN Linear(v, s)
    ELSE (Scale * (Log10Of[1 + v] - Log10Of[1 + s.minimum]))
            \div (Log10Of[1 + s.maximum] - Log10Of[1 + s.minimum])

\* The distance from the mean.  The code divides it by the deviation, a
\* positive number that is the same for all candidates: here it is 1.
Standardised(v, s) == (Scale * (s.count * v - s.total)) \div s.count

\* The flip of a minimised value, after the clamp.
Flipped(sign, scaled) == IF sign > 0 THEN scaled ELSE Scale - scaled

\* Variant: the flip is forgotten.
NormalizeUnflipped(v, o, s) ==
    IF IsInf(v) \/ v = NaN \/ Degenerate(s) THEN NEUTRAL
    ELSE IF o.normalization = "log" THEN Clamp(Logarithmic(v, s)) ELSE Clamp(Linear(v, s))

Normalize(v, o, s) ==
    CASE IsInf(v) -> IF o.sign * v > 0 THEN Scale ELSE 0
      [] v = NaN -> 0
      [] IsFinite(v) /\ o.normalization = "none" -> Scale * o.sign * v
      [] IsFinite(v) /\ o.normalization = "reference" ->
            Quotient(Scale * o.sign * v, o.reference)
      [] IsFinite(v) /\ o.normalization \in {"zscore", "minmax", "log"} ->
            IF Degenerate(s) THEN NEUTRAL
            ELSE IF o.normalization = "zscore" THEN o.sign * Standardised(v, s)
            ELSE Flipped(o.sign, Clamp(IF o.normalization = "log"
                                       THEN Logarithmic(v, s) ELSE Linear(v, s)))

NoScore == -1000000000

\* WeightedScorer.score, in units of 1/(Scale * sum of the weights): the
\* same divisor for every candidate.  stats[i] belongs to objective i.
Components(m, os, stats) ==
    [i \in DOMAIN os |-> Normalize(ValueOf(m, os[i]), os[i], stats[i])]

Score(m, os, stats) ==
    IF LacksRequired(m, os) THEN NoScore
    ELSE SumOf([i \in DOMAIN os |-> os[i].weight * Components(m, os, stats)[i]])

\* WeightedScorer.__init__: the statistics of what the population measured.
PopulationStats(pop, os) ==
    [i \in DOMAIN os |->
        Stats([c \in {d \in DOMAIN pop : pop[d][os[i].metric] # Absent}
                  |-> pop[c][os[i].metric]])]

-----------------------------------------------------------------------------
(***************************************************************************)
(* The online value, which does not depend on the population.              *)
(***************************************************************************)
STABLE == {"none", "reference"}

StableObjectives(os) ==
    {i \in DOMAIN os : os[i].normalization \in STABLE /\ os[i].weight > 0}

\* raw / reference if there is one, in units of 1/Scale.
Scaled(v, o) == IF o.reference # 0 THEN Quotient(Scale * v, o.reference) ELSE Scale * v

NoValue == NoScore

\* The loop over the stable objectives returns at the first one that has no
\* number: no value for a missing metric or a NaN, an infinity for a sentinel.
Blocking(m, os, S) ==
    {i \in S : ValueOf(m, os[i]) = Absent \/ ~IsFinite(ValueOf(m, os[i]))}

\* Variant: the direction is not corrected.
OnlineUndirected(m, os) ==
    LET S == StableObjectives(os)
    IN IF S = {} \/ Blocking(m, os, S) # {} THEN NoValue
       ELSE SumOf([i \in S |-> os[i].weight * Scaled(ValueOf(m, os[i]), os[i])])

OnlineObjectiveValue(m, os) ==
    LET S == StableObjectives(os)
        p == Primary(os)
        B == Blocking(m, os, S)
        v == ValueOf(m, os[Min(B)])
    IN CASE S = {} ->
              IF m[p.metric] = Absent \/ ~IsFinite(m[p.metric])
              THEN NoValue ELSE Scale * p.sign * m[p.metric]
         [] S # {} /\ B # {} ->
              IF v \in {Absent, NaN} THEN NoValue
              ELSE IF os[Min(B)].sign * v < 0 THEN -Inf ELSE Inf
         [] S # {} /\ B = {} ->
              SumOf([i \in S |->
                        os[i].weight * os[i].sign * Scaled(ValueOf(m, os[i]), os[i])])
=============================================================================
