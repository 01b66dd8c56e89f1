----------------------- MODULE EngineAlgorithmsProofs -----------------------
(***************************************************************************)
(* What TLAPS proves of the two sequential computations: of Ranking, for   *)
(* every set of objectives, every population and every closeness, and of   *)
(* ResourceLadder, for every factor, base budget and number of rungs.      *)
(*                                                                         *)
(* Ranking: a candidate that is dominated is ranked after what dominates   *)
(* it, and a candidate at least as good in every objective never has a     *)
(* lower score.                                                            *)
(* Two things in the code make the first doubtful.  Dominance compares     *)
(* with a tolerance and is not transitive, so a front may be empty while   *)
(* candidates remain; and what is then on no front gets the rank           *)
(* UNRANKED_FRONT.  With two objectives no front is empty: Worse is an     *)
(* interval order (WorseWidens), and two of them cannot make a circle      *)
(* (SomebodyIsUnbeaten).  FrontsOK says what dominance leaves of the       *)
(* fronts peeled so far; RankedOK that a place is the number of the keys   *)
(* before one's own, so that places follow keys (PlacesFollowKeys).        *)
(* A score is a sum over the objectives, a fold that no induction theorem  *)
(* of the library reaches: FoldsExist builds it by induction over a set of *)
(* numbers, SumsGrow compares two.  NormalizeGrows is the step for one     *)
(* objective, whatever its normalization.                                  *)
(*                                                                         *)
(* ResourceLadder: every rung's budget is one the evaluator accepts, no    *)
(* rung is cheaper or larger than the one before it, and the bracket       *)
(* derived from max_evaluations fits it.  Rounding to even keeps the order *)
(* of fractions (RoundingGrows), so each dimension follows the powers of   *)
(* the factor (FactorsGrow).  The recursive sums and powers are built by   *)
(* the same induction (RecursionExists); RungFits is the step from what    *)
(* one rung costs to the sum.                                              *)
(***************************************************************************)
EXTENDS EngineAlgorithms, TLAPS, FiniteSetTheorems, SequenceTheorems,
        WellFoundedInduction

-----------------------------------------------------------------------------
(***************************************************************************)
(* Least and greatest.                                                     *)
(***************************************************************************)
Below == {ss \in Nat \X Nat : ss[1] < ss[2]}

LEMMA LeastNat ==
    ASSUME NEW T \in SUBSET Nat, T # {}
    PROVE  \E x \in T : \A y \in T : x <= y
<1>1. IsWellFoundedOn(Below, Nat)
  BY NatLessThanWellFounded, Zenon DEF OpToRel, Below
<1>2. PICK x \in T : \A y \in T : ~(<<y, x>> \in Below)
  <2>1. \E x \in T : \A y \in T : ~(<<y, x>> \in Below) BY <1>1, WFMin
  <2> QED BY <2>1
<1>3. \A m, n \in Nat : m < n => <<m, n>> \in Below BY DEF Below
<1>4. ASSUME NEW y \in T PROVE x <= y
  <2>1. x \in Nat /\ y \in Nat OBVIOUS
  <2>2. ~(y < x) BY <1>2, <1>3, <2>1
  <2> QED BY <2>1, <2>2
<1> QED BY <1>4

\* The values an objective vector has, NaN apart.
Numbers == (-Inf)..Inf

LEMMA GreatestValue ==
    ASSUME NEW T, T # {}, NEW f, \A t \in T : f[t] \in Numbers
    PROVE  \E m \in T : \A t \in T : f[t] <= f[m]
<1> DEFINE gap(t) == Inf - f[t]
           D == {gap(t) : t \in T}
<1>1. D \in SUBSET Nat /\ D # {}
  <2>1. ASSUME NEW t \in T PROVE gap(t) \in Nat
    <3>1. f[t] \in Numbers OBVIOUS
    <3>2. f[t] \in Int /\ f[t] <= Inf BY <3>1 DEF Numbers
    <3> QED BY <3>2 DEF Inf
  <2> HIDE DEF gap
  <2>2. D \subseteq Nat BY <2>1
  <2>3. D # {} OBVIOUS
  <2> QED BY <2>2, <2>3
<1>2. PICK x \in D : \A y \in D : x <= y
  <2>1. \E x \in D : \A y \in D : x <= y BY <1>1, LeastNat
  <2> QED BY <2>1
<1>3. PICK m \in T : x = gap(m) BY <1>2
<1>4. ASSUME NEW t \in T PROVE f[t] <= f[m]
  <2>1. gap(m) <= gap(t) BY <1>2, <1>3
  <2>2. f[t] \in Int /\ f[m] \in Int BY DEF Numbers
  <2> QED BY <2>1, <2>2 DEF Inf
<1> QED BY <1>4

-----------------------------------------------------------------------------
(***************************************************************************)
(* Worse, with its tolerance, is the order of intervals.                   *)
(***************************************************************************)

LEMMA LargerOfTwo ==
    ASSUME NEW a \in Int, NEW b \in Int
    PROVE  Max({a, b}) = IF a >= b THEN a ELSE b
<1>1. PICK m \in {a, b} : \A y \in {a, b} : m >= y OBVIOUS
<1>2. Max({a, b}) \in {a, b} /\ \A y \in {a, b} : Max({a, b}) >= y
  BY <1>1 DEF Max
<1> QED BY <1>2

\* What is clearly worse is clearly worse than what is better still.
LEMMA WorseWidens ==
    ASSUME NEW x \in Numbers, NEW y \in Numbers, NEW u \in Numbers, NEW v \in Numbers,
           Worse(x, y), u <= x, y <= v
    PROVE  Worse(u, v)
<1> DEFINE C == Closeness
           far(a, b) == Magnitude(a - b) * C > Max({Magnitude(a), Magnitude(b)})
<1>1. /\ u \in Int /\ v \in Int /\ x \in Int /\ y \in Int
      /\ -Inf <= u /\ u <= x /\ x < y /\ y <= v /\ v <= Inf
  BY DEF Numbers, Worse
<1>2. C \in Nat \ {0} BY ClosenessAssumption
<1>3. CASE IsInf(u) \/ IsInf(v)
  BY <1>1, <1>3 DEF Worse, ApproximatelyEqual
<1>4. CASE ~IsInf(u) /\ ~IsInf(v)
  <2>1. ~IsInf(x) /\ ~IsInf(y) BY <1>1, <1>4 DEF IsInf, Magnitude, Inf
  <2>2. (y - x) * C > Max({Magnitude(x), Magnitude(y)})
    <3>1. Magnitude(x - y) = y - x BY <1>1 DEF Magnitude
    <3>2. ~(Magnitude(x - y) * C <= Max({Magnitude(x), Magnitude(y)}))
      BY <2>1 DEF Worse, ApproximatelyEqual
    <3>3. /\ Magnitude(x) \in Int /\ Magnitude(y) \in Int
          /\ Max({Magnitude(x), Magnitude(y)}) \in Int
      BY <1>1, LargerOfTwo DEF Magnitude
    <3>4. (y - x) * C \in Int BY <1>1, <1>2
    <3> QED BY <3>1, <3>2, <3>3, <3>4
  <2>3. (y - x) * C > Magnitude(x) /\ (y - x) * C > Magnitude(y)
    <3>1. /\ Magnitude(x) \in Int /\ Magnitude(y) \in Int BY <1>1 DEF Magnitude
    <3>2. (y - x) * C \in Int BY <1>1, <1>2
    <3> QED BY <2>2, <3>1, <3>2, LargerOfTwo
  <2>4. (v - u) * C >= (y - x) * C + (v - y) + (x - u)
    <3> DEFINE e == (v - y) + (x - u)
    <3>1. e \in Nat BY <1>1
    <3>2. (v - u) * C = (y - x) * C + e * C BY <1>1, <1>2
    <3>3. e * C >= e
      <4> HIDE DEF e, C
      <4>1. C = 1 + (C - 1) /\ C - 1 \in Nat BY <1>2
      <4>2. e * C = e + e * (C - 1) BY <3>1, <4>1, <1>2
      <4>3. e * (C - 1) \in Nat BY <3>1, <4>1
      <4> QED BY <3>1, <4>2, <4>3
    <3>4. (y - x) * C \in Int /\ e * C \in Int /\ (v - u) * C \in Int BY <1>1, <1>2, <3>1
    <3> QED BY <1>1, <3>1, <3>2, <3>3, <3>4
  <2>5. (v - u) * C > Magnitude(u) /\ (v - u) * C > Magnitude(v)
    <3>1. (y - x) * C \in Int /\ (v - u) * C \in Int BY <1>1, <1>2
    <3> HIDE DEF C
    <3> QED BY <1>1, <2>3, <2>4, <3>1 DEF Magnitude
  <2>6. ~(Magnitude(u - v) * C <= Max({Magnitude(u), Magnitude(v)}))
    <3>1. Magnitude(u - v) = v - u BY <1>1 DEF Magnitude
    <3>2. /\ Magnitude(u) \in Int /\ Magnitude(v) \in Int BY <1>1 DEF Magnitude
    <3>3. (v - u) * C \in Int BY <1>1, <1>2
    <3> QED BY <2>5, <3>1, <3>2, <3>3, LargerOfTwo
  <2> QED BY <1>1, <2>6 DEF Worse, ApproximatelyEqual
<1> QED BY <1>3, <1>4

-----------------------------------------------------------------------------
(***************************************************************************)
(* With at most two objectives somebody is undominated.                    *)
(*                                                                         *)
(* Better compares two values each, of an interval order; with a third     *)
(* there are circles.  Suppose everybody has somebody better.  Peak(a) is  *)
(* the highest in the second value of those that beat a there.  In a set   *)
(* of whom nobody is beaten in the first value, and neither are their      *)
(* peaks, the peak of the highest is higher still.                         *)
(***************************************************************************)
Beats(x, y, c, d) ==
    /\ ~Worse(x[c], x[d]) /\ ~Worse(y[c], y[d])
    /\ Worse(x[d], x[c]) \/ Worse(y[d], y[c])

Overtakes(x, y, a, b) == Worse(y[a], y[b]) /\ ~Worse(x[b], x[a])

LEMMA SomebodyIsUnbeaten ==
    ASSUME NEW R, R # {}, NEW x, NEW y,
           \A c \in R : x[c] \in Numbers /\ y[c] \in Numbers
    PROVE  \E d \in R : \A c \in R : ~Beats(x, y, c, d)
<1> SUFFICES ASSUME \A d \in R : \E c \in R : Beats(x, y, c, d)
             PROVE  FALSE
    OBVIOUS
<1> DEFINE over(a) == {b \in R : Overtakes(x, y, a, b)}
           ahead == {a \in R : \A b \in R : ~Overtakes(y, x, a, b)}
           peak(a, p) == p \in over(a) /\ \A b \in over(a) : y[b] <= y[p]
           steep == {a \in ahead : \E p \in ahead : peak(a, p)}
<1>1. \A c \in R : x[c] \in Int /\ y[c] \in Int BY DEF Numbers
<1>2. \A u, v, t \in R :
        /\ Worse(x[u], x[v]) /\ x[v] <= x[t] => Worse(x[u], x[t])
        /\ Worse(x[v], x[u]) /\ x[t] <= x[v] => Worse(x[t], x[u])
        /\ Worse(y[u], y[v]) /\ y[v] <= y[t] => Worse(y[u], y[t])
        /\ Worse(y[v], y[u]) /\ y[t] <= y[v] => Worse(y[t], y[u])
  <2> SUFFICES ASSUME NEW u \in R, NEW v \in R, NEW t \in R
               PROVE  /\ Worse(x[u], x[v]) /\ x[v] <= x[t] => Worse(x[u], x[t])
                      /\ Worse(x[v], x[u]) /\ x[t] <= x[v] => Worse(x[t], x[u])
                      /\ Worse(y[u], y[v]) /\ y[v] <= y[t] => Worse(y[u], y[t])
                      /\ Worse(y[v], y[u]) /\ y[t] <= y[v] => Worse(y[t], y[u])
    OBVIOUS
  <2>1. /\ x[u] \in Numbers /\ x[v] \in Numbers /\ x[t] \in Numbers
        /\ y[u] \in Numbers /\ y[v] \in Numbers /\ y[t] \in Numbers
        /\ x[u] <= x[u] /\ y[u] <= y[u]
    BY <1>1
  <2>2. /\ Worse(x[u], x[v]) /\ x[v] <= x[t] => Worse(x[u], x[t])
        /\ Worse(x[v], x[u]) /\ x[t] <= x[v] => Worse(x[t], x[u])
    BY <2>1, WorseWidens
  <2>3. /\ Worse(y[u], y[v]) /\ y[v] <= y[t] => Worse(y[u], y[t])
        /\ Worse(y[v], y[u]) /\ y[t] <= y[v] => Worse(y[t], y[u])
    BY <2>1, WorseWidens
  <2> QED BY <2>2, <2>3
<1>3. \A a \in ahead : over(a) # {}
  BY DEF Beats, Overtakes
<1>4. ASSUME NEW a \in ahead PROVE \E p \in over(a) : peak(a, p)
  BY <1>3, GreatestValue
<1>5. steep # {}
  <2>1. PICK m \in R : \A c \in R : x[c] <= x[m] BY GreatestValue
  <2>2. m \in ahead BY <1>1, <2>1 DEF Overtakes, Worse
  <2>3. PICK p \in over(m) : peak(m, p) BY <1>4, <2>2
  <2>4. p \in R /\ ~Worse(x[p], x[m]) BY DEF Overtakes
  <2>5. ASSUME NEW e \in R, Overtakes(y, x, p, e) PROVE FALSE
    <3>1. Worse(x[p], x[e]) /\ x[e] <= x[m] BY <2>1, <2>5 DEF Overtakes
    <3> QED BY <1>2, <2>4, <3>1
  <2> QED BY <2>2, <2>3, <2>4, <2>5
<1>6. ASSUME NEW a \in steep, NEW b \in ahead, peak(a, b)
      PROVE  b \in steep /\ y[a] < y[b]
  <2>1. a \in R /\ b \in R /\ Worse(y[a], y[b]) /\ ~Worse(x[b], x[a])
    BY <1>6 DEF Overtakes
  <2>2. PICK c \in over(b) : peak(b, c) BY <1>4
  <2>3. c \in R /\ Worse(y[b], y[c]) /\ ~Worse(x[c], x[b]) BY DEF Overtakes
  <2>4. ASSUME NEW d \in R, Overtakes(y, x, c, d) PROVE FALSE
    <3>1. Worse(x[c], x[d]) /\ ~Worse(y[d], y[c]) BY <2>4 DEF Overtakes
    <3>2. y[b] < y[d]
      <4>1. ~(y[d] <= y[b]) BY <1>2, <2>1, <2>3, <3>1
      <4> QED BY <1>1, <2>1, <4>1
    <3>3. x[b] < x[d]
      <4>1. ~(x[d] <= x[b]) BY <1>2, <2>1, <2>3, <3>1
      <4> QED BY <1>1, <2>1, <4>1
    <3>4. x[b] <= x[d] /\ y[b] <= y[d] BY <1>1, <2>1, <3>2, <3>3
    <3>5. Worse(y[a], y[d]) BY <1>2, <2>1, <3>4
    <3>6. ~Worse(x[d], x[a]) BY <1>2, <2>1, <3>4
    <3>7. d \in over(a) BY <3>5, <3>6 DEF Overtakes
    <3> QED BY <1>1, <1>6, <2>1, <3>2, <3>7
  <2>5. c \in ahead BY <2>3, <2>4
  <2> QED BY <1>1, <2>1, <2>2, <2>5 DEF Worse
<1>7. PICK a \in steep : \A b \in steep : y[b] <= y[a]
  <2>1. steep \subseteq R OBVIOUS
  <2> HIDE DEF steep
  <2>2. \E a \in steep : \A b \in steep : y[b] <= y[a]
    BY <1>5, <2>1, GreatestValue
  <2> QED BY <2>2
<1>8. PICK b \in ahead : peak(a, b) OBVIOUS
<1>9. b \in steep /\ y[a] < y[b] BY <1>6, <1>8
<1>10. a \in R /\ b \in R /\ y[b] <= y[a] BY <1>7, <1>9
<1> QED BY <1>1, <1>9, <1>10

-----------------------------------------------------------------------------
(***************************************************************************)
(* Vectors and fronts.                                                     *)
(***************************************************************************)
\* What the configuration and the completed rows look like.
Given ==
    /\ objectives \in ObjectiveSets
    /\ objectives # <<>>
    /\ \A i \in DOMAIN objectives : IsObjective(objectives[i])
    /\ \E i \in DOMAIN objectives : objectives[i].weight > 0
    /\ population \in Populations

LEMMA GivenTyped ==
    ASSUME Given
    PROVE  /\ objectives \in Seq(ObjectiveRecords)
           /\ Len(objectives) \in Nat \ {0} /\ DOMAIN objectives = 1..Len(objectives)
           /\ DOMAIN population \subseteq Candidates
           /\ IsFiniteSet(DOMAIN population)
           /\ DOMAIN population \subseteq Nat \ {0}
           /\ \A c \in DOMAIN population : population[c] \in MetricValues
<1>1. objectives \in Seq(ObjectiveRecords) BY RankingAssumption DEF Given
<1>2. Len(objectives) \in Nat \ {0} /\ DOMAIN objectives = 1..Len(objectives)
  BY <1>1, LenProperties, EmptySeq DEF Given
<1>3. PICK S \in SUBSET Candidates : population \in [S -> MetricValues]
  BY DEF Given, Populations
<1>4. DOMAIN population = S /\ \A c \in S : population[c] \in MetricValues BY <1>3
<1>5. IsFiniteSet(S) BY <1>3, RankingAssumption, FS_Subset
<1> QED BY <1>1, <1>2, <1>4, <1>5, RankingAssumption

\* What an objective reads is a reading, and a number or NaN once oriented.
LEMMA VectorTyped ==
    ASSUME Given, NEW c \in Vectorised, NEW i \in DOMAIN objectives
    PROVE  VectorOf(c)[i] \in Numbers \cup {NaN}
<1> DEFINE o == objectives[i]
           v == ValueOf(population[c], o)
<1>1. c \in DOMAIN population /\ ~LacksRequired(population[c], objectives)
  BY DEF Vectorised
<1>2. o \in ObjectiveRecords BY GivenTyped
<1>3. population[c] \in MetricValues /\ objectives \in ObjectiveSets
  BY <1>1, GivenTyped DEF Given
<1>4. v \in Readings
  <2>1. ReadingsOf(objectives) \subseteq Readings BY <1>3, RankingAssumption
  <2>2. o.missing \in Readings /\ population[c][o.metric] \in Readings
    BY <1>3, <2>1 DEF ReadingsOf
  <2> QED BY <2>2 DEF ValueOf
<1>5. v # Absent BY <1>1 DEF LacksRequired
<1>6. v \in Numbers \cup {NaN} BY <1>4, <1>5 DEF Readings, Numbers
<1>7. VectorOf(c)[i] = Oriented(o.sign, v) BY DEF VectorOf, Vector
<1>8. o.sign \in {1, -1} BY <1>2 DEF ObjectiveRecords
<1>9. ASSUME v \in Numbers PROVE o.sign * v \in Numbers
  <2>1. Inf \in Int BY DEF Inf
  <2>2. v \in Int /\ -Inf <= v /\ v <= Inf BY <1>9 DEF Numbers
  <2>3. o.sign * v = v \/ o.sign * v = -v BY <1>8, <2>2
  <2> HIDE DEF v, o
  <2> QED BY <2>1, <2>2, <2>3 DEF Numbers
<1> QED BY <1>6, <1>7, <1>9 DEF Oriented

\* With at most two objectives a front is never empty: there is no circle of
\* dominance, whatever the tolerance.
LEMMA FrontIsNotEmpty ==
    ASSUME Given, Len(objectives) < 3, NEW R \in SUBSET Vectorised, R # {}
    PROVE  ParetoFront([c \in R |-> VectorOf(c)], R) # {}
<1> DEFINE n == Len(objectives)
           vs == [c \in R |-> VectorOf(c)]
<1>1. n \in {1, 2} /\ DOMAIN objectives = 1..n BY GivenTyped
<1>2. \A c \in R : vs[c] = VectorOf(c) /\ DOMAIN vs[c] = 1..n
  BY <1>1 DEF VectorOf, Vector
<1>3. SUFFICES \E d \in R : \A c \in R : ~Dominates(vs[c], vs[d])
  BY DEF ParetoFront
<1> HIDE DEF vs
<1>4. CASE \E d \in R : \E i \in 1..n : vs[d][i] = NaN
  BY <1>2, <1>4 DEF Dominates
<1>5. CASE \A d \in R : \A i \in 1..n : vs[d][i] # NaN
  <2> DEFINE x == [c \in R |-> vs[c][1]]
             y == [c \in R |-> vs[c][n]]
  <2>1. \A c \in R : x[c] \in Numbers /\ y[c] \in Numbers
    <3> SUFFICES ASSUME NEW c \in R PROVE vs[c][1] \in Numbers /\ vs[c][n] \in Numbers
      OBVIOUS
    <3>1. 1 \in 1..n /\ n \in 1..n BY <1>1
    <3>2. \A i \in 1..n : vs[c][i] \in Numbers \cup {NaN}
      BY <1>1, <1>2, VectorTyped
    <3> QED BY <1>5, <3>1, <3>2
  <2>2. PICK d \in R : \A c \in R : ~Beats(x, y, c, d)
    <3> HIDE DEF x, y
    <3>1. \E d \in R : \A c \in R : ~Beats(x, y, c, d)
      BY <2>1, SomebodyIsUnbeaten
    <3> QED BY <3>1
  <2>3. ASSUME NEW c \in R, Dominates(vs[c], vs[d]) PROVE FALSE
    <3>1. /\ \A i \in 1..n : ~Worse(vs[c][i], vs[d][i])
          /\ \E i \in 1..n : Worse(vs[d][i], vs[c][i])
      BY <1>2, <2>3 DEF Dominates
    <3>2. 1 \in 1..n /\ n \in 1..n /\ \A i \in 1..n : i = 1 \/ i = n
      <4> HIDE DEF n
      <4>1. n = 1 \/ n = 2 BY <1>1
      <4> QED BY <4>1
    <3>3. Beats(x, y, c, d) BY <3>1, <3>2 DEF Beats
    <3> QED BY <2>2, <3>3
  <2> QED BY <2>3
<1> QED BY <1>4, <1>5

-----------------------------------------------------------------------------
(***************************************************************************)
(* The order of the keys, and places in it.                                *)
(***************************************************************************)
SortKeys == Int \X Int \X Int \X Int \X Int

LEMMA KeyBeforeIsLexicographic ==
    ASSUME NEW k \in SortKeys, NEW l \in SortKeys
    PROVE  KeyBefore(k, l) <=>
              \/ k[1] < l[1]
              \/ k[1] = l[1] /\ k[2] < l[2]
              \/ k[1] = l[1] /\ k[2] = l[2] /\ k[3] < l[3]
              \/ k[1] = l[1] /\ k[2] = l[2] /\ k[3] = l[3] /\ k[4] < l[4]
              \/ k[1] = l[1] /\ k[2] = l[2] /\ k[3] = l[3] /\ k[4] = l[4] /\ k[5] < l[5]
<1> DEFINE first(i) == k[i] < l[i] /\ \A j \in 1..(i - 1) : k[j] = l[j]
<1>1. DOMAIN k = 1..5 BY DEF SortKeys
<1>2. 1..5 = {1, 2, 3, 4, 5} OBVIOUS
<1>3. KeyBefore(k, l) <=> first(1) \/ first(2) \/ first(3) \/ first(4) \/ first(5)
  BY <1>1, <1>2 DEF KeyBefore
<1>4. /\ 1..(1 - 1) = {} /\ 1..(2 - 1) = {1} /\ 1..(3 - 1) = {1, 2}
      /\ 1..(4 - 1) = {1, 2, 3} /\ 1..(5 - 1) = {1, 2, 3, 4}
  OBVIOUS
<1>5. /\ first(1) <=> k[1] < l[1]
      /\ first(2) <=> k[1] = l[1] /\ k[2] < l[2]
      /\ first(3) <=> k[1] = l[1] /\ k[2] = l[2] /\ k[3] < l[3]
      /\ first(4) <=> k[1] = l[1] /\ k[2] = l[2] /\ k[3] = l[3] /\ k[4] < l[4]
      /\ first(5) <=> k[1] = l[1] /\ k[2] = l[2] /\ k[3] = l[3] /\ k[4] = l[4] /\ k[5] < l[5]
  BY <1>4
<1> HIDE DEF first
<1> QED BY <1>3, <1>5

\* A strict order, total on keys that differ in the last place.
LEMMA KeysAreOrdered ==
    ASSUME NEW k \in SortKeys, NEW l \in SortKeys, NEW m \in SortKeys
    PROVE  /\ ~KeyBefore(k, k)
           /\ KeyBefore(k, l) /\ KeyBefore(l, m) => KeyBefore(k, m)
           /\ k[5] # l[5] => KeyBefore(k, l) \/ KeyBefore(l, k)
<1>1. \A s \in SortKeys :
        s[1] \in Int /\ s[2] \in Int /\ s[3] \in Int /\ s[4] \in Int /\ s[5] \in Int
  BY DEF SortKeys
<1>2. ~KeyBefore(k, k) BY <1>1, KeyBeforeIsLexicographic
<1>3. KeyBefore(k, l) /\ KeyBefore(l, m) => KeyBefore(k, m)
  BY <1>1, KeyBeforeIsLexicographic
<1>4. k[5] # l[5] => KeyBefore(k, l) \/ KeyBefore(l, k)
  BY <1>1, KeyBeforeIsLexicographic
<1> QED BY <1>2, <1>3, <1>4

\* The place of a key is the number of the keys before it.
Place(P, key, c) == Cardinality({d \in P : KeyBefore(key[d], key[c])})

LEMMA PlacesFollowKeys ==
    ASSUME NEW P, IsFiniteSet(P), NEW key \in [P -> SortKeys], NEW c \in P, NEW d \in P
    PROVE  /\ KeyBefore(key[c], key[d]) => Place(P, key, c) < Place(P, key, d)
           /\ key[c][5] # key[d][5] => Place(P, key, c) # Place(P, key, d)
<1> DEFINE ahead(e) == {f \in P : KeyBefore(key[f], key[e])}
<1>1. ASSUME NEW e \in P, NEW f \in P, KeyBefore(key[e], key[f])
      PROVE  Place(P, key, e) < Place(P, key, f)
  <2>1. e \in ahead(f) /\ e \notin ahead(e) /\ ahead(e) \subseteq ahead(f)
    BY <1>1, KeysAreOrdered
  <2>2. IsFiniteSet(ahead(f)) BY FS_Subset
  <2> HIDE DEF ahead
  <2>3. ahead(e) # ahead(f) BY <2>1
  <2>4. IsFiniteSet(ahead(e)) BY <2>1, <2>2, FS_Subset
  <2>5. Cardinality(ahead(e)) \in Nat /\ Cardinality(ahead(f)) \in Nat
    BY <2>2, <2>4, FS_CardinalityType
  <2>6. Cardinality(ahead(e)) < Cardinality(ahead(f))
    BY <2>1, <2>2, <2>3, <2>5, FS_Subset
  <2> QED BY <2>6 DEF Place, ahead
<1>2. ASSUME NEW e \in P PROVE Place(P, key, e) \in Nat
  BY FS_Subset, FS_CardinalityType DEF Place
<1>3. key[c][5] # key[d][5] => KeyBefore(key[c], key[d]) \/ KeyBefore(key[d], key[c])
  BY KeysAreOrdered
<1> QED BY <1>1, <1>2, <1>3

-----------------------------------------------------------------------------
(***************************************************************************)
(* Sums.                                                                   *)
(***************************************************************************)

\* What induction on the natural numbers needs, for a property that is a set.
LEMMA NatSetInduction ==
    ASSUME NEW T \in SUBSET Nat, 0 \in T, \A n \in T : n + 1 \in T
    PROVE  T = Nat
<1> SUFFICES ASSUME Nat \ T # {} PROVE FALSE OBVIOUS
<1>1. PICK x \in Nat \ T : \A y \in Nat \ T : x <= y BY LeastNat
<1>2. x # 0 BY <1>1
<1>3. x - 1 \in Nat /\ x - 1 \in T BY <1>1, <1>2
<1>4. (x - 1) + 1 = x BY <1>1
<1> QED BY <1>1, <1>3, <1>4

\* One turn of the fold: h at some element, and the rest.
Some(s) == CHOOSE x \in s : TRUE

Turn(h, g, s) == IF s = {} THEN 0 ELSE h[Some(s)] + g[s \ {Some(s)}]

Folded(h, S) == CHOOSE g : g = [s \in SUBSET S |-> Turn(h, g, s)]

LEMMA SumIsAFold ==
    ASSUME NEW h
    PROVE  SumOf(h) = Folded(h, DOMAIN h)[DOMAIN h]
BY Zenon DEF SumOf, MapThenSumSet, MapThenFoldSet, Folded, Turn, Some

\* The subsets of S with at most n elements.
UpToSize(S, n) == {s \in SUBSET S : Cardinality(s) <= n}

LEMMA SmallerRest ==
    ASSUME NEW S, IsFiniteSet(S), NEW n \in Nat, NEW s \in UpToSize(S, n + 1), s # {}
    PROVE  s \ {Some(s)} \in UpToSize(S, n) /\ Some(s) \in S
<1>1. Some(s) \in s BY DEF Some
<1>2. s \in SUBSET S /\ IsFiniteSet(s) /\ Cardinality(s) <= n + 1
  BY FS_Subset DEF UpToSize
<1>3. Cardinality(s) \in Nat /\ Cardinality(s \ {Some(s)}) = Cardinality(s) - 1
  BY <1>1, <1>2, FS_RemoveElement, FS_CardinalityType
<1> QED BY <1>1, <1>2, <1>3 DEF UpToSize

LEMMA FoldsExist ==
    ASSUME NEW S, IsFiniteSet(S), NEW h \in [S -> Int]
    PROVE  Folded(h, S) = [s \in SUBSET S |-> Turn(h, Folded(h, S), s)]
<1> DEFINE T == {n \in Nat : \E g : g = [s \in UpToSize(S, n) |-> Turn(h, g, s)]}
<1>1. 0 \in T
  <2> DEFINE g == [s \in UpToSize(S, 0) |-> 0]
  <2>1. ASSUME NEW s \in UpToSize(S, 0) PROVE s = {}
    <3>1. IsFiniteSet(s) /\ Cardinality(s) <= 0 BY FS_Subset DEF UpToSize
    <3> QED BY <3>1, FS_CardinalityType, FS_EmptySet
  <2>2. \A s \in UpToSize(S, 0) : Turn(h, g, s) = 0 BY <2>1 DEF Turn
  <2>3. g = [s \in UpToSize(S, 0) |-> Turn(h, g, s)] BY <2>2
  <2> HIDE DEF g
  <2> QED BY <2>3
<1>2. ASSUME NEW n \in T PROVE n + 1 \in T
  <2>1. PICK g : g = [s \in UpToSize(S, n) |-> Turn(h, g, s)] OBVIOUS
  <2> DEFINE f == [s \in UpToSize(S, n + 1) |-> Turn(h, g, s)]
  <2>2. n \in Nat /\ UpToSize(S, n) \subseteq UpToSize(S, n + 1)
    <3>1. n \in Nat OBVIOUS
    <3>2. \A s \in SUBSET S : Cardinality(s) \in Nat BY FS_Subset, FS_CardinalityType
    <3> QED BY <3>1, <3>2 DEF UpToSize
  <2>3. \A s \in UpToSize(S, n) : f[s] = g[s] BY <2>1, <2>2
  <2>4. ASSUME NEW s \in UpToSize(S, n + 1) PROVE Turn(h, f, s) = Turn(h, g, s)
    <3>1. s # {} => f[s \ {Some(s)}] = g[s \ {Some(s)}] BY <2>2, <2>3, SmallerRest
    <3> HIDE DEF f
    <3> QED BY <3>1 DEF Turn
  <2>5. f = [s \in UpToSize(S, n + 1) |-> Turn(h, f, s)] BY <2>4
  <2> HIDE DEF f
  <2> QED BY <2>2, <2>5
<1>3. T = Nat
  <2> HIDE DEF T
  <2>1. T \in SUBSET Nat BY DEF T
  <2> QED BY <1>1, <1>2, <2>1, NatSetInduction
<1>4. Cardinality(S) \in T BY <1>3, FS_CardinalityType
<1>5. UpToSize(S, Cardinality(S)) = SUBSET S BY FS_Subset DEF UpToSize
<1>6. \E g : g = [s \in SUBSET S |-> Turn(h, g, s)] BY <1>4, <1>5
<1> QED BY <1>6, Zenon DEF Folded

\* A sum of integers is one, and grows with its terms.
LEMMA SumsGrow ==
    ASSUME NEW S, IsFiniteSet(S), NEW h \in [S -> Int], NEW k \in [S -> Int],
           \A x \in S : h[x] <= k[x]
    PROVE  SumOf(h) \in Int /\ SumOf(k) \in Int /\ SumOf(h) <= SumOf(k)
<1> DEFINE f == Folded(h, S)
           g == Folded(k, S)
           T == {n \in Nat : \A s \in UpToSize(S, n) :
                    f[s] \in Int /\ g[s] \in Int /\ f[s] <= g[s]}
<1>1. f = [s \in SUBSET S |-> Turn(h, f, s)] /\ g = [s \in SUBSET S |-> Turn(k, g, s)]
  BY FoldsExist
<1> HIDE DEF f, g
<1>2. \A s \in SUBSET S : f[s] = Turn(h, f, s) /\ g[s] = Turn(k, g, s) BY <1>1
<1>3. 0 \in T
  <2>1. ASSUME NEW s \in UpToSize(S, 0) PROVE f[s] = 0 /\ g[s] = 0
    <3>1. IsFiniteSet(s) /\ Cardinality(s) <= 0 /\ s \in SUBSET S
      BY FS_Subset DEF UpToSize
    <3>2. s = {} BY <3>1, FS_CardinalityType, FS_EmptySet
    <3> QED BY <1>2, <3>1, <3>2 DEF Turn
  <2> QED BY <2>1
<1>4. ASSUME NEW n \in T PROVE n + 1 \in T
  <2>1. ASSUME NEW s \in UpToSize(S, n + 1)
        PROVE  f[s] \in Int /\ g[s] \in Int /\ f[s] <= g[s]
    <3>1. s \in SUBSET S BY DEF UpToSize
    <3>2. CASE s = {}
      <4>1. f[s] = 0 /\ g[s] = 0 BY <1>2, <3>1, <3>2 DEF Turn
      <4> QED BY <4>1
    <3>3. CASE s # {}
      <4>1. s \ {Some(s)} \in UpToSize(S, n) /\ Some(s) \in S BY <3>3, SmallerRest
      <4>2. /\ f[s \ {Some(s)}] \in Int /\ g[s \ {Some(s)}] \in Int
            /\ f[s \ {Some(s)}] <= g[s \ {Some(s)}]
        BY <4>1
      <4>3. /\ f[s] = h[Some(s)] + f[s \ {Some(s)}]
            /\ g[s] = k[Some(s)] + g[s \ {Some(s)}]
        BY <1>2, <3>1, <3>3 DEF Turn
      <4>4. h[Some(s)] \in Int /\ k[Some(s)] \in Int /\ h[Some(s)] <= k[Some(s)]
        BY <4>1
      <4> QED BY <4>2, <4>3, <4>4
    <3> QED BY <3>2, <3>3
  <2> QED BY <2>1
<1>5. T = Nat
  <2> HIDE DEF T
  <2>1. T \in SUBSET Nat BY DEF T
  <2> QED BY <1>3, <1>4, <2>1, NatSetInduction
<1>6. Cardinality(S) \in T BY <1>5, FS_CardinalityType
<1>7. S \in UpToSize(S, Cardinality(S))
  BY FS_CardinalityType DEF UpToSize
<1>8. f[S] \in Int /\ g[S] \in Int /\ f[S] <= g[S] BY <1>6, <1>7
<1>9. SumOf(h) = f[S] /\ SumOf(k) = g[S]
  <2>1. DOMAIN h = S /\ DOMAIN k = S OBVIOUS
  <2> QED BY <2>1, SumIsAFold DEF f, g
<1> QED BY <1>8, <1>9

-----------------------------------------------------------------------------
(***************************************************************************)
(* Normalization.                                                          *)
(***************************************************************************)

LEMMA QuotientsGrow ==
    ASSUME NEW a \in Int, NEW b \in Int, NEW n \in Int, n > 0, a <= b
    PROVE  a \div n \in Int /\ b \div n \in Int /\ a \div n <= b \div n
<1>1. a \div n \in Int /\ b \div n \in Int OBVIOUS
<1>2. a \div n <= b \div n OBVIOUS
<1> QED BY <1>1, <1>2

LEMMA ProductsGrow ==
    ASSUME NEW a \in Int, NEW b \in Int, NEW n \in Nat, a <= b
    PROVE  n * a \in Int /\ n * b \in Int /\ n * a <= n * b
<1>1. n * b = n * a + n * (b - a) OBVIOUS
<1>2. n * (b - a) \in Nat
  <2>1. b - a \in Nat OBVIOUS
  <2> QED BY <2>1
<1>3. n * a \in Int /\ n * b \in Int OBVIOUS
<1> QED BY <1>1, <1>2, <1>3

LEMMA ClampIs ==
    ASSUME NEW x \in Int
    PROVE  Clamp(x) = IF x <= 0 THEN 0 ELSE IF x >= Scale THEN Scale ELSE x
<1>1. Scale \in Nat BY ScaleAssumption
<1>2. Min({Scale, x}) = IF x <= Scale THEN x ELSE Scale
  <2>1. PICK m \in {Scale, x} : \A y \in {Scale, x} : m <= y BY <1>1
  <2>2. Min({Scale, x}) \in {Scale, x} /\ \A y \in {Scale, x} : Min({Scale, x}) <= y
    BY <2>1 DEF Min
  <2> QED BY <1>1, <2>2
<1>3. Min({Scale, x}) \in Int BY <1>1, <1>2
<1>4. Clamp(x) = IF 0 >= Min({Scale, x}) THEN 0 ELSE Min({Scale, x})
  BY <1>3, LargerOfTwo DEF Clamp
<1> QED BY <1>1, <1>2, <1>4

LEMMA LeastAndGreatest ==
    ASSUME NEW T \in SUBSET Numbers, T # {}
    PROVE  /\ Min(T) \in T /\ \A t \in T : Min(T) <= t
           /\ Max(T) \in T /\ \A t \in T : Max(T) >= t
<1> DEFINE id == [t \in T |-> t]
           minus == [t \in T |-> -t]
<1>1. \A t \in T : t \in Int /\ -t \in Numbers
  <2>1. Inf \in Int BY DEF Inf
  <2> QED BY <2>1 DEF Numbers
<1>2. \E m \in T : \A t \in T : id[t] <= id[m]
  <2>1. \A t \in T : id[t] \in Numbers OBVIOUS
  <2> HIDE DEF id
  <2> QED BY <2>1, GreatestValue
<1>3. \E m \in T : \A t \in T : minus[t] <= minus[m]
  <2>1. \A t \in T : minus[t] \in Numbers BY <1>1
  <2> HIDE DEF minus
  <2> QED BY <2>1, GreatestValue
<1>4. \E m \in T : \A t \in T : m >= t BY <1>1, <1>2
<1>5. \E m \in T : \A t \in T : m <= t BY <1>1, <1>3
<1>6. Max(T) \in T /\ \A t \in T : Max(T) >= t BY <1>4 DEF Max
<1>7. Min(T) \in T /\ \A t \in T : Min(T) <= t BY <1>5 DEF Min
<1> QED BY <1>6, <1>7
\* What compute_stats makes of the measured values of one objective.
StatsOK(s) ==
    /\ s.count \in Nat /\ s.total \in Int
    /\ s.minimum \in Int /\ s.maximum \in Int /\ s.minimum <= s.maximum
    /\ s.count > 0 /\ s.minimum >= 0 => s.minimum \in Amounts /\ s.maximum \in Amounts

\* A finite reading that is not negative is one the logarithm knows.
KnownAmount(x) == x \in Int /\ x >= 0 => x \in Amounts

LEMMA StatsAreNumbers ==
    ASSUME NEW D, IsFiniteSet(D), NEW values \in [D -> Readings],
           \A c \in D : values[c] # Absent,
           \A c \in D : IsFinite(values[c]) => KnownAmount(values[c])
    PROVE  StatsOK(Stats(values))
<1> DEFINE finite == {c \in D : IsFinite(values[c])}
           range == {values[c] : c \in finite}
<1>1. DOMAIN values = D OBVIOUS
<1>2. IsFiniteSet(finite) /\ Cardinality(finite) \in Nat
  BY FS_Subset, FS_CardinalityType
<1>3. \A c \in finite : values[c] \in Numbers
  BY DEF Readings, Numbers, IsFinite
<1>4. \A c \in finite : values[c] \in Int /\ KnownAmount(values[c])
  BY <1>3 DEF Numbers
<1>5. SumOf([c \in finite |-> values[c]]) \in Int
  <2> DEFINE h == [c \in finite |-> values[c]]
  <2>1. h \in [finite -> Int] /\ \A c \in finite : h[c] <= h[c] BY <1>4
  <2> HIDE DEF h, finite
  <2> QED BY <1>2, <2>1, SumsGrow DEF h
<1> DEFINE s == [count |-> Cardinality(finite),
                 total |-> SumOf([c \in finite |-> values[c]]),
                 minimum |-> IF finite = {} THEN 0 ELSE Min(range),
                 maximum |-> IF finite = {} THEN 0 ELSE Max(range)]
<1>6. Stats(values) = s BY <1>1 DEF Stats
<1>7. CASE finite = {}
  <2>1. /\ s.count = 0 /\ s.total \in Int /\ s.minimum = 0 /\ s.maximum = 0
    BY <1>5, <1>7, FS_EmptySet
  <2> HIDE DEF s
  <2> QED BY <1>6, <2>1 DEF StatsOK
<1>8. CASE finite # {}
  <2>1. range \in SUBSET Numbers /\ range # {} BY <1>3, <1>8
  <2>2. /\ Min(range) \in range /\ \A t \in range : Min(range) <= t
        /\ Max(range) \in range
    <3> HIDE DEF range
    <3> QED BY <2>1, LeastAndGreatest
  <2>3. \A t \in range : t \in Int /\ KnownAmount(t) BY <1>4
  <2>4. /\ s.count \in Nat /\ s.total \in Int
        /\ s.minimum = Min(range) /\ s.maximum = Max(range)
    BY <1>2, <1>5, <1>8
  <2> HIDE DEF s, range
  <2>5. Min(range) \in Int /\ Max(range) \in Int /\ Min(range) <= Max(range)
    BY <2>2, <2>3
  <2>6. Min(range) >= 0 => Min(range) \in Amounts /\ Max(range) \in Amounts
    BY <2>2, <2>3, <2>5 DEF KnownAmount
  <2> QED BY <1>6, <2>4, <2>5, <2>6 DEF StatsOK
<1> QED BY <1>7, <1>8

\* Rescaled into the range of the population, before the clamp.
Rescaled(o, v, s) == IF o.normalization = "log" THEN Logarithmic(v, s) ELSE Linear(v, s)

LEMMA LinearGrows ==
    ASSUME NEW s, StatsOK(s), ~Degenerate(s), NEW u \in Int, NEW v \in Int, u <= v
    PROVE  /\ Linear(u, s) \in Int /\ Linear(v, s) \in Int /\ Linear(u, s) <= Linear(v, s)
           /\ u <= s.minimum => Linear(u, s) <= 0
<1> DEFINE low == s.minimum
           span == s.maximum - s.minimum
<1>1. low \in Int /\ span \in Int /\ span > 0
  BY DEF StatsOK, Degenerate
<1>2. Scale \in Nat BY ScaleAssumption
<1> HIDE DEF low, span
<1>3. ASSUME NEW a \in Int, NEW b \in Int, a <= b
      PROVE  /\ (Scale * (a - low)) \div span \in Int
             /\ (Scale * (b - low)) \div span \in Int
             /\ (Scale * (a - low)) \div span <= (Scale * (b - low)) \div span
  <2>1. /\ Scale * (a - low) \in Int /\ Scale * (b - low) \in Int
        /\ Scale * (a - low) <= Scale * (b - low)
    <3>1. a - low \in Int /\ b - low \in Int /\ a - low <= b - low BY <1>1, <1>3
    <3> QED BY <1>2, <3>1, ProductsGrow
  <2> QED BY <1>1, <2>1, QuotientsGrow
<1>4. (Scale * (low - low)) \div span = 0
  <2>1. low - low = 0 BY <1>1
  <2>2. Scale * (low - low) = 0 BY <1>2, <2>1
  <2> QED BY <1>1, <2>2
<1>5. /\ (Scale * (u - low)) \div span \in Int /\ (Scale * (v - low)) \div span \in Int
      /\ (Scale * (u - low)) \div span <= (Scale * (v - low)) \div span
  BY <1>3
<1>6. u <= low => (Scale * (u - low)) \div span <= (Scale * (low - low)) \div span
  BY <1>1, <1>3
<1> QED BY <1>4, <1>5, <1>6 DEF Linear, low, span

LEMMA LogarithmGrows ==
    ASSUME NEW s, StatsOK(s), ~Degenerate(s), s.minimum >= 0,
           NEW u \in Amounts, NEW v \in Amounts, u \in Int, v \in Int, u <= v
    PROVE  LET log(x) == (Scale * (Log10Of[1 + x] - Log10Of[1 + s.minimum]))
                            \div (Log10Of[1 + s.maximum] - Log10Of[1 + s.minimum])
           IN  log(u) \in Int /\ log(v) \in Int /\ log(u) <= log(v)
<1> DEFINE l(x) == Log10Of[1 + x]
           low == l(s.minimum)
           span == l(s.maximum) - l(s.minimum)
<1>1. /\ s.minimum \in Amounts /\ s.maximum \in Amounts
      /\ s.minimum \in Int /\ s.maximum \in Int /\ s.minimum < s.maximum
  BY DEF StatsOK, Degenerate
<1>2. \A x, y \in Amounts : l(x) \in Int /\ (x < y => l(x) < l(y))
  BY RankingAssumption
<1> HIDE DEF l
<1>3. l(u) \in Int /\ l(v) \in Int /\ l(u) <= l(v)
  <2>1. u < v => l(u) < l(v) BY <1>2
  <2>2. u = v \/ u < v OBVIOUS
  <2> QED BY <1>2, <2>1, <2>2
<1>4. low \in Int /\ span \in Int /\ span > 0 BY <1>1, <1>2
<1> HIDE DEF low, span
<1>5. /\ Scale * (l(u) - low) \in Int /\ Scale * (l(v) - low) \in Int
      /\ Scale * (l(u) - low) <= Scale * (l(v) - low)
  <2>1. l(u) - low \in Int /\ l(v) - low \in Int /\ l(u) - low <= l(v) - low
    BY <1>3, <1>4
  <2> QED BY <2>1, ScaleAssumption, ProductsGrow
<1>6. /\ (Scale * (l(u) - low)) \div span \in Int /\ (Scale * (l(v) - low)) \div span \in Int
      /\ (Scale * (l(u) - low)) \div span <= (Scale * (l(v) - low)) \div span
  BY <1>4, <1>5, QuotientsGrow
<1> QED BY <1>6 DEF l, low, span

\* Clamped, both scales grow, also where the logarithm gives way to the line.
LEMMA RescaledGrows ==
    ASSUME NEW o, NEW s, StatsOK(s), ~Degenerate(s),
           NEW u \in Int, NEW v \in Int, u <= v, KnownAmount(u), KnownAmount(v)
    PROVE  /\ Clamp(Rescaled(o, u, s)) \in 0..Scale
           /\ Clamp(Rescaled(o, v, s)) \in 0..Scale
           /\ Clamp(Rescaled(o, u, s)) <= Clamp(Rescaled(o, v, s))
<1> DEFINE log(x) == (Scale * (Log10Of[1 + x] - Log10Of[1 + s.minimum]))
                        \div (Log10Of[1 + s.maximum] - Log10Of[1 + s.minimum])
           U == Rescaled(o, u, s)
           V == Rescaled(o, v, s)
<1>1. /\ Linear(u, s) \in Int /\ Linear(v, s) \in Int /\ Linear(u, s) <= Linear(v, s)
      /\ u <= s.minimum => Linear(u, s) <= 0
  BY LinearGrows
<1>2. ASSUME s.minimum >= 0, u >= 0
      PROVE  log(u) \in Int /\ log(v) \in Int /\ log(u) <= log(v)
  <2>1. u \in Amounts /\ v \in Amounts BY <1>2 DEF KnownAmount
  <2> QED BY <1>2, <2>1, LogarithmGrows
<1>3. ASSUME s.minimum >= 0, v >= 0
      PROVE  log(v) \in Int
  <2>1. v \in Amounts /\ v <= v BY <1>3 DEF KnownAmount
  <2> QED BY <1>3, <2>1, LogarithmGrows
<1>4. s.minimum \in Int BY DEF StatsOK
<1> HIDE DEF log
<1>5. /\ U = IF o.normalization = "log" /\ ~(u < 0 \/ s.minimum < 0) THEN log(u) ELSE Linear(u, s)
      /\ V = IF o.normalization = "log" /\ ~(v < 0 \/ s.minimum < 0) THEN log(v) ELSE Linear(v, s)
  BY DEF Rescaled, Logarithmic, log
<1> HIDE DEF U, V
<1>6. U \in Int /\ V \in Int /\ (U <= V \/ U <= 0)
  <2>1. CASE o.normalization = "log" /\ s.minimum >= 0 /\ u >= 0
    BY <1>1, <1>2, <1>4, <1>5, <2>1
  <2>2. CASE o.normalization = "log" /\ s.minimum >= 0 /\ u < 0
    BY <1>1, <1>3, <1>4, <1>5, <2>2
  <2>3. CASE ~(o.normalization = "log" /\ s.minimum >= 0)
    BY <1>1, <1>4, <1>5, <2>3
  <2> QED BY <2>1, <2>2, <2>3
<1>7. Scale \in Nat BY ScaleAssumption
<1>8. /\ Clamp(U) = IF U <= 0 THEN 0 ELSE IF U >= Scale THEN Scale ELSE U
      /\ Clamp(V) = IF V <= 0 THEN 0 ELSE IF V >= Scale THEN Scale ELSE V
  BY <1>6, ClampIs
<1>9. Clamp(U) \in 0..Scale /\ Clamp(V) \in 0..Scale /\ Clamp(U) <= Clamp(V)
  BY <1>6, <1>7, <1>8
<1> QED BY <1>9 DEF U, V

\* Normalize, case by case.
LEMMA NormalizeIs ==
    ASSUME NEW o \in ObjectiveRecords, NEW s, NEW v \in Readings
    PROVE  /\ IsInf(v) => Normalize(v, o, s) = IF o.sign * v > 0 THEN Scale ELSE 0
           /\ v = NaN => Normalize(v, o, s) = 0
           /\ IsFinite(v) /\ o.normalization = "none" =>
                 Normalize(v, o, s) = Scale * o.sign * v
           /\ IsFinite(v) /\ o.normalization = "reference" =>
                 Normalize(v, o, s) = Quotient(Scale * o.sign * v, o.reference)
           /\ IsFinite(v) /\ o.normalization \in {"zscore", "minmax", "log"} =>
                 Normalize(v, o, s) =
                    IF Degenerate(s) THEN NEUTRAL
                    ELSE IF o.normalization = "zscore" THEN o.sign * Standardised(v, s)
                    ELSE Flipped(o.sign, Clamp(Rescaled(o, v, s)))
<1>1. ~IsInf(NaN) BY DEF IsInf, Magnitude, NaN, Inf
<1>2. /\ IsFinite(v) => ~IsInf(v) /\ v # NaN
      /\ IsInf(v) => v # NaN /\ ~IsFinite(v)
      /\ v = NaN => ~IsInf(v) /\ ~IsFinite(v)
  BY <1>1 DEF IsFinite
<1>3. /\ IsInf(v) => Normalize(v, o, s) = IF o.sign * v > 0 THEN Scale ELSE 0
      /\ v = NaN => Normalize(v, o, s) = 0
  BY <1>2 DEF Normalize
<1>4. IsFinite(v) /\ o.normalization = "none" =>
        Normalize(v, o, s) = Scale * o.sign * v
  BY <1>2 DEF Normalize
<1>5. IsFinite(v) /\ o.normalization = "reference" =>
        Normalize(v, o, s) = Quotient(Scale * o.sign * v, o.reference)
  BY <1>2 DEF Normalize
<1>6. IsFinite(v) /\ o.normalization \in {"zscore", "minmax", "log"} =>
        Normalize(v, o, s) =
            IF Degenerate(s) THEN NEUTRAL
            ELSE IF o.normalization = "zscore" THEN o.sign * Standardised(v, s)
            ELSE Flipped(o.sign, Clamp(Rescaled(o, v, s)))
  BY <1>2 DEF Normalize, Rescaled
<1> QED BY <1>3, <1>4, <1>5, <1>6

\* Better values are worth more: u and v are compared in the direction of the
\* objective, infinities only on a scale with ends.
LEMMA NormalizeGrows ==
    ASSUME NEW o \in ObjectiveRecords, IsObjective(o), NEW s, StatsOK(s),
           NEW u \in Numbers, NEW v \in Numbers,
           IsFinite(u) => KnownAmount(u), IsFinite(v) => KnownAmount(v),
           o.sign * u <= o.sign * v,
           IsInf(u) \/ IsInf(v) => o.normalization \in {"minmax", "log"},
           o.normalization = "reference" => o.reference > 0
    PROVE  /\ Normalize(u, o, s) \in Int /\ Normalize(v, o, s) \in Int
           /\ Normalize(u, o, s) <= Normalize(v, o, s)
<1> DEFINE N(w) == Normalize(w, o, s)
<1>1. /\ u \in Int /\ v \in Int /\ u \in Readings /\ v \in Readings /\ u # NaN /\ v # NaN
      /\ IsFinite(u) <=> ~IsInf(u)
      /\ IsFinite(v) <=> ~IsInf(v)
  <2>1. u # NaN /\ v # NaN
    <3>1. Inf < NaN /\ Inf \in Int BY DEF Inf, NaN
    <3>2. NaN \in Int BY DEF NaN
    <3> QED BY <3>1, <3>2 DEF Numbers
  <2> QED BY <2>1 DEF Numbers, Readings, IsFinite
<1>2. o.sign \in {1, -1} /\ o.reference \in Int
      /\ o.normalization \in {"none", "minmax", "zscore", "log", "reference"}
  BY DEF ObjectiveRecords
<1>3. Scale \in Nat BY ScaleAssumption
<1>4. \/ o.sign = 1 /\ u <= v
      \/ o.sign = -1 /\ v <= u
  BY <1>1, <1>2
<1>5. o.sign * u \in Int /\ o.sign * v \in Int BY <1>1, <1>2
<1>6. /\ Scale * o.sign * u \in Int /\ Scale * o.sign * v \in Int
      /\ Scale * o.sign * u <= Scale * o.sign * v
  <2>1. /\ Scale * (o.sign * u) \in Int /\ Scale * (o.sign * v) \in Int
        /\ Scale * (o.sign * u) <= Scale * (o.sign * v)
    BY <1>3, <1>5, ProductsGrow
  <2>2. /\ Scale * o.sign * u = Scale * (o.sign * u)
        /\ Scale * o.sign * v = Scale * (o.sign * v)
    BY <1>1, <1>3, <1>4
  <2> QED BY <2>1, <2>2
<1>7. CASE o.normalization = "none"
  <2>1. IsFinite(u) /\ IsFinite(v) BY <1>1, <1>7
  <2>2. N(u) = Scale * o.sign * u /\ N(v) = Scale * o.sign * v
    BY <1>1, <1>7, <2>1, NormalizeIs
  <2> QED BY <1>6, <2>2
<1>8. CASE o.normalization = "reference"
  <2>1. IsFinite(u) /\ IsFinite(v) /\ o.reference > 0 BY <1>1, <1>8
  <2>2. /\ N(u) = (Scale * o.sign * u) \div o.reference
        /\ N(v) = (Scale * o.sign * v) \div o.reference
    BY <1>1, <1>8, <2>1, NormalizeIs DEF Quotient
  <2>3. /\ (Scale * o.sign * u) \div o.reference \in Int
        /\ (Scale * o.sign * v) \div o.reference \in Int
        /\ (Scale * o.sign * u) \div o.reference <= (Scale * o.sign * v) \div o.reference
    BY <1>2, <1>6, <2>1, QuotientsGrow
  <2> QED BY <2>2, <2>3
<1>9. CASE o.normalization = "zscore"
  <2>1. IsFinite(u) /\ IsFinite(v) BY <1>1, <1>9
  <2>2. CASE Degenerate(s)
    <3>1. N(u) = NEUTRAL /\ N(v) = NEUTRAL BY <1>1, <1>9, <2>1, <2>2, NormalizeIs
    <3>2. NEUTRAL \in Int BY <1>3 DEF NEUTRAL
    <3> QED BY <3>1, <3>2
  <2>3. CASE ~Degenerate(s)
    <3> DEFINE n == s.count
               t == s.total
               z(w) == (Scale * (n * w - t)) \div n
    <3>1. n \in Nat /\ n > 0 /\ t \in Int BY <2>3 DEF StatsOK, Degenerate
    <3>2. N(u) = o.sign * z(u) /\ N(v) = o.sign * z(v)
      BY <1>1, <1>9, <2>1, <2>3, NormalizeIs DEF Standardised
    <3> HIDE DEF n, t
    <3>3. ASSUME NEW a \in Int, NEW b \in Int, a <= b
          PROVE  z(a) \in Int /\ z(b) \in Int /\ z(a) <= z(b)
      <4>1. n * a \in Int /\ n * b \in Int /\ n * a <= n * b
        BY <3>1, <3>3, ProductsGrow
      <4>2. n * a - t \in Int /\ n * b - t \in Int /\ n * a - t <= n * b - t
        BY <3>1, <4>1
      <4>3. /\ Scale * (n * a - t) \in Int /\ Scale * (n * b - t) \in Int
            /\ Scale * (n * a - t) <= Scale * (n * b - t)
        BY <1>3, <4>2, ProductsGrow
      <4> QED BY <3>1, <4>3, QuotientsGrow
    <3>4. CASE o.sign = 1 /\ u <= v
      <4>1. z(u) \in Int /\ z(v) \in Int /\ z(u) <= z(v) BY <1>1, <3>3, <3>4
      <4> HIDE DEF z
      <4> QED BY <3>2, <3>4, <4>1
    <3>5. CASE o.sign = -1 /\ v <= u
      <4>1. z(u) \in Int /\ z(v) \in Int /\ z(v) <= z(u) BY <1>1, <3>3, <3>5
      <4> HIDE DEF z
      <4> QED BY <3>2, <3>5, <4>1
    <3> QED BY <1>4, <3>4, <3>5
  <2> QED BY <2>2, <2>3
<1>10. CASE o.normalization \in {"minmax", "log"}
  <2>1. NEUTRAL \in 0..Scale
    <3>1. Scale \div 2 \in Int /\ 2 * (Scale \div 2) <= Scale /\ Scale < 2 * (Scale \div 2) + 2
      BY <1>3
    <3> QED BY <1>3, <3>1 DEF NEUTRAL
  <2>2. ASSUME NEW w \in {u, v} PROVE N(w) \in 0..Scale
    <3>1. CASE IsInf(w)
      <4>1. N(w) = Scale \/ N(w) = 0 BY <1>1, <3>1, NormalizeIs
      <4> QED BY <1>3, <4>1
    <3>2. CASE ~IsInf(w) /\ Degenerate(s)
      <4>1. N(w) = NEUTRAL BY <1>1, <1>10, <3>2, NormalizeIs
      <4> QED BY <2>1, <4>1
    <3>3. CASE ~IsInf(w) /\ ~Degenerate(s)
      <4>1. N(w) = Flipped(o.sign, Clamp(Rescaled(o, w, s)))
        BY <1>1, <1>10, <3>3, NormalizeIs
      <4>2. w \in Int /\ w <= w /\ KnownAmount(w) BY <1>1, <3>3
      <4>3. Clamp(Rescaled(o, w, s)) \in 0..Scale BY <3>3, <4>2, RescaledGrows
      <4> QED BY <1>3, <4>1, <4>3 DEF Flipped
    <3> QED BY <3>1, <3>2, <3>3
  <2>3. N(u) \in 0..Scale /\ N(v) \in 0..Scale BY <2>2
  <2>4. N(u) <= N(v)
    <3>1. CASE IsInf(v) /\ o.sign * v > 0
      <4>1. N(v) = Scale BY <1>1, <3>1, NormalizeIs
      <4> QED BY <1>3, <2>3, <4>1
    <3>2. CASE IsInf(u) /\ ~(o.sign * u > 0)
      <4>1. N(u) = 0 BY <1>1, <3>2, NormalizeIs
      <4> QED BY <1>3, <2>3, <4>1
    <3>3. CASE IsInf(v) /\ ~(o.sign * v > 0)
      <4>1. u = v
        <5>1. -Inf <= u /\ u <= Inf /\ -Inf <= v /\ v <= Inf BY DEF Numbers
        <5>2. v = Inf \/ v = -Inf BY <1>1, <3>3 DEF IsInf, Magnitude, Inf
        <5>3. Inf \in Int /\ Inf > 0 BY DEF Inf
        <5> QED BY <1>1, <1>4, <3>3, <5>1, <5>2, <5>3
      <4> QED BY <1>3, <2>3, <4>1
    <3>4. CASE IsInf(u) /\ o.sign * u > 0
      <4>1. u = v
        <5>1. -Inf <= u /\ u <= Inf /\ -Inf <= v /\ v <= Inf BY DEF Numbers
        <5>2. u = Inf \/ u = -Inf BY <1>1, <3>4 DEF IsInf, Magnitude, Inf
        <5>3. Inf \in Int /\ Inf > 0 BY DEF Inf
        <5> QED BY <1>1, <1>4, <3>4, <5>1, <5>2, <5>3
      <4> QED BY <1>3, <2>3, <4>1
    <3>5. CASE ~IsInf(u) /\ ~IsInf(v) /\ Degenerate(s)
      <4>1. N(u) = NEUTRAL /\ N(v) = NEUTRAL BY <1>1, <1>10, <3>5, NormalizeIs
      <4> QED BY <2>1, <4>1
    <3>6. CASE ~IsInf(u) /\ ~IsInf(v) /\ ~Degenerate(s)
      <4> DEFINE k(w) == Clamp(Rescaled(o, w, s))
      <4>1. N(u) = Flipped(o.sign, k(u)) /\ N(v) = Flipped(o.sign, k(v))
        BY <1>1, <1>10, <3>6, NormalizeIs
      <4>2. KnownAmount(u) /\ KnownAmount(v) BY <1>1, <3>6
      <4>3. CASE o.sign = 1 /\ u <= v
        <5>1. k(u) \in 0..Scale /\ k(v) \in 0..Scale /\ k(u) <= k(v)
          BY <1>1, <3>6, <4>2, <4>3, RescaledGrows
        <5> HIDE DEF k
        <5> QED BY <4>1, <4>3, <5>1 DEF Flipped
      <4>4. CASE o.sign = -1 /\ v <= u
        <5>1. k(u) \in 0..Scale /\ k(v) \in 0..Scale /\ k(v) <= k(u)
          BY <1>1, <3>6, <4>2, <4>4, RescaledGrows
        <5> HIDE DEF k
        <5> QED BY <1>3, <4>1, <4>4, <5>1 DEF Flipped
      <4> QED BY <1>4, <4>3, <4>4
    <3> QED BY <3>1, <3>2, <3>3, <3>4, <3>5, <3>6
  <2> QED BY <1>3, <2>3, <2>4
<1> QED BY <1>2, <1>7, <1>8, <1>9, <1>10

LEMMA NormalizeIsNumber ==
    ASSUME NEW o \in ObjectiveRecords, IsObjective(o), NEW s, StatsOK(s),
           NEW v \in Readings, v # Absent, IsFinite(v) => KnownAmount(v)
    PROVE  Normalize(v, o, s) \in Int
<1> DEFINE N == Normalize(v, o, s)
<1>1. o.sign \in {1, -1} /\ o.reference \in Int
      /\ o.normalization \in {"none", "minmax", "zscore", "log", "reference"}
  BY DEF ObjectiveRecords
<1>2. Scale \in Nat BY ScaleAssumption
<1>3. CASE IsInf(v) BY <1>2, <1>3, NormalizeIs
<1>4. CASE v = NaN BY <1>4, NormalizeIs
<1>5. CASE IsFinite(v)
  <2>1. v \in Int BY <1>5 DEF Readings, IsFinite
  <2>2. Scale * o.sign * v \in Int BY <1>1, <1>2, <2>1
  <2>3. CASE o.normalization = "none" BY <1>5, <2>2, <2>3, NormalizeIs
  <2>4. CASE o.normalization = "reference"
    <3> DEFINE a == Scale * o.sign * v
               b == o.reference
    <3>1. N = Quotient(a, b) BY <1>5, <2>4, NormalizeIs
    <3>2. a \in Int /\ b \in Int /\ b # 0 BY <1>1, <2>2, <2>4 DEF IsObjective
    <3> HIDE DEF a, b
    <3>3. b > 0 => a \div b \in Int BY <3>2
    <3>4. ~(b > 0) => (-a) \div (-b) \in Int
      <4>1. -a \in Int /\ -b \in Int BY <3>2
      <4>2. ~(b > 0) => -b > 0 BY <3>2
      <4> QED BY <4>1, <4>2, QuotientsGrow
    <3> QED BY <3>1, <3>3, <3>4 DEF Quotient
  <2>5. CASE o.normalization \in {"zscore", "minmax", "log"} /\ Degenerate(s)
    <3>1. N = NEUTRAL BY <1>5, <2>5, NormalizeIs
    <3>2. NEUTRAL \in Int BY <1>2 DEF NEUTRAL
    <3> QED BY <3>1, <3>2
  <2>6. CASE o.normalization = "zscore" /\ ~Degenerate(s)
    <3> DEFINE z == Standardised(v, s)
    <3>1. s.count \in Nat /\ s.count > 0 /\ s.total \in Int BY <2>6 DEF StatsOK, Degenerate
    <3>2. Scale * (s.count * v - s.total) \in Int BY <1>2, <2>1, <3>1
    <3>3. z \in Int BY <3>1, <3>2, QuotientsGrow DEF Standardised
    <3>4. N = o.sign * z BY <1>5, <2>6, NormalizeIs
    <3> HIDE DEF z
    <3> QED BY <1>1, <3>3, <3>4
  <2>7. CASE o.normalization \in {"minmax", "log"} /\ ~Degenerate(s)
    <3>1. N = Flipped(o.sign, Clamp(Rescaled(o, v, s))) BY <1>5, <2>7, NormalizeIs
    <3>2. v <= v /\ KnownAmount(v) BY <1>5, <2>1
    <3>3. Clamp(Rescaled(o, v, s)) \in 0..Scale BY <2>1, <2>7, <3>2, RescaledGrows
    <3> QED BY <1>2, <3>1, <3>3 DEF Flipped
  <2> QED BY <1>1, <2>3, <2>4, <2>5, <2>6, <2>7
<1>6. IsInf(v) \/ v = NaN \/ IsFinite(v) BY DEF IsFinite
<1> QED BY <1>3, <1>4, <1>5, <1>6

-----------------------------------------------------------------------------
(***************************************************************************)
(* Scores of the population.                                               *)
(***************************************************************************)

\* What objective i reads of candidate c is a reading; a finite one that is
\* not negative is known to the logarithm.
LEMMA ReadingsTyped ==
    ASSUME Given, NEW c \in DOMAIN population, NEW i \in DOMAIN objectives
    PROVE  /\ objectives[i] \in ObjectiveRecords /\ IsObjective(objectives[i])
           /\ population[c][objectives[i].metric] \in Readings
           /\ ValueOf(population[c], objectives[i]) \in Readings
           /\ IsFinite(population[c][objectives[i].metric])
                 => KnownAmount(population[c][objectives[i].metric])
                    \/ population[c][objectives[i].metric] = Absent
           /\ IsFinite(ValueOf(population[c], objectives[i]))
                 => KnownAmount(ValueOf(population[c], objectives[i]))
                    \/ ValueOf(population[c], objectives[i]) = Absent
<1> DEFINE o == objectives[i]
           m == population[c][o.metric]
           v == ValueOf(population[c], o)
<1>1. o \in ObjectiveRecords /\ IsObjective(o) BY GivenTyped DEF Given
<1>2. population[c] \in MetricValues /\ objectives \in ObjectiveSets
  BY GivenTyped DEF Given
<1>3. m \in ReadingsOf(objectives) /\ v \in ReadingsOf(objectives)
  BY <1>2 DEF ReadingsOf, ValueOf
<1>4. ReadingsOf(objectives) \subseteq Readings BY <1>2, RankingAssumption
<1>5. ASSUME NEW x \in ReadingsOf(objectives), IsFinite(x), x # Absent
      PROVE  KnownAmount(x)
  <2>1. Inf \in Int BY DEF Inf
  <2>2. x \in Numbers BY <1>4, <1>5 DEF Readings, Numbers, IsFinite
  <2>3. x \in Int /\ x <= Inf /\ x # Inf
    <3>1. IsInf(Inf) BY DEF IsInf, Magnitude, Inf
    <3> QED BY <1>5, <2>2, <3>1 DEF Numbers, IsFinite
  <2>4. x < Inf BY <2>3, <2>1
  <2>5. x >= 0 => x \in Amounts BY <1>2, <2>3, <2>4 DEF Amounts
  <2> QED BY <2>3, <2>5 DEF KnownAmount
<1> QED BY <1>1, <1>3, <1>4, <1>5

LEMMA PopulationStatsOK ==
    ASSUME Given, NEW i \in DOMAIN objectives
    PROVE  StatsOK(PopulationStats(population, objectives)[i])
<1> DEFINE metric == objectives[i].metric
           D == {d \in DOMAIN population : population[d][metric] # Absent}
           values == [c \in D |-> population[c][metric]]
<1>1. PopulationStats(population, objectives)[i] = Stats(values)
  BY DEF PopulationStats
<1>2. IsFiniteSet(D) BY GivenTyped, FS_Subset
<1>3. /\ values \in [D -> Readings] /\ \A c \in D : values[c] # Absent
      /\ \A c \in D : IsFinite(values[c]) => KnownAmount(values[c])
  BY ReadingsTyped
<1> HIDE DEF D, values
<1>4. StatsOK(Stats(values)) BY <1>2, <1>3, StatsAreNumbers
<1> QED BY <1>1, <1>4

\* The terms of the score.
Term(c, i) ==
    objectives[i].weight * Components(population[c], objectives,
                                      PopulationStats(population, objectives))[i]

LEMMA ScoreIsASum ==
    ASSUME Given, NEW c \in DOMAIN population, ~LacksRequired(population[c], objectives)
    PROVE  ScoreOf(c) = SumOf([i \in DOMAIN objectives |-> Term(c, i)])
BY DEF ScoreOf, Score, Term

LEMMA TermsAreNumbers ==
    ASSUME Given, NEW c \in DOMAIN population, ~LacksRequired(population[c], objectives),
           NEW i \in DOMAIN objectives
    PROVE  Term(c, i) \in Int
<1> DEFINE o == objectives[i]
           v == ValueOf(population[c], o)
           s == PopulationStats(population, objectives)[i]
           N == Normalize(v, o, s)
<1>1. o \in ObjectiveRecords /\ IsObjective(o) /\ v \in Readings /\ v # Absent
      /\ (IsFinite(v) => KnownAmount(v))
  BY ReadingsTyped DEF LacksRequired
<1>2. N \in Int
  <2>1. StatsOK(s) BY PopulationStatsOK
  <2> HIDE DEF o, v, s
  <2> QED BY <1>1, <2>1, NormalizeIsNumber
<1>3. o.weight \in Int BY <1>1 DEF ObjectiveRecords
<1>4. Term(c, i) = o.weight * N BY DEF Term, Components
<1> HIDE DEF N, o
<1> QED BY <1>2, <1>3, <1>4

LEMMA ScoreIsNumber ==
    ASSUME Given, NEW c \in DOMAIN population
    PROVE  ScoreOf(c) \in Int
<1>1. CASE LacksRequired(population[c], objectives)
  <2>1. ScoreOf(c) = NoScore BY <1>1 DEF ScoreOf, Score
  <2> QED BY <2>1 DEF NoScore
<1>2. CASE ~LacksRequired(population[c], objectives)
  <2> DEFINE h == [i \in DOMAIN objectives |-> Term(c, i)]
  <2>1. h \in [DOMAIN objectives -> Int] /\ \A i \in DOMAIN objectives : h[i] <= h[i]
    BY <1>2, TermsAreNumbers
  <2>2. IsFiniteSet(DOMAIN objectives) BY GivenTyped, FS_Interval
  <2> HIDE DEF h
  <2>3. SumOf(h) \in Int BY <2>1, <2>2, SumsGrow
  <2> QED BY <1>2, <2>3, ScoreIsASum DEF h
<1> QED BY <1>1, <1>2

\* Whoever is at least as good in every objective has at least the score.
LEMMA ScoresFollowVectors ==
    ASSUME Given PROVE ScoresRespectDominance
<1> SUFFICES ASSUME NEW c \in DOMAIN population, NEW d \in DOMAIN population,
                    ~LacksRequired(population[c], objectives),
                    ~LacksRequired(population[d], objectives),
                    \A i \in DOMAIN objectives : Comparable(c, i) /\ Comparable(d, i),
                    AtLeastAsGood(VectorOf(c), VectorOf(d))
             PROVE  ScoreOf(c) >= ScoreOf(d)
  BY DEF ScoresRespectDominance
<1> DEFINE h == [i \in DOMAIN objectives |-> Term(d, i)]
           k == [i \in DOMAIN objectives |-> Term(c, i)]
<1>1. ASSUME NEW i \in DOMAIN objectives PROVE Term(d, i) <= Term(c, i)
  <2> DEFINE o == objectives[i]
             u == ValueOf(population[d], o)
             v == ValueOf(population[c], o)
             s == PopulationStats(population, objectives)[i]
  <2>1. /\ o \in ObjectiveRecords /\ IsObjective(o)
        /\ u \in Readings /\ v \in Readings /\ u # Absent /\ v # Absent
        /\ (IsFinite(u) => KnownAmount(u)) /\ (IsFinite(v) => KnownAmount(v))
    BY ReadingsTyped DEF LacksRequired
  <2>2. StatsOK(s) BY PopulationStatsOK
  <2>3. VectorOf(c)[i] = Oriented(o.sign, v) /\ VectorOf(d)[i] = Oriented(o.sign, u)
    BY DEF VectorOf, Vector
  <2>4. DOMAIN VectorOf(c) = DOMAIN objectives BY DEF VectorOf, Vector
  <2>5. /\ Oriented(o.sign, v) # NaN /\ Oriented(o.sign, u) # NaN
        /\ Oriented(o.sign, v) >= Oriented(o.sign, u)
    BY <2>3, <2>4 DEF AtLeastAsGood
  <2> HIDE DEF u, v, s
  <2>6. u # NaN /\ v # NaN BY <2>5 DEF Oriented
  <2>7. /\ u \in Numbers /\ v \in Numbers BY <2>1, <2>6 DEF Readings, Numbers
  <2>8. o.sign * u <= o.sign * v
    <3>1. o.sign * v >= o.sign * u BY <2>5, <2>6 DEF Oriented
    <3>2. o.sign * v \in Int /\ o.sign * u \in Int
      <4>1. u \in Int /\ v \in Int BY <2>7 DEF Numbers
      <4>2. o.sign \in Int BY <2>1 DEF ObjectiveRecords
      <4> HIDE DEF o
      <4> QED BY <4>1, <4>2
    <3> QED BY <3>1, <3>2
  <2>9. /\ IsInf(u) \/ IsInf(v) => o.normalization \in {"minmax", "log"}
        /\ o.normalization = "reference" => o.reference > 0
    BY DEF Comparable, u, v
  <2>10. /\ Normalize(u, o, s) \in Int /\ Normalize(v, o, s) \in Int
         /\ Normalize(u, o, s) <= Normalize(v, o, s)
    <3> HIDE DEF o
    <3> QED BY <2>1, <2>2, <2>7, <2>8, <2>9, NormalizeGrows
  <2>11. o.weight \in Nat BY <2>1 DEF ObjectiveRecords, IsObjective
  <2>12. Term(d, i) = o.weight * Normalize(u, o, s) /\ Term(c, i) = o.weight * Normalize(v, o, s)
    BY DEF Term, Components, u, v, s
  <2> HIDE DEF o
  <2> QED BY <2>10, <2>11, <2>12, ProductsGrow
<1>2. h \in [DOMAIN objectives -> Int] /\ k \in [DOMAIN objectives -> Int]
      /\ \A i \in DOMAIN objectives : h[i] <= k[i]
  BY <1>1, TermsAreNumbers
<1>3. IsFiniteSet(DOMAIN objectives) BY GivenTyped, FS_Interval
<1> HIDE DEF h, k
<1>4. SumOf(h) \in Int /\ SumOf(k) \in Int /\ SumOf(h) <= SumOf(k)
  BY <1>2, <1>3, SumsGrow
<1>5. ScoreOf(d) = SumOf(h) /\ ScoreOf(c) = SumOf(k) BY ScoreIsASum DEF h, k
<1> QED BY <1>4, <1>5

-----------------------------------------------------------------------------
(***************************************************************************)
(* The ranking, front by front.                                            *)
(***************************************************************************)
Front == ParetoFront([c \in remaining |-> VectorOf(c)], remaining)

\* Nobody on a front is dominated by anybody on it, on a later one, or by who
\* remains.
FrontsOK ==
    /\ fronts \in Seq(SUBSET Vectorised)
    /\ remaining \subseteq Vectorised
    /\ \A c \in Vectorised : c \in remaining \/ \E i \in DOMAIN fronts : c \in fronts[i]
    /\ \A i \in DOMAIN fronts : fronts[i] \cap remaining = {}
    /\ \A i, j \in DOMAIN fronts : i # j => fronts[i] \cap fronts[j] = {}
    /\ \A i \in DOMAIN fronts : \A d \in fronts[i], c \in remaining :
          ~Dominates(VectorOf(c), VectorOf(d))
    /\ \A i, j \in DOMAIN fronts : j <= i =>
          \A d \in fronts[j], c \in fronts[i] : ~Dominates(VectorOf(c), VectorOf(d))
    /\ Len(fronts) + Cardinality(remaining) <= UNRANKED_FRONT

\* What is ranked is everybody, in the order of the keys, and once the fronts
\* are complete.
RankedOK ==
    ranked # NotRanked =>
        /\ remaining = {} \/ Front = {}
        /\ ranked = [c \in DOMAIN population |->
                        Place(DOMAIN population, [d \in DOMAIN population |-> SortKey(d)], c)]

RankingOK ==
    /\ job \in {"ladder", "ranking"}
    /\ job = "ladder" => population = <<>> /\ ranked = NotRanked
    /\ job = "ranking" => Given /\ FrontsOK /\ RankedOK

LEMMA NobodyDominatesThemselves ==
    ASSUME Given, NEW c \in Vectorised
    PROVE  ~Dominates(VectorOf(c), VectorOf(c))
<1>1. DOMAIN VectorOf(c) = DOMAIN objectives BY DEF VectorOf, Vector
<1>2. ASSUME NEW i \in DOMAIN objectives, VectorOf(c)[i] # NaN
      PROVE  ~Worse(VectorOf(c)[i], VectorOf(c)[i])
  BY <1>2, VectorTyped DEF Worse, Numbers
<1> QED BY <1>1, <1>2 DEF Dominates

LEMMA VectorisedIsFinite ==
    ASSUME Given
    PROVE  /\ IsFiniteSet(Vectorised) /\ Cardinality(Vectorised) \in Nat
           /\ Cardinality(Vectorised) <= UNRANKED_FRONT
           /\ Vectorised \subseteq DOMAIN population
<1>1. Vectorised \subseteq DOMAIN population BY DEF Vectorised
<1>2. Vectorised \in SUBSET Candidates BY <1>1, GivenTyped
<1>3. IsFiniteSet(Vectorised) /\ Cardinality(Vectorised) <= Cardinality(Candidates)
  BY <1>2, RankingAssumption, FS_Subset
<1>4. Cardinality(Vectorised) \in Nat /\ Cardinality(Candidates) \in Nat
  BY <1>3, RankingAssumption, FS_CardinalityType
<1>5. Cardinality(Candidates) <= UNRANKED_FRONT BY RankingAssumption
<1> QED BY <1>1, <1>3, <1>4, <1>5 DEF UNRANKED_FRONT

LEMMA InitRanking == Init => RankingOK
<1>1. ASSUME job = "ladder", RankIdle PROVE RankingOK
  BY <1>1 DEF RankIdle, RankingOK
<1>2. ASSUME job = "ranking", RankInit PROVE RankingOK
  <2>1. Given BY <1>2 DEF RankInit, Given, IsObjectiveSet
  <2>2. remaining = Vectorised /\ fronts = <<>> /\ ranked = NotRanked
    BY <1>2 DEF RankInit
  <2>3. DOMAIN fronts = {} /\ Len(fronts) = 0 /\ fronts \in Seq(SUBSET Vectorised)
    BY <2>2
  <2>4. Len(fronts) + Cardinality(remaining) <= UNRANKED_FRONT
    BY <2>1, <2>2, <2>3, VectorisedIsFinite
  <2>5. FrontsOK BY <2>2, <2>3, <2>4 DEF FrontsOK
  <2> QED BY <1>2, <2>1, <2>2, <2>5 DEF RankingOK, RankedOK
<1> QED BY <1>1, <1>2 DEF Init

LEMMA PeelStep ==
    ASSUME Given, FrontsOK, RankedOK, Peel
    PROVE  Given' /\ FrontsOK' /\ RankedOK'
<1> DEFINE front == Front
<1>1. /\ front # {} /\ fronts' = Append(fronts, front) /\ remaining' = remaining \ front
      /\ objectives' = objectives /\ constraints' = constraints
      /\ population' = population /\ ranked' = ranked /\ remaining # {}
  BY DEF Peel, Front
<1>2. Given' BY <1>1 DEF Given
<1>3. /\ Vectorised' = Vectorised
      /\ \A c : VectorOf(c)' = VectorOf(c)
  BY <1>1 DEF Vectorised, VectorOf, IsFeasible
<1>4. /\ front \subseteq remaining
      /\ \A d \in front : \A c \in remaining : ~Dominates(VectorOf(c), VectorOf(d))
  <2>1. front \subseteq remaining BY DEF Front, ParetoFront
  <2>2. ASSUME NEW d \in front, NEW c \in remaining \ {d}
        PROVE  ~Dominates(VectorOf(c), VectorOf(d))
    BY <2>1, <2>2 DEF Front, ParetoFront
  <2>3. remaining \subseteq Vectorised BY DEF FrontsOK
  <2> QED BY <2>1, <2>2, <2>3, NobodyDominatesThemselves
<1> DEFINE n == Len(fronts)
<1>5. /\ n \in Nat /\ DOMAIN fronts = 1..n
      /\ DOMAIN fronts' = 1..(n + 1) /\ Len(fronts') = n + 1
      /\ fronts'[n + 1] = front
      /\ \A i \in 1..n : fronts'[i] = fronts[i]
      /\ fronts' \in Seq(SUBSET Vectorised)
  <2>1. fronts \in Seq(SUBSET Vectorised) /\ front \in SUBSET Vectorised
    BY <1>4 DEF FrontsOK
  <2> HIDE DEF front
  <2> QED BY <1>1, <2>1, LenProperties, AppendProperties
<1> HIDE DEF front
<1>6. \A i \in 1..(n + 1) : i \in 1..n \/ i = n + 1 BY <1>5
<1>7. /\ n + 1 \in 1..(n + 1) /\ 1..n \subseteq 1..(n + 1) /\ n + 1 \notin 1..n
      /\ \A i \in 1..n : ~(n + 1 <= i)
  BY <1>5
<1>8. FrontsOK'
  <2>1. /\ remaining \subseteq Vectorised
        /\ \A c \in Vectorised : c \in remaining \/ \E i \in 1..n : c \in fronts[i]
        /\ \A i \in 1..n : fronts[i] \cap remaining = {}
        /\ \A i, j \in 1..n : i # j => fronts[i] \cap fronts[j] = {}
        /\ \A i \in 1..n : \A d \in fronts[i], c \in remaining :
              ~Dominates(VectorOf(c), VectorOf(d))
        /\ \A i, j \in 1..n : j <= i =>
              \A d \in fronts[j], c \in fronts[i] : ~Dominates(VectorOf(c), VectorOf(d))
        /\ n + Cardinality(remaining) <= UNRANKED_FRONT
    BY <1>5 DEF FrontsOK
  <2>2. \A c \in Vectorised :
            c \in remaining' \/ \E i \in 1..(n + 1) : c \in fronts'[i]
    BY <1>1, <1>5, <1>7, <2>1
  <2>3. \A i \in 1..(n + 1) : fronts'[i] \cap remaining' = {}
    BY <1>1, <1>5, <1>6, <2>1
  <2>4. \A i, j \in 1..(n + 1) : i # j => fronts'[i] \cap fronts'[j] = {}
    BY <1>4, <1>5, <1>6, <2>1
  <2>5. \A i \in 1..(n + 1) : \A d \in fronts'[i], c \in remaining' :
            ~Dominates(VectorOf(c), VectorOf(d))
    BY <1>1, <1>4, <1>5, <1>6, <2>1
  <2>6. ASSUME NEW i \in 1..(n + 1), NEW j \in 1..(n + 1), j <= i,
               NEW d \in fronts'[j], NEW c \in fronts'[i]
        PROVE  ~Dominates(VectorOf(c), VectorOf(d))
    <3>1. CASE i \in 1..n /\ j \in 1..n BY <1>5, <2>1, <2>6, <3>1
    <3>2. CASE i = n + 1 /\ j \in 1..n BY <1>4, <1>5, <2>1, <2>6, <3>2
    <3>3. CASE i = n + 1 /\ j = n + 1 BY <1>4, <1>5, <2>6, <3>3
    <3>4. CASE i \in 1..n /\ j = n + 1 BY <1>7, <2>6, <3>4
    <3> QED BY <1>6, <3>1, <3>2, <3>3, <3>4
  <2>7. Len(fronts') + Cardinality(remaining') <= UNRANKED_FRONT
    <3>1. IsFiniteSet(remaining) BY <2>1, VectorisedIsFinite, FS_Subset
    <3>2. remaining' \subseteq remaining /\ remaining' # remaining BY <1>1, <1>4
    <3>3. IsFiniteSet(remaining') BY <3>1, <3>2, FS_Subset
    <3>4. Cardinality(remaining) \in Nat /\ Cardinality(remaining') \in Nat
      BY <3>1, <3>3, FS_CardinalityType
    <3>5. Cardinality(remaining') <= Cardinality(remaining)
          /\ Cardinality(remaining') # Cardinality(remaining)
      BY <3>1, <3>2, FS_Subset
    <3> QED BY <1>5, <2>1, <3>4, <3>5 DEF UNRANKED_FRONT
  <2>8. remaining' \subseteq Vectorised BY <1>1, <2>1
  <2> QED BY <1>3, <1>5, <2>2, <2>3, <2>4, <2>5, <2>6, <2>7, <2>8 DEF FrontsOK
<1>9. ranked = NotRanked BY <1>1 DEF RankedOK, front
<1> QED BY <1>1, <1>2, <1>8, <1>9 DEF RankedOK

LEMMA RankStep ==
    ASSUME Given, FrontsOK, RankedOK, Rank
    PROVE  Given' /\ FrontsOK' /\ RankedOK'
<1>1. /\ objectives' = objectives /\ constraints' = constraints
      /\ population' = population /\ remaining' = remaining /\ fronts' = fronts
      /\ remaining = {} \/ Front = {}
  BY DEF Rank, Front
<1>2. Given' BY <1>1 DEF Given
<1>3. /\ Vectorised' = Vectorised
      /\ \A c : VectorOf(c)' = VectorOf(c)
      /\ \A c : SortKey(c)' = SortKey(c)
  BY <1>1 DEF Vectorised, VectorOf, IsFeasible, SortKey, FrontRank, ScoreOf, PrimaryValue
<1>4. FrontsOK' BY <1>1, <1>3 DEF FrontsOK
<1>5. Front' = Front BY <1>1, <1>3 DEF Front
<1>6. ranked' = [c \in DOMAIN population |->
                    Place(DOMAIN population, [d \in DOMAIN population |-> SortKey(d)], c)]
  BY DEF Rank, Place
<1> QED BY <1>1, <1>2, <1>3, <1>4, <1>5, <1>6 DEF RankedOK

LEMMA RankingStep == RankingOK /\ [Next]_vars => RankingOK'
<1> SUFFICES ASSUME RankingOK, [Next]_vars PROVE RankingOK' OBVIOUS
<1>1. CASE job = "ladder" /\ AddRung /\ UNCHANGED <<job, rvars>>
  BY <1>1 DEF RankingOK, rvars
<1>2. CASE job = "ranking" /\ Peel /\ UNCHANGED <<job, lvars>>
  <2>1. Given' /\ FrontsOK' /\ RankedOK' BY <1>2, PeelStep DEF RankingOK
  <2> QED BY <1>2, <2>1 DEF RankingOK
<1>3. CASE job = "ranking" /\ Rank /\ UNCHANGED <<job, lvars>>
  <2>1. Given' /\ FrontsOK' /\ RankedOK' BY <1>3, RankStep DEF RankingOK
  <2> QED BY <1>3, <2>1 DEF RankingOK
<1>4. CASE UNCHANGED vars
  <2>1. /\ job' = job /\ objectives' = objectives /\ constraints' = constraints
        /\ population' = population /\ remaining' = remaining /\ fronts' = fronts
        /\ ranked' = ranked
    BY <1>4 DEF vars, rvars
  <2>2. /\ Vectorised' = Vectorised
        /\ \A c : VectorOf(c)' = VectorOf(c)
        /\ \A c : SortKey(c)' = SortKey(c)
    BY <2>1 DEF Vectorised, VectorOf, IsFeasible, SortKey, FrontRank, ScoreOf, PrimaryValue
  <2>3. Given => Given' BY <2>1 DEF Given
  <2>4. FrontsOK => FrontsOK' BY <2>1, <2>2 DEF FrontsOK
  <2>5. Front' = Front BY <2>1, <2>2 DEF Front
  <2>6. RankedOK => RankedOK' BY <2>1, <2>2, <2>5 DEF RankedOK
  <2> QED BY <2>1, <2>3, <2>4, <2>6 DEF RankingOK
<1> QED BY <1>1, <1>2, <1>3, <1>4 DEF Next

LEMMA FrontRankIs ==
    ASSUME Given, FrontsOK, NEW c
    PROVE  /\ (\A i \in DOMAIN fronts : c \notin fronts[i]) => FrontRank(c) = UNRANKED_FRONT
           /\ \A i \in DOMAIN fronts : c \in fronts[i] =>
                 FrontRank(c) = i - 1 /\ i \in Nat /\ i <= UNRANKED_FRONT
           /\ FrontRank(c) \in Int
<1> DEFINE F == {i \in DOMAIN fronts : c \in fronts[i]}
<1>1. Len(fronts) \in Nat /\ DOMAIN fronts = 1..Len(fronts) /\ Len(fronts) <= UNRANKED_FRONT
  <2>1. IsFiniteSet(remaining) BY VectorisedIsFinite, FS_Subset DEF FrontsOK
  <2>2. Cardinality(remaining) \in Nat BY <2>1, FS_CardinalityType
  <2>3. Len(fronts) \in Nat /\ DOMAIN fronts = 1..Len(fronts) BY LenProperties DEF FrontsOK
  <2> QED BY <2>2, <2>3 DEF FrontsOK, UNRANKED_FRONT
<1>2. (\A i \in DOMAIN fronts : c \notin fronts[i]) => FrontRank(c) = UNRANKED_FRONT
  BY DEF FrontRank
<1>3. ASSUME NEW i \in DOMAIN fronts, c \in fronts[i]
      PROVE  FrontRank(c) = i - 1 /\ i \in Nat /\ i <= UNRANKED_FRONT
  <2>1. F = {i} BY <1>3 DEF FrontsOK
  <2>2. i \in Nat /\ i <= UNRANKED_FRONT BY <1>1 DEF UNRANKED_FRONT
  <2>3. Min({i}) = i
    <3>1. \E x \in {i} : \A y \in {i} : x <= y BY <2>2
    <3>2. Min({i}) \in {i} BY <3>1 DEF Min
    <3> QED BY <3>2
  <2>4. FrontRank(c) = Min(F) - 1 BY <2>1 DEF FrontRank
  <2> QED BY <2>1, <2>2, <2>3, <2>4
<1>4. FrontRank(c) \in Int BY <1>2, <1>3 DEF UNRANKED_FRONT
<1> QED BY <1>2, <1>3, <1>4

LEMMA SortKeyTyped ==
    ASSUME Given, FrontsOK, NEW c \in DOMAIN population
    PROVE  SortKey(c) \in SortKeys
<1>1. FrontRank(c) \in Int BY FrontRankIs
<1>2. -ScoreOf(c) \in Int BY ScoreIsNumber
<1>3. -PrimaryValue(c) \in Int
  <2> DEFINE o == Primary(objectives)
             v == population[c][o.metric]
  <2>1. 1 \in DOMAIN objectives BY GivenTyped
  <2>2. v \in Readings /\ o.sign \in {1, -1}
    BY <2>1, ReadingsTyped DEF Primary, ObjectiveRecords
  <2>3. IsFinite(v) => v \in Int BY <2>2 DEF Readings, Numbers, IsFinite, Absent
  <2>4. PrimaryValue(c) = NoScore \/ (IsFinite(v) /\ PrimaryValue(c) = o.sign * v)
    BY DEF PrimaryValue
  <2> HIDE DEF o, v
  <2>5. PrimaryValue(c) \in Int
    <3>1. NoScore \in Int BY DEF NoScore
    <3>2. IsFinite(v) => o.sign * v \in Int BY <2>2, <2>3
    <3> QED BY <2>4, <3>1, <3>2
  <2> QED BY <2>5
<1>4. c \in Int BY GivenTyped
<1>5. (IF IsFeasible(c) THEN 0 ELSE 1) \in Int OBVIOUS
<1> QED BY <1>1, <1>2, <1>3, <1>4, <1>5 DEF SortKey, SortKeys

\* At every moment of a ranking the fronts are sound, and so are the places.
THEOREM RankingInvariant == Spec => []RankingOK
<1>1. Init => RankingOK BY InitRanking
<1>2. RankingOK /\ [Next]_vars => RankingOK' BY RankingStep
<1> QED BY <1>1, <1>2, PTL DEF Spec

\* A candidate that is dominated is ranked after what dominates it, with one
\* or two objectives always, with more unless the dominating one is on no
\* front, caught in a circle.  (ranking.py, pareto.py)
THEOREM DominanceIsRespected == Spec => []RankingRespectsDominance
<1>1. RankingOK => RankingRespectsDominance
  <2> SUFFICES ASSUME RankingOK, Done
               PROVE  /\ \A c, d \in DOMAIN population :
                            /\ (/\ c \in Vectorised /\ d \in Vectorised
                                /\ FrontRank(c) # UNRANKED_FRONT \/ Len(objectives) < 3
                                /\ Dominates(VectorOf(c), VectorOf(d)))
                                  => ranked[c] < ranked[d]
                            /\ (IsFeasible(c) /\ ~IsFeasible(d)) => ranked[c] < ranked[d]
                            /\ ranked[c] = ranked[d] => c = d
                      /\ \A c \in UNION {fronts[i] : i \in DOMAIN fronts} : IsFeasible(c)
    BY DEF RankingRespectsDominance
  <2>1. Given /\ FrontsOK /\ RankedOK BY DEF RankingOK, Done
  <2> DEFINE P == DOMAIN population
             key == [d \in P |-> SortKey(d)]
  <2>2. /\ remaining = {} \/ Front = {}
        /\ ranked = [c \in P |-> Place(P, key, c)]
    BY <2>1 DEF RankedOK, Done
  <2>3. IsFiniteSet(P) /\ key \in [P -> SortKeys] BY <2>1, GivenTyped, SortKeyTyped
  <2>4. \A c \in P : key[c] = SortKey(c) OBVIOUS
  <2>5. ASSUME NEW c \in P, NEW d \in P
        PROVE  /\ KeyBefore(SortKey(c), SortKey(d)) => ranked[c] < ranked[d]
               /\ SortKey(c)[5] # SortKey(d)[5] => ranked[c] # ranked[d]
    <3> HIDE DEF P, key
    <3> QED BY <2>2, <2>3, <2>4, PlacesFollowKeys
  <2>6. ASSUME NEW c \in P, NEW d \in P
        PROVE  /\ SortKey(c)[1] < SortKey(d)[1] => ranked[c] < ranked[d]
               /\ SortKey(c)[1] = SortKey(d)[1] /\ SortKey(c)[2] < SortKey(d)[2]
                     => ranked[c] < ranked[d]
    <3>1. SortKey(c) \in SortKeys /\ SortKey(d) \in SortKeys BY <2>1, SortKeyTyped
    <3> QED BY <2>5, <3>1, KeyBeforeIsLexicographic
  <2>7. \A c : /\ SortKey(c)[1] = (IF IsFeasible(c) THEN 0 ELSE 1)
               /\ SortKey(c)[2] = FrontRank(c) /\ SortKey(c)[5] = c
    BY DEF SortKey
  <2>8. ASSUME NEW c \in P, NEW d \in P, IsFeasible(c), ~IsFeasible(d)
        PROVE  ranked[c] < ranked[d]
    BY <2>6, <2>7, <2>8
  <2>9. ASSUME NEW c \in P, NEW d \in P, ranked[c] = ranked[d]
        PROVE  c = d
    BY <2>5, <2>7, <2>9
  <2>10. ASSUME NEW c \in Vectorised, NEW d \in Vectorised,
                FrontRank(c) # UNRANKED_FRONT \/ Len(objectives) < 3,
                Dominates(VectorOf(c), VectorOf(d))
         PROVE  ranked[c] < ranked[d]
    <3>1. c \in P /\ d \in P /\ IsFeasible(c) /\ IsFeasible(d) BY DEF Vectorised
    <3>2. Len(objectives) < 3 => remaining = {}
      <4>1. remaining \in SUBSET Vectorised BY <2>1 DEF FrontsOK
      <4> QED BY <2>1, <2>2, <4>1, FrontIsNotEmpty DEF Front
    <3>3. PICK i \in DOMAIN fronts : c \in fronts[i]
      <4>1. \E i \in DOMAIN fronts : c \in fronts[i]
        <5>1. CASE Len(objectives) < 3 BY <2>1, <3>2, <5>1 DEF FrontsOK
        <5>2. CASE FrontRank(c) # UNRANKED_FRONT BY <2>1, <5>2, FrontRankIs
        <5> QED BY <2>10, <5>1, <5>2
      <4> QED BY <4>1
    <3>4. FrontRank(c) = i - 1 /\ i \in Nat /\ i <= UNRANKED_FRONT
      BY <2>1, <3>3, FrontRankIs
    <3>5. FrontRank(c) < FrontRank(d)
      <4>1. CASE \E j \in DOMAIN fronts : d \in fronts[j]
        <5>1. PICK j \in DOMAIN fronts : d \in fronts[j] BY <4>1
        <5>2. FrontRank(d) = j - 1 /\ j \in Nat BY <2>1, <5>1, FrontRankIs
        <5>3. ~(j <= i) BY <2>1, <2>10, <3>3, <5>1 DEF FrontsOK
        <5> QED BY <3>4, <5>2, <5>3
      <4>2. CASE \A j \in DOMAIN fronts : d \notin fronts[j]
        <5>1. FrontRank(d) = UNRANKED_FRONT BY <2>1, <4>2, FrontRankIs
        <5> QED BY <3>4, <5>1 DEF UNRANKED_FRONT
      <4> QED BY <4>1, <4>2
    <3> QED BY <2>6, <2>7, <3>1, <3>5
  <2>11. ASSUME NEW i \in DOMAIN fronts, NEW c \in fronts[i] PROVE IsFeasible(c)
    <3>1. fronts[i] \in SUBSET Vectorised BY <2>1 DEF FrontsOK
    <3> QED BY <3>1 DEF Vectorised
  <2> QED BY <2>8, <2>9, <2>10, <2>11
<1> QED BY <1>1, RankingInvariant, PTL

\* The weighted score respects dominance too: whoever is at least as good in
\* every objective has at least the score, by any mixture of normalizations.
\* (scoring.py)
THEOREM ScoresAreRespectful == Spec => []ScoresRespectDominance
<1>1. RankingOK => ScoresRespectDominance
  <2>1. ASSUME RankingOK, job = "ladder" PROVE ScoresRespectDominance
    BY <2>1 DEF RankingOK, ScoresRespectDominance
  <2>2. ASSUME RankingOK, job = "ranking" PROVE ScoresRespectDominance
    BY <2>2, ScoresFollowVectors DEF RankingOK
  <2> QED BY <2>1, <2>2 DEF RankingOK
<1> QED BY <1>1, RankingInvariant, PTL

-----------------------------------------------------------------------------
(***************************************************************************)
(* The two scores.                                                         *)
(***************************************************************************)

\* The order of the terms does not matter.
LEMMA SumsCommute ==
    ASSUME NEW S, IsFiniteSet(S), NEW h \in [S -> Int], NEW s \in SUBSET S, NEW x \in s
    PROVE  /\ Folded(h, S)[s \ {x}] \in Int
           /\ Folded(h, S)[s] = h[x] + Folded(h, S)[s \ {x}]
<1> DEFINE f == Folded(h, S)
           T == {n \in Nat : \A t \in UpToSize(S, n) :
                    /\ f[t] \in Int
                    /\ \A y \in t : f[t] = h[y] + f[t \ {y}]}
<1>1. f = [t \in SUBSET S |-> Turn(h, f, t)] BY FoldsExist
<1> HIDE DEF f
<1>2. \A t \in SUBSET S : f[t] = Turn(h, f, t) BY <1>1
<1>3. 0 \in T
  <2>1. ASSUME NEW t \in UpToSize(S, 0) PROVE t = {} /\ f[t] = 0
    <3>1. IsFiniteSet(t) /\ Cardinality(t) <= 0 /\ t \in SUBSET S
      BY FS_Subset DEF UpToSize
    <3>2. t = {} BY <3>1, FS_CardinalityType, FS_EmptySet
    <3> QED BY <1>2, <3>1, <3>2 DEF Turn
  <2> QED BY <2>1
<1>4. ASSUME NEW n \in T PROVE n + 1 \in T
  <2>0. n \in Nat /\ \A t \in UpToSize(S, n) :
                        f[t] \in Int /\ \A y \in t : f[t] = h[y] + f[t \ {y}]
    OBVIOUS
  <2>1. ASSUME NEW t \in UpToSize(S, n + 1), NEW y \in t
        PROVE  t \ {y} \in UpToSize(S, n) /\ t \in SUBSET S
    <3>1. t \in SUBSET S /\ IsFiniteSet(t) /\ Cardinality(t) <= n + 1
      BY FS_Subset DEF UpToSize
    <3>2. Cardinality(t) \in Nat /\ Cardinality(t \ {y}) = Cardinality(t) - 1
      BY <3>1, FS_RemoveElement, FS_CardinalityType
    <3> QED BY <2>0, <3>1, <3>2 DEF UpToSize
  <2>2. ASSUME NEW t \in UpToSize(S, n + 1)
        PROVE  f[t] \in Int /\ \A y \in t : f[t] = h[y] + f[t \ {y}]
    <3>1. CASE t = {}
      <4>1. f[t] = 0 BY <1>2, <3>1 DEF Turn
      <4> QED BY <3>1, <4>1
    <3>2. CASE t # {}
      <4> DEFINE z == Some(t)
      <4>1. z \in t /\ z \in S /\ t \in SUBSET S BY <3>2, <2>1 DEF Some
      <4>2. f[t] = h[z] + f[t \ {z}] BY <1>2, <3>2, <4>1 DEF Turn
      <4> HIDE DEF z
      <4>3. t \ {z} \in UpToSize(S, n) BY <2>1, <4>1
      <4>4. f[t \ {z}] \in Int /\ h[z] \in Int BY <2>0, <4>1, <4>3
      <4>5. ASSUME NEW y \in t, y # z PROVE f[t] = h[y] + f[t \ {y}]
        <5> DEFINE r == (t \ {z}) \ {y}
        <5>1. y \in t \ {z} /\ z \in t \ {y} /\ (t \ {y}) \ {z} = r BY <4>1, <4>5
        <5>2. f[t \ {z}] = h[y] + f[r] BY <2>0, <4>3, <5>1
        <5>3. t \ {y} \in UpToSize(S, n) BY <2>1
        <5>4. f[t \ {y}] = h[z] + f[r] BY <2>0, <5>1, <5>3
        <5>5. f[t \ {y}] \in Int /\ h[y] \in Int BY <2>0, <4>1, <5>3
        <5>6. f[r] \in Int
          <6>1. r \subseteq t \ {y} /\ r \in SUBSET S BY <4>1
          <6>2. r \in UpToSize(S, n)
            <7>1. IsFiniteSet(t \ {y}) /\ Cardinality(t \ {y}) <= n
              BY <5>3, FS_Subset DEF UpToSize
            <7>2. Cardinality(r) <= Cardinality(t \ {y}) /\ IsFiniteSet(r)
              BY <6>1, <7>1, FS_Subset
            <7>3. Cardinality(r) \in Nat /\ Cardinality(t \ {y}) \in Nat
              BY <7>1, <7>2, FS_CardinalityType
            <7> QED BY <2>0, <6>1, <7>1, <7>2, <7>3 DEF UpToSize
          <6> QED BY <2>0, <6>2
        <5> HIDE DEF r
        <5> QED BY <4>2, <4>4, <5>2, <5>4, <5>5, <5>6
      <4>6. f[t] \in Int BY <4>2, <4>4
      <4>7. ASSUME NEW y \in t PROVE f[t] = h[y] + f[t \ {y}]
        <5>1. CASE y = z BY <4>2, <5>1
        <5>2. CASE y # z BY <4>5, <5>2
        <5> QED BY <5>1, <5>2
      <4> QED BY <4>6, <4>7
    <3> QED BY <3>1, <3>2
  <2> QED BY <2>0, <2>2
<1>5. T = Nat
  <2> HIDE DEF T
  <2>1. T \in SUBSET Nat BY DEF T
  <2> QED BY <1>3, <1>4, <2>1, NatSetInduction
<1>6. \A t \in SUBSET S : Cardinality(t) \in T /\ t \in UpToSize(S, Cardinality(t))
  BY <1>5, FS_Subset, FS_CardinalityType DEF UpToSize
<1>7. \A t \in SUBSET S : f[t] \in Int /\ \A y \in t : f[t] = h[y] + f[t \ {y}] BY <1>6
<1> QED BY <1>7 DEF f

\* A sum does not notice where the terms are zero.
LEMMA SumsSkipZeros ==
    ASSUME NEW S, IsFiniteSet(S), NEW h \in [S -> Int], NEW R \in SUBSET S,
           \A x \in S \ R : h[x] = 0
    PROVE  SumOf([x \in R |-> h[x]]) = SumOf(h)
<1> DEFINE k == [x \in R |-> h[x]]
           f == Folded(h, S)
           g == Folded(k, R)
           T == {n \in Nat : \A s \in UpToSize(S, n) : g[s \cap R] = f[s \cap R]}
           U == {n \in Nat : \A s \in UpToSize(S, n) : f[s] = f[s \cap R]}
<1>1. IsFiniteSet(R) /\ k \in [R -> Int] BY FS_Subset
<1>2. f = [s \in SUBSET S |-> Turn(h, f, s)] BY FoldsExist
<1>3. g = [s \in SUBSET R |-> Turn(k, g, s)]
  <2> HIDE DEF k
  <2> QED BY <1>1, FoldsExist
<1>4. \A s \in SUBSET S : \A x \in s :
         f[s \ {x}] \in Int /\ f[s] = h[x] + f[s \ {x}]
  BY SumsCommute
<1>5. \A x \in R : k[x] = h[x] OBVIOUS
<1> HIDE DEF f, g, k
<1>6. \A s \in SUBSET S : f[s] = Turn(h, f, s) BY <1>2
<1>7. \A s \in SUBSET R : g[s] = Turn(k, g, s) BY <1>3
<1>8. \A s \in UpToSize(S, 0) : s = {}
  <2> SUFFICES ASSUME NEW s \in UpToSize(S, 0) PROVE s = {} OBVIOUS
  <2>1. IsFiniteSet(s) /\ Cardinality(s) <= 0 BY FS_Subset DEF UpToSize
  <2> QED BY <2>1, FS_CardinalityType, FS_EmptySet
<1>9. \A n \in Nat : \A s \in UpToSize(S, n + 1) : \A x \in s : s \ {x} \in UpToSize(S, n)
  <2> SUFFICES ASSUME NEW n \in Nat, NEW s \in UpToSize(S, n + 1), NEW x \in s
               PROVE  s \ {x} \in UpToSize(S, n)
    OBVIOUS
  <2>1. s \in SUBSET S /\ IsFiniteSet(s) /\ Cardinality(s) <= n + 1
    BY FS_Subset DEF UpToSize
  <2>2. Cardinality(s) \in Nat /\ Cardinality(s \ {x}) = Cardinality(s) - 1
    BY <2>1, FS_RemoveElement, FS_CardinalityType
  <2> QED BY <2>1, <2>2 DEF UpToSize
<1>10. 0 \in T /\ 0 \in U
  <2>1. f[{}] = 0 /\ g[{}] = 0 BY <1>6, <1>7 DEF Turn
  <2>2. {} \cap R = {} OBVIOUS
  <2> QED BY <1>8, <2>1, <2>2
<1>11. ASSUME NEW n \in T PROVE n + 1 \in T
  <2>0. n \in Nat OBVIOUS
  <2>1. ASSUME NEW s \in UpToSize(S, n + 1) PROVE g[s \cap R] = f[s \cap R]
    <3> DEFINE t == s \cap R
               x == Some(t)
    <3>1. s \in SUBSET S /\ t \in SUBSET S /\ t \in SUBSET R BY DEF UpToSize
    <3>2. CASE t = {} BY <1>6, <1>7, <3>1, <3>2 DEF Turn
    <3>3. CASE t # {}
      <4>1. x \in s /\ x \in R /\ (s \ {x}) \cap R = t \ {x} BY <3>3 DEF Some
      <4>2. s \ {x} \in UpToSize(S, n) BY <1>9, <2>0, <4>1
      <4>3. g[t \ {x}] = f[t \ {x}]
        <5> HIDE DEF x
        <5>1. g[(s \ {x}) \cap R] = f[(s \ {x}) \cap R] BY <4>2
        <5> QED BY <4>1, <5>1
      <4>4. f[t] = h[x] + f[t \ {x}] /\ g[t] = k[x] + g[t \ {x}]
        <5> HIDE DEF t
        <5> QED BY <1>6, <1>7, <3>1, <3>3 DEF Turn
      <4> QED BY <1>5, <4>1, <4>3, <4>4
    <3> QED BY <3>2, <3>3
  <2> QED BY <2>0, <2>1
<1>12. ASSUME NEW n \in U PROVE n + 1 \in U
  <2>0. n \in Nat OBVIOUS
  <2>1. ASSUME NEW s \in UpToSize(S, n + 1) PROVE f[s] = f[s \cap R]
    <3>1. s \in SUBSET S BY DEF UpToSize
    <3>2. CASE s \subseteq R
      <4>1. s \cap R = s BY <3>2
      <4> QED BY <4>1
    <3>3. CASE ~(s \subseteq R)
      <4>1. PICK x \in s : x \notin R BY <3>3
      <4>2. s \ {x} \in UpToSize(S, n) /\ (s \ {x}) \cap R = s \cap R
        BY <1>9, <2>0, <4>1
      <4>3. f[s \ {x}] = f[s \cap R]
        <5>1. f[s \ {x}] = f[(s \ {x}) \cap R] BY <4>2
        <5> QED BY <4>2, <5>1
      <4>4. h[x] = 0 BY <3>1, <4>1
      <4>5. f[s] = f[s \ {x}] BY <1>4, <3>1, <4>4
      <4> QED BY <4>3, <4>5
    <3> QED BY <3>2, <3>3
  <2>2. n + 1 \in Nat BY <2>0
  <2> QED BY <2>1, <2>2
<1>13. T = Nat /\ U = Nat
  <2> HIDE DEF T, U
  <2>1. T \in SUBSET Nat /\ U \in SUBSET Nat BY DEF T, U
  <2> QED BY <1>10, <1>11, <1>12, <2>1, NatSetInduction
<1>14. Cardinality(S) \in Nat /\ S \in UpToSize(S, Cardinality(S))
  BY FS_CardinalityType DEF UpToSize
<1>15. g[S \cap R] = f[S \cap R] /\ f[S] = f[S \cap R] /\ S \cap R = R
  <2>1. Cardinality(S) \in T /\ Cardinality(S) \in U BY <1>13, <1>14
  <2> QED BY <1>14, <2>1
<1>16. SumOf(h) = f[S] /\ SumOf(k) = g[R]
  <2>1. DOMAIN h = S /\ DOMAIN k = R BY <1>1
  <2> QED BY <2>1, SumIsAFold DEF f, g
<1> QED BY <1>15, <1>16 DEF k

LEMMA ExactQuotient ==
    ASSUME NEW q \in Int, NEW b \in Int, b # 0
    PROVE  Quotient(q * b, b) = q
<1>1. ASSUME NEW n \in Nat, n > 0, NEW p \in Int PROVE (p * n) \div n = p
  BY <1>1, SMTT(30)
<1>2. CASE b > 0
  <2>1. b \in Nat BY <1>2
  <2> QED BY <1>1, <1>2, <2>1 DEF Quotient
<1>3. CASE ~(b > 0)
  <2>1. -b \in Nat /\ -b > 0 BY <1>3
  <2>2. -(q * b) = q * (-b) OBVIOUS
  <2>3. (q * (-b)) \div (-b) = q BY <1>1, <2>1
  <2> QED BY <1>3, <2>2, <2>3 DEF Quotient
<1> QED BY <1>2, <1>3

\* The direction may be corrected before the division or after it.
LEMMA QuotientsKeepSigns ==
    ASSUME NEW b \in Int, b # 0, Scale % Magnitude(b) = 0, NEW s \in {1, -1}, NEW v \in Int
    PROVE  /\ Quotient(Scale * v, b) \in Int
           /\ Quotient(Scale * s * v, b) = s * Quotient(Scale * v, b)
<1> DEFINE n == Magnitude(b)
<1>1. Scale \in Nat BY ScaleAssumption
<1>2. n \in Nat /\ n > 0 /\ (b = n \/ b = -n) BY DEF Magnitude
<1>3. PICK k \in Int : Scale = k * b
  <2>1. Scale = n * (Scale \div n) /\ Scale \div n \in Int BY <1>1, <1>2
  <2> HIDE DEF n
  <2>2. Scale = (Scale \div n) * n /\ Scale = (-(Scale \div n)) * (-n) BY <1>2, <2>1
  <2>3. CASE b = n BY <2>1, <2>2, <2>3
  <2>4. CASE b = -n
    <3>1. -(Scale \div n) \in Int BY <2>1
    <3> QED BY <2>2, <2>4, <3>1
  <2> QED BY <1>2, <2>3, <2>4
<1>4. Scale * v = (k * v) * b /\ Scale * s * v = (s * (k * v)) * b
  <2>1. Scale * v = (k * v) * b BY <1>3
  <2>2. CASE s = 1 BY <1>1, <2>1, <2>2
  <2>3. CASE s = -1
    <3>1. Scale * s * v = -(Scale * v) BY <1>1, <2>3
    <3>2. s * (k * v) = -(k * v) BY <2>3
    <3>3. (-(k * v)) * b = -((k * v) * b) OBVIOUS
    <3> QED BY <2>1, <3>1, <3>2, <3>3
  <2> QED BY <2>1, <2>2, <2>3
<1> DEFINE q == k * v
           p == s * q
<1>5. q \in Int /\ p \in Int /\ Scale * v = q * b /\ Scale * s * v = p * b BY <1>4
<1>6. p = s * q OBVIOUS
<1> HIDE DEF p, q
<1>7. Quotient(q * b, b) = q /\ Quotient(p * b, b) = p BY <1>5, ExactQuotient
<1> QED BY <1>5, <1>6, <1>7

\* Where both scores read the same objectives, they are the same number.
LEMMA ScoresAreOne ==
    ASSUME Given, NEW c \in DOMAIN population, Measured(c),
           StableObjectives(objectives) = {i \in DOMAIN objectives : objectives[i].weight > 0},
           \A i \in DOMAIN objectives :
               objectives[i].normalization = "none" => objectives[i].reference = 0
    PROVE  OnlineObjectiveValue(population[c], objectives) = ScoreOf(c)
<1> DEFINE D == DOMAIN objectives
           m == population[c]
           S == StableObjectives(objectives)
           h == [i \in D |-> Term(c, i)]
           on(i) == objectives[i].weight * objectives[i].sign
                       * Scaled(ValueOf(m, objectives[i]), objectives[i])
<1>1. \A i \in D : /\ ValueOf(m, objectives[i]) = m[objectives[i].metric]
                    /\ ValueOf(m, objectives[i]) # Absent
                    /\ IsFinite(ValueOf(m, objectives[i]))
  BY DEF Measured, ValueOf
<1>2. ~LacksRequired(m, objectives) BY <1>1 DEF LacksRequired
<1>3. S # {} /\ Blocking(m, objectives, S) = {}
  <2>1. \E i \in D : objectives[i].weight > 0 BY DEF Given
  <2>2. S \subseteq D BY DEF StableObjectives
  <2> QED BY <1>1, <2>1, <2>2 DEF Blocking
<1>4. OnlineObjectiveValue(m, objectives) = SumOf([i \in S |-> on(i)])
  <2> HIDE DEF S
  <2> QED BY <1>3 DEF OnlineObjectiveValue, S
<1>5. ASSUME NEW i \in S PROVE on(i) = h[i]
  <2> DEFINE o == objectives[i]
             v == ValueOf(m, o)
             s == PopulationStats(population, objectives)[i]
  <2>1. i \in D /\ o.normalization \in STABLE BY DEF StableObjectives
  <2>2. /\ o \in ObjectiveRecords /\ IsObjective(o) /\ v \in Readings /\ v # Absent
        /\ IsFinite(v)
    BY <1>1, <2>1, ReadingsTyped
  <2>3. o.weight \in Int /\ o.sign \in {1, -1} /\ o.reference \in Int
    BY <2>2 DEF ObjectiveRecords
  <2>4. v \in Int BY <2>2 DEF Readings, IsFinite
  <2>5. h[i] = o.weight * Normalize(v, o, s) BY <2>1 DEF Term, Components
  <2>6. Normalize(v, o, s) = o.sign * Scaled(v, o) /\ Scaled(v, o) \in Int
    <3>0. Scale \in Nat BY ScaleAssumption
    <3>1. CASE o.normalization = "none"
      <4>1. o.reference = 0 BY <2>1, <3>1
      <4>2. Scaled(v, o) = Scale * v BY <4>1 DEF Scaled
      <4>3. Normalize(v, o, s) = Scale * o.sign * v BY <2>2, <3>1, NormalizeIs
      <4> HIDE DEF o, v, s
      <4>4. Scale * o.sign * v = o.sign * (Scale * v) BY <2>3, <2>4, <3>0
      <4> QED BY <2>4, <3>0, <4>2, <4>3, <4>4
    <3>2. CASE o.normalization = "reference"
      <4>1. o.reference # 0 BY <2>2, <3>2 DEF IsObjective
      <4>2. Scale % Magnitude(o.reference) = 0
        BY <2>1, <4>1, GivenTyped, UnitsAssumption DEF Given
      <4>3. Normalize(v, o, s) = Quotient(Scale * o.sign * v, o.reference)
        BY <2>2, <3>2, NormalizeIs
      <4>4. Scaled(v, o) = Quotient(Scale * v, o.reference) BY <4>1 DEF Scaled
      <4> HIDE DEF o, v, s
      <4> QED BY <2>3, <2>4, <4>1, <4>2, <4>3, <4>4, QuotientsKeepSigns
    <3> QED BY <2>1, <3>1, <3>2 DEF STABLE
  <2> HIDE DEF o, v, s, h
  <2>7. o.weight * (o.sign * Scaled(v, o)) = o.weight * o.sign * Scaled(v, o)
    BY <2>3, <2>6
  <2> QED BY <2>5, <2>6, <2>7 DEF o, v
<1>6. \A i \in D \ S : h[i] = 0
  <2> SUFFICES ASSUME NEW i \in D \ S PROVE Term(c, i) = 0 OBVIOUS
  <2>1. /\ objectives[i] \in ObjectiveRecords /\ IsObjective(objectives[i])
        /\ ValueOf(m, objectives[i]) \in Readings /\ ValueOf(m, objectives[i]) # Absent
        /\ IsFinite(ValueOf(m, objectives[i])) => KnownAmount(ValueOf(m, objectives[i]))
    BY <1>1, ReadingsTyped
  <2>2. objectives[i].weight = 0 BY <2>1 DEF ObjectiveRecords, IsObjective
  <2> DEFINE N == Normalize(ValueOf(m, objectives[i]), objectives[i],
                            PopulationStats(population, objectives)[i])
  <2>3. N \in Int BY <2>1, PopulationStatsOK, NormalizeIsNumber
  <2>4. Term(c, i) = objectives[i].weight * N BY DEF Term, Components
  <2> HIDE DEF N
  <2> QED BY <2>2, <2>3, <2>4
<1>7. h \in [D -> Int] BY <1>2, TermsAreNumbers
<1>8. IsFiniteSet(D) /\ S \in SUBSET D
  <2>1. IsFiniteSet(D) BY GivenTyped, FS_Interval
  <2> QED BY <2>1 DEF StableObjectives
<1>9. ScoreOf(c) = SumOf(h) BY <1>2, ScoreIsASum
<1>10. [i \in S |-> on(i)] = [i \in S |-> h[i]] BY <1>5
<1> HIDE DEF h, D, S, on
<1>11. SumOf([i \in S |-> h[i]]) = SumOf(h) BY <1>6, <1>7, <1>8, SumsSkipZeros
<1> QED BY <1>4, <1>9, <1>10, <1>11 DEF m

\* Where both read the same objectives and only those normalised by a
\* reference have one, the online value that steers a bracket and the score
\* the report ranks by prefer the same of two measured candidates; they are
\* in fact the same number.  (scoring.py, online.py)
THEOREM OnlineIsFinal == Spec => []OnlineAgreesWithFinal
<1>1. RankingOK => OnlineAgreesWithFinal
  <2>1. ASSUME RankingOK, job = "ladder" PROVE OnlineAgreesWithFinal
    BY <2>1 DEF RankingOK, OnlineAgreesWithFinal
  <2>2. ASSUME RankingOK, job = "ranking" PROVE OnlineAgreesWithFinal
    <3>1. Given BY <2>2 DEF RankingOK
    <3> QED BY <3>1, ScoresAreOne, Zenon DEF OnlineAgreesWithFinal
  <2> QED BY <2>1, <2>2 DEF RankingOK
<1> QED BY <1>1, RankingInvariant, PTL

-----------------------------------------------------------------------------
(***************************************************************************)
(* Recursive functions of a number.                                        *)
(***************************************************************************)
Steps(T) == [Nat -> [T -> T]]

\* f is what step i makes of the value at i - 1.
Follows(f, T, base, step) ==
    f \in [Nat -> T] /\ f[0] = base /\ \A i \in Nat : f[i + 1] = step[i + 1][f[i]]

\* Such a function exists, for any steps.
LEMMA RecursionExists ==
    ASSUME NEW T, NEW base \in T, NEW step, step \in Steps(T)
    PROVE  \E f : Follows(f, T, base, step)
<1> USE DEF Steps
<1> DEFINE Prefix(n, f) ==
               /\ f \in [0..n -> T]
               /\ f[0] = base
               /\ \A i \in 0..n : i # 0 => f[i] = step[i][f[i - 1]]
           E == {n \in Nat : \E f : Prefix(n, f)}
           U == {n \in Nat : \A f, g : Prefix(n, f) /\ Prefix(n, g) => f[n] = g[n]}
<1>1. ASSUME NEW n \in Nat, NEW f, Prefix(n + 1, f)
      PROVE  Prefix(n, [i \in 0..n |-> f[i]])
  <2>1. \A i \in 0..n : i \in 0..(n + 1) /\ (i # 0 => i - 1 \in 0..n) OBVIOUS
  <2> QED BY <1>1, <2>1
<1>2. E = Nat
  <2>1. 0 \in E
    <3>1. Prefix(0, [i \in 0..0 |-> base]) OBVIOUS
    <3> HIDE DEF Prefix
    <3> QED BY <3>1
  <2>2. ASSUME NEW n \in E PROVE n + 1 \in E
    <3>1. PICK f : Prefix(n, f) OBVIOUS
    <3> DEFINE g == [i \in 0..(n + 1) |-> IF i = n + 1 THEN step[n + 1][f[n]] ELSE f[i]]
    <3>2. n \in Nat /\ n \in 0..n /\ n + 1 \notin 0..n /\ n + 1 \in Nat OBVIOUS
    <3>3. \A i \in 0..(n + 1) : i = n + 1 \/ i \in 0..n BY <3>2
    <3>4. \A i \in 0..n : g[i] = f[i] BY <3>2
    <3>5. f[n] \in T /\ g[n + 1] = step[n + 1][f[n]] /\ g[n] = f[n] BY <3>1, <3>2
    <3>6. g \in [0..(n + 1) -> T]
      <4>1. step[n + 1] \in [T -> T] BY <3>2
      <4>2. \A i \in 0..(n + 1) : g[i] \in T BY <3>1, <3>3, <3>4, <3>5, <4>1
      <4> QED BY <4>2
    <3>7. ASSUME NEW i \in 0..(n + 1), i # 0 PROVE g[i] = step[i][g[i - 1]]
      <4>1. i - 1 \in 0..n BY <3>2, <3>7
      <4>2. g[i - 1] = f[i - 1] BY <3>4, <4>1
      <4>3. CASE i = n + 1
        <5>1. i - 1 = n BY <3>2, <4>3
        <5> HIDE DEF g
        <5> QED BY <3>5, <4>3, <5>1
      <4>4. CASE i \in 0..n
        <5>1. g[i] = f[i] /\ f[i] = step[i][f[i - 1]] BY <3>1, <3>4, <3>7, <4>4
        <5> HIDE DEF g
        <5> QED BY <4>2, <5>1
      <4> QED BY <3>3, <4>3, <4>4
    <3>8. g[0] = base BY <3>1, <3>2, <3>4
    <3> HIDE DEF g
    <3>9. Prefix(n + 1, g) BY <3>6, <3>7, <3>8
    <3> HIDE DEF Prefix
    <3> QED BY <3>2, <3>9
  <2>3. E \in SUBSET Nat OBVIOUS
  <2> HIDE DEF E
  <2> QED BY <2>1, <2>2, <2>3, NatSetInduction
<1>3. U = Nat
  <2>1. 0 \in U OBVIOUS
  <2>2. ASSUME NEW n \in U PROVE n + 1 \in U
    <3>1. n \in Nat /\ n + 1 \in Nat OBVIOUS
    <3>2. ASSUME NEW f, NEW g, Prefix(n + 1, f), Prefix(n + 1, g)
          PROVE  f[n + 1] = g[n + 1]
      <4> DEFINE p == [i \in 0..n |-> f[i]]
                 q == [i \in 0..n |-> g[i]]
      <4>1. Prefix(n, p) /\ Prefix(n, q) BY <1>1, <3>1, <3>2
      <4>2. p[n] = q[n]
        <5> HIDE DEF Prefix, p, q
        <5> QED BY <4>1 DEF U
      <4>3. f[n] = g[n] BY <3>1, <4>2
      <4>4. n + 1 \in 0..(n + 1) /\ n + 1 # 0 /\ (n + 1) - 1 = n BY <3>1
      <4>5. f[n + 1] = step[n + 1][f[n]] /\ g[n + 1] = step[n + 1][g[n]]
        BY <3>2, <4>4
      <4> QED BY <4>3, <4>5
    <3> HIDE DEF Prefix
    <3> QED BY <3>1, <3>2
  <2>3. U \in SUBSET Nat OBVIOUS
  <2> HIDE DEF U
  <2> QED BY <2>1, <2>2, <2>3, NatSetInduction
<1> DEFINE up(n) == CHOOSE f : Prefix(n, f)
           F == [n \in Nat |-> up(n)[n]]
<1>4. \A n \in Nat : Prefix(n, up(n))
  <2> HIDE DEF Prefix
  <2>1. \A n \in Nat : \E f : Prefix(n, f) BY <1>2
  <2> QED BY <2>1
<1> HIDE DEF up
<1>5. F \in [Nat -> T]
  <2>1. ASSUME NEW n \in Nat PROVE up(n)[n] \in T
    <3>1. n \in 0..n OBVIOUS
    <3> QED BY <1>4, <3>1
  <2> QED BY <2>1
<1>6. F[0] = base BY <1>4
<1>7. ASSUME NEW n \in Nat PROVE F[n + 1] = step[n + 1][F[n]]
  <2> DEFINE p == [i \in 0..n |-> up(n + 1)[i]]
  <2>1. Prefix(n + 1, up(n + 1)) /\ Prefix(n, up(n)) BY <1>4
  <2>2. Prefix(n, p) BY <1>1, <2>1
  <2>3. p[n] = up(n)[n]
    <3> HIDE DEF Prefix, p
    <3> QED BY <1>3, <2>1, <2>2 DEF U
  <2>4. n \in 0..n /\ n + 1 \in 0..(n + 1) /\ n + 1 # 0 /\ (n + 1) - 1 = n OBVIOUS
  <2>5. up(n + 1)[n + 1] = step[n + 1][up(n + 1)[n]] BY <2>1, <2>4
  <2> QED BY <2>3, <2>4, <2>5
<1> HIDE DEF F
<1>8. Follows(F, T, base, step) BY <1>5, <1>6, <1>7 DEF Follows
<1> QED BY <1>8

\* f is what is left after each of n terms is added to base.
RunningSum(f, n, term, base) ==
    f \in [0..n -> Nat] /\ f[0] = base /\ \A i \in 1..n : f[i] = term[i] + f[i - 1]

LEMMA SumExists ==
    ASSUME NEW n \in Nat, NEW base \in Nat, NEW term, term \in [1..n -> Nat]
    PROVE  \E f : RunningSum(f, n, term, base)
<1> DEFINE add == [i \in Nat |-> [x \in Nat |-> IF i \in 1..n THEN term[i] + x ELSE x]]
<1>1. add \in Steps(Nat)
  <2>1. \A i \in Nat, x \in Nat : (IF i \in 1..n THEN term[i] + x ELSE x) \in Nat
    OBVIOUS
  <2> QED BY <2>1 DEF Steps
<1>2. PICK g : Follows(g, Nat, base, add)
  <2> HIDE DEF add
  <2> QED BY <1>1, RecursionExists
<1> DEFINE f == [i \in 0..n |-> g[i]]
<1>3. f \in [0..n -> Nat] /\ f[0] = base
  <2>1. g \in [Nat -> Nat] /\ g[0] = base BY <1>2 DEF Follows
  <2>2. 0 \in 0..n /\ 0..n \subseteq Nat OBVIOUS
  <2> HIDE DEF add
  <2> QED BY <2>1, <2>2
<1>4. ASSUME NEW i \in 1..n PROVE f[i] = term[i] + f[i - 1]
  <2>1. i - 1 \in Nat /\ i \in Nat /\ (i - 1) + 1 = i /\ i \in 0..n /\ i - 1 \in 0..n
    OBVIOUS
  <2>2. g[i] = add[i][g[i - 1]] /\ g[i - 1] \in Nat
    <3> HIDE DEF add
    <3>1. g \in [Nat -> Nat] /\ \A x \in Nat : g[x + 1] = add[x + 1][g[x]]
      BY <1>2 DEF Follows
    <3>2. g[(i - 1) + 1] = add[(i - 1) + 1][g[i - 1]] BY <2>1, <3>1
    <3> QED BY <2>1, <3>1, <3>2
  <2>3. add[i][g[i - 1]] = term[i] + g[i - 1] BY <2>1, <2>2
  <2> HIDE DEF add
  <2> QED BY <2>1, <2>2, <2>3
<1> HIDE DEF f
<1>5. RunningSum(f, n, term, base) BY <1>3, <1>4 DEF RunningSum
<1> QED BY <1>5

-----------------------------------------------------------------------------
(***************************************************************************)
(* Powers and fractions.                                                   *)
(***************************************************************************)
LEMMA PowerIs ==
    ASSUME NEW b \in Nat \ {0}, NEW e \in Nat
    PROVE  /\ Power(b, 0) = 1 /\ Power(b, e) \in Nat \ {0}
           /\ Power(b, e + 1) = b * Power(b, e)
<1> DEFINE p == CHOOSE f : f = [i \in Nat |-> IF i = 0 THEN 1 ELSE b * f[i - 1]]
           step == [i \in Nat |-> [x \in Nat |-> b * x]]
<1>1. \E f : f = [i \in Nat |-> IF i = 0 THEN 1 ELSE b * f[i - 1]]
  <2>1. step \in Steps(Nat) /\ 1 \in Nat BY DEF Steps
  <2>2. PICK f : Follows(f, Nat, 1, step)
    <3> HIDE DEF step
    <3> QED BY <2>1, RecursionExists
  <2>3. ASSUME NEW i \in Nat PROVE f[i] = IF i = 0 THEN 1 ELSE b * f[i - 1]
    <3>1. CASE i = 0
      <4>1. f[0] = 1 BY <2>2 DEF Follows
      <4> QED BY <3>1, <4>1
    <3>2. CASE i # 0
      <4>1. i - 1 \in Nat /\ (i - 1) + 1 = i BY <3>2
      <4>2. f[i] = step[i][f[i - 1]] /\ f[i - 1] \in Nat BY <2>2, <4>1 DEF Follows
      <4>3. f[i] = b * f[i - 1] BY <4>2
      <4> QED BY <3>2, <4>3
    <3> QED BY <3>1, <3>2
  <2>4. f = [i \in Nat |-> IF i = 0 THEN 1 ELSE b * f[i - 1]] BY <2>2, <2>3 DEF Follows
  <2> QED BY <2>4
<1>2. p = [i \in Nat |-> IF i = 0 THEN 1 ELSE b * p[i - 1]] BY <1>1
<1>3. \A x \in Nat : Power(b, x) = p[x] BY DEF Power
<1> HIDE DEF p
<1>4. p[0] = 1 BY <1>2
<1>5. ASSUME NEW i \in Nat PROVE p[i + 1] = b * p[i]
  <2>1. i + 1 \in Nat /\ i + 1 # 0 /\ (i + 1) - 1 = i OBVIOUS
  <2> QED BY <1>2, <2>1
<1> DEFINE S == {i \in Nat : p[i] \in Nat \ {0}}
<1>6. S = Nat
  <2>1. 0 \in S BY <1>4
  <2>2. ASSUME NEW i \in S PROVE i + 1 \in S
    <3>1. i \in Nat /\ p[i] \in Nat /\ p[i] > 0 /\ b > 0 OBVIOUS
    <3>2. b * p[i] \in Nat /\ b * p[i] > 0 BY <3>1
    <3> QED BY <1>5, <3>1, <3>2
  <2>3. S \in SUBSET Nat OBVIOUS
  <2> HIDE DEF S
  <2> QED BY <2>1, <2>2, <2>3, NatSetInduction
<1>7. e \in S BY <1>6
<1> QED BY <1>3, <1>4, <1>5, <1>7

\* The powers of a factor above 1 only grow: n^r / d^r <= n^s / d^s.
LEMMA FactorsGrow ==
    ASSUME NEW n \in Nat \ {0}, NEW d \in Nat \ {0}, d <= n, NEW r \in Nat, NEW k \in Nat
    PROVE  Power(n, r) * Power(d, r + k) <= Power(n, r + k) * Power(d, r)
<1> DEFINE S == {i \in Nat : Power(n, r) * Power(d, r + i) <= Power(n, r + i) * Power(d, r)}
<1>1. 0 \in S BY PowerIs
<1>2. ASSUME NEW i \in S PROVE i + 1 \in S
  <2> DEFINE N == Power(n, r)
             D == Power(d, r)
             N1 == Power(n, r + i)
             D1 == Power(d, r + i)
  <2>1. N \in Nat /\ D \in Nat /\ N1 \in Nat /\ D1 \in Nat /\ r + i \in Nat BY PowerIs
  <2>2. r + (i + 1) = (r + i) + 1 /\ Power(n, r + (i + 1)) = n * N1
        /\ Power(d, r + (i + 1)) = d * D1
    BY <2>1, PowerIs
  <2>3. N * D1 <= N1 * D OBVIOUS
  <2> HIDE DEF N, D, N1, D1
  <2>4. N * (d * D1) <= (n * N1) * D
    <3>1. N * D1 \in Nat /\ N1 * D \in Nat BY <2>1
    <3>2. d * (N * D1) <= d * (N1 * D) BY <2>3, <3>1, ProductsGrow
    <3>3. (N1 * D) * d <= (N1 * D) * n BY <3>1, ProductsGrow
    <3>4. d * (N1 * D) = (N1 * D) * d /\ N * (d * D1) = d * (N * D1)
          /\ (n * N1) * D = (N1 * D) * n
      BY <2>1
    <3>5. d * (N * D1) \in Int /\ (N1 * D) * d \in Int /\ (N1 * D) * n \in Int BY <3>1
    <3> QED BY <3>2, <3>3, <3>4, <3>5
  <2> QED BY <2>2, <2>4 DEF N, D, N1, D1
<1>3. S \in SUBSET Nat OBVIOUS
<1> HIDE DEF S
<1>4. S = Nat BY <1>1, <1>2, <1>3, NatSetInduction
<1> QED BY <1>4 DEF S

-----------------------------------------------------------------------------
(***************************************************************************)
(* Rounding.                                                               *)
(***************************************************************************)
\* The rounding of n / d is within half of it, and even when it is a half off.
LEMMA RoundIs ==
    ASSUME NEW n \in Nat, NEW d \in Nat \ {0}
    PROVE  LET m == RoundHalfEven(n, d) IN
           /\ m \in Nat
           /\ 2 * (m * d) - d <= 2 * n /\ 2 * n <= 2 * (m * d) + d
           /\ 2 * n = 2 * (m * d) - d \/ 2 * n = 2 * (m * d) + d => m % 2 = 0
<1> DEFINE q == n \div d
           r == n % d
           m == RoundHalfEven(n, d)
<1>1. q \in Nat /\ r \in Nat /\ r < d /\ n = d * q + r OBVIOUS
<1>2. m = IF 2 * r > d \/ (2 * r = d /\ q % 2 = 1) THEN q + 1 ELSE q
  BY DEF RoundHalfEven
<1> HIDE DEF q, r, m
<1>3. d * q = q * d /\ q * d \in Nat /\ (q + 1) * d = q * d + d BY <1>1
<1>4. q % 2 = 1 \/ q % 2 = 0 BY <1>1
<1>5. CASE 2 * r > d \/ (2 * r = d /\ q % 2 = 1)
  <2>1. m = q + 1 BY <1>2, <1>5
  <2>2. m * d = q * d + d BY <1>3, <2>1
  <2>3. 2 * (m * d) - d <= 2 * n /\ 2 * n < 2 * (m * d) + d
    BY <1>1, <1>3, <1>5, <2>2
  <2>4. 2 * n = 2 * (m * d) - d => 2 * r = d BY <1>1, <1>3, <2>2
  <2>5. 2 * r = d => m % 2 = 0
    <3>1. 2 * r = d => q % 2 = 1 BY <1>1, <1>5
    <3>2. q % 2 = 1 => (q + 1) % 2 = 0 BY <1>1
    <3> QED BY <2>1, <3>1, <3>2
  <2>6. m \in Nat BY <1>1, <2>1
  <2> QED BY <1>1, <1>3, <2>2, <2>3, <2>4, <2>5, <2>6 DEF m
<1>6. CASE ~(2 * r > d \/ (2 * r = d /\ q % 2 = 1))
  <2>1. m = q BY <1>2, <1>6
  <2>2. 2 * (m * d) - d < 2 * n /\ 2 * n <= 2 * (m * d) + d
    BY <1>1, <1>3, <1>6, <2>1
  <2>3. 2 * n = 2 * (m * d) + d => 2 * r = d BY <1>1, <1>3, <2>1
  <2>4. 2 * r = d => m % 2 = 0 BY <1>4, <1>6, <2>1
  <2> QED BY <1>1, <1>3, <2>1, <2>2, <2>3, <2>4 DEF m
<1> QED BY <1>5, <1>6

\* Rounding keeps the order of fractions.
LEMMA RoundingGrows ==
    ASSUME NEW a \in Nat, NEW b \in Nat \ {0}, NEW c \in Nat, NEW d \in Nat \ {0},
           a * d <= c * b
    PROVE  RoundHalfEven(a, b) <= RoundHalfEven(c, d)
<1> DEFINE m == RoundHalfEven(a, b)
           k == RoundHalfEven(c, d)
           u == b * d
<1>1. /\ m \in Nat /\ k \in Nat
      /\ 2 * (m * b) - b <= 2 * a
      /\ 2 * a = 2 * (m * b) - b => m % 2 = 0
      /\ 2 * c <= 2 * (k * d) + d
      /\ 2 * c = 2 * (k * d) + d => k % 2 = 0
  BY RoundIs
<1> HIDE DEF m, k
<1> SUFFICES ASSUME m > k PROVE FALSE BY <1>1 DEF m, k
<1>2. u \in Nat /\ u > 0 /\ a * d \in Nat /\ c * b \in Nat OBVIOUS
<1>3. 2 * (m * u) - u <= 2 * (a * d)
  <2>1. d * (2 * (m * b) - b) <= d * (2 * a)
    <3>1. 2 * (m * b) - b \in Int /\ 2 * a \in Int BY <1>1
    <3> HIDE DEF u
    <3> QED BY <1>1, <3>1, ProductsGrow
  <2>2. d * (2 * (m * b) - b) = 2 * (m * (b * d)) - b * d BY <1>1
  <2>3. d * (2 * a) = 2 * (a * d) OBVIOUS
  <2> QED BY <2>1, <2>2, <2>3
<1>4. 2 * (c * b) <= 2 * (k * u) + u
  <2>1. b * (2 * c) <= b * (2 * (k * d) + d)
    <3>1. 2 * (k * d) + d \in Int /\ 2 * c \in Int BY <1>1
    <3> HIDE DEF u
    <3> QED BY <1>1, <3>1, ProductsGrow
  <2>2. b * (2 * (k * d) + d) = 2 * (k * (b * d)) + b * d BY <1>1
  <2>3. b * (2 * c) = 2 * (c * b) OBVIOUS
  <2> QED BY <2>1, <2>2, <2>3
<1>5. m * u = k * u + u /\ m = k + 1
  <2>1. m * u \in Int /\ k * u \in Int BY <1>1, <1>2
  <2>2. m * u = k * u + u + (m - k - 1) * u BY <1>1, <1>2
  <2>3. m - k - 1 > 0 => (m - k - 1) * u > 0 BY <1>1, <1>2
  <2>4. m - k - 1 = 0 => (m - k - 1) * u = 0 BY <1>1, <1>2
  <2>5. (m - k - 1) * u \in Int /\ m - k - 1 \in Nat BY <1>1, <1>2
  <2> HIDE DEF u
  <2> QED BY <1>1, <1>2, <1>3, <1>4, <2>1, <2>2, <2>3, <2>4, <2>5
<1>6. 2 * (a * d) = 2 * (m * u) - u /\ 2 * (c * b) = 2 * (k * u) + u
  <2>1. m * u \in Int /\ k * u \in Int BY <1>1, <1>2
  <2> DEFINE v == m * u
             w == k * u
             x == a * d
             y == c * b
  <2>2. v \in Int /\ w \in Int /\ x \in Int /\ y \in Int /\ x <= y BY <1>2, <2>1
  <2>3. 2 * v - u <= 2 * x /\ 2 * y <= 2 * w + u /\ v = w + u BY <1>3, <1>4, <1>5
  <2>4. u \in Int BY <1>2
  <2> HIDE DEF u, v, w, x, y
  <2>5. 2 * x = 2 * v - u /\ 2 * y = 2 * w + u BY <2>2, <2>3, <2>4
  <2> QED BY <2>5 DEF v, w, x, y
<1>7. 2 * a = 2 * (m * b) - b
  <2> DEFINE x == 2 * a - (2 * (m * b) - b)
  <2>1. x \in Int BY <1>1
  <2>2. d * x = 2 * (a * d) - (2 * (m * (b * d)) - b * d) BY <1>1
  <2>3. d * x = 0 BY <1>1, <1>2, <1>6, <2>2
  <2>4. x = 0
    <3> HIDE DEF x
    <3> QED BY <2>1, <2>3
  <2> QED BY <1>1, <2>4
<1>8. 2 * c = 2 * (k * d) + d
  <2> DEFINE x == 2 * c - (2 * (k * d) + d)
  <2>1. x \in Int BY <1>1
  <2>2. b * x = 2 * (c * b) - (2 * (k * (b * d)) + b * d) BY <1>1
  <2>3. b * x = 0 BY <1>1, <1>2, <1>6, <2>2
  <2>4. x = 0
    <3> HIDE DEF x
    <3> QED BY <2>1, <2>3
  <2> QED BY <1>1, <2>4
<1> QED BY <1>1, <1>5, <1>7, <1>8

\* So does rounding down.
LEMMA FloorsGrow ==
    ASSUME NEW a \in Nat, NEW b \in Nat \ {0}, NEW c \in Nat, NEW d \in Nat \ {0},
           a * d <= c * b
    PROVE  a \div b \in Nat /\ c \div d \in Nat /\ a \div b <= c \div d
<1> DEFINE m == a \div b
           k == c \div d
<1>1. m \in Nat /\ k \in Nat /\ b * m <= a /\ c < d * k + d OBVIOUS
<1> HIDE DEF m, k
<1> SUFFICES ASSUME m >= k + 1 PROVE FALSE BY <1>1 DEF m, k
<1>2. d * (b * m) <= d * a
  <2>1. b * m \in Int BY <1>1
  <2> QED BY <1>1, <2>1, ProductsGrow
<1>3. b * (c + 1) <= b * (d * k + d)
  <2>1. c + 1 \in Int /\ d * k + d \in Int /\ c + 1 <= d * k + d
    <3>1. d * k \in Int BY <1>1
    <3> QED BY <1>1, <3>1
  <2> QED BY <2>1, ProductsGrow
<1>4. (b * d) * (k + 1) <= (b * d) * m
  <2>1. b * d \in Nat /\ k + 1 \in Int /\ m \in Int BY <1>1
  <2> QED BY <2>1, ProductsGrow
<1>5. d * (b * m) = (b * d) * m /\ d * a = a * d /\ b * (c + 1) = c * b + b
      /\ b * (d * k + d) = (b * d) * (k + 1)
  BY <1>1
<1>6. (b * d) * m \in Int /\ a * d \in Int /\ c * b \in Int /\ (b * d) * (k + 1) \in Int
  BY <1>1
<1> QED BY <1>2, <1>3, <1>4, <1>5, <1>6

LEMMA AtMostIsTransitive ==
    ASSUME NEW x \in Fractions, NEW y \in Fractions, NEW z \in Fractions,
           AtMost(x, y), AtMost(y, z)
    PROVE  AtMost(x, z)
<1>1. /\ x.n \in Nat /\ x.d \in Nat \ {0} /\ y.n \in Nat /\ y.d \in Nat \ {0}
      /\ z.n \in Nat /\ z.d \in Nat \ {0}
  BY DEF Fractions
<1>2. x.n * y.d <= y.n * x.d /\ y.n * z.d <= z.n * y.d BY DEF AtMost
<1> DEFINE a == x.n
           b == x.d
           c == y.n
           d == y.d
           e == z.n
           f == z.d
<1>3. a \in Nat /\ b \in Nat /\ c \in Nat /\ d \in Nat \ {0} /\ e \in Nat /\ f \in Nat
  BY <1>1
<1>4. a * d <= c * b /\ c * f <= e * d BY <1>2
<1> HIDE DEF a, b, c, d, e, f
<1>5. f * (a * d) <= f * (c * b) /\ b * (c * f) <= b * (e * d)
  <2>1. a * d \in Int /\ c * b \in Int /\ c * f \in Int /\ e * d \in Int BY <1>3
  <2> QED BY <1>3, <1>4, <2>1, ProductsGrow
<1>6. f * (a * d) = d * (a * f) /\ f * (c * b) = b * (c * f) /\ b * (e * d) = d * (e * b)
  BY <1>3
<1>7. a * f \in Int /\ e * b \in Int /\ d * (a * f) \in Int /\ d * (e * b) \in Int
      /\ b * (c * f) \in Int
  BY <1>3
<1>8. d * (a * f) <= d * (e * b) BY <1>5, <1>6, <1>7
<1>9. a * f <= e * b
  <2> SUFFICES ASSUME a * f >= e * b + 1 PROVE FALSE BY <1>7
  <2>1. d * (e * b + 1) <= d * (a * f)
    <3>1. e * b + 1 \in Int BY <1>7
    <3> QED BY <1>3, <1>7, <3>1, ProductsGrow
  <2>2. d * (e * b + 1) = d * (e * b) + d BY <1>3
  <2> QED BY <1>3, <1>7, <1>8, <2>1, <2>2
<1> QED BY <1>9 DEF AtMost, a, b, e, f

-----------------------------------------------------------------------------
(***************************************************************************)
(* From one rung to a later one.                                           *)
(***************************************************************************)
LEMMA LadderFields ==
    ASSUME NEW l \in Ladders
    PROVE  /\ l.rungs \in Nat /\ l.eta \in Fractions /\ l.epochs \in Nat \ {0}
           /\ l.eta.n \in Nat \ {0} /\ l.eta.d \in Nat \ {0}
           /\ l.fraction \in Fractions /\ AtMost(l.fraction, Frac(1, 1))
           /\ l.resolution \in {Native} \cup {n \in Nat : n >= 4}
           /\ l.resolution \in Nat /\ l.native \in Nat
           /\ l.scaleEpochs \in BOOLEAN /\ l.scaleFraction \in BOOLEAN
           /\ l.scaleResolution \in BOOLEAN
BY LadderAssumption, SMT DEF Fractions, Native

LEMMA FactorIs ==
    ASSUME NEW l \in Ladders, NEW r \in Nat
    PROVE  /\ Factor(l, r).n = Power(l.eta.n, r) /\ Factor(l, r).n \in Nat \ {0}
           /\ Factor(l, r).d = Power(l.eta.d, r) /\ Factor(l, r).d \in Nat \ {0}
BY LadderFields, PowerIs DEF Factor, Frac

LEMMA FactorGrows ==
    ASSUME NEW l \in Ladders, Usable(l), NEW r \in Nat, NEW k \in Nat
    PROVE  Factor(l, r).n * Factor(l, r + k).d <= Factor(l, r + k).n * Factor(l, r).d
<1>1. l.eta.n \in Nat \ {0} /\ l.eta.d \in Nat \ {0} /\ l.eta.d <= l.eta.n
  BY LadderFields DEF Usable
<1>2. r + k \in Nat OBVIOUS
<1> DEFINE n == l.eta.n
           d == l.eta.d
<1>3. n \in Nat \ {0} /\ d \in Nat \ {0} /\ d <= n BY <1>1
<1>4. /\ Factor(l, r).n = Power(n, r) /\ Factor(l, r).d = Power(d, r)
      /\ Factor(l, r + k).n = Power(n, r + k) /\ Factor(l, r + k).d = Power(d, r + k)
  BY <1>2, FactorIs
<1> HIDE DEF n, d
<1>5. Power(n, r) * Power(d, r + k) <= Power(n, r + k) * Power(d, r)
  BY <1>3, FactorsGrow
<1> QED BY <1>4, <1>5

\* What is scaled and rounded grows.
LEMMA ScaledRoundsGrow ==
    ASSUME NEW l \in Ladders, Usable(l), NEW r \in Nat, NEW k \in Nat, NEW x \in Nat
    PROVE  LET low == RoundHalfEven(x * Factor(l, r).n, Factor(l, r).d)
               high == RoundHalfEven(x * Factor(l, r + k).n, Factor(l, r + k).d)
           IN low \in Nat /\ high \in Nat /\ low <= high
<1> DEFINE N == Factor(l, r).n
           D == Factor(l, r).d
           M == Factor(l, r + k).n
           C == Factor(l, r + k).d
<1>1. N \in Nat \ {0} /\ D \in Nat \ {0} /\ M \in Nat \ {0} /\ C \in Nat \ {0}
  BY FactorIs
<1>2. N * C <= M * D BY FactorGrows
<1> HIDE DEF N, D, M, C
<1>3. x * (N * C) <= x * (M * D)
  <2>1. N * C \in Int /\ M * D \in Int BY <1>1
  <2> QED BY <1>2, <2>1, ProductsGrow
<1>4. x * (N * C) = (x * N) * C /\ x * (M * D) = (x * M) * D BY <1>1
<1>5. x * N \in Nat /\ x * M \in Nat /\ (x * N) * C <= (x * M) * D BY <1>1, <1>3, <1>4
<1>6. RoundHalfEven(x * N, D) \in Nat /\ RoundHalfEven(x * M, C) \in Nat
  BY <1>1, <1>5, RoundIs
<1>7. RoundHalfEven(x * N, D) <= RoundHalfEven(x * M, C)
  BY <1>1, <1>5, RoundingGrows
<1> QED BY <1>6, <1>7 DEF N, D, M, C

LEMMA EpochsGrow ==
    ASSUME NEW l \in Ladders, Usable(l), NEW r \in Nat, NEW k \in Nat
    PROVE  /\ EpochsAt(l, r) \in Nat /\ EpochsAt(l, r) >= 1
           /\ EpochsAt(l, r) <= EpochsAt(l, r + k)
<1>1. l.epochs \in Nat /\ l.epochs >= 1 BY LadderFields
<1> DEFINE low == RoundHalfEven(l.epochs * Factor(l, r).n, Factor(l, r).d)
           high == RoundHalfEven(l.epochs * Factor(l, r + k).n, Factor(l, r + k).d)
<1>2. low \in Nat /\ high \in Nat /\ low <= high BY <1>1, ScaledRoundsGrow
<1>3. /\ EpochsAt(l, r) = IF l.scaleEpochs THEN Larger(1, low) ELSE l.epochs
      /\ EpochsAt(l, r + k) = IF l.scaleEpochs THEN Larger(1, high) ELSE l.epochs
  BY DEF EpochsAt
<1> HIDE DEF low, high
<1> QED BY <1>1, <1>2, <1>3 DEF Larger

LEMMA FractionsGrow ==
    ASSUME NEW l \in Ladders, Usable(l), NEW r \in Nat, NEW k \in Nat
    PROVE  /\ FractionAt(l, r) \in Fractions /\ AtMost(FractionAt(l, r), Frac(1, 1))
           /\ AtMost(FractionAt(l, r), FractionAt(l, r + k))
<1> DEFINE one == Frac(1, 1)
           scaled(x) == Frac(l.fraction.n * Factor(l, x).n, l.fraction.d * Factor(l, x).d)
<1>1. l.fraction \in Fractions /\ AtMost(l.fraction, one) BY LadderFields
<1>2. one \in Fractions BY DEF Frac, Fractions
<1>3. \A x \in Nat : scaled(x) \in Fractions
  <2> SUFFICES ASSUME NEW x \in Nat PROVE scaled(x) \in Fractions OBVIOUS
  <2> DEFINE p == l.fraction.n * Factor(l, x).n
             q == l.fraction.d * Factor(l, x).d
  <2>1. p \in Nat \ {0} /\ q \in Nat \ {0}
    <3> DEFINE a == l.fraction.n
               b == l.fraction.d
               c == Factor(l, x).n
               d == Factor(l, x).d
    <3>1. a \in Nat \ {0} /\ b \in Nat \ {0} BY <1>1 DEF Fractions
    <3>2. c \in Nat \ {0} /\ d \in Nat \ {0} BY FactorIs
    <3> HIDE DEF a, b, c, d
    <3>3. a * c \in Nat \ {0} /\ b * d \in Nat \ {0} BY <3>1, <3>2
    <3> QED BY <3>3 DEF a, b, c, d
  <2> HIDE DEF p, q
  <2> QED BY <2>1 DEF Fractions, Frac, p, q
<1>4. AtMost(scaled(r), scaled(r + k))
  <2> DEFINE a == l.fraction.n
             b == l.fraction.d
             N == Factor(l, r).n
             D == Factor(l, r).d
             M == Factor(l, r + k).n
             C == Factor(l, r + k).d
  <2>1. N \in Nat \ {0} /\ D \in Nat \ {0} /\ M \in Nat \ {0} /\ C \in Nat \ {0}
    BY FactorIs
  <2>2. N * C <= M * D BY FactorGrows
  <2>3. a \in Nat /\ b \in Nat BY <1>1 DEF Fractions
  <2>4. AtMost(Frac(a * N, b * D), Frac(a * M, b * C))
    <3> HIDE DEF a, b, N, D, M, C
    <3>1. (a * b) * (N * C) <= (a * b) * (M * D)
      <4>1. a * b \in Nat /\ N * C \in Int /\ M * D \in Int BY <2>1, <2>3
      <4> QED BY <2>2, <4>1, ProductsGrow
    <3>2. (a * b) * (N * C) = (a * N) * (b * C) /\ (a * b) * (M * D) = (a * M) * (b * D)
      BY <2>1, <2>3
    <3>3. (a * N) * (b * C) <= (a * M) * (b * D) BY <3>1, <3>2
    <3> QED BY <3>3 DEF AtMost, Frac
  <2> QED BY <2>4
<1>5. \A x \in {r, r + k} :
         FractionAt(l, x) = IF ~l.scaleFraction THEN l.fraction
                            ELSE IF AtMost(one, scaled(x)) THEN one ELSE scaled(x)
  BY DEF FractionAt
<1>6. r \in Nat /\ r + k \in Nat OBVIOUS
<1> HIDE DEF scaled, one
<1>7. \A x \in Fractions : AtMost(x, one) \/ AtMost(one, x)
  BY DEF AtMost, Fractions, one, Frac
<1>8. \A x \in Fractions : AtMost(x, x) BY DEF AtMost, Fractions
<1>9. AtMost(one, scaled(r)) => AtMost(one, scaled(r + k))
  BY <1>2, <1>3, <1>4, <1>6, AtMostIsTransitive
<1>10. /\ FractionAt(l, r) \in Fractions /\ AtMost(FractionAt(l, r), one)
       /\ AtMost(FractionAt(l, r), FractionAt(l, r + k))
  <2>1. CASE ~l.scaleFraction BY <1>1, <1>5, <1>8, <2>1
  <2>2. CASE l.scaleFraction /\ AtMost(one, scaled(r))
    BY <1>2, <1>5, <1>8, <1>9, <2>2
  <2>3. CASE l.scaleFraction /\ ~AtMost(one, scaled(r))
    <3>1. FractionAt(l, r) = scaled(r) /\ AtMost(scaled(r), one)
      BY <1>3, <1>5, <1>6, <1>7, <2>3
    <3> QED BY <1>3, <1>4, <1>5, <1>6, <2>3, <3>1
  <2> QED BY <1>1, <2>1, <2>2, <2>3
<1> QED BY <1>10 DEF one

\* The size of rung r's images, whatever the way it is written.
PixelsAt(l, r) ==
    IF ResolutionAt(l, r) = Native THEN l.native ELSE ResolutionAt(l, r)

LEMMA PixelsGrow ==
    ASSUME NEW l \in Ladders, Usable(l), NEW r \in Nat, NEW k \in Nat
    PROVE  /\ ResolutionAt(l, r) = Native \/ ResolutionAt(l, r) >= 4
           /\ PixelsAt(l, r) <= PixelsAt(l, r + k)
<1> DEFINE low == RoundHalfEven(l.resolution * Factor(l, r).n, Factor(l, r).d)
           high == RoundHalfEven(l.resolution * Factor(l, r + k).n, Factor(l, r + k).d)
           even(s) == Smaller(l.native, Larger(4, s - (s % 2)))
<1>1. l.resolution \in Nat /\ l.native \in Nat
      /\ (l.resolution = Native \/ l.resolution >= 4)
  BY LadderFields
<1>2. low \in Nat /\ high \in Nat /\ low <= high BY <1>1, ScaledRoundsGrow
<1>3. /\ ResolutionAt(l, r) = IF ~l.scaleResolution \/ l.resolution = Native
                              THEN l.resolution
                              ELSE IF even(low) >= l.native THEN Native ELSE even(low)
      /\ ResolutionAt(l, r + k) = IF ~l.scaleResolution \/ l.resolution = Native
                                  THEN l.resolution
                                  ELSE IF even(high) >= l.native THEN Native ELSE even(high)
  BY DEF ResolutionAt
<1> HIDE DEF low, high
<1>4. \A s \in Nat : even(s) \in Nat /\ even(s) <= l.native /\ (even(s) < l.native => even(s) >= 4)
  BY <1>1 DEF Smaller, Larger
<1>5. even(low) <= even(high)
  <2>1. low - (low % 2) <= high - (high % 2) BY <1>2
  <2>2. low - (low % 2) \in Int /\ high - (high % 2) \in Int BY <1>2
  <2> DEFINE a == low - (low % 2)
             b == high - (high % 2)
  <2> HIDE DEF a, b
  <2>3. Smaller(l.native, Larger(4, a)) <= Smaller(l.native, Larger(4, b))
    BY <1>1, <2>1, <2>2 DEF Smaller, Larger, a, b
  <2> QED BY <2>3 DEF a, b
<1> DEFINE p == even(low)
           q == even(high)
<1>6. p \in Nat /\ q \in Nat /\ p <= q /\ p <= l.native /\ q <= l.native
      /\ (p < l.native => p >= 4)
  BY <1>2, <1>4, <1>5
<1>7. /\ ResolutionAt(l, r) = IF ~l.scaleResolution \/ l.resolution = Native
                              THEN l.resolution
                              ELSE IF p >= l.native THEN Native ELSE p
      /\ ResolutionAt(l, r + k) = IF ~l.scaleResolution \/ l.resolution = Native
                                  THEN l.resolution
                                  ELSE IF q >= l.native THEN Native ELSE q
  BY <1>3
<1> HIDE DEF p, q
<1>8. CASE ~l.scaleResolution \/ l.resolution = Native
  <2>1. ResolutionAt(l, r) = l.resolution /\ ResolutionAt(l, r + k) = l.resolution
    BY <1>7, <1>8
  <2> QED BY <1>1, <2>1 DEF PixelsAt
<1>9. CASE ~(~l.scaleResolution \/ l.resolution = Native)
  <2>1. /\ ResolutionAt(l, r) = IF p >= l.native THEN Native ELSE p
        /\ ResolutionAt(l, r + k) = IF q >= l.native THEN Native ELSE q
    BY <1>7, <1>9
  <2>2. PixelsAt(l, r) = p
    <3>1. CASE p >= l.native BY <1>1, <1>6, <2>1, <3>1 DEF PixelsAt
    <3>2. CASE p < l.native BY <1>1, <1>6, <2>1, <3>2 DEF PixelsAt, Native
    <3> QED BY <1>1, <1>6, <3>1, <3>2
  <2>3. PixelsAt(l, r + k) = q
    <3>1. CASE q >= l.native BY <1>1, <1>6, <2>1, <3>1 DEF PixelsAt
    <3>2. CASE q < l.native BY <1>1, <1>6, <2>1, <3>2 DEF PixelsAt, Native
    <3> QED BY <1>1, <1>6, <3>1, <3>2
  <2> QED BY <1>1, <1>6, <2>1, <2>2, <2>3
<1> QED BY <1>8, <1>9

LEMMA SizesShrink ==
    ASSUME NEW l \in Ladders, Usable(l), NEW r \in Nat, NEW k \in Nat, NEW n \in Nat
    PROVE  /\ SizeAt(l, n, r) \in Nat /\ SizeAt(l, n, r) >= 1
           /\ SizeAt(l, n, r + k) <= SizeAt(l, n, r)
<1> DEFINE N == Factor(l, r).n
           D == Factor(l, r).d
           M == Factor(l, r + k).n
           C == Factor(l, r + k).d
<1>1. N \in Nat \ {0} /\ D \in Nat \ {0} /\ M \in Nat \ {0} /\ C \in Nat \ {0}
  BY FactorIs
<1>2. N * C <= M * D BY FactorGrows
<1>3. SizeAt(l, n, r) = Larger(1, (n * D) \div N) BY DEF SizeAt
<1>4. SizeAt(l, n, r + k) = Larger(1, (n * C) \div M) BY DEF SizeAt
<1> HIDE DEF N, D, M, C
<1>5. (n * C) * N <= (n * D) * M
  <2>1. N * C \in Int /\ M * D \in Int BY <1>1
  <2>2. n * (N * C) <= n * (M * D) BY <1>2, <2>1, ProductsGrow
  <2>3. n * (N * C) = (n * C) * N /\ n * (M * D) = (n * D) * M BY <1>1
  <2> QED BY <2>2, <2>3
<1> DEFINE a == n * C
           b == n * D
<1>6. a \in Nat /\ b \in Nat /\ a * N <= b * M BY <1>1, <1>5
<1> HIDE DEF a, b
<1>7. a \div M \in Nat /\ b \div N \in Nat /\ a \div M <= b \div N
  BY <1>1, <1>6, FloorsGrow
<1> DEFINE x == (n * C) \div M
           y == (n * D) \div N
<1>8. x \in Nat /\ y \in Nat /\ x <= y BY <1>7 DEF a, b
<1> HIDE DEF x, y
<1>9. SizeAt(l, n, r) = Larger(1, y) /\ SizeAt(l, n, r + k) = Larger(1, x)
  BY <1>3, <1>4 DEF x, y
<1> QED BY <1>8, <1>9 DEF Larger

-----------------------------------------------------------------------------
(***************************************************************************)
(* The whole bracket.                                                      *)
(***************************************************************************)
LEMMA PowersAdd ==
    ASSUME NEW b \in Nat \ {0}, NEW e \in Nat, NEW k \in Nat
    PROVE  Power(b, e) * Power(b, k) = Power(b, e + k)
<1> DEFINE S == {i \in Nat : Power(b, e) * Power(b, i) = Power(b, e + i)}
<1>1. 0 \in S BY PowerIs
<1>2. ASSUME NEW i \in S PROVE i + 1 \in S
  <2>1. i \in Nat /\ e + i \in Nat /\ e + (i + 1) = (e + i) + 1 OBVIOUS
  <2> DEFINE p == Power(b, e)
             q == Power(b, i)
             r == Power(b, e + i)
  <2>2. p \in Nat /\ q \in Nat /\ r \in Nat /\ p * q = r BY <2>1, PowerIs
  <2>3. Power(b, i + 1) = b * q /\ Power(b, e + (i + 1)) = b * r BY <2>1, PowerIs
  <2> HIDE DEF p, q, r
  <2>4. p * (b * q) = b * (p * q) BY <2>2
  <2>5. p * Power(b, i + 1) = Power(b, e + (i + 1)) BY <2>2, <2>3, <2>4
  <2> QED BY <2>1, <2>5 DEF p
<1>3. S \in SUBSET Nat OBVIOUS
<1> HIDE DEF S
<1>4. S = Nat BY <1>1, <1>2, <1>3, NatSetInduction
<1> QED BY <1>4 DEF S

LEMMA PowersAbove ==
    ASSUME NEW n \in Nat \ {0}, NEW d \in Nat \ {0}, d < n, NEW e \in Nat \ {0}
    PROVE  Power(d, e) < Power(n, e)
<1> DEFINE k == e - 1
           p == Power(d, k)
           q == Power(n, k)
<1>1. k \in Nat /\ e = k + 1 /\ 0 + k = k OBVIOUS
<1> HIDE DEF k
<1>2. Power(n, 0) * Power(d, 0 + k) <= Power(n, 0 + k) * Power(d, 0)
  <2>1. d <= n /\ 0 \in Nat OBVIOUS
  <2> QED BY <1>1, <2>1, FactorsGrow
<1>3. p \in Nat \ {0} /\ q \in Nat \ {0} /\ Power(d, e) = d * p /\ Power(n, e) = n * q
  BY <1>1, PowerIs
<1>4. Power(n, 0) = 1 /\ Power(d, 0) = 1 BY PowerIs
<1>5. p <= q BY <1>1, <1>2, <1>3, <1>4
<1> HIDE DEF p, q
<1>6. n * p <= n * q BY <1>3, <1>5, ProductsGrow
<1>7. n * p = d * p + (n - d) * p BY <1>3
<1>8. (n - d) * p > 0 BY <1>3
<1>9. n * p \in Int /\ n * q \in Int /\ d * p \in Int /\ (n - d) * p \in Int BY <1>3
<1> QED BY <1>3, <1>6, <1>7, <1>8, <1>9

LEMMA TotalIs ==
    ASSUME NEW s, NEW n \in Nat, Len(s) = n, \A i \in 1..n : s[i] \in Nat
    PROVE  \E t : RunningSum(t, n, [i \in 1..n |-> s[i]], 0) /\ Total(s) = t[n]
<1> DEFINE term == [i \in 1..n |-> s[i]]
           eq(f) == f = [i \in 0..n |-> IF i = 0 THEN 0 ELSE s[i] + f[i - 1]]
<1>1. term \in [1..n -> Nat] OBVIOUS
<1>2. \E f : eq(f)
  <2>1. PICK f : RunningSum(f, n, term, 0)
    <3> HIDE DEF term
    <3> QED BY <1>1, SumExists
  <2>2. f \in [0..n -> Nat] /\ f[0] = 0 /\ \A i \in 1..n : f[i] = term[i] + f[i - 1]
    BY <2>1 DEF RunningSum
  <2>3. ASSUME NEW i \in 0..n PROVE f[i] = IF i = 0 THEN 0 ELSE s[i] + f[i - 1]
    <3>1. CASE i = 0 BY <2>2, <3>1
    <3>2. CASE i # 0
      <4>1. i \in 1..n BY <3>2
      <4> QED BY <2>2, <3>2, <4>1
    <3> QED BY <3>1, <3>2
  <2>4. eq(f) BY <2>2, <2>3
  <2> QED BY <2>4
<1> DEFINE t == CHOOSE f : eq(f)
<1>3. eq(t) BY <1>2
<1>4. Total(s) = t[n] BY DEF Total
<1> HIDE DEF t
<1>5. t[0] = 0 BY <1>3
<1>6. \A i \in 1..n : t[i] = s[i] + t[i - 1]
  <2> SUFFICES ASSUME NEW i \in 1..n PROVE t[i] = s[i] + t[i - 1] OBVIOUS
  <2>1. i \in 0..n /\ i # 0 OBVIOUS
  <2> QED BY <1>3, <2>1
<1> DEFINE S == {i \in Nat : i \in 0..n => t[i] \in Nat}
<1>7. S = Nat
  <2>1. 0 \in S BY <1>5
  <2>2. ASSUME NEW i \in S PROVE i + 1 \in S
    <3>1. SUFFICES ASSUME i + 1 \in 0..n PROVE t[i + 1] \in Nat OBVIOUS
    <3>2. i \in 0..n /\ i + 1 \in 1..n /\ (i + 1) - 1 = i /\ i \in Nat BY <3>1
    <3>3. t[i] \in Nat /\ s[i + 1] \in Nat BY <3>2
    <3> QED BY <1>6, <3>2, <3>3
  <2>3. S \in SUBSET Nat OBVIOUS
  <2> HIDE DEF S
  <2> QED BY <2>1, <2>2, <2>3, NatSetInduction
<1>8. \A i \in 0..n : t[i] \in Nat
  <2> SUFFICES ASSUME NEW i \in 0..n PROVE t[i] \in Nat OBVIOUS
  <2>1. i \in S BY <1>7
  <2> QED BY <2>1
<1>9. t \in [0..n -> Nat]
  <2> DEFINE body(i) == IF i = 0 THEN 0 ELSE s[i] + t[i - 1]
  <2>1. t = [i \in 0..n |-> body(i)] BY <1>3
  <2> HIDE DEF body
  <2> QED BY <1>8, <2>1
<1>10. RunningSum(t, n, term, 0) BY <1>5, <1>6, <1>9 DEF RunningSum
<1> QED BY <1>4, <1>10

\* What rung r adds to the geometric sum, over the common denominator.
ShareOf(l, r) == Factor(l, r).d * Power(l.eta.n, l.rungs - 1 - r)

LEMMA GeometricSumIs ==
    ASSUME NEW l \in Ladders, Usable(l)
    PROVE  LET last == l.rungs - 1 IN
           \E g : /\ RunningSum(g, last, [r \in 1..last |-> ShareOf(l, r)], ShareOf(l, 0))
                  /\ GeometricSum(l).n = g[last]
                  /\ GeometricSum(l).d = Power(l.eta.n, last)
<1> DEFINE last == l.rungs - 1
           share(r) == Power(l.eta.d, r) * Power(l.eta.n, last - r)
           term == [r \in 1..last |-> ShareOf(l, r)]
           eq(f) == f = [r \in 0..last |-> share(r) + (IF r = 0 THEN 0 ELSE f[r - 1])]
<1>1. last \in Nat /\ l.eta.n \in Nat \ {0} /\ l.eta.d \in Nat \ {0}
  BY LadderFields DEF Usable
<1> HIDE DEF last
<1>2. \A r \in 0..last : share(r) \in Nat /\ share(r) = ShareOf(l, r)
  <2> SUFFICES ASSUME NEW r \in 0..last
               PROVE  share(r) \in Nat /\ share(r) = ShareOf(l, r)
    OBVIOUS
  <2>1. r \in Nat /\ last - r \in Nat BY <1>1
  <2>2. Power(l.eta.d, r) \in Nat /\ Power(l.eta.n, last - r) \in Nat
    <3> DEFINE a == l.eta.n
               b == l.eta.d
    <3>1. a \in Nat \ {0} /\ b \in Nat \ {0} BY <1>1
    <3> HIDE DEF a, b
    <3>2. Power(b, r) \in Nat /\ Power(a, last - r) \in Nat BY <2>1, <3>1, PowerIs
    <3> QED BY <3>2 DEF a, b
  <2>3. share(r) \in Nat BY <2>2
  <2>4. Factor(l, r).d = Power(l.eta.d, r) BY <2>1, FactorIs
  <2>5. ShareOf(l, r) = share(r) BY <2>4 DEF ShareOf, last
  <2> QED BY <2>3, <2>5
<1> HIDE DEF share
<1>3. 0 \in 0..last /\ \A r \in 1..last : r \in 0..last /\ r # 0 BY <1>1
<1>4. term \in [1..last -> Nat] /\ ShareOf(l, 0) \in Nat BY <1>2, <1>3
<1>5. \E f : eq(f)
  <2>1. PICK f : RunningSum(f, last, term, ShareOf(l, 0))
    <3> HIDE DEF term
    <3> QED BY <1>1, <1>4, SumExists
  <2>2. f \in [0..last -> Nat] /\ f[0] = ShareOf(l, 0)
        /\ \A i \in 1..last : f[i] = term[i] + f[i - 1]
    BY <2>1 DEF RunningSum
  <2>3. ASSUME NEW r \in 0..last
        PROVE  f[r] = share(r) + (IF r = 0 THEN 0 ELSE f[r - 1])
    <3>1. CASE r = 0
      <4>1. f[0] = share(0) /\ share(0) \in Nat BY <1>2, <1>3, <2>2
      <4> QED BY <3>1, <4>1
    <3>2. CASE r # 0
      <4>1. r \in 1..last BY <1>1, <3>2
      <4>2. f[r] = ShareOf(l, r) + f[r - 1] BY <2>2, <4>1
      <4> QED BY <1>2, <3>2, <4>2
    <3> QED BY <3>1, <3>2
  <2>4. eq(f) BY <2>2, <2>3
  <2> QED BY <2>4
<1> DEFINE g == CHOOSE f : eq(f)
<1>6. eq(g) BY <1>5
<1>7. GeometricSum(l) = Frac(g[last], Power(l.eta.n, last))
  BY DEF GeometricSum, last, share
<1> HIDE DEF g
<1>8. g[0] = ShareOf(l, 0)
  <2>1. g[0] = share(0) + 0 BY <1>3, <1>6
  <2> QED BY <1>2, <1>3, <2>1
<1>9. \A i \in 1..last : g[i] = ShareOf(l, i) + g[i - 1]
  <2> SUFFICES ASSUME NEW i \in 1..last PROVE g[i] = ShareOf(l, i) + g[i - 1] OBVIOUS
  <2>1. i \in 0..last /\ i # 0 BY <1>3
  <2> QED BY <1>2, <1>6, <2>1
<1> DEFINE S == {i \in Nat : i \in 0..last => g[i] \in Nat}
<1>10. S = Nat
  <2>1. 0 \in S BY <1>4, <1>8
  <2>2. ASSUME NEW i \in S PROVE i + 1 \in S
    <3>1. SUFFICES ASSUME i + 1 \in 0..last PROVE g[i + 1] \in Nat OBVIOUS
    <3>2. i \in 0..last /\ i + 1 \in 1..last /\ (i + 1) - 1 = i /\ i \in Nat BY <1>1, <3>1
    <3>3. g[i] \in Nat /\ ShareOf(l, i + 1) \in Nat BY <1>2, <3>1, <3>2
    <3> QED BY <1>9, <3>2, <3>3
  <2>3. S \in SUBSET Nat OBVIOUS
  <2> HIDE DEF S
  <2> QED BY <2>1, <2>2, <2>3, NatSetInduction
<1>11. \A i \in 0..last : g[i] \in Nat
  <2> SUFFICES ASSUME NEW i \in 0..last PROVE g[i] \in Nat OBVIOUS
  <2>1. i \in S BY <1>1, <1>10
  <2> QED BY <2>1
<1>12. g \in [0..last -> Nat]
  <2> DEFINE body(r) == share(r) + (IF r = 0 THEN 0 ELSE g[r - 1])
  <2>1. g = [r \in 0..last |-> body(r)] BY <1>6
  <2> HIDE DEF body
  <2> QED BY <1>11, <2>1
<1>13. RunningSum(g, last, term, ShareOf(l, 0)) BY <1>8, <1>9, <1>12 DEF RunningSum
<1>14. GeometricSum(l).n = g[last] /\ GeometricSum(l).d = Power(l.eta.n, last)
  BY <1>7 DEF Frac
<1>15. \E f : /\ RunningSum(f, last, term, ShareOf(l, 0))
              /\ GeometricSum(l).n = f[last]
              /\ GeometricSum(l).d = Power(l.eta.n, last)
  BY <1>13, <1>14
<1> QED BY <1>15 DEF last

\* While the last size is not the floor of one, no size is.
LEMMA SizesAboveOne ==
    ASSUME NEW l \in Ladders, Usable(l), NEW r \in Nat, NEW k \in Nat, NEW c \in Nat,
           c * Factor(l, r + k).d >= Factor(l, r + k).n
    PROVE  Factor(l, r).n * SizeAt(l, c, r) <= c * Factor(l, r).d
<1> DEFINE N == Factor(l, r).n
           D == Factor(l, r).d
           M == Factor(l, r + k).n
           C == Factor(l, r + k).d
<1>1. N \in Nat \ {0} /\ D \in Nat \ {0} /\ M \in Nat \ {0} /\ C \in Nat \ {0}
  BY FactorIs
<1>2. N * C <= M * D BY FactorGrows
<1>3. SizeAt(l, c, r) = Larger(1, (c * D) \div N) BY DEF SizeAt
<1>4. c * C >= M OBVIOUS
<1> HIDE DEF N, D, M, C
<1>5. c * D >= N
  <2> SUFFICES ASSUME c * D <= N - 1 PROVE FALSE
    <3>1. c * D \in Int BY <1>1
    <3> QED BY <1>1, <3>1
  <2>1. C * (c * D) <= C * (N - 1)
    <3>1. c * D \in Int /\ N - 1 \in Int BY <1>1
    <3> QED BY <1>1, <3>1, ProductsGrow
  <2>2. D * M <= D * (c * C)
    <3>1. c * C \in Int BY <1>1
    <3> QED BY <1>1, <1>4, <3>1, ProductsGrow
  <2>3. C * (c * D) = D * (c * C) /\ C * (N - 1) = N * C - C /\ D * M = M * D BY <1>1
  <2>4. N * C \in Int /\ M * D \in Int /\ D * (c * C) \in Int BY <1>1
  <2> QED BY <1>1, <1>2, <2>1, <2>2, <2>3, <2>4
<1> DEFINE a == c * D
           q == a \div N
<1>6. a \in Nat /\ a >= N BY <1>1, <1>5
<1>7. q \in Nat /\ N * q <= a /\ q >= 1
  <2> HIDE DEF a
  <2> QED BY <1>1, <1>6
<1>8. SizeAt(l, c, r) = q
  <2>1. SizeAt(l, c, r) = Larger(1, q) BY <1>3
  <2> HIDE DEF q
  <2> QED BY <1>7, <2>1 DEF Larger
<1>9. N * SizeAt(l, c, r) <= c * D
  <2> HIDE DEF q
  <2> QED BY <1>7, <1>8
<1> QED BY <1>9 DEF N, D

\* What rung r costs, against what the geometric sum sets aside for it.
LEMMA RungFits ==
    ASSUME NEW l \in Ladders, Usable(l), NEW r \in 0..(l.rungs - 1), NEW c \in Nat,
           c * Factor(l, l.rungs - 1).d >= Factor(l, l.rungs - 1).n
    PROVE  /\ ShareOf(l, r) \in Nat
           /\ Power(l.eta.n, l.rungs - 1) * SizeAt(l, c, r) <= c * ShareOf(l, r)
<1> DEFINE last == l.rungs - 1
           k == last - r
           b == l.eta.n
<1>1. last \in Nat /\ r \in Nat /\ k \in Nat /\ r + k = last /\ b \in Nat \ {0}
  BY LadderFields DEF Usable
<1> DEFINE x == Power(b, r)
           y == Power(b, k)
           D == Factor(l, r).d
           s == SizeAt(l, c, r)
<1>2. x \in Nat /\ y \in Nat /\ x * y = Power(b, last)
  <2> HIDE DEF b, k, last
  <2> QED BY <1>1, PowerIs, PowersAdd
<1>3. Factor(l, r).n = x /\ D \in Nat BY <1>1, FactorIs
<1>4. s \in Nat BY <1>1, SizesShrink
<1>5. x * s <= c * D
  <2>1. c * Factor(l, r + k).d >= Factor(l, r + k).n BY <1>1
  <2> HIDE DEF k
  <2>2. Factor(l, r).n * SizeAt(l, c, r) <= c * Factor(l, r).d
    BY <1>1, <2>1, SizesAboveOne
  <2> QED BY <1>3, <2>2
<1>6. ShareOf(l, r) = D * y BY DEF ShareOf
<1> HIDE DEF x, y, D, s
<1>7. y * (x * s) <= y * (c * D)
  <2>1. x * s \in Int /\ c * D \in Int BY <1>2, <1>3, <1>4
  <2> QED BY <1>2, <1>5, <2>1, ProductsGrow
<1>8. y * (x * s) = (x * y) * s /\ y * (c * D) = c * (D * y) /\ D * y \in Nat
  BY <1>2, <1>3, <1>4
<1>9. Power(b, last) * s <= c * ShareOf(l, r) BY <1>2, <1>6, <1>7, <1>8
<1>10. ShareOf(l, r) \in Nat BY <1>6, <1>8
<1> QED BY <1>9, <1>10 DEF s

\* The derived number of candidates keeps the geometric sum within m.
LEMMA DerivedFits ==
    ASSUME NEW l \in Ladders, Usable(l), NEW m \in Nat \ {0},
           NEW c, c = InitialCandidates(l, m),
           c * Factor(l, l.rungs - 1).d >= Factor(l, l.rungs - 1).n,
           GeometricSum(l).n \in Nat \ {0}
    PROVE  c \in Nat /\ c * GeometricSum(l).n <= m * Power(l.eta.n, l.rungs - 1)
<1> DEFINE last == l.rungs - 1
           N == Power(l.eta.n, last)
           S == GeometricSum(l).n
           q == (m * N) \div S
<1>1. last \in Nat /\ l.eta.n \in Nat \ {0} /\ l.eta.d \in Nat \ {0} /\ l.eta.d < l.eta.n
  BY LadderFields DEF Usable
<1>2. N \in Nat \ {0} /\ GeometricSum(l).d = N
  <2>1. GeometricSum(l).d = N BY GeometricSumIs
  <2>2. N \in Nat \ {0} BY <1>1, FactorIs
  <2> QED BY <2>1, <2>2
<1>3. S \in Nat \ {0} OBVIOUS
<1>4. c = Larger(1, q) BY <1>2 DEF InitialCandidates
<1>5. q \in Nat /\ S * q <= m * N
  <2> DEFINE a == m * N
  <2>1. a \in Nat
    <3> HIDE DEF N
    <3> QED BY <1>2
  <2> HIDE DEF a, S
  <2>2. a \div S \in Nat /\ S * (a \div S) <= a BY <1>3, <2>1
  <2> QED BY <2>2 DEF a
<1>6. CASE q >= 1
  <2> HIDE DEF q, N, S
  <2>1. c = q BY <1>4, <1>5, <1>6 DEF Larger
  <2>2. c * S <= m * N BY <1>3, <1>5, <2>1
  <2> QED BY <1>5, <2>1, <2>2 DEF N, S
<1>7. CASE q = 0
  <2>1. c = 1
    <3> HIDE DEF q
    <3> QED BY <1>4, <1>7 DEF Larger
  <2>2. last = 0
    <3>1. Power(l.eta.d, last) >= Power(l.eta.n, last)
      <4>1. /\ Factor(l, last).d = Power(l.eta.d, last) /\ Factor(l, last).n = Power(l.eta.n, last)
            /\ Factor(l, last).d \in Nat
        BY <1>1, FactorIs
      <4>2. 1 * Factor(l, last).d = Factor(l, last).d BY <4>1
      <4> QED BY <2>1, <4>1, <4>2
    <3> SUFFICES ASSUME last # 0 PROVE FALSE OBVIOUS
    <3> DEFINE a == l.eta.n
               b == l.eta.d
    <3>2. a \in Nat \ {0} /\ b \in Nat \ {0} /\ b < a /\ last \in Nat \ {0} BY <1>1
    <3>3. Power(b, last) >= Power(a, last) BY <3>1
    <3> HIDE DEF a, b, last
    <3>4. Power(b, last) < Power(a, last) BY <3>2, PowersAbove
    <3>5. Power(b, last) \in Nat /\ Power(a, last) \in Nat BY <3>2, PowerIs
    <3> QED BY <3>3, <3>4, <3>5
  <2>3. N = 1
    <3> DEFINE a == l.eta.n
    <3>1. a \in Nat \ {0} BY <1>1
    <3> HIDE DEF a
    <3>2. Power(a, 0) = 1 BY <3>1, PowerIs
    <3> QED BY <2>2, <3>2 DEF a
  <2>4. S = 1
    <3>1. PICK g : /\ RunningSum(g, last, [r \in 1..last |-> ShareOf(l, r)], ShareOf(l, 0))
                   /\ S = g[last]
      <4>1. \E g : /\ RunningSum(g, last, [r \in 1..last |-> ShareOf(l, r)], ShareOf(l, 0))
                   /\ S = g[last]
        BY GeometricSumIs
      <4> QED BY <4>1
    <3>2. S = ShareOf(l, 0) BY <2>2, <3>1 DEF RunningSum
    <3>3. ShareOf(l, 0) = Factor(l, 0).d * Power(l.eta.n, 0)
      BY <2>2 DEF ShareOf
    <3>4. Factor(l, 0).d = Power(l.eta.d, 0) BY FactorIs
    <3>5. Power(l.eta.n, 0) = 1 /\ Power(l.eta.d, 0) = 1
      <4> DEFINE a == l.eta.n
                 b == l.eta.d
      <4>1. a \in Nat \ {0} /\ b \in Nat \ {0} BY <1>1
      <4> HIDE DEF a, b
      <4>2. Power(a, 0) = 1 /\ Power(b, 0) = 1 BY <4>1, PowerIs
      <4> QED BY <4>2 DEF a, b
    <3> QED BY <3>2, <3>3, <3>4, <3>5
  <2>5. c * S <= m * N
    <3> HIDE DEF S, N
    <3> QED BY <2>1, <2>3, <2>4
  <2> QED BY <2>1, <2>5
<1> QED
  <2> HIDE DEF q
  <2> QED BY <1>5, <1>6, <1>7

LEMMA BracketFits ==
    ASSUME NEW l \in Ladders, Usable(l), NEW m \in Nat \ {0},
           NEW c \in Nat, c = InitialCandidates(l, m),
           c * Factor(l, l.rungs - 1).d >= Factor(l, l.rungs - 1).n,
           NEW s, Len(s) = l.rungs, \A i \in 1..l.rungs : s[i] = SizeAt(l, c, i - 1)
    PROVE  Total(s) <= m
<1> DEFINE last == l.rungs - 1
           N == Power(l.eta.n, last)
           S == GeometricSum(l).n
           share == [r \in 1..last |-> ShareOf(l, r)]
           term == [i \in 1..l.rungs |-> s[i]]
<1>1. last \in Nat /\ l.rungs \in Nat /\ l.rungs = last + 1 BY LadderFields DEF Usable
<1>2. N \in Nat \ {0} BY <1>1, FactorIs
<1>3. PICK g : RunningSum(g, last, share, ShareOf(l, 0)) /\ S = g[last]
  <2>1. \E g : RunningSum(g, last, share, ShareOf(l, 0)) /\ S = g[last] BY GeometricSumIs
  <2> HIDE DEF share, S, last
  <2> QED BY <2>1
<1>4. \A r \in 0..last : /\ SizeAt(l, c, r) \in Nat /\ ShareOf(l, r) \in Nat
                         /\ N * SizeAt(l, c, r) <= c * ShareOf(l, r)
  <2> SUFFICES ASSUME NEW r \in 0..last
               PROVE  /\ SizeAt(l, c, r) \in Nat /\ ShareOf(l, r) \in Nat
                      /\ N * SizeAt(l, c, r) <= c * ShareOf(l, r)
    OBVIOUS
  <2>1. SizeAt(l, c, r) \in Nat
    <3>1. r \in Nat /\ 0 \in Nat BY <1>1
    <3> QED BY <3>1, SizesShrink
  <2> QED BY <2>1, RungFits
<1>5. \A i \in 1..l.rungs : i - 1 \in 0..last /\ s[i] = SizeAt(l, c, i - 1) /\ s[i] \in Nat
  BY <1>1, <1>4
<1>6. PICK t : RunningSum(t, l.rungs, term, 0) /\ Total(s) = t[l.rungs]
  <2>1. \E t : RunningSum(t, l.rungs, term, 0) /\ Total(s) = t[l.rungs]
    BY <1>1, <1>5, TotalIs
  <2> HIDE DEF term
  <2> QED BY <2>1
<1>7. /\ g \in [0..last -> Nat] /\ g[0] = ShareOf(l, 0)
      /\ \A r \in 1..last : g[r] = ShareOf(l, r) + g[r - 1]
  BY <1>3 DEF RunningSum
<1>8. /\ t \in [0..l.rungs -> Nat] /\ t[0] = 0
      /\ \A i \in 1..l.rungs : t[i] = s[i] + t[i - 1]
  BY <1>6 DEF RunningSum
<1>9. ShareOf(l, 0) >= 1
  <2>1. Factor(l, 0).d \in Nat \ {0} /\ last - 0 = last BY FactorIs, <1>1
  <2>2. ShareOf(l, 0) = Factor(l, 0).d * N BY <2>1 DEF ShareOf
  <2> DEFINE d == Factor(l, 0).d
  <2>3. d \in Nat /\ d > 0 BY <2>1
  <2> HIDE DEF d, N
  <2>4. d * N > 0 BY <1>2, <2>3
  <2> QED BY <2>2, <2>4, <1>4, <1>1 DEF d
<1> DEFINE I == {i \in Nat : i \in 0..last => g[i] >= 1 /\ N * t[i + 1] <= c * g[i]}
<1> HIDE DEF last, N, S, share, term
<1>10. I = Nat
  <2>1. 0 \in I
    <3>1. 0 \in 0..last /\ 1 \in 1..l.rungs BY <1>1
    <3>2. t[1] = s[1] + t[0] /\ s[1] = SizeAt(l, c, 0) /\ s[1] \in Nat
      BY <1>5, <1>8, <3>1
    <3>3. t[1] = SizeAt(l, c, 0) BY <1>8, <3>2
    <3> QED BY <1>4, <1>7, <1>9, <3>1, <3>3
  <2>2. ASSUME NEW i \in I PROVE i + 1 \in I
    <3>1. SUFFICES ASSUME i + 1 \in 0..last
                   PROVE  g[i + 1] >= 1 /\ N * t[(i + 1) + 1] <= c * g[i + 1]
      OBVIOUS
    <3>2. /\ i \in Nat /\ i \in 0..last /\ i + 1 \in 1..last /\ (i + 1) - 1 = i
          /\ i + 2 \in 1..l.rungs /\ (i + 2) - 1 = i + 1 /\ (i + 1) + 1 = i + 2
          /\ i + 1 \in 0..l.rungs
      BY <1>1, <3>1
    <3>3. g[i] >= 1 /\ N * t[i + 1] <= c * g[i] BY <3>2
    <3>4. g[i + 1] = ShareOf(l, i + 1) + g[i] BY <1>7, <3>2
    <3>5. t[i + 2] = SizeAt(l, c, i + 1) + t[i + 1] BY <1>5, <1>8, <3>2
    <3> DEFINE a == SizeAt(l, c, i + 1)
               b == ShareOf(l, i + 1)
               x == t[i + 1]
               y == g[i]
    <3>6. /\ a \in Nat /\ b \in Nat /\ x \in Nat /\ y \in Nat
          /\ N * a <= c * b /\ N * x <= c * y /\ y >= 1
      BY <1>4, <1>7, <1>8, <3>1, <3>2, <3>3
    <3>7. t[(i + 1) + 1] = a + x /\ g[i + 1] = b + y BY <3>2, <3>4, <3>5
    <3> HIDE DEF a, b, x, y
    <3>8. N * (a + x) = N * a + N * x /\ c * (b + y) = c * b + c * y BY <1>2, <3>6
    <3>9. N * a \in Int /\ N * x \in Int /\ c * b \in Int /\ c * y \in Int BY <1>2, <3>6
    <3>10. N * (a + x) <= c * (b + y) BY <3>6, <3>8, <3>9, SMTT(40)
    <3> QED BY <3>6, <3>7, <3>10
  <2>3. I \in SUBSET Nat OBVIOUS
  <2> HIDE DEF I
  <2> QED BY <2>1, <2>2, <2>3, NatSetInduction
<1>11. g[last] >= 1 /\ N * t[l.rungs] <= c * g[last]
  <2>1. last \in I /\ last \in 0..last BY <1>1, <1>10
  <2> QED BY <1>1, <2>1
<1>12. c * S <= m * N
  <2>1. S \in Nat \ {0} BY <1>1, <1>3, <1>7, <1>11
  <2> QED BY <2>1, DerivedFits DEF S, N, last
<1>13. N * Total(s) <= m * N
  <2> DEFINE x == t[l.rungs]
             y == g[last]
  <2>1. x \in Nat /\ y \in Nat /\ N * x <= c * y /\ c * y <= m * N /\ Total(s) = x
    BY <1>1, <1>3, <1>6, <1>7, <1>8, <1>11, <1>12
  <2> HIDE DEF x, y
  <2>2. N * x \in Int /\ c * y \in Int /\ m * N \in Int BY <1>2, <2>1
  <2> QED BY <2>1, <2>2
<1>14. Total(s) \in Nat BY <1>1, <1>6, <1>8
<1> SUFFICES ASSUME Total(s) >= m + 1 PROVE FALSE BY <1>14
<1>15. N * (m + 1) <= N * Total(s)
  <2>1. m + 1 \in Int /\ Total(s) \in Int BY <1>14
  <2> QED BY <1>2, <2>1, ProductsGrow
<1>16. N * (m + 1) = m * N + N /\ m * N \in Int BY <1>2
<1> QED BY <1>2, <1>13, <1>14, <1>15, <1>16

-----------------------------------------------------------------------------
(***************************************************************************)
(* The invariant.                                                          *)
(***************************************************************************)
\* The configuration is one the constructor accepted, and what has been
\* appended is what the operators give, rung by rung.
RungsOK ==
    /\ ladder \in Ladders /\ Usable(ladder)
    /\ candidates \in Nat
    /\ budgets \in Seq({BudgetAt(ladder, r) : r \in Nat})
    /\ sizes \in Seq({SizeAt(ladder, candidates, r) : r \in Nat})
    /\ Len(budgets) <= ladder.rungs /\ Len(sizes) = Len(budgets)
    /\ \A i \in 1..Len(budgets) : /\ budgets[i] = BudgetAt(ladder, i - 1)
                                  /\ sizes[i] = SizeAt(ladder, candidates, i - 1)

\* Nothing is appended while the behaviour is about ranking.
LadderOK ==
    /\ RungsOK
    /\ job = "ladder" => /\ allowed \in Nat \ {0}
                         /\ candidates = InitialCandidates(ladder, allowed)
    /\ job # "ladder" => budgets = <<>>

LEMMA GeometricSumPositive ==
    ASSUME NEW l \in Ladders, Usable(l)
    PROVE  GeometricSum(l).n \in Nat \ {0} /\ GeometricSum(l).d \in Nat \ {0}
<1> DEFINE last == l.rungs - 1
           share == [r \in 1..last |-> ShareOf(l, r)]
           S == GeometricSum(l).n
<1>1. last \in Nat BY LadderFields DEF Usable
<1>2. PICK g : RunningSum(g, last, share, ShareOf(l, 0)) /\ S = g[last]
  <2>1. \E g : RunningSum(g, last, share, ShareOf(l, 0)) /\ S = g[last] BY GeometricSumIs
  <2> HIDE DEF share, S, last
  <2> QED BY <2>1
<1>3. GeometricSum(l).d \in Nat \ {0}
  <2>1. GeometricSum(l).d = Power(l.eta.n, last) BY GeometricSumIs
  <2> QED BY <1>1, <2>1, FactorIs
<1>4. \A r \in 0..last : ShareOf(l, r) \in Nat \ {0}
  <2> SUFFICES ASSUME NEW r \in 0..last PROVE ShareOf(l, r) \in Nat \ {0} OBVIOUS
  <2> DEFINE x == Factor(l, r).d
             y == Power(l.eta.n, last - r)
  <2>1. r \in Nat /\ last - r \in Nat BY <1>1
  <2>2. x \in Nat \ {0} /\ y \in Nat \ {0} BY <2>1, FactorIs
  <2>3. ShareOf(l, r) = x * y BY DEF ShareOf
  <2> HIDE DEF x, y
  <2> QED BY <2>2, <2>3
<1>5. /\ g \in [0..last -> Nat] /\ g[0] = ShareOf(l, 0)
      /\ \A r \in 1..last : g[r] = ShareOf(l, r) + g[r - 1]
  BY <1>2 DEF RunningSum
<1> HIDE DEF last, share, S
<1> DEFINE I == {i \in Nat : i \in 0..last => g[i] # 0}
<1>6. I = Nat
  <2>1. 0 \in I
    <3>1. 0 \in 0..last BY <1>1
    <3> QED BY <1>4, <1>5, <3>1
  <2>2. ASSUME NEW i \in I PROVE i + 1 \in I
    <3>1. SUFFICES ASSUME i + 1 \in 0..last PROVE g[i + 1] # 0 OBVIOUS
    <3>2. i \in 0..last /\ i + 1 \in 1..last /\ (i + 1) - 1 = i BY <1>1, <3>1
    <3>3. g[i + 1] = ShareOf(l, i + 1) + g[i] BY <1>5, <3>2
    <3>4. ShareOf(l, i + 1) \in Nat \ {0} /\ g[i] \in Nat BY <1>4, <1>5, <3>1, <3>2
    <3> QED BY <3>3, <3>4
  <2>3. I \in SUBSET Nat OBVIOUS
  <2> HIDE DEF I
  <2> QED BY <2>1, <2>2, <2>3, NatSetInduction
<1>7. g[last] \in Nat \ {0}
  <2>1. last \in I /\ last \in 0..last BY <1>1, <1>6
  <2> QED BY <1>5, <2>1
<1> QED BY <1>2, <1>3, <1>7 DEF S

LEMMA LadderInitOK == Init => LadderOK
<1> SUFFICES ASSUME Init PROVE LadderOK OBVIOUS
<1>1. CASE job = "ladder" /\ LadderInit
  <2>1. ladder \in Ladders /\ Usable(ladder) /\ allowed \in Nat \ {0}
        /\ candidates = InitialCandidates(ladder, allowed) /\ budgets = <<>> /\ sizes = <<>>
    BY <1>1, LadderAssumption DEF LadderInit
  <2>2. ladder.rungs \in Nat BY <2>1, LadderFields
  <2>3. candidates \in Nat
    <3> DEFINE a == allowed * GeometricSum(ladder).d
               S == GeometricSum(ladder).n
               q == a \div S
    <3>1. candidates = Larger(1, q) BY <2>1 DEF InitialCandidates
    <3>2. S \in Nat \ {0} /\ a \in Nat BY <2>1, GeometricSumPositive
    <3>3. q \in Nat
      <4> HIDE DEF a, S
      <4> QED BY <3>2
    <3> HIDE DEF q
    <3> QED BY <3>1, <3>3 DEF Larger
  <2>4. RungsOK BY <2>1, <2>2, <2>3 DEF RungsOK
  <2> QED BY <1>1, <2>1, <2>4 DEF LadderOK
<1>2. CASE job = "ranking" /\ LadderIdle
  <2>1. ladder \in Ladders /\ Usable(ladder) /\ budgets = <<>> /\ sizes = <<>>
        /\ candidates \in Nat
    BY <1>2, LadderAssumption DEF LadderIdle
  <2>2. ladder.rungs \in Nat BY <2>1, LadderFields
  <2>3. RungsOK BY <2>1, <2>2 DEF RungsOK
  <2> QED BY <1>2, <2>1, <2>3 DEF LadderOK
<1> QED BY <1>1, <1>2 DEF Init

LEMMA LadderNextOK == LadderOK /\ [Next]_vars => LadderOK'
<1> SUFFICES ASSUME LadderOK, [Next]_vars PROVE LadderOK' OBVIOUS
<1>1. CASE job = "ladder" /\ AddRung /\ UNCHANGED job
  <2> DEFINE B == {BudgetAt(ladder, r) : r \in Nat}
             Z == {SizeAt(ladder, candidates, r) : r \in Nat}
             n == Len(budgets)
             b == BudgetAt(ladder, n)
             z == SizeAt(ladder, candidates, n)
  <2>1. /\ ladder \in Ladders /\ Usable(ladder) /\ candidates \in Nat
        /\ budgets \in Seq(B) /\ sizes \in Seq(Z) /\ n <= ladder.rungs /\ Len(sizes) = n
        /\ \A i \in 1..n : /\ budgets[i] = BudgetAt(ladder, i - 1)
                           /\ sizes[i] = SizeAt(ladder, candidates, i - 1)
    BY DEF LadderOK, RungsOK
  <2>2. /\ n < ladder.rungs /\ budgets' = Append(budgets, b) /\ sizes' = Append(sizes, z)
        /\ ladder' = ladder /\ candidates' = candidates /\ allowed' = allowed /\ job' = job
    BY <1>1, <2>1 DEF AddRung
  <2>3. n \in Nat /\ ladder.rungs \in Nat BY <2>1, LadderFields
  <2>4. b \in B /\ z \in Z BY <2>3
  <2>5. \A i \in 1..(n + 1) : i \in 1..n \/ (i = n + 1 /\ i - 1 = n) BY <2>3
  <2> HIDE DEF B, Z
  <2>6. /\ budgets' \in Seq(B) /\ sizes' \in Seq(Z)
        /\ Len(budgets') = n + 1 /\ Len(sizes') = n + 1
        /\ \A i \in 1..n : budgets'[i] = budgets[i] /\ sizes'[i] = sizes[i]
        /\ budgets'[n + 1] = b /\ sizes'[n + 1] = z
    BY <2>1, <2>2, <2>4
  <2>7. \A i \in 1..(n + 1) : /\ budgets'[i] = BudgetAt(ladder, i - 1)
                              /\ sizes'[i] = SizeAt(ladder, candidates, i - 1)
    BY <2>1, <2>5, <2>6
  <2>8. n + 1 <= ladder.rungs BY <2>2, <2>3
  <2>9. B' = B /\ Z' = Z
    <3>1. \A r \in Nat : BudgetAt(ladder', r) = BudgetAt(ladder, r)
                         /\ SizeAt(ladder', candidates', r) = SizeAt(ladder, candidates, r)
      BY <2>2
    <3> QED BY <2>2, <3>1 DEF B, Z
  <2>10. RungsOK'
    <3>1. /\ ladder' \in Ladders /\ Usable(ladder)' /\ candidates' \in Nat
          /\ (\A i \in 1..Len(budgets) : /\ budgets[i] = BudgetAt(ladder, i - 1)
                                         /\ sizes[i] = SizeAt(ladder, candidates, i - 1))'
          /\ (Len(budgets) <= ladder.rungs /\ Len(sizes) = Len(budgets))'
      BY <2>1, <2>2, <2>6, <2>7, <2>8
    <3>2. (budgets \in Seq(B) /\ sizes \in Seq(Z))' BY <2>6, <2>9
    <3> QED BY <3>1, <3>2 DEF RungsOK, B, Z
  <2>11. (job = "ladder" => /\ allowed \in Nat \ {0}
                           /\ candidates = InitialCandidates(ladder, allowed))'
    BY <1>1, <2>2 DEF LadderOK
  <2> QED BY <1>1, <2>2, <2>10, <2>11 DEF LadderOK
<1>2. CASE UNCHANGED <<job, lvars>>
  <2>1. ladder' = ladder /\ candidates' = candidates /\ allowed' = allowed
        /\ budgets' = budgets /\ sizes' = sizes /\ job' = job
    BY <1>2 DEF lvars
  <2> QED BY <2>1 DEF LadderOK, RungsOK
<1> QED BY <1>1, <1>2 DEF Next, vars

LEMMA LadderOKHolds == LadderOK => LadderHolds
<1> SUFFICES ASSUME LadderOK PROVE LadderHolds OBVIOUS
<1>1. /\ ladder \in Ladders /\ Usable(ladder) /\ candidates \in Nat
      /\ Len(budgets) \in Nat /\ DOMAIN budgets = 1..Len(budgets)
      /\ Len(budgets) <= ladder.rungs /\ Len(sizes) = Len(budgets)
      /\ \A i \in 1..Len(budgets) : /\ budgets[i] = BudgetAt(ladder, i - 1)
                                    /\ sizes[i] = SizeAt(ladder, candidates, i - 1)
  BY DEF LadderOK, RungsOK
<1>2. \A r \in Nat : /\ BudgetAt(ladder, r).epochs = EpochsAt(ladder, r)
                     /\ BudgetAt(ladder, r).fraction = FractionAt(ladder, r)
                     /\ BudgetAt(ladder, r).resolution = ResolutionAt(ladder, r)
                     /\ SizeOf(BudgetAt(ladder, r)) = PixelsAt(ladder, r)
  BY DEF BudgetAt, SizeOf, PixelsAt
<1>3. ASSUME NEW i \in DOMAIN budgets PROVE BudgetUsable(budgets[i])
  <2> DEFINE r == i - 1
  <2>1. r \in Nat /\ budgets[i] = BudgetAt(ladder, r) /\ 0 \in Nat BY <1>1
  <2> HIDE DEF r
  <2>2. /\ EpochsAt(ladder, r) >= 1
        /\ FractionAt(ladder, r) \in Fractions /\ AtMost(FractionAt(ladder, r), Frac(1, 1))
        /\ ResolutionAt(ladder, r) = Native \/ ResolutionAt(ladder, r) >= 4
    BY <1>1, <2>1, EpochsGrow, FractionsGrow, PixelsGrow
  <2> QED BY <1>2, <2>1, <2>2 DEF BudgetUsable
<1>4. ASSUME NEW i \in DOMAIN budgets, NEW j \in DOMAIN budgets, i < j
      PROVE  /\ budgets[i].epochs <= budgets[j].epochs
             /\ AtMost(budgets[i].fraction, budgets[j].fraction)
             /\ SizeOf(budgets[i]) <= SizeOf(budgets[j])
             /\ sizes[j] <= sizes[i]
  <2> DEFINE r == i - 1
             k == j - i
  <2>1. /\ r \in Nat /\ k \in Nat /\ r + k = j - 1
        /\ budgets[i] = BudgetAt(ladder, r) /\ budgets[j] = BudgetAt(ladder, j - 1)
        /\ sizes[i] = SizeAt(ladder, candidates, r)
        /\ sizes[j] = SizeAt(ladder, candidates, j - 1)
    BY <1>1, <1>4
  <2> HIDE DEF r, k
  <2>2. /\ budgets[j] = BudgetAt(ladder, r + k) /\ r + k \in Nat
        /\ sizes[j] = SizeAt(ladder, candidates, r + k)
    BY <2>1
  <2>3. /\ EpochsAt(ladder, r) <= EpochsAt(ladder, r + k)
        /\ AtMost(FractionAt(ladder, r), FractionAt(ladder, r + k))
        /\ PixelsAt(ladder, r) <= PixelsAt(ladder, r + k)
        /\ SizeAt(ladder, candidates, r + k) <= SizeAt(ladder, candidates, r)
    BY <1>1, <2>1, EpochsGrow, FractionsGrow, PixelsGrow, SizesShrink
  <2> QED BY <1>2, <2>1, <2>2, <2>3
<1>5. LadderClimbs BY <1>3, <1>4 DEF LadderClimbs
<1>6. DerivedBracketFits
  <2>1. SUFFICES ASSUME Complete,
                        candidates * Factor(ladder, ladder.rungs - 1).d
                            >= Factor(ladder, ladder.rungs - 1).n
                 PROVE  Total(sizes) <= allowed
    BY DEF DerivedBracketFits
  <2>2. Len(budgets) = ladder.rungs /\ ladder.rungs >= 1 BY <1>1, <2>1 DEF Complete, Usable
  <2>3. job = "ladder" BY <2>2 DEF LadderOK
  <2>4. allowed \in Nat \ {0} /\ candidates = InitialCandidates(ladder, allowed)
    BY <2>3 DEF LadderOK
  <2>5. Len(sizes) = ladder.rungs
        /\ \A i \in 1..ladder.rungs : sizes[i] = SizeAt(ladder, candidates, i - 1)
    BY <1>1, <2>2
  <2> QED BY <1>1, <2>1, <2>4, <2>5, BracketFits
<1> QED BY <1>5, <1>6 DEF LadderHolds

\* A bracket is one the evaluator accepts and the budget pays: every rung's
\* budget passes TrainingBudget.__post_init__, no rung is cheaper than the one
\* before it in any dimension nor asks for more candidates, and the bracket
\* registry.py derives from max_evaluations fits it while its last size is not
\* the floor of one; whatever the factor, the budgets and the rungs.
THEOREM LadderTheorem == Spec => []LadderHolds
<1>1. Spec => []LadderOK
  BY LadderInitOK, LadderNextOK, PTL DEF Spec
<1>2. LadderOK => LadderHolds BY LadderOKHolds
<1> QED BY <1>1, <1>2, PTL
=============================================================================
