----------------------- MODULE ArchitectureWalkProofs -----------------------
(***************************************************************************)
(* What TLAPS proves of ArchitectureWalk, for every set of valid search    *)
(* spaces and walks of any length.                                         *)
(*                                                                         *)
(* A genotype is settled when its shortcuts and its channel-preserving     *)
(* blocks fit the widths the blocks before them declare, and when the      *)
(* convolutions of a stage agree on its width.  Repair settles a genotype  *)
(* (RepairedIs), leaves a settled one alone (RepairKeeps), and a settled   *)
(* one has shapes and can be built (SettledShapes).  The invariant WalkInv *)
(* says that the current architecture is settled and offered by its space. *)
(* A space may offer ratios and dropouts that a specification rounds.  In  *)
(* one that does not (Exact), what is drawn is offered, and of what each   *)
(* operator returns GoodChild says how the repaired child may differ from  *)
(* its parent and by which door it may leave.  From any valid space the    *)
(* draws and the children are those of the space whose choices have been   *)
(* rounded (Rounded: DrawIs, RoundedNewBlocks), and what that space offers *)
(* the first refuses for its rounding alone (RoundedIssues): this is the   *)
(* sixth door (GoodOffspring, ChildGood).  The estimate is then compared   *)
(* with the network piece by piece: Matches relates the units of the cost  *)
(* model to modules of the network, and is closed under concatenation.     *)
(* What a space says of itself is checked against what can be drawn from   *)
(* it: every draw is the image of a choice that the bound counts           *)
(* (AtMostMany), and a network costs at least its first convolution.       *)
(***************************************************************************)
EXTENDS ArchitectureWalk, TLAPS, FiniteSetTheorems, SequenceTheorems, WellFoundedInduction

-----------------------------------------------------------------------------
(***************************************************************************)
(* Induction and recursion over an interval.                               *)
(***************************************************************************)
Below == {ss \in Nat \X Nat : ss[1] < ss[2]}

\* What induction on the natural numbers needs, for a property that is a set.
LEMMA NatSetInduction ==
    ASSUME NEW T \in SUBSET Nat, 0 \in T, \A n \in T : n + 1 \in T
    PROVE  T = Nat
<1> SUFFICES ASSUME Nat \ T # {} PROVE FALSE OBVIOUS
<1>1. IsWellFoundedOn(Below, Nat)
  BY NatLessThanWellFounded, Zenon DEF OpToRel, Below
<1>2. PICK x \in Nat \ T : \A y \in Nat \ T : ~(<<y, x>> \in Below)
  <2>1. Nat \ T \in SUBSET Nat /\ Nat \ T # {} OBVIOUS
  <2>2. \E x \in Nat \ T : \A y \in Nat \ T : ~(<<y, x>> \in Below) BY <1>1, <2>1, WFMin
  <2> QED BY <2>2
<1>3. x # 0 BY <1>2
<1>4. x - 1 \in Nat /\ (x - 1) + 1 = x BY <1>2, <1>3
<1>5. <<x - 1, x>> \in Below BY <1>2, <1>4 DEF Below
<1>6. x - 1 \in T BY <1>2, <1>4, <1>5
<1> QED BY <1>2, <1>4, <1>6

\* f is what step i makes of the value at i - 1.
Follows(f, T, n, base, step) ==
    /\ f \in [0..n -> T]
    /\ \A i \in 0..n : f[i] = IF i = 0 THEN base ELSE step[i][f[i - 1]]

Steps(T, n) == [1..n -> [T -> T]]

\* Such a function exists, for any steps.
LEMMA RecursionExists ==
    ASSUME NEW T, NEW n \in Nat, NEW base \in T, NEW step \in Steps(T, n)
    PROVE  \E f : Follows(f, T, n, base, step)
<1> USE DEF Steps
<1> DEFINE Prefix(m, f) ==
               /\ f \in [0..m -> T]
               /\ \A i \in 0..m : f[i] = IF i = 0 THEN base ELSE step[i][f[i - 1]]
           E == {m \in Nat : m <= n => \E f : Prefix(m, f)}
<1>1. 0 \in E
  <2>1. Prefix(0, [i \in 0..0 |-> base]) OBVIOUS
  <2> HIDE DEF Prefix
  <2> QED BY <2>1
<1>2. ASSUME NEW m \in E PROVE m + 1 \in E
  <2>1. m \in Nat /\ m + 1 \in Nat OBVIOUS
  <2> SUFFICES ASSUME m + 1 <= n PROVE \E f : Prefix(m + 1, f) BY <2>1
  <2>2. PICK f : Prefix(m, f)
    <3> HIDE DEF Prefix
    <3> QED BY <2>1
  <2> DEFINE g == [i \in 0..(m + 1) |-> IF i = m + 1 THEN step[m + 1][f[m]] ELSE f[i]]
  <2>3. \A i \in 0..(m + 1) : i = m + 1 \/ i \in 0..m BY <2>1
  <2>4. m \in 0..m /\ m + 1 \in 0..(m + 1) /\ m + 1 \in 1..n /\ m + 1 # 0 /\ (m + 1) - 1 = m
    BY <2>1
  <2>5. \A i \in 0..m : i \in 0..(m + 1) /\ i # m + 1 /\ g[i] = f[i] BY <2>1
  <2>6. g[m + 1] = step[m + 1][f[m]] /\ f[m] \in T BY <2>2, <2>4
  <2>7. g \in [0..(m + 1) -> T]
    <3>1. step[m + 1] \in [T -> T] BY <2>4
    <3>2. \A i \in 0..(m + 1) : g[i] \in T BY <2>2, <2>3, <2>5, <2>6, <3>1
    <3> QED BY <3>2
  <2>8. ASSUME NEW i \in 0..(m + 1)
        PROVE  g[i] = IF i = 0 THEN base ELSE step[i][g[i - 1]]
    <3>1. CASE i = m + 1
      <4>1. g[i - 1] = f[m] BY <2>4, <2>5, <3>1
      <4> HIDE DEF g
      <4> QED BY <2>4, <2>6, <3>1, <4>1
    <3>2. CASE i \in 0..m
      <4>1. i = 0 \/ i - 1 \in 0..m BY <3>2
      <4>2. f[i] = IF i = 0 THEN base ELSE step[i][f[i - 1]] BY <2>2, <3>2
      <4>3. g[i] = f[i] /\ (i # 0 => g[i - 1] = f[i - 1]) BY <2>5, <3>2, <4>1
      <4> HIDE DEF g
      <4> QED BY <4>2, <4>3
    <3> QED BY <2>3, <3>1, <3>2
  <2> HIDE DEF g
  <2>9. Prefix(m + 1, g) BY <2>7, <2>8
  <2> HIDE DEF Prefix
  <2> QED BY <2>9
<1>3. E = Nat
  <2>1. E \in SUBSET Nat OBVIOUS
  <2> HIDE DEF E
  <2> QED BY <1>1, <1>2, <2>1, NatSetInduction
<1>4. PICK f : Prefix(n, f)
  <2>1. n \in E
    <3> HIDE DEF E
    <3> QED BY <1>3
  <2> HIDE DEF Prefix
  <2> QED BY <2>1
<1> QED BY <1>4 DEF Follows

-----------------------------------------------------------------------------
(***************************************************************************)
(* Rounding.                                                               *)
(***************************************************************************)
LEMMA FactorsGrow ==
    ASSUME NEW a \in Nat, NEW b \in Nat, NEW c \in Nat, NEW d \in Nat, a <= c, b <= d
    PROVE  a * b \in Nat /\ c * d \in Nat /\ a * b <= c * d
<1>1. a * b <= a * d OBVIOUS
<1>2. a * d <= c * d OBVIOUS
<1>3. a * b \in Nat /\ c * d \in Nat /\ a * d \in Nat OBVIOUS
<1> QED BY <1>1, <1>2, <1>3

\* A float is rounded to a step, and never past one.
LEMMA QuantiseIs ==
    ASSUME NEW v \in Nat
    PROVE  /\ \E n \in Nat : Quantise(v) = Grain * n
           /\ \A n \in Nat : /\ v <= Grain * n => Quantise(v) <= Grain * n
                             /\ v >= Grain * n => Quantise(v) >= Grain * n
<1> DEFINE q == v \div Grain
           r == v % Grain
           up == 2 * r > Grain \/ (2 * r = Grain /\ q % 2 = 1)
<1>1. Grain \in Nat /\ Grain > 0 BY PrecisionAssumption
<1>2. q \in Nat /\ r \in Nat /\ r < Grain /\ v = Grain * q + r BY <1>1
<1>3. Quantise(v) = Grain * (IF up THEN q + 1 ELSE q) BY DEF Quantise
<1>4. r = 0 => ~up BY <1>1
<1> HIDE DEF q, r, up
<1> DEFINE m == IF up THEN q + 1 ELSE q
<1>5. /\ m \in Nat /\ Quantise(v) = Grain * m /\ q <= m /\ m <= q + 1
      /\ r = 0 => m = q
  BY <1>2, <1>3, <1>4
<1> HIDE DEF m
<1>6. Grain * (q + 1) = Grain * q + Grain /\ Grain * q \in Nat BY <1>1, <1>2
<1>7. ASSUME NEW n \in Nat, v <= Grain * n PROVE Grain * m <= Grain * n
  <2>1. m <= n
    <3>1. q <= n
      <4> SUFFICES ASSUME n + 1 <= q PROVE FALSE BY <1>2
      <4>1. Grain * (n + 1) <= Grain * q BY <1>1, <1>2, FactorsGrow
      <4>2. Grain * (n + 1) = Grain * n + Grain /\ Grain * n \in Nat BY <1>1
      <4> QED BY <1>1, <1>2, <1>6, <1>7, <4>1, <4>2
    <3>2. q = n => r = 0
      <4>1. q = n => Grain * q = Grain * n OBVIOUS
      <4> QED BY <1>2, <1>6, <1>7, <4>1
    <3> QED BY <1>2, <1>5, <3>1, <3>2
  <2> QED BY <1>1, <1>5, <2>1, FactorsGrow
<1>8. ASSUME NEW n \in Nat, v >= Grain * n PROVE Grain * m >= Grain * n
  <2>1. n <= q
    <3> SUFFICES ASSUME q + 1 <= n PROVE FALSE BY <1>2
    <3>1. Grain * (q + 1) <= Grain * n /\ Grain * n \in Nat BY <1>1, <1>2, FactorsGrow
    <3> QED BY <1>1, <1>2, <1>6, <1>8, <3>1
  <2>2. n <= m BY <1>2, <1>5, <2>1
  <2> QED BY <1>1, <1>5, <2>2, FactorsGrow
<1> QED BY <1>5, <1>7, <1>8

\* A whole number of steps is left as it is.
LEMMA StepsStay ==
    ASSUME NEW n \in Nat
    PROVE  Quantise(Grain * n) = Grain * n
<1>1. Grain * n \in Nat BY PrecisionAssumption
<1>2. PICK m \in Nat : Quantise(Grain * n) = Grain * m BY <1>1, QuantiseIs
<1>3. Quantise(Grain * n) \in Nat BY <1>2, PrecisionAssumption
<1>4. Quantise(Grain * n) <= Grain * n /\ Quantise(Grain * n) >= Grain * n
  BY <1>1, QuantiseIs
<1> QED BY <1>1, <1>3, <1>4

\* The ratios and the dropouts of a specification, which are rounded.
Expansions == {e \in Nat : 4 * e >= Unit /\ e <= 8 * Unit /\ Quantise(e) = e}

Dropouts == {d \in Nat : 10 * d <= 9 * Unit /\ Quantise(d) = d}

\* Rounding keeps a float within the range it is accepted in.
LEMMA RoundedIs ==
    /\ Unit \in Expansions /\ Unit \in Nat /\ Unit > 0
    /\ \A e \in Expansions : e \in Nat /\ e > 0
    /\ \A v \in Nat : 4 * v >= Unit /\ v <= 8 * Unit => Quantise(v) \in Expansions
    /\ \A d \in Nat : 10 * d <= 9 * Unit => Quantise(d) \in Dropouts
    /\ \A v \in Nat : Quantise(v) \in Nat /\ Quantise(Quantise(v)) = Quantise(v)
<1>1. PICK k \in Nat : k > 0 /\ Precision = 20 * k
  <2>1. Precision \in Nat /\ Precision > 0 /\ Precision % 20 = 0 BY PrecisionAssumption
  <2>2. Precision \div 20 \in Nat /\ Precision \div 20 > 0 /\ Precision = 20 * (Precision \div 20)
    BY <2>1
  <2> QED BY <2>2
<1>2. Grain \in Nat /\ Grain > 0 BY PrecisionAssumption
<1> DEFINE g == Grain * k
<1>3. g \in Nat /\ g > 0 BY <1>1, <1>2
<1>4. /\ Unit = 20 * g /\ Unit = Grain * Precision
      /\ Grain * (5 * k) = 5 * g /\ Grain * (160 * k) = 160 * g /\ Grain * (18 * k) = 18 * g
      /\ 5 * k \in Nat /\ 160 * k \in Nat /\ 18 * k \in Nat /\ Precision \in Nat
  BY <1>1, <1>2 DEF Unit
<1> HIDE DEF g
<1>5. ASSUME NEW v \in Nat PROVE Quantise(v) \in Nat /\ Quantise(Quantise(v)) = Quantise(v)
  <2>1. PICK n \in Nat : Quantise(v) = Grain * n BY QuantiseIs
  <2> QED BY <1>2, <2>1, StepsStay
<1>6. ASSUME NEW v \in Nat, 4 * v >= Unit, v <= 8 * Unit PROVE Quantise(v) \in Expansions
  <2>1. v >= Grain * (5 * k) /\ v <= Grain * (160 * k) BY <1>3, <1>4, <1>6
  <2>2. Quantise(v) >= Grain * (5 * k) /\ Quantise(v) <= Grain * (160 * k)
    BY <1>4, <2>1, QuantiseIs
  <2>3. 4 * Quantise(v) >= Unit /\ Quantise(v) <= 8 * Unit BY <1>3, <1>4, <1>5, <2>2
  <2> QED BY <1>5, <2>3 DEF Expansions
<1>7. ASSUME NEW d \in Nat, 10 * d <= 9 * Unit PROVE Quantise(d) \in Dropouts
  <2>1. d <= Grain * (18 * k) BY <1>3, <1>4, <1>7
  <2>2. Quantise(d) <= Grain * (18 * k) BY <1>4, <2>1, QuantiseIs
  <2>3. 10 * Quantise(d) <= 9 * Unit BY <1>3, <1>4, <1>5, <2>2
  <2> QED BY <1>5, <2>3 DEF Dropouts
<1>8. Unit \in Nat /\ Unit > 0 BY <1>3, <1>4
<1>9. Unit \in Expansions
  <2>1. Quantise(Unit) = Unit BY <1>4, StepsStay
  <2> QED BY <1>8, <2>1 DEF Expansions
<1>10. \A e \in Expansions : e \in Nat /\ e > 0 BY <1>8 DEF Expansions
<1> QED BY <1>5, <1>6, <1>7, <1>8, <1>9, <1>10

-----------------------------------------------------------------------------
(***************************************************************************)
(* Genotypes: what the specification classes accept, in normal form.       *)
(***************************************************************************)
Positive == Nat \ {0}

RawBlocks ==
    [op : OperationTypes, kernel : OddKernels, expansion : Expansions, out : Positive,
     stride : 1..4, residual : BOOLEAN, norm : NormalizationTypes, act : ActivationTypes]

BlockForms == {b \in RawBlocks : Canonical(b) = b}

StageForms == Seq(BlockForms) \ {<<>>}

StemForms ==
    [out : Positive, kernel : OddKernels, stride : 1..4, norm : NormalizationTypes,
     act : ActivationTypes]

RawHeads == [pooling : PoolingTypes, hidden : Nat, dropout : Dropouts, act : ActivationTypes]

HeadForms == {h \in RawHeads : CanonicalHead(h) = h}

Genotypes ==
    [channels : Positive, size : Positive, classes : Positive, stem : StemForms,
     stages : Seq(StageForms) \ {<<>>}, head : HeadForms]

ShapeForms == [channels : Positive, size : Positive]

\* The canonical form is one: it is a block, and its own canonical form.
LEMMA CanonicalIs ==
    ASSUME NEW b \in RawBlocks
    PROVE  /\ Canonical(b) \in BlockForms
           /\ Canonical(b).op = b.op /\ Canonical(b).out = b.out
           /\ UsesKernel(b.op) => Canonical(b).kernel = b.kernel
           /\ b.op # "identity" =>
                 Canonical(b).stride = b.stride /\ Canonical(b).residual = b.residual
<1> DEFINE c == Canonical(b)
<1>1. b.expansion \in Expansions /\ Quantise(b.expansion) = b.expansion
  BY DEF RawBlocks, Expansions
<1>2. /\ c.op = b.op /\ c.out = b.out
      /\ c.kernel = IF UsesKernel(b.op) THEN b.kernel ELSE 1
      /\ c.expansion = IF UsesExpansion(b.op) THEN b.expansion ELSE Unit
      /\ c.stride = IF b.op = "identity" THEN 1 ELSE b.stride
      /\ c.residual = (b.residual /\ b.op # "identity")
      /\ c.norm = IF Parametric(b.op) THEN b.norm ELSE "none"
      /\ c.act = IF Parametric(b.op) THEN b.act ELSE "identity"
  BY <1>1 DEF Canonical
<1>3. c \in RawBlocks
  <2>1. /\ 1 \in OddKernels /\ Unit \in Expansions /\ 1 \in 1..4
        /\ "none" \in NormalizationTypes /\ "identity" \in ActivationTypes
    BY RoundedIs DEF OddKernels, NormalizationTypes, ActivationTypes
  <2>2. (b.residual /\ b.op # "identity") \in BOOLEAN OBVIOUS
  <2> QED BY <1>1, <2>1, <2>2 DEF RawBlocks, Canonical
<1>4. Canonical(c) = c
  <2>1. c.residual = (c.residual /\ c.op # "identity") BY <1>2
  <2>2. UsesExpansion(c.op) => Quantise(c.expansion) = c.expansion BY <1>1, <1>2
  <2> QED BY <1>2, <2>1, <2>2 DEF Canonical
<1> HIDE DEF c
<1>5. b.op # "identity" => c.residual = b.residual BY <1>2 DEF RawBlocks
<1> QED BY <1>2, <1>3, <1>4, <1>5 DEF BlockForms, c

\* The normal form, field by field.
LEMMA NormalForm ==
    ASSUME NEW b \in RawBlocks
    PROVE  b \in BlockForms <=>
             /\ ~UsesKernel(b.op) => b.kernel = 1
             /\ ~UsesExpansion(b.op) => b.expansion = Unit
             /\ b.op = "identity" => b.stride = 1 /\ ~b.residual
             /\ ~Parametric(b.op) => b.norm = "none" /\ b.act = "identity"
<1> DEFINE normal ==
             /\ ~UsesKernel(b.op) => b.kernel = 1
             /\ ~UsesExpansion(b.op) => b.expansion = Unit
             /\ b.op = "identity" => b.stride = 1 /\ ~b.residual
             /\ ~Parametric(b.op) => b.norm = "none" /\ b.act = "identity"
           r == b.residual /\ b.op # "identity"
<1>1. r \in BOOLEAN /\ b.residual \in BOOLEAN BY DEF RawBlocks
<1>2. /\ Canonical(b).op = b.op /\ Canonical(b).out = b.out
      /\ Canonical(b).kernel = IF UsesKernel(b.op) THEN b.kernel ELSE 1
      /\ Canonical(b).expansion = IF UsesExpansion(b.op) THEN b.expansion ELSE Unit
      /\ Canonical(b).stride = IF b.op = "identity" THEN 1 ELSE b.stride
      /\ Canonical(b).residual = r
      /\ Canonical(b).norm = IF Parametric(b.op) THEN b.norm ELSE "none"
      /\ Canonical(b).act = IF Parametric(b.op) THEN b.act ELSE "identity"
  <2>1. Quantise(b.expansion) = b.expansion BY DEF RawBlocks, Expansions
  <2> QED BY <2>1 DEF Canonical
<1>3. Canonical(b) \in RawBlocks BY CanonicalIs DEF BlockForms
<1>4. ASSUME Canonical(b) = b PROVE normal
  <2>1. b.residual = r BY <1>2, <1>4
  <2>2. b.op = "identity" => ~b.residual BY <1>1, <2>1
  <2> HIDE DEF r
  <2> QED BY <1>2, <1>4, <2>2
<1>5. ASSUME normal PROVE Canonical(b) = b
  <2>1. b.residual = r BY <1>1, <1>5
  <2>2. /\ Canonical(b).op = b.op /\ Canonical(b).kernel = b.kernel
        /\ Canonical(b).expansion = b.expansion /\ Canonical(b).out = b.out
        /\ Canonical(b).stride = b.stride /\ Canonical(b).residual = b.residual
        /\ Canonical(b).norm = b.norm /\ Canonical(b).act = b.act
    <3> HIDE DEF r
    <3> QED BY <1>2, <1>5, <2>1
  <2> DEFINE c == Canonical(b)
  <2> HIDE DEF c, normal
  <2> QED BY <1>3, <2>2 DEF RawBlocks, c
<1> HIDE DEF normal
<1> QED BY <1>4, <1>5 DEF BlockForms, normal

-----------------------------------------------------------------------------
(***************************************************************************)
(* One block.                                                              *)
(***************************************************************************)
\* An odd kernel never makes a map vanish, and without a stride it keeps it.
LEMMA ConvSizeIs ==
    ASSUME NEW n \in Positive, NEW k \in OddKernels, NEW s \in 1..4
    PROVE  ConvSize(n, k, s) \in Positive /\ (s = 1 => ConvSize(n, k, s) = n)
<1>1. n + 2 * (k \div 2) - k = n - 1 BY DEF OddKernels, Positive
<1>2. ConvSize(n, k, s) = (n - 1) \div s + 1 BY <1>1 DEF ConvSize
<1>3. (n - 1) \div s \in Nat /\ (n - 1) \div 1 = n - 1 BY DEF Positive
<1> QED BY <1>2, <1>3 DEF Positive

\* What repair makes of a block: the width it is to have, and the shortcut
\* that is legal there.
Fixed(b, width, in) ==
    LET out == IF Parametric(b.op) THEN width ELSE in
    IN [b EXCEPT !.out = out, !.residual = b.residual /\ b.stride = 1 /\ out = in]

LEMMA FixedIs ==
    ASSUME NEW b \in BlockForms, NEW width \in Positive, NEW in \in Positive
    PROVE  LET c == Fixed(b, width, in) IN
           /\ c \in BlockForms
           /\ c.op = b.op /\ c.kernel = b.kernel /\ c.expansion = b.expansion
           /\ c.stride = b.stride /\ c.norm = b.norm /\ c.act = b.act
           /\ c.out = IF Parametric(b.op) THEN width ELSE in
           /\ c.residual <=> b.residual /\ b.stride = 1 /\ c.out = in
<1> DEFINE out == IF Parametric(b.op) THEN width ELSE in
           r == b.residual /\ b.stride = 1 /\ out = in
           c == [b EXCEPT !.out = out, !.residual = r]
<1>1. b \in RawBlocks BY DEF BlockForms
<1>2. out \in Positive /\ r \in BOOLEAN BY DEF RawBlocks
<1>3. r => b.residual OBVIOUS
<1> HIDE DEF out, r
<1>4. c \in RawBlocks BY <1>1, <1>2 DEF RawBlocks
<1>5. /\ c.op = b.op /\ c.kernel = b.kernel /\ c.expansion = b.expansion
      /\ c.stride = b.stride /\ c.norm = b.norm /\ c.act = b.act
      /\ c.out = out /\ c.residual = r
  BY <1>1 DEF RawBlocks
<1>6. Fixed(b, width, in) = c BY DEF Fixed, out, r
<1> HIDE DEF c
<1>7. c.op = "identity" => ~c.residual BY <1>1, <1>3, <1>5, NormalForm
<1>8. c \in BlockForms BY <1>1, <1>4, <1>5, <1>7, NormalForm
<1>9. c.residual <=> b.residual /\ b.stride = 1 /\ c.out = in BY <1>5 DEF r
<1>10. c.out = IF Parametric(b.op) THEN width ELSE in BY <1>5 DEF out
<1> QED BY <1>5, <1>6, <1>8, <1>9, <1>10

LEMMA RepairBlockIs ==
    ASSUME NEW b \in BlockForms, NEW width \in Positive, NEW in \in ShapeForms
    PROVE  RepairBlock(b, width, in) = Fixed(b, width, in.channels)
<1> DEFINE out == IF Parametric(b.op) THEN width ELSE in.channels
           r == b.residual /\ b.stride = 1 /\ out = in.channels
           c == [b EXCEPT !.out = out, !.stride = b.stride, !.residual = r]
<1>1. b \in RawBlocks /\ in.size \in Positive /\ in.channels \in Positive
  BY DEF BlockForms, ShapeForms
<1>2. b.kernel \in OddKernels /\ b.stride \in 1..4 BY <1>1 DEF RawBlocks
<1>3. ConvSize(in.size, b.kernel, b.stride) >= 1 BY <1>1, <1>2, ConvSizeIs DEF Positive
<1>4. RepairBlock(b, width, in) = Evolved(b, c)
  <2> DEFINE size == ConvSize(in.size, b.kernel, b.stride)
             stride == IF size < 1 THEN 1 ELSE b.stride
             d == [b EXCEPT !.out = out, !.stride = stride,
                            !.residual = b.residual /\ stride = 1 /\ out = in.channels]
  <2>1. RepairBlock(b, width, in) = Evolved(b, d) BY DEF RepairBlock
  <2>2. size \in Int /\ ~(size < 1) BY <1>1, <1>2, <1>3, ConvSizeIs DEF Positive
  <2> HIDE DEF size
  <2>3. stride = b.stride BY <2>2
  <2> HIDE DEF stride
  <2>4. d = c BY <2>3
  <2> QED BY <2>1, <2>4
<1>5. c = Fixed(b, width, in.channels)
  <2>1. Fixed(b, width, in.channels) = [b EXCEPT !.out = out, !.residual = r]
    BY DEF Fixed
  <2> HIDE DEF out, r
  <2>2. c = [b EXCEPT !.out = out, !.residual = r] BY <1>1 DEF RawBlocks
  <2> QED BY <2>1, <2>2
<1>6. c \in BlockForms BY <1>1, <1>5, FixedIs
<1> HIDE DEF c
<1>7. Canonical(c) = c BY <1>6 DEF BlockForms
<1> QED BY <1>4, <1>5, <1>7 DEF Evolved

LEMMA BlockShapeIs ==
    ASSUME NEW b \in BlockForms, NEW in \in ShapeForms
    PROVE  /\ BlockShape(b, in) \in ShapeForms
           /\ BlockShape(b, in).channels = IF Parametric(b.op) THEN b.out ELSE in.channels
           /\ b.stride = 1 => BlockShape(b, in).size = in.size
<1>1. b \in RawBlocks /\ in.size \in Positive /\ in.channels \in Positive
  BY DEF BlockForms, ShapeForms
<1>2. b.kernel \in OddKernels /\ b.stride \in 1..4 /\ b.out \in Positive BY <1>1 DEF RawBlocks
<1>3. /\ ConvSize(in.size, b.kernel, b.stride) \in Positive
      /\ b.stride = 1 => ConvSize(in.size, b.kernel, b.stride) = in.size
  BY <1>1, <1>2, ConvSizeIs
<1> QED BY <1>1, <1>2, <1>3 DEF BlockShape, ShapeForms

-----------------------------------------------------------------------------
(***************************************************************************)
(* Shapes.                                                                 *)
(***************************************************************************)
\* Induction over an interval.
LEMMA UpTheInterval ==
    ASSUME NEW n \in Nat, NEW S, 0 \in S, \A i \in 1..n : i - 1 \in S => i \in S
    PROVE  \A i \in 0..n : i \in S
<1> DEFINE T == {i \in Nat : i <= n => i \in S}
<1>1. T \in SUBSET Nat /\ 0 \in T OBVIOUS
<1>2. ASSUME NEW i \in T PROVE i + 1 \in T
  <2>1. i \in Nat /\ i + 1 \in Nat OBVIOUS
  <2> SUFFICES ASSUME i + 1 <= n PROVE i + 1 \in S BY <2>1
  <2>2. i <= n /\ i + 1 \in 1..n /\ (i + 1) - 1 = i BY <2>1
  <2> QED BY <2>2
<1>3. T = Nat
  <2> HIDE DEF T
  <2> QED BY <1>1, <1>2, NatSetInduction
<1> QED BY <1>3

\* The type of a stage, and what its members are.
LEMMA StageIs ==
    ASSUME NEW stage \in StageForms
    PROVE  /\ Len(stage) \in Nat /\ Len(stage) >= 1 /\ DOMAIN stage = 1..Len(stage)
           /\ \A i \in 1..Len(stage) : stage[i] \in BlockForms
<1>1. stage \in Seq(BlockForms) /\ stage # <<>> BY DEF StageForms
<1> QED BY <1>1

\* The trace of a stage is what its equations say.
LEMMA StageTraceIs ==
    ASSUME NEW stage \in StageForms, NEW in \in ShapeForms
    PROVE  LET t == StageTrace(stage, in) IN
           /\ t \in [0..Len(stage) -> ShapeForms]
           /\ t[0] = in
           /\ \A i \in 1..Len(stage) : t[i] = BlockShape(stage[i], t[i - 1])
<1> DEFINE n == Len(stage)
           step == [i \in 1..n |-> [x \in ShapeForms |-> BlockShape(stage[i], x)]]
           eq(f) == f = [i \in 0..n |-> IF i = 0 THEN in ELSE BlockShape(stage[i], f[i - 1])]
<1>1. n \in Nat /\ \A i \in 1..n : stage[i] \in BlockForms BY StageIs
<1> HIDE DEF n
<1>2. step \in Steps(ShapeForms, n) BY <1>1, BlockShapeIs DEF Steps
<1>3. \E f : eq(f)
  <2>1. PICK f : Follows(f, ShapeForms, n, in, step)
    <3> HIDE DEF step
    <3> QED BY <1>1, <1>2, RecursionExists
  <2>2. ASSUME NEW i \in 0..n
        PROVE  f[i] = IF i = 0 THEN in ELSE BlockShape(stage[i], f[i - 1])
    <3>1. f[i] = IF i = 0 THEN in ELSE step[i][f[i - 1]]
      <4> HIDE DEF step
      <4> QED BY <2>1 DEF Follows
    <3>2. CASE i = 0 BY <3>1, <3>2
    <3>3. CASE i # 0
      <4>1. i \in 1..n /\ i - 1 \in 0..n /\ f[i - 1] \in ShapeForms
        <5> HIDE DEF step
        <5> QED BY <1>1, <2>1, <3>3 DEF Follows
      <4>2. step[i][f[i - 1]] = BlockShape(stage[i], f[i - 1]) BY <4>1
      <4> QED BY <3>1, <3>3, <4>2
    <3> QED BY <3>2, <3>3
  <2>3. f \in [0..n -> ShapeForms] BY <2>1 DEF Follows
  <2> QED BY <2>2, <2>3
<1> DEFINE t == CHOOSE f : eq(f)
<1>4. eq(t) BY <1>3
<1>5. StageTrace(stage, in) = t BY DEF StageTrace, n
<1> HIDE DEF t
<1>6. t[0] = in BY <1>1, <1>4
<1>7. ASSUME NEW i \in 1..n PROVE t[i] = BlockShape(stage[i], t[i - 1])
  <2>1. i \in 0..n /\ i # 0 BY <1>1
  <2> QED BY <1>4, <2>1
<1>8. \A i \in 0..n : t[i] \in ShapeForms
  <2> DEFINE S == {i \in 0..n : t[i] \in ShapeForms}
  <2>1. 0 \in S BY <1>1, <1>6
  <2>2. ASSUME NEW i \in 1..n, i - 1 \in S PROVE i \in S
    <3>1. t[i - 1] \in ShapeForms /\ i \in 0..n BY <1>1, <2>2
    <3> QED BY <1>1, <1>7, <3>1, BlockShapeIs
  <2> HIDE DEF S
  <2>3. \A i \in 0..n : i \in S BY <1>1, <2>1, <2>2, UpTheInterval
  <2> QED BY <2>3 DEF S
<1>9. t \in [0..n -> ShapeForms] BY <1>4, <1>8
<1> QED BY <1>5, <1>6, <1>7, <1>9 DEF n

LEMMA RepairTraceIs ==
    ASSUME NEW stage \in StageForms, NEW width \in Positive, NEW in \in ShapeForms
    PROVE  LET t == RepairTrace(stage, width, in)
               c == RepairStage(stage, width, in)
           IN /\ t \in [0..Len(stage) -> ShapeForms]
              /\ t[0] = in
              /\ \A i \in 1..Len(stage) : /\ c[i] = Fixed(stage[i], width, t[i - 1].channels)
                                          /\ t[i] = BlockShape(c[i], t[i - 1])
              /\ c \in StageForms /\ Len(c) = Len(stage)
<1> DEFINE n == Len(stage)
           fix(i, x) == Fixed(stage[i], width, x.channels)
           step == [i \in 1..n |-> [x \in ShapeForms |-> BlockShape(fix(i, x), x)]]
           eq(f) == f = [i \in 0..n |-> IF i = 0 THEN in
                         ELSE BlockShape(RepairBlock(stage[i], width, f[i - 1]), f[i - 1])]
<1>1. n \in Nat /\ n >= 1 /\ \A i \in 1..n : stage[i] \in BlockForms BY StageIs
<1> HIDE DEF n
<1>2. ASSUME NEW i \in 1..n, NEW x \in ShapeForms
      PROVE  /\ RepairBlock(stage[i], width, x) = fix(i, x)
             /\ fix(i, x) \in BlockForms
             /\ BlockShape(fix(i, x), x) \in ShapeForms
  <2>1. x.channels \in Positive BY DEF ShapeForms
  <2>2. fix(i, x) \in BlockForms BY <1>1, <2>1, FixedIs
  <2> QED BY <1>1, <2>2, RepairBlockIs, BlockShapeIs
<1>3. step \in Steps(ShapeForms, n)
  <2> HIDE DEF fix
  <2> QED BY <1>2 DEF Steps
<1>4. \E f : eq(f)
  <2>1. PICK f : Follows(f, ShapeForms, n, in, step)
    <3> HIDE DEF step
    <3> QED BY <1>1, <1>3, RecursionExists
  <2>2. ASSUME NEW i \in 0..n
        PROVE  f[i] = IF i = 0 THEN in
                      ELSE BlockShape(RepairBlock(stage[i], width, f[i - 1]), f[i - 1])
    <3>1. f[i] = IF i = 0 THEN in ELSE step[i][f[i - 1]]
      <4> HIDE DEF step
      <4> QED BY <2>1 DEF Follows
    <3>2. CASE i = 0 BY <3>1, <3>2
    <3>3. CASE i # 0
      <4>1. i \in 1..n /\ i - 1 \in 0..n /\ f[i - 1] \in ShapeForms
        <5> HIDE DEF step
        <5> QED BY <1>1, <2>1, <3>3 DEF Follows
      <4>2. step[i][f[i - 1]] = BlockShape(fix(i, f[i - 1]), f[i - 1])
        <5> HIDE DEF fix
        <5> QED BY <4>1
      <4>3. RepairBlock(stage[i], width, f[i - 1]) = fix(i, f[i - 1])
        <5> HIDE DEF fix
        <5> QED BY <1>2, <4>1
      <4> HIDE DEF fix, step
      <4> QED BY <3>1, <3>3, <4>2, <4>3
    <3> QED BY <3>2, <3>3
  <2>3. f \in [0..n -> ShapeForms] BY <2>1 DEF Follows
  <2> QED BY <2>2, <2>3
<1> DEFINE t == CHOOSE f : eq(f)
           c == RepairStage(stage, width, in)
<1>5. eq(t) BY <1>4
<1>6. RepairTrace(stage, width, in) = t BY DEF RepairTrace, n
<1> HIDE DEF t
<1>7. c = [i \in DOMAIN stage |-> RepairBlock(stage[i], width, t[i - 1])]
  BY <1>6 DEF RepairStage
<1>8. DOMAIN stage = 1..n BY StageIs DEF n
<1> HIDE DEF c
<1>9. t[0] = in BY <1>1, <1>5
<1>10. ASSUME NEW i \in 1..n
       PROVE  t[i] = BlockShape(c[i], t[i - 1]) /\ c[i] = RepairBlock(stage[i], width, t[i - 1])
  <2>1. i \in 0..n /\ i # 0 BY <1>1
  <2> QED BY <1>5, <1>7, <1>8, <2>1
<1>11. \A i \in 0..n : t[i] \in ShapeForms
  <2> DEFINE S == {i \in 0..n : t[i] \in ShapeForms}
  <2>1. 0 \in S BY <1>1, <1>9
  <2>2. ASSUME NEW i \in 1..n, i - 1 \in S PROVE i \in S
    <3>1. t[i - 1] \in ShapeForms /\ i \in 0..n BY <1>1, <2>2
    <3> HIDE DEF fix
    <3> QED BY <1>2, <1>10, <3>1
  <2> HIDE DEF S
  <2>3. \A i \in 0..n : i \in S BY <1>1, <2>1, <2>2, UpTheInterval
  <2> QED BY <2>3 DEF S
<1>12. t \in [0..n -> ShapeForms] BY <1>5, <1>11
<1>13. \A i \in 1..n : c[i] = fix(i, t[i - 1]) /\ c[i] \in BlockForms
  <2> SUFFICES ASSUME NEW i \in 1..n PROVE c[i] = fix(i, t[i - 1]) /\ c[i] \in BlockForms
    OBVIOUS
  <2>1. t[i - 1] \in ShapeForms BY <1>1, <1>11
  <2> HIDE DEF fix
  <2> QED BY <1>2, <1>10, <2>1
<1>14. c \in StageForms /\ Len(c) = n
  <2>1. c \in [1..n -> BlockForms] BY <1>7, <1>8, <1>13
  <2>2. c \in Seq(BlockForms) /\ Len(c) = n BY <1>1, <2>1
  <2> QED BY <1>1, <2>2 DEF StageForms
<1> QED BY <1>6, <1>9, <1>10, <1>12, <1>13, <1>14 DEF n, c

\* The types in a genotype.
LEMMA GenotypeIs ==
    ASSUME NEW a \in Genotypes
    PROVE  /\ a.channels \in Positive /\ a.size \in Positive /\ a.classes \in Positive
           /\ a.stem \in StemForms /\ a.head \in HeadForms
           /\ a.stages \in Seq(StageForms)
           /\ Len(a.stages) \in Nat /\ Len(a.stages) >= 1
           /\ DOMAIN a.stages = 1..Len(a.stages)
           /\ \A s \in 1..Len(a.stages) : a.stages[s] \in StageForms
<1>1. /\ a.channels \in Positive /\ a.size \in Positive /\ a.classes \in Positive
      /\ a.stem \in StemForms /\ a.head \in HeadForms
      /\ a.stages \in Seq(StageForms) /\ a.stages # <<>>
  BY DEF Genotypes
<1> QED BY <1>1

LEMMA PositionsAre ==
    ASSUME NEW a \in Genotypes
    PROVE  /\ \A s \in 1..Len(a.stages) : \A i \in 1..Len(a.stages[s]) :
                 /\ <<s, i>> \in Positions(a)
                 /\ BlockAt(a, <<s, i>>) = a.stages[s][i]
                 /\ a.stages[s][i] \in BlockForms
           /\ \A p \in Positions(a) :
                 /\ p[1] \in 1..Len(a.stages) /\ p[2] \in 1..Len(a.stages[p[1]])
                 /\ p = <<p[1], p[2]>>
                 /\ BlockAt(a, p) \in BlockForms
<1>1. /\ DOMAIN a.stages = 1..Len(a.stages)
      /\ \A s \in 1..Len(a.stages) : /\ DOMAIN a.stages[s] = 1..Len(a.stages[s])
                                     /\ \A i \in 1..Len(a.stages[s]) : a.stages[s][i] \in BlockForms
  BY GenotypeIs, StageIs
<1>2. ASSUME NEW s \in 1..Len(a.stages), NEW i \in 1..Len(a.stages[s])
      PROVE  /\ <<s, i>> \in Positions(a)
             /\ BlockAt(a, <<s, i>>) = a.stages[s][i]
  <2>1. <<s, i>> \in {s} \X DOMAIN a.stages[s] BY <1>1
  <2> QED BY <1>1, <2>1 DEF Positions, BlockAt
<1>3. ASSUME NEW p \in Positions(a)
      PROVE  /\ p[1] \in 1..Len(a.stages) /\ p[2] \in 1..Len(a.stages[p[1]])
             /\ p = <<p[1], p[2]>>
             /\ BlockAt(a, p) \in BlockForms
  <2>1. PICK s \in DOMAIN a.stages : p \in {s} \X DOMAIN a.stages[s] BY DEF Positions
  <2>2. p[1] = s /\ p[2] \in DOMAIN a.stages[s] /\ p = <<p[1], p[2]>> BY <2>1
  <2> QED BY <1>1, <2>2 DEF BlockAt
<1> QED BY <1>1, <1>2, <1>3

LEMMA StemShapeIs ==
    ASSUME NEW a \in Genotypes
    PROVE  StemShape(a) \in ShapeForms /\ StemShape(a).channels = a.stem.out
<1>1. /\ a.size \in Positive
      /\ a.stem.out \in Positive /\ a.stem.kernel \in OddKernels /\ a.stem.stride \in 1..4
  BY GenotypeIs DEF StemForms
<1>2. ConvSize(a.size, a.stem.kernel, a.stem.stride) \in Positive BY <1>1, ConvSizeIs
<1> QED BY <1>1, <1>2 DEF StemShape, ShapeForms

LEMMA ShapesAre ==
    ASSUME NEW a \in Genotypes
    PROVE  LET t == Shapes(a) IN
           /\ t \in [0..Len(a.stages) -> ShapeForms]
           /\ t[0] = StemShape(a)
           /\ \A s \in 1..Len(a.stages) :
                 t[s] = StageTrace(a.stages[s], t[s - 1])[Len(a.stages[s])]
<1> DEFINE n == Len(a.stages)
           next(s, x) == StageTrace(a.stages[s], x)[Len(a.stages[s])]
           step == [s \in 1..n |-> [x \in ShapeForms |-> next(s, x)]]
           base == StemShape(a)
           eq(f) == f = [s \in 0..n |-> IF s = 0 THEN base ELSE next(s, f[s - 1])]
<1>1. n \in Nat /\ \A s \in 1..n : a.stages[s] \in StageForms BY GenotypeIs
<1>2. base \in ShapeForms BY StemShapeIs
<1> HIDE DEF n, base
<1>3. ASSUME NEW s \in 1..n, NEW x \in ShapeForms PROVE next(s, x) \in ShapeForms
  <2>1. a.stages[s] \in StageForms BY <1>1
  <2>2. Len(a.stages[s]) \in 0..Len(a.stages[s]) BY <2>1, StageIs
  <2> QED BY <2>1, <2>2, StageTraceIs
<1>4. step \in Steps(ShapeForms, n)
  <2> HIDE DEF next
  <2> QED BY <1>3 DEF Steps
<1>5. \E f : eq(f)
  <2>1. PICK f : Follows(f, ShapeForms, n, base, step)
    <3> HIDE DEF step
    <3> QED BY <1>1, <1>2, <1>4, RecursionExists
  <2>2. f \in [0..n -> ShapeForms] BY <2>1 DEF Follows
  <2>3. ASSUME NEW s \in 0..n PROVE f[s] = IF s = 0 THEN base ELSE next(s, f[s - 1])
    <3>1. f[s] = IF s = 0 THEN base ELSE step[s][f[s - 1]]
      <4> HIDE DEF step
      <4> QED BY <2>1 DEF Follows
    <3>2. CASE s = 0 BY <3>1, <3>2
    <3>3. CASE s # 0
      <4>1. s \in 1..n /\ s - 1 \in 0..n /\ f[s - 1] \in ShapeForms BY <1>1, <2>2, <3>3
      <4> HIDE DEF next
      <4>2. step[s][f[s - 1]] = next(s, f[s - 1]) BY <4>1
      <4> QED BY <3>1, <3>3, <4>2
    <3> QED BY <3>2, <3>3
  <2> HIDE DEF next
  <2> QED BY <2>2, <2>3
<1> DEFINE t == CHOOSE f : eq(f)
<1>6. eq(t) BY <1>5
<1>7. Shapes(a) = t BY DEF Shapes, n, base
<1> HIDE DEF t
<1>8. t[0] = base BY <1>1, <1>6
<1>9. ASSUME NEW s \in 1..n PROVE t[s] = next(s, t[s - 1])
  <2>1. s \in 0..n /\ s # 0 BY <1>1
  <2> HIDE DEF next
  <2> QED BY <1>6, <2>1
<1>10. \A s \in 0..n : t[s] \in ShapeForms
  <2> DEFINE S == {s \in 0..n : t[s] \in ShapeForms}
  <2>1. 0 \in S BY <1>1, <1>2, <1>8
  <2>2. ASSUME NEW s \in 1..n, s - 1 \in S PROVE s \in S
    <3>1. t[s - 1] \in ShapeForms /\ s \in 0..n BY <1>1, <2>2
    <3> HIDE DEF next
    <3> QED BY <1>3, <1>9, <3>1
  <2> HIDE DEF S
  <2>3. \A s \in 0..n : s \in S BY <1>1, <2>1, <2>2, UpTheInterval
  <2> QED BY <2>3 DEF S
<1>11. t \in [0..n -> ShapeForms]
  <2> HIDE DEF next
  <2> QED BY <1>6, <1>10
<1> QED BY <1>7, <1>8, <1>9, <1>11 DEF n, base

\* A block receives what the block before it leaves, the first of a stage
\* what the stage before it leaves.
LEMMA ShapesFollow ==
    ASSUME NEW a \in Genotypes, NEW s \in 1..Len(a.stages), NEW i \in 1..Len(a.stages[s])
    PROVE  /\ ShapeBefore(a, <<s, i>>) \in ShapeForms
           /\ ShapeAfter(a, <<s, i>>) \in ShapeForms
           /\ i > 1 => ShapeBefore(a, <<s, i>>) = ShapeAfter(a, <<s, i - 1>>)
           /\ i = 1 => ShapeBefore(a, <<s, i>>) = Shapes(a)[s - 1]
           /\ i = Len(a.stages[s]) => ShapeAfter(a, <<s, i>>) = Shapes(a)[s]
<1> DEFINE n == Len(a.stages[s])
           stage == a.stages[s]
           in == Shapes(a)[s - 1]
           t == StageTrace(stage, in)
<1>1. stage \in StageForms /\ n \in Nat /\ n >= 1 /\ in \in ShapeForms
  <2>1. stage \in StageForms /\ s - 1 \in 0..Len(a.stages) BY GenotypeIs
  <2> QED BY <2>1, ShapesAre, StageIs
<1>2. /\ t \in [0..n -> ShapeForms]
      /\ t[0] = in
      /\ \A j \in 1..n : t[j] = BlockShape(stage[j], t[j - 1])
  BY <1>1, StageTraceIs
<1>3. Shapes(a)[s] = t[n] BY ShapesAre
<1>4. ASSUME NEW j \in 1..n
      PROVE  ShapeBefore(a, <<s, j>>) = t[j - 1] /\ ShapeAfter(a, <<s, j>>) = t[j]
  <2>1. ShapeBefore(a, <<s, j>>) = t[j - 1] BY DEF ShapeBefore
  <2>2. BlockAt(a, <<s, j>>) = stage[j] BY DEF BlockAt
  <2> HIDE DEF t, stage, in
  <2> QED BY <1>2, <2>1, <2>2 DEF ShapeAfter
<1> HIDE DEF t, stage, in, n
<1>5. i \in 1..n /\ i \in 0..n /\ i - 1 \in 0..n /\ (i > 1 => i - 1 \in 1..n) BY <1>1 DEF n
<1> QED BY <1>2, <1>3, <1>4, <1>5 DEF n, in

-----------------------------------------------------------------------------
(***************************************************************************)
(* Repair: what it makes of every block, given the blocks it has made.     *)
(***************************************************************************)
PlainStage(stage) == \A i \in 1..Len(stage) : ~Parametric(stage[i].op)

\* A set of numbers with a member has a least one.
LEMMA LeastExists ==
    ASSUME NEW S \in SUBSET Nat, S # {}
    PROVE  \E i \in S : \A j \in S : i <= j
<1>1. IsWellFoundedOn(Below, Nat)
  BY NatLessThanWellFounded, Zenon DEF OpToRel, Below
<1>2. \E x \in S : \A y \in S : ~(<<y, x>> \in Below) BY <1>1, WFMin
<1>3. PICK x \in S : \A y \in S : ~(<<y, x>> \in Below) BY <1>2
<1>4. \A y \in S : x <= y
  <2> SUFFICES ASSUME NEW y \in S PROVE x <= y OBVIOUS
  <2>1. x \in Nat /\ y \in Nat OBVIOUS
  <2>2. ~(y < x) BY <1>3, <2>1 DEF Below
  <2> QED BY <2>1, <2>2
<1> QED BY <1>4

\* The intended width is the width of a convolution, the first, if there is one.
LEMMA IntendedWidthIs ==
    ASSUME NEW stage \in StageForms, NEW in \in Positive
    PROVE  /\ IntendedWidth(stage, in) \in Positive
           /\ PlainStage(stage) => IntendedWidth(stage, in) = in
           /\ ~PlainStage(stage) =>
                 \E i \in 1..Len(stage) : /\ Parametric(stage[i].op)
                                          /\ IntendedWidth(stage, in) = stage[i].out
<1> DEFINE n == Len(stage)
           setters == {i \in DOMAIN stage : Parametric(stage[i].op)}
           least == CHOOSE i \in setters : \A j \in setters : i <= j
<1>1. n \in Nat /\ DOMAIN stage = 1..n /\ \A i \in 1..n : stage[i] \in BlockForms BY StageIs
<1>2. IntendedWidth(stage, in) = IF setters = {} THEN in ELSE stage[least].out
  BY DEF IntendedWidth
<1>3. PlainStage(stage) <=> setters = {} BY <1>1 DEF PlainStage
<1>4. setters \in SUBSET Nat BY <1>1
<1>5. ASSUME setters # {} PROVE least \in setters
  <2> HIDE DEF setters
  <2>1. \E i \in setters : \A j \in setters : i <= j BY <1>4, <1>5, LeastExists
  <2> QED BY <2>1
<1>6. ASSUME NEW i \in setters
      PROVE  i \in 1..n /\ Parametric(stage[i].op) /\ stage[i].out \in Positive
  BY <1>1 DEF BlockForms, RawBlocks
<1> HIDE DEF setters, least
<1> QED BY <1>2, <1>3, <1>5, <1>6

\* The widths repair is given: none, or one for each stage.
Targets(a) == {NoTarget} \cup [1..Len(a.stages) -> Positive]

LEMMA TargetWidthIs ==
    ASSUME NEW a \in Genotypes, NEW widths \in Targets(a), NEW s \in 1..Len(a.stages),
           NEW in \in ShapeForms
    PROVE  /\ TargetWidth(a, widths, s, in) \in Positive
           /\ widths # NoTarget => TargetWidth(a, widths, s, in) = widths[s]
<1>1. a.stages[s] \in StageForms /\ in.channels \in Positive BY GenotypeIs DEF ShapeForms
<1>2. IntendedWidth(a.stages[s], in.channels) \in Positive BY <1>1, IntendedWidthIs
<1>3. widths # NoTarget => widths \in [1..Len(a.stages) -> Positive] BY DEF Targets
<1> QED BY <1>2, <1>3 DEF TargetWidth

LEMMA RepairShapesAre ==
    ASSUME NEW a \in Genotypes, NEW widths \in Targets(a)
    PROVE  LET t == RepairShapes(a, widths) IN
           /\ t \in [0..Len(a.stages) -> ShapeForms]
           /\ t[0] = StemShape(a)
           /\ \A s \in 1..Len(a.stages) :
                 t[s] = RepairTrace(a.stages[s], TargetWidth(a, widths, s, t[s - 1]),
                                    t[s - 1])[Len(a.stages[s])]
<1> DEFINE n == Len(a.stages)
           next(s, x) ==
               RepairTrace(a.stages[s], TargetWidth(a, widths, s, x), x)[Len(a.stages[s])]
           step == [s \in 1..n |-> [x \in ShapeForms |-> next(s, x)]]
           base == StemShape(a)
           eq(f) == f = [s \in 0..n |-> IF s = 0 THEN base ELSE next(s, f[s - 1])]
<1>1. n \in Nat /\ \A s \in 1..n : a.stages[s] \in StageForms BY GenotypeIs
<1>2. base \in ShapeForms BY StemShapeIs
<1>3. ASSUME NEW s \in 1..n, NEW x \in ShapeForms PROVE next(s, x) \in ShapeForms
  <2>1. a.stages[s] \in StageForms /\ TargetWidth(a, widths, s, x) \in Positive
    BY <1>1, TargetWidthIs
  <2>2. Len(a.stages[s]) \in 0..Len(a.stages[s]) BY <2>1, StageIs
  <2> QED BY <2>1, <2>2, RepairTraceIs
<1> HIDE DEF n, base
<1>4. step \in Steps(ShapeForms, n)
  <2> HIDE DEF next
  <2> QED BY <1>3 DEF Steps
<1>5. \E f : eq(f)
  <2>1. PICK f : Follows(f, ShapeForms, n, base, step)
    <3> HIDE DEF step
    <3> QED BY <1>1, <1>2, <1>4, RecursionExists
  <2>2. f \in [0..n -> ShapeForms] BY <2>1 DEF Follows
  <2>3. ASSUME NEW s \in 0..n PROVE f[s] = IF s = 0 THEN base ELSE next(s, f[s - 1])
    <3>1. f[s] = IF s = 0 THEN base ELSE step[s][f[s - 1]]
      <4> HIDE DEF step
      <4> QED BY <2>1 DEF Follows
    <3>2. CASE s = 0 BY <3>1, <3>2
    <3>3. CASE s # 0
      <4>1. s \in 1..n /\ s - 1 \in 0..n /\ f[s - 1] \in ShapeForms BY <1>1, <2>2, <3>3
      <4> HIDE DEF next
      <4>2. step[s][f[s - 1]] = next(s, f[s - 1]) BY <4>1
      <4> QED BY <3>1, <3>3, <4>2
    <3> QED BY <3>2, <3>3
  <2> HIDE DEF next
  <2> QED BY <2>2, <2>3
<1> DEFINE t == CHOOSE f : eq(f)
<1>6. eq(t) BY <1>5
<1>7. RepairShapes(a, widths) = t BY DEF RepairShapes, n, base
<1> HIDE DEF t
<1>8. t[0] = base BY <1>1, <1>6
<1>9. ASSUME NEW s \in 1..n PROVE t[s] = next(s, t[s - 1])
  <2>1. s \in 0..n /\ s # 0 BY <1>1
  <2> HIDE DEF next
  <2> QED BY <1>6, <2>1
<1>10. \A s \in 0..n : t[s] \in ShapeForms
  <2> DEFINE S == {s \in 0..n : t[s] \in ShapeForms}
  <2>1. 0 \in S BY <1>1, <1>2, <1>8
  <2>2. ASSUME NEW s \in 1..n, s - 1 \in S PROVE s \in S
    <3>1. t[s - 1] \in ShapeForms /\ s \in 0..n BY <1>1, <2>2
    <3> HIDE DEF next
    <3> QED BY <1>3, <1>9, <3>1
  <2> HIDE DEF S
  <2>3. \A s \in 0..n : s \in S BY <1>1, <2>1, <2>2, UpTheInterval
  <2> QED BY <2>3 DEF S
<1>11. t \in [0..n -> ShapeForms]
  <2> HIDE DEF next
  <2> QED BY <1>6, <1>10
<1> QED BY <1>7, <1>8, <1>9, <1>11 DEF n, base

\* The width that reaches a stage.
Entering(a, s) == IF s > 1 THEN StageWidth(a.stages[s - 1]) ELSE a.stem.out

WidthFor(a, widths, s, in) ==
    IF widths = NoTarget THEN IntendedWidth(a.stages[s], in) ELSE widths[s]

\* c is a repaired: every block is fixed, given the blocks of c before it.
RepairOf(c, a, widths) ==
    /\ c \in Genotypes
    /\ c = [a EXCEPT !.stages = c.stages]
    /\ Len(c.stages) = Len(a.stages)
    /\ \A s \in 1..Len(a.stages) :
          /\ Len(c.stages[s]) = Len(a.stages[s])
          /\ \A i \in 1..Len(a.stages[s]) :
                c.stages[s][i] = Fixed(a.stages[s][i], WidthFor(a, widths, s, Entering(c, s)),
                                       WidthBefore(c, <<s, i>>))

\* The widths in a genotype.
LEMMA WidthsAre ==
    ASSUME NEW a \in Genotypes, NEW s \in 1..Len(a.stages)
    PROVE  /\ StageWidth(a.stages[s]) = a.stages[s][Len(a.stages[s])].out
           /\ StageWidth(a.stages[s]) \in Positive
           /\ Entering(a, s) \in Positive
           /\ WidthBefore(a, <<s, 1>>) = Entering(a, s)
           /\ \A i \in 1..Len(a.stages[s]) :
                 /\ a.stages[s][i].out \in Positive
                 /\ WidthBefore(a, <<s, i>>) \in Positive
                 /\ i > 1 => WidthBefore(a, <<s, i>>) = a.stages[s][i - 1].out
<1>1. ASSUME NEW t \in 1..Len(a.stages)
      PROVE  /\ StageWidth(a.stages[t]) = a.stages[t][Len(a.stages[t])].out
             /\ Len(a.stages[t]) \in 1..Len(a.stages[t])
             /\ \A i \in 1..Len(a.stages[t]) : a.stages[t][i].out \in Positive
  <2>1. a.stages[t] \in StageForms BY GenotypeIs
  <2>2. /\ Len(a.stages[t]) \in 1..Len(a.stages[t])
        /\ \A i \in 1..Len(a.stages[t]) : a.stages[t][i] \in BlockForms
    BY <2>1, StageIs
  <2> QED BY <2>2 DEF StageWidth, Last, BlockForms, RawBlocks
<1>2. \A t \in 1..Len(a.stages) : StageWidth(a.stages[t]) \in Positive BY <1>1
<1>3. a.stem.out \in Positive BY GenotypeIs DEF StemForms
<1>4. Len(a.stages) \in Nat BY GenotypeIs
<1>5. Entering(a, s) \in Positive
  <2>1. s > 1 => s - 1 \in 1..Len(a.stages) BY <1>4
  <2> QED BY <1>2, <1>3, <2>1 DEF Entering
<1>6. WidthBefore(a, <<s, 1>>) = Entering(a, s) BY DEF WidthBefore, Entering
<1>7. ASSUME NEW i \in 1..Len(a.stages[s])
      PROVE  /\ WidthBefore(a, <<s, i>>) \in Positive
             /\ i > 1 => WidthBefore(a, <<s, i>>) = a.stages[s][i - 1].out
  <2>1. i > 1 => WidthBefore(a, <<s, i>>) = a.stages[s][i - 1].out BY DEF WidthBefore
  <2>2. i > 1 => i - 1 \in 1..Len(a.stages[s]) BY <1>1
  <2>3. i = 1 \/ i > 1 OBVIOUS
  <2> QED BY <1>1, <1>5, <1>6, <2>1, <2>2, <2>3
<1> QED BY <1>1, <1>2, <1>5, <1>6, <1>7

LEMMA RepairIs ==
    ASSUME NEW a \in Genotypes, NEW widths \in Targets(a)
    PROVE  RepairOf(RepairTo(a, widths), a, widths)
<1> DEFINE n == Len(a.stages)
           shapes == RepairShapes(a, widths)
           width(s) == TargetWidth(a, widths, s, shapes[s - 1])
           stages == [s \in DOMAIN a.stages |->
                         RepairStage(a.stages[s], width(s), shapes[s - 1])]
           trace(s) == RepairTrace(a.stages[s], width(s), shapes[s - 1])
           c == RepairTo(a, widths)
<1>1. /\ n \in Nat /\ n >= 1 /\ DOMAIN a.stages = 1..n
      /\ \A s \in 1..n : a.stages[s] \in StageForms
  BY GenotypeIs
<1>2. /\ shapes \in [0..n -> ShapeForms]
      /\ shapes[0] = StemShape(a)
      /\ \A s \in 1..n : shapes[s] = trace(s)[Len(a.stages[s])]
  BY RepairShapesAre
<1>3. c = [a EXCEPT !.stages = stages] BY DEF RepairTo
<1> HIDE DEF n, shapes, c
<1>4. \A s \in 1..n : shapes[s - 1] \in ShapeForms /\ width(s) \in Positive
  <2> SUFFICES ASSUME NEW s \in 1..n
               PROVE  shapes[s - 1] \in ShapeForms /\ width(s) \in Positive
    OBVIOUS
  <2>1. s - 1 \in 0..n BY <1>1
  <2>2. shapes[s - 1] \in ShapeForms BY <1>2, <2>1
  <2> QED BY <2>2, TargetWidthIs DEF n
<1> HIDE DEF width
<1>5. ASSUME NEW s \in 1..n
      PROVE  /\ stages[s] \in StageForms /\ Len(stages[s]) = Len(a.stages[s])
             /\ Len(a.stages[s]) \in Nat /\ Len(a.stages[s]) >= 1
             /\ trace(s) \in [0..Len(a.stages[s]) -> ShapeForms]
             /\ trace(s)[0] = shapes[s - 1]
             /\ \A i \in 1..Len(a.stages[s]) :
                   /\ stages[s][i] = Fixed(a.stages[s][i], width(s), trace(s)[i - 1].channels)
                   /\ trace(s)[i] = BlockShape(stages[s][i], trace(s)[i - 1])
                   /\ trace(s)[i - 1] \in ShapeForms
                   /\ stages[s][i] \in BlockForms /\ a.stages[s][i] \in BlockForms
  <2>1. stages[s] = RepairStage(a.stages[s], width(s), shapes[s - 1]) BY <1>1
  <2>2. a.stages[s] \in StageForms BY <1>1
  <2> HIDE DEF stages
  <2>3. /\ stages[s] \in StageForms /\ Len(stages[s]) = Len(a.stages[s])
        /\ trace(s) \in [0..Len(a.stages[s]) -> ShapeForms]
        /\ trace(s)[0] = shapes[s - 1]
        /\ \A i \in 1..Len(a.stages[s]) :
              /\ stages[s][i] = Fixed(a.stages[s][i], width(s), trace(s)[i - 1].channels)
              /\ trace(s)[i] = BlockShape(stages[s][i], trace(s)[i - 1])
    BY <1>4, <2>1, <2>2, RepairTraceIs
  <2>4. /\ Len(a.stages[s]) \in Nat /\ Len(a.stages[s]) >= 1
        /\ \A i \in 1..Len(a.stages[s]) : a.stages[s][i] \in BlockForms
    BY <2>2, StageIs
  <2>5. \A i \in 1..Len(a.stages[s]) : stages[s][i] \in BlockForms BY <2>3, StageIs
  <2>6. \A i \in 1..Len(a.stages[s]) : i - 1 \in 0..Len(a.stages[s]) BY <2>4
  <2>7. \A i \in 1..Len(a.stages[s]) : trace(s)[i - 1] \in ShapeForms BY <2>3, <2>6
  <2> QED BY <2>3, <2>4, <2>5, <2>7
<1>6. stages \in Seq(StageForms) \ {<<>>} /\ Len(stages) = n
  <2>1. stages \in [1..n -> StageForms] BY <1>1, <1>5
  <2> HIDE DEF stages
  <2>2. stages \in Seq(StageForms) /\ Len(stages) = n BY <1>1, <2>1
  <2> QED BY <1>1, <2>2
<1> HIDE DEF stages, trace
<1>7. c \in Genotypes /\ c.stages = stages /\ c = [a EXCEPT !.stages = c.stages] /\ c.stem = a.stem
  BY <1>3, <1>6 DEF Genotypes
<1>8. ASSUME NEW s \in 1..n, NEW i \in 1..Len(a.stages[s])
      PROVE  trace(s)[i].channels = stages[s][i].out
  <2>1. /\ stages[s][i] = Fixed(a.stages[s][i], width(s), trace(s)[i - 1].channels)
        /\ trace(s)[i] = BlockShape(stages[s][i], trace(s)[i - 1])
        /\ trace(s)[i - 1] \in ShapeForms
        /\ stages[s][i] \in BlockForms /\ a.stages[s][i] \in BlockForms
    BY <1>5
  <2>2. trace(s)[i].channels = IF Parametric(stages[s][i].op) THEN stages[s][i].out
                               ELSE trace(s)[i - 1].channels
    BY <2>1, BlockShapeIs
  <2>3. trace(s)[i - 1].channels \in Positive BY <2>1 DEF ShapeForms
  <2>4. /\ stages[s][i].op = a.stages[s][i].op
        /\ stages[s][i].out = IF Parametric(a.stages[s][i].op) THEN width(s)
                              ELSE trace(s)[i - 1].channels
    BY <1>4, <2>1, <2>3, FixedIs
  <2> QED BY <2>2, <2>4
<1>9. ASSUME NEW s \in 1..n
      PROVE  shapes[s - 1].channels = Entering(c, s)
  <2>1. CASE s = 1
    <3>1. shapes[s - 1].channels = a.stem.out BY <1>2, <2>1, StemShapeIs
    <3> QED BY <1>7, <2>1, <3>1 DEF Entering
  <2>2. CASE s > 1
    <3>1. s - 1 \in 1..n BY <1>1, <2>2
    <3>2. Len(a.stages[s - 1]) \in 1..Len(a.stages[s - 1]) BY <1>5, <3>1
    <3>3. shapes[s - 1].channels = stages[s - 1][Len(a.stages[s - 1])].out
      BY <1>2, <1>8, <3>1, <3>2
    <3>4. StageWidth(c.stages[s - 1]) = stages[s - 1][Len(a.stages[s - 1])].out
      BY <1>5, <1>7, <3>1 DEF StageWidth, Last
    <3> QED BY <2>2, <3>3, <3>4 DEF Entering
  <2> QED BY <1>1, <2>1, <2>2
<1>10. ASSUME NEW s \in 1..n, NEW i \in 1..Len(a.stages[s])
       PROVE  trace(s)[i - 1].channels = WidthBefore(c, <<s, i>>)
  <2>1. s \in 1..Len(c.stages) /\ i \in 1..Len(c.stages[s]) BY <1>5, <1>6, <1>7
  <2>2. CASE i = 1
    <3>1. trace(s)[i - 1].channels = shapes[s - 1].channels BY <1>5, <2>2
    <3> QED BY <1>7, <1>9, <2>1, <2>2, <3>1, WidthsAre
  <2>3. CASE i > 1
    <3>1. i - 1 \in 1..Len(a.stages[s]) BY <1>5, <2>3
    <3>2. trace(s)[i - 1].channels = stages[s][i - 1].out BY <1>8, <3>1
    <3> QED BY <1>7, <2>1, <2>3, <3>2, WidthsAre
  <2> QED BY <1>5, <2>2, <2>3
<1>11. \A s \in 1..n : width(s) = WidthFor(a, widths, s, Entering(c, s))
  BY <1>9 DEF width, TargetWidth, WidthFor
<1>12. ASSUME NEW s \in 1..n, NEW i \in 1..Len(a.stages[s])
       PROVE  c.stages[s][i] = Fixed(a.stages[s][i], WidthFor(a, widths, s, Entering(c, s)),
                                     WidthBefore(c, <<s, i>>))
  BY <1>5, <1>7, <1>10, <1>11
<1>13. \A s \in 1..n : Len(c.stages[s]) = Len(a.stages[s]) BY <1>5, <1>7
<1>14. Len(c.stages) = n BY <1>6, <1>7
<1> QED BY <1>7, <1>12, <1>13, <1>14 DEF RepairOf, n, c

\* Two genotypes with the same stages, block by block, are equal.
LEMMA SameStages ==
    ASSUME NEW a, NEW c \in Genotypes, NEW d \in Genotypes,
           c = [a EXCEPT !.stages = c.stages], d = [a EXCEPT !.stages = d.stages],
           Len(c.stages) = Len(d.stages),
           \A s \in 1..Len(c.stages) : Len(c.stages[s]) = Len(d.stages[s]),
           \A s \in 1..Len(c.stages) : \A i \in 1..Len(c.stages[s]) :
               c.stages[s][i] = d.stages[s][i]
    PROVE  c = d
<1>1. /\ c.stages \in Seq(StageForms) /\ d.stages \in Seq(StageForms)
      /\ \A s \in 1..Len(c.stages) :
            c.stages[s] \in Seq(BlockForms) /\ d.stages[s] \in Seq(BlockForms)
  BY GenotypeIs DEF StageForms
<1>2. ASSUME NEW s \in 1..Len(c.stages) PROVE c.stages[s] = d.stages[s]
  <2> DEFINE x == c.stages[s]
             y == d.stages[s]
  <2>1. /\ x \in Seq(BlockForms) /\ y \in Seq(BlockForms) /\ Len(x) = Len(y)
        /\ \A i \in 1..Len(x) : x[i] = y[i]
    BY <1>1
  <2> HIDE DEF x, y
  <2>2. x = y BY <2>1
  <2> QED BY <2>2 DEF x, y
<1>3. c.stages = d.stages BY <1>1, <1>2
<1> QED BY <1>3

\* Repair determines every block: what is so repaired is what repair returns.
LEMMA RepairUnique ==
    ASSUME NEW a \in Genotypes, NEW widths \in Targets(a), NEW c, NEW d,
           RepairOf(c, a, widths), RepairOf(d, a, widths)
    PROVE  c = d
<1> DEFINE n == Len(a.stages)
           m(s) == Len(a.stages[s])
           same(s) == \A i \in 1..m(s) : c.stages[s][i] = d.stages[s][i]
<1>1. n \in Nat /\ \A s \in 1..n : m(s) \in Nat /\ m(s) >= 1
  BY GenotypeIs, StageIs
<1>2. /\ c \in Genotypes /\ d \in Genotypes
      /\ c = [a EXCEPT !.stages = c.stages] /\ d = [a EXCEPT !.stages = d.stages]
      /\ Len(c.stages) = n /\ Len(d.stages) = n
      /\ \A s \in 1..n : Len(c.stages[s]) = m(s) /\ Len(d.stages[s]) = m(s)
  BY DEF RepairOf
<1>3. c.stem = d.stem BY <1>2, GenotypeIs DEF Genotypes
<1> HIDE DEF n
<1>4. ASSUME NEW s \in 1..n, Entering(c, s) = Entering(d, s) PROVE same(s)
  <2> DEFINE S == {i \in 0..m(s) : i = 0 \/ c.stages[s][i] = d.stages[s][i]}
  <2>1. 0 \in S BY <1>1
  <2>2. ASSUME NEW i \in 1..m(s), i - 1 \in S PROVE i \in S
    <3>1. WidthBefore(c, <<s, i>>) = WidthBefore(d, <<s, i>>)
      <4>1. i \in 1..Len(c.stages[s]) /\ i \in 1..Len(d.stages[s]) BY <1>2
      <4>2. s \in 1..Len(c.stages) /\ s \in 1..Len(d.stages) BY <1>2
      <4>3. CASE i = 1 BY <1>2, <1>4, <4>1, <4>2, <4>3, WidthsAre
      <4>4. CASE i > 1
        <5>1. c.stages[s][i - 1] = d.stages[s][i - 1] BY <2>2, <4>4
        <5>2. WidthBefore(c, <<s, i>>) = c.stages[s][i - 1].out
          BY <1>2, <4>1, <4>2, <4>4, WidthsAre
        <5>3. WidthBefore(d, <<s, i>>) = d.stages[s][i - 1].out
          BY <1>2, <4>1, <4>2, <4>4, WidthsAre
        <5> QED BY <5>1, <5>2, <5>3
      <4> QED BY <1>1, <4>3, <4>4
    <3>2. c.stages[s][i] = Fixed(a.stages[s][i], WidthFor(a, widths, s, Entering(c, s)),
                                 WidthBefore(c, <<s, i>>))
      BY DEF RepairOf, n
    <3>3. d.stages[s][i] = Fixed(a.stages[s][i], WidthFor(a, widths, s, Entering(d, s)),
                                 WidthBefore(d, <<s, i>>))
      BY DEF RepairOf, n
    <3>4. c.stages[s][i] = d.stages[s][i] BY <1>4, <3>1, <3>2, <3>3
    <3> QED BY <3>4
  <2> HIDE DEF S
  <2>3. \A i \in 0..m(s) : i \in S BY <1>1, <2>1, <2>2, UpTheInterval
  <2>4. \A i \in 1..m(s) : i \in S BY <1>1, <2>3
  <2> QED BY <2>4 DEF S
<1>5. \A s \in 1..n : same(s)
  <2> DEFINE S == {s \in 0..n : s = 0 \/ same(s)}
  <2>1. 0 \in S BY <1>1
  <2>2. ASSUME NEW s \in 1..n, s - 1 \in S PROVE s \in S
    <3>1. Entering(c, s) = Entering(d, s)
      <4>1. CASE s = 1 BY <1>3, <4>1 DEF Entering
      <4>2. CASE s > 1
        <5>1. same(s - 1) /\ s - 1 \in 1..n BY <1>1, <2>2, <4>2
        <5>2. m(s - 1) \in 1..m(s - 1) BY <1>1, <5>1
        <5>3. StageWidth(c.stages[s - 1]) = StageWidth(d.stages[s - 1])
          BY <1>2, <5>1, <5>2 DEF StageWidth, Last
        <5> QED BY <4>2, <5>3 DEF Entering
      <4> QED BY <1>1, <4>1, <4>2
    <3>2. same(s) BY <1>4, <3>1
    <3> QED BY <3>2
  <2> HIDE DEF S, same
  <2>3. \A s \in 0..n : s \in S BY <1>1, <2>1, <2>2, UpTheInterval
  <2>4. \A s \in 1..n : s \in S BY <1>1, <2>3
  <2> QED BY <2>4 DEF S
<1>6. /\ Len(c.stages) = Len(d.stages)
      /\ \A s \in 1..Len(c.stages) : Len(c.stages[s]) = Len(d.stages[s])
      /\ \A s \in 1..Len(c.stages) : \A i \in 1..Len(c.stages[s]) :
            c.stages[s][i] = d.stages[s][i]
  BY <1>2, <1>5
<1> HIDE DEF same
<1> QED BY <1>2, <1>6, SameStages

-----------------------------------------------------------------------------
(***************************************************************************)
(* Settled genotypes: the ones repair leaves as they are.                  *)
(***************************************************************************)
\* Every width is taken over or set, and every shortcut is legal.
Sound(a) ==
    \A s \in 1..Len(a.stages) : \A i \in 1..Len(a.stages[s]) :
        LET b == a.stages[s][i]
            in == WidthBefore(a, <<s, i>>)
        IN /\ ~Parametric(b.op) => b.out = in
           /\ b.residual => b.stride = 1 /\ b.out = in

\* The convolutions of a stage agree on its width.
Uniform(a) ==
    \A s \in 1..Len(a.stages) : \A i, j \in 1..Len(a.stages[s]) :
        Parametric(a.stages[s][i].op) /\ Parametric(a.stages[s][j].op)
            => a.stages[s][i].out = a.stages[s][j].out

Settled(a) == a \in Genotypes /\ Sound(a) /\ Uniform(a)

LEMMA WidthForIs ==
    ASSUME NEW a \in Genotypes, NEW widths \in Targets(a), NEW s \in 1..Len(a.stages),
           NEW in \in Positive
    PROVE  WidthFor(a, widths, s, in) \in Positive
<1>1. a.stages[s] \in StageForms BY GenotypeIs
<1>2. IntendedWidth(a.stages[s], in) \in Positive BY <1>1, IntendedWidthIs
<1>3. widths # NoTarget => widths \in [1..Len(a.stages) -> Positive] BY DEF Targets
<1> QED BY <1>2, <1>3 DEF WidthFor

\* The blocks of a repaired genotype, field by field.
LEMMA RepairedBlock ==
    ASSUME NEW a \in Genotypes, NEW widths \in Targets(a), NEW c, RepairOf(c, a, widths),
           NEW s \in 1..Len(a.stages), NEW i \in 1..Len(a.stages[s])
    PROVE  LET b == a.stages[s][i]
               d == c.stages[s][i]
               in == WidthBefore(c, <<s, i>>)
           IN /\ b \in BlockForms /\ d \in BlockForms
              /\ d.op = b.op /\ d.kernel = b.kernel /\ d.expansion = b.expansion
              /\ d.stride = b.stride /\ d.norm = b.norm /\ d.act = b.act
              /\ d.out = IF Parametric(b.op) THEN WidthFor(a, widths, s, Entering(c, s)) ELSE in
              /\ d.residual <=> b.residual /\ b.stride = 1 /\ d.out = in
<1>1. /\ c \in Genotypes /\ s \in 1..Len(c.stages) /\ i \in 1..Len(c.stages[s])
      /\ c.stages[s][i] = Fixed(a.stages[s][i], WidthFor(a, widths, s, Entering(c, s)),
                                WidthBefore(c, <<s, i>>))
  BY DEF RepairOf
<1>2. WidthBefore(c, <<s, i>>) \in Positive /\ Entering(c, s) \in Positive BY <1>1, WidthsAre
<1>3. WidthFor(a, widths, s, Entering(c, s)) \in Positive BY <1>2, WidthForIs
<1>4. a.stages[s][i] \in BlockForms BY PositionsAre
<1> DEFINE b == a.stages[s][i]
           d == c.stages[s][i]
           in == WidthBefore(c, <<s, i>>)
           width == WidthFor(a, widths, s, Entering(c, s))
<1>5. d = Fixed(b, width, in) /\ b \in BlockForms /\ width \in Positive /\ in \in Positive
  BY <1>1, <1>2, <1>3, <1>4
<1> HIDE DEF b, d, in, width
<1>6. /\ d \in BlockForms
      /\ d.op = b.op /\ d.kernel = b.kernel /\ d.expansion = b.expansion
      /\ d.stride = b.stride /\ d.norm = b.norm /\ d.act = b.act
      /\ d.out = IF Parametric(b.op) THEN width ELSE in
      /\ d.residual <=> b.residual /\ b.stride = 1 /\ d.out = in
  BY <1>5, FixedIs
<1> QED BY <1>5, <1>6 DEF b, d, in, width

\* Repair changes the width and the shortcut of a block only.
LEMMA RepairedFields ==
    ASSUME NEW a \in Genotypes, NEW widths \in Targets(a), NEW c, RepairOf(c, a, widths),
           NEW s \in 1..Len(a.stages), NEW i \in 1..Len(a.stages[s])
    PROVE  LET b == a.stages[s][i]
               d == c.stages[s][i]
           IN /\ d.op = b.op /\ d.kernel = b.kernel /\ d.expansion = b.expansion
              /\ d.stride = b.stride /\ d.norm = b.norm /\ d.act = b.act
              /\ d.residual => b.residual
<1> DEFINE b == a.stages[s][i]
           d == c.stages[s][i]
           in == WidthBefore(c, <<s, i>>)
           width == WidthFor(a, widths, s, Entering(c, s))
<1>1. /\ d.op = b.op /\ d.kernel = b.kernel /\ d.expansion = b.expansion
      /\ d.stride = b.stride /\ d.norm = b.norm /\ d.act = b.act
      /\ d.out = IF Parametric(b.op) THEN width ELSE in
      /\ d.residual <=> b.residual /\ b.stride = 1 /\ d.out = in
  BY RepairedBlock
<1> HIDE DEF b, d, in, width
<1> QED BY <1>1 DEF b, d

LEMMA RepairSettles ==
    ASSUME NEW a \in Genotypes, NEW widths \in Targets(a), NEW c, RepairOf(c, a, widths)
    PROVE  Settled(c)
<1>1. /\ c \in Genotypes /\ Len(c.stages) = Len(a.stages)
      /\ \A s \in 1..Len(a.stages) : Len(c.stages[s]) = Len(a.stages[s])
  BY DEF RepairOf
<1>2. Sound(c)
  <2> SUFFICES ASSUME NEW s \in 1..Len(c.stages), NEW i \in 1..Len(c.stages[s])
               PROVE  /\ ~Parametric(c.stages[s][i].op) =>
                            c.stages[s][i].out = WidthBefore(c, <<s, i>>)
                      /\ c.stages[s][i].residual =>
                            /\ c.stages[s][i].stride = 1
                            /\ c.stages[s][i].out = WidthBefore(c, <<s, i>>)
    BY DEF Sound
  <2> DEFINE b == a.stages[s][i]
             d == c.stages[s][i]
             in == WidthBefore(c, <<s, i>>)
             width == WidthFor(a, widths, s, Entering(c, s))
  <2>1. s \in 1..Len(a.stages) /\ i \in 1..Len(a.stages[s]) BY <1>1
  <2>2. /\ d.op = b.op /\ d.stride = b.stride
        /\ d.out = IF Parametric(b.op) THEN width ELSE in
        /\ d.residual <=> b.residual /\ b.stride = 1 /\ d.out = in
    <3>1. d.op = b.op BY <2>1, RepairedFields
    <3>2. d.stride = b.stride BY <2>1, RepairedFields
    <3>3. d.out = IF Parametric(b.op) THEN width ELSE in BY <2>1, RepairedBlock, SMTT(40)
    <3>4. d.residual <=> b.residual /\ b.stride = 1 /\ d.out = in
      BY <2>1, RepairedBlock, SMTT(40)
    <3> QED BY <3>1, <3>2, <3>3, <3>4
  <2> HIDE DEF width
  <2> QED BY <2>2
<1>3. Uniform(c)
  <2> SUFFICES ASSUME NEW s \in 1..Len(c.stages), NEW i \in 1..Len(c.stages[s]),
                      NEW j \in 1..Len(c.stages[s]),
                      Parametric(c.stages[s][i].op), Parametric(c.stages[s][j].op)
               PROVE  c.stages[s][i].out = c.stages[s][j].out
    BY DEF Uniform
  <2>1. s \in 1..Len(a.stages) /\ i \in 1..Len(a.stages[s]) /\ j \in 1..Len(a.stages[s]) BY <1>1
  <2> DEFINE width == WidthFor(a, widths, s, Entering(c, s))
  <2>2. ASSUME NEW k \in 1..Len(a.stages[s]), Parametric(c.stages[s][k].op)
        PROVE  c.stages[s][k].out = width
    <3>1. k \in 1..Len(a.stages[s]) /\ s \in 1..Len(a.stages) BY <2>1
    <3>2. /\ c.stages[s][k].op = a.stages[s][k].op
          /\ c.stages[s][k].out =
               IF Parametric(a.stages[s][k].op) THEN width ELSE WidthBefore(c, <<s, k>>)
      BY <3>1, RepairedBlock, SMTT(40)
    <3> HIDE DEF width
    <3> QED BY <2>2, <3>2
  <2> HIDE DEF width
  <2> QED BY <2>1, <2>2
<1> QED BY <1>1, <1>2, <1>3 DEF Settled

\* A block that is what it should be is not changed.
LEMMA FixedSame ==
    ASSUME NEW b \in BlockForms, NEW width \in Positive, NEW in \in Positive,
           b.out = IF Parametric(b.op) THEN width ELSE in,
           b.residual => b.stride = 1 /\ b.out = in
    PROVE  Fixed(b, width, in) = b
<1> DEFINE c == Fixed(b, width, in)
<1>1. /\ c \in BlockForms
      /\ c.op = b.op /\ c.kernel = b.kernel /\ c.expansion = b.expansion
      /\ c.stride = b.stride /\ c.norm = b.norm /\ c.act = b.act /\ c.out = b.out
      /\ c.residual <=> b.residual
  BY FixedIs
<1>2. c \in RawBlocks /\ b \in RawBlocks BY <1>1 DEF BlockForms
<1> HIDE DEF c
<1>3. c.residual \in BOOLEAN /\ b.residual \in BOOLEAN BY <1>2 DEF RawBlocks
<1>4. c.residual = b.residual BY <1>1, <1>3
<1>5. c = b BY <1>1, <1>2, <1>4 DEF RawBlocks
<1> QED BY <1>5 DEF c

LEMMA SettledIsRepaired ==
    ASSUME NEW c, Settled(c)
    PROVE  RepairOf(c, c, NoTarget)
<1>1. c \in Genotypes /\ Sound(c) /\ Uniform(c) BY DEF Settled
<1>2. c = [c EXCEPT !.stages = c.stages] BY <1>1 DEF Genotypes
<1>3. ASSUME NEW s \in 1..Len(c.stages), NEW i \in 1..Len(c.stages[s])
      PROVE  c.stages[s][i] = Fixed(c.stages[s][i], WidthFor(c, NoTarget, s, Entering(c, s)),
                                    WidthBefore(c, <<s, i>>))
  <2> DEFINE b == c.stages[s][i]
             in == WidthBefore(c, <<s, i>>)
             width == IntendedWidth(c.stages[s], Entering(c, s))
  <2>1. b \in BlockForms /\ c.stages[s] \in StageForms BY <1>1, PositionsAre, GenotypeIs
  <2>2. in \in Positive /\ Entering(c, s) \in Positive BY <1>1, WidthsAre
  <2>3. width \in Positive BY <2>1, <2>2, IntendedWidthIs
  <2>4. ~Parametric(b.op) => b.out = in BY <1>1 DEF Sound
  <2>5. b.residual => b.stride = 1 /\ b.out = in BY <1>1 DEF Sound
  <2>6. Parametric(b.op) => b.out = width
    <3> SUFFICES ASSUME Parametric(b.op) PROVE b.out = width OBVIOUS
    <3>1. ~PlainStage(c.stages[s]) BY DEF PlainStage
    <3>2. PICK j \in 1..Len(c.stages[s]) :
             Parametric(c.stages[s][j].op) /\ width = c.stages[s][j].out
      BY <2>1, <2>2, <3>1, IntendedWidthIs
    <3> QED BY <1>1, <3>2 DEF Uniform
  <2>7. b.out = IF Parametric(b.op) THEN width ELSE in BY <2>4, <2>6
  <2>8. WidthFor(c, NoTarget, s, Entering(c, s)) = width BY DEF WidthFor
  <2> HIDE DEF b, in, width
  <2>9. Fixed(b, width, in) = b BY <2>1, <2>2, <2>3, <2>5, <2>7, FixedSame
  <2> QED BY <2>8, <2>9 DEF b, in
<1> QED BY <1>1, <1>2, <1>3 DEF RepairOf

LEMMA RepairKeeps ==
    ASSUME NEW c, Settled(c)
    PROVE  Repair(c) = c
<1>1. c \in Genotypes /\ NoTarget \in Targets(c) BY DEF Settled, Targets
<1>2. RepairOf(RepairTo(c, NoTarget), c, NoTarget) BY <1>1, RepairIs
<1>3. RepairOf(c, c, NoTarget) BY SettledIsRepaired
<1>4. RepairTo(c, NoTarget) = c BY <1>1, <1>2, <1>3, RepairUnique
<1> QED BY <1>4 DEF Repair

LEMMA RepairOfRepair ==
    ASSUME NEW a \in Genotypes
    PROVE  RepairOf(Repair(a), a, NoTarget) /\ Settled(Repair(a))
<1>1. NoTarget \in Targets(a) BY DEF Targets
<1>2. RepairOf(Repair(a), a, NoTarget) BY <1>1, RepairIs DEF Repair
<1> QED BY <1>1, <1>2, RepairSettles

-----------------------------------------------------------------------------
(***************************************************************************)
(* The widths of the shape trace and the widths the blocks declare.        *)
(***************************************************************************)
LEMMA ChannelsAreWidths ==
    ASSUME NEW a \in Genotypes,
           \A s \in 1..Len(a.stages) : \A i \in 1..Len(a.stages[s]) :
               \/ Parametric(a.stages[s][i].op)
               \/ a.stages[s][i].out = ShapeBefore(a, <<s, i>>).channels
               \/ a.stages[s][i].out = WidthBefore(a, <<s, i>>)
    PROVE  /\ \A s \in 1..Len(a.stages) : \A i \in 1..Len(a.stages[s]) :
                 /\ ShapeBefore(a, <<s, i>>).channels = WidthBefore(a, <<s, i>>)
                 /\ ShapeAfter(a, <<s, i>>).channels = a.stages[s][i].out
           /\ FeatureShape(a).channels = StageWidth(Last(a.stages))
<1> DEFINE n == Len(a.stages)
           m(s) == Len(a.stages[s])
           good(s, i) == ShapeBefore(a, <<s, i>>).channels = WidthBefore(a, <<s, i>>)
           left(s, i) == ShapeAfter(a, <<s, i>>).channels = a.stages[s][i].out
           enters(s) == Shapes(a)[s - 1].channels = Entering(a, s)
<1>1. n \in Nat /\ n >= 1 /\ \A s \in 1..n : m(s) \in Nat /\ m(s) >= 1
  BY GenotypeIs, StageIs
<1>2. ASSUME NEW s \in 1..n, NEW i \in 1..m(s), good(s, i) PROVE left(s, i)
  <2>1. a.stages[s][i] \in BlockForms /\ BlockAt(a, <<s, i>>) = a.stages[s][i] BY PositionsAre
  <2>2. ShapeBefore(a, <<s, i>>) \in ShapeForms BY ShapesFollow
  <2>3. ShapeAfter(a, <<s, i>>).channels =
           IF Parametric(a.stages[s][i].op) THEN a.stages[s][i].out
           ELSE ShapeBefore(a, <<s, i>>).channels
    BY <2>1, <2>2, BlockShapeIs DEF ShapeAfter
  <2> QED BY <1>2, <2>3
<1>3. ASSUME NEW s \in 1..n, enters(s)
      PROVE  /\ \A i \in 1..m(s) : good(s, i) /\ left(s, i)
             /\ Shapes(a)[s].channels = StageWidth(a.stages[s])
  <2> DEFINE I == {i \in 0..m(s) : i = 0 \/ good(s, i)}
  <2>1. 0 \in I BY <1>1
  <2>2. ASSUME NEW i \in 1..m(s), i - 1 \in I PROVE i \in I
    <3>1. CASE i = 1
      <4>1. ShapeBefore(a, <<s, i>>) = Shapes(a)[s - 1] BY <3>1, ShapesFollow
      <4>2. WidthBefore(a, <<s, i>>) = Entering(a, s) BY <3>1, WidthsAre
      <4> QED BY <1>3, <3>1, <4>1, <4>2
    <3>2. CASE i > 1
      <4>1. i - 1 \in 1..m(s) /\ good(s, i - 1) BY <1>1, <2>2, <3>2
      <4>2. left(s, i - 1) BY <1>2, <4>1
      <4>3. ShapeBefore(a, <<s, i>>) = ShapeAfter(a, <<s, i - 1>>) BY <3>2, ShapesFollow
      <4>4. WidthBefore(a, <<s, i>>) = a.stages[s][i - 1].out BY <3>2, WidthsAre
      <4>5. good(s, i) BY <4>2, <4>3, <4>4
      <4> QED BY <4>5
    <3> QED BY <1>1, <3>1, <3>2
  <2> HIDE DEF I
  <2>3. \A i \in 0..m(s) : i \in I BY <1>1, <2>1, <2>2, UpTheInterval
  <2>4. \A i \in 1..m(s) : good(s, i)
    <3>1. \A i \in 1..m(s) : i \in I BY <1>1, <2>3
    <3> QED BY <3>1 DEF I
  <2>5. \A i \in 1..m(s) : left(s, i) BY <1>2, <2>4
  <2>6. Shapes(a)[s].channels = StageWidth(a.stages[s])
    <3>1. m(s) \in 1..m(s) BY <1>1
    <3>2. ShapeAfter(a, <<s, m(s)>>) = Shapes(a)[s] BY <3>1, ShapesFollow
    <3>3. left(s, m(s)) BY <2>5, <3>1
    <3> QED BY <3>2, <3>3, WidthsAre
  <2> QED BY <2>4, <2>5, <2>6
<1>4. \A s \in 1..n : enters(s)
  <2> DEFINE S == {s \in 0..n : s = 0 \/ enters(s)}
  <2>1. 0 \in S BY <1>1
  <2>2. ASSUME NEW s \in 1..n, s - 1 \in S PROVE s \in S
    <3>1. CASE s = 1
      <4>1. Shapes(a)[s - 1].channels = a.stem.out BY <3>1, ShapesAre, StemShapeIs
      <4> QED BY <3>1, <4>1 DEF Entering
    <3>2. CASE s > 1
      <4>1. s - 1 \in 1..n /\ enters(s - 1) BY <1>1, <2>2, <3>2
      <4>2. Shapes(a)[s - 1].channels = StageWidth(a.stages[s - 1]) BY <1>3, <4>1
      <4> QED BY <3>2, <4>2 DEF Entering
    <3> QED BY <1>1, <3>1, <3>2
  <2> HIDE DEF S
  <2>3. \A s \in 0..n : s \in S BY <1>1, <2>1, <2>2, UpTheInterval
  <2>4. \A s \in 1..n : s \in S BY <1>1, <2>3
  <2> QED BY <2>4 DEF S
<1>5. FeatureShape(a).channels = StageWidth(Last(a.stages))
  <2>1. n \in 1..n BY <1>1
  <2> QED BY <1>3, <1>4, <2>1 DEF FeatureShape, Last
<1> QED BY <1>3, <1>4, <1>5

\* Shape inference accepts a settled genotype and the builder constructs it.
LEMMA SettledShapes ==
    ASSUME NEW a, Settled(a)
    PROVE  /\ InfersShapes(a) /\ Builds(a)
           /\ \A p \in Positions(a) : /\ ShapeBefore(a, p).channels = WidthBefore(a, p)
                                      /\ ShapeAfter(a, p).channels = BlockAt(a, p).out
           /\ FeatureShape(a).channels = StageWidth(Last(a.stages))
<1>1. a \in Genotypes /\ Sound(a) BY DEF Settled
<1>2. /\ \A s \in 1..Len(a.stages) : \A i \in 1..Len(a.stages[s]) :
            /\ ShapeBefore(a, <<s, i>>).channels = WidthBefore(a, <<s, i>>)
            /\ ShapeAfter(a, <<s, i>>).channels = a.stages[s][i].out
      /\ FeatureShape(a).channels = StageWidth(Last(a.stages))
  <2>1. \A s \in 1..Len(a.stages) : \A i \in 1..Len(a.stages[s]) :
             \/ Parametric(a.stages[s][i].op)
             \/ a.stages[s][i].out = ShapeBefore(a, <<s, i>>).channels
             \/ a.stages[s][i].out = WidthBefore(a, <<s, i>>)
    BY <1>1 DEF Sound
  <2> QED BY <1>1, <2>1, ChannelsAreWidths
<1>3. ASSUME NEW p \in Positions(a)
      PROVE  /\ ShapeBefore(a, p).channels = WidthBefore(a, p)
             /\ ShapeAfter(a, p).channels = BlockAt(a, p).out
             /\ Fits(BlockAt(a, p), ShapeBefore(a, p))
             /\ Constructible(BlockAt(a, p), WidthBefore(a, p))
  <2> DEFINE s == p[1]
             i == p[2]
             b == BlockAt(a, p)
             in == ShapeBefore(a, p)
             out == BlockShape(b, in)
  <2>1. s \in 1..Len(a.stages) /\ i \in 1..Len(a.stages[s]) /\ p = <<s, i>> /\ b \in BlockForms
    BY <1>1, PositionsAre
  <2>2. b = a.stages[s][i] BY DEF BlockAt
  <2> HIDE DEF s, i
  <2>3. in \in ShapeForms /\ in.channels = WidthBefore(a, p) /\ ShapeAfter(a, p).channels = b.out
    <3>1. in \in ShapeForms BY <1>1, <2>1, ShapesFollow
    <3>2. in.channels = WidthBefore(a, p) BY <1>2, <2>1
    <3>3. ShapeAfter(a, p).channels = b.out BY <1>2, <2>1, <2>2
    <3> QED BY <3>1, <3>2, <3>3
  <2>4. /\ ~Parametric(b.op) => b.out = in.channels
        /\ b.residual => b.stride = 1 /\ b.out = in.channels
    <3>1. /\ ~Parametric(b.op) => b.out = WidthBefore(a, p)
          /\ b.residual => b.stride = 1 /\ b.out = WidthBefore(a, p)
      BY <1>1, <2>1, <2>2 DEF Sound
    <3> QED BY <2>3, <3>1
  <2> HIDE DEF b, in
  <2>5. /\ out \in ShapeForms
        /\ out.channels = IF Parametric(b.op) THEN b.out ELSE in.channels
        /\ b.stride = 1 => out.size = in.size
    BY <2>1, <2>3, BlockShapeIs
  <2> HIDE DEF out
  <2>6. out.size >= 1 BY <2>5 DEF ShapeForms, Positive
  <2>7. b.residual => out = in
    <3> SUFFICES ASSUME b.residual PROVE out = in OBVIOUS
    <3>1. out.channels = in.channels /\ out.size = in.size BY <2>4, <2>5
    <3> QED BY <2>3, <2>5, <3>1 DEF ShapeForms
  <2>8. Fits(b, in) BY <2>4, <2>6, <2>7 DEF Fits, out
  <2>9. Constructible(b, WidthBefore(a, p)) BY <2>3, <2>4 DEF Constructible
  <2> QED BY <2>3, <2>8, <2>9 DEF b, in
<1>4. StemShape(a).size >= 1 BY <1>1, StemShapeIs DEF ShapeForms, Positive
<1> QED BY <1>2, <1>3, <1>4 DEF InfersShapes, Builds

\* In any genotype with shapes the builder's widths are those of the trace, and
\* only a shortcut around a stride keeps it from being built.
LEMMA InferredShapes ==
    ASSUME NEW a \in Genotypes, InfersShapes(a)
    PROVE  /\ \A p \in Positions(a) : WidthBefore(a, p) = ShapeBefore(a, p).channels
           /\ Builds(a) \/ \E p \in Positions(a) : StridedShortcut(a, p)
<1>1. \A s \in 1..Len(a.stages) : \A i \in 1..Len(a.stages[s]) :
         ShapeBefore(a, <<s, i>>).channels = WidthBefore(a, <<s, i>>)
  <2>1. ASSUME NEW s \in 1..Len(a.stages), NEW i \in 1..Len(a.stages[s])
        PROVE  \/ Parametric(a.stages[s][i].op)
               \/ a.stages[s][i].out = ShapeBefore(a, <<s, i>>).channels
    <3>1. <<s, i>> \in Positions(a) /\ BlockAt(a, <<s, i>>) = a.stages[s][i] BY PositionsAre
    <3> QED BY <3>1 DEF InfersShapes, Fits
  <2> QED BY <2>1, ChannelsAreWidths
<1>2. ASSUME NEW p \in Positions(a)
      PROVE  WidthBefore(a, p) = ShapeBefore(a, p).channels
  <2>1. p[1] \in 1..Len(a.stages) /\ p[2] \in 1..Len(a.stages[p[1]]) /\ p = <<p[1], p[2]>>
    BY PositionsAre
  <2> QED BY <1>1, <2>1
<1>3. ASSUME NEW p \in Positions(a), ~StridedShortcut(a, p)
      PROVE  Constructible(BlockAt(a, p), WidthBefore(a, p))
  <2> DEFINE b == BlockAt(a, p)
             in == ShapeBefore(a, p)
             out == BlockShape(b, in)
  <2> SUFFICES ASSUME b.residual PROVE b.stride = 1 /\ b.out = WidthBefore(a, p)
    BY DEF Constructible
  <2>1. p[1] \in 1..Len(a.stages) /\ p[2] \in 1..Len(a.stages[p[1]]) /\ p = <<p[1], p[2]>>
    BY PositionsAre
  <2>2. b \in BlockForms /\ in \in ShapeForms
    <3>1. b \in BlockForms BY PositionsAre
    <3>2. in \in ShapeForms BY <2>1, ShapesFollow
    <3> QED BY <3>1, <3>2
  <2>3. (Parametric(b.op) \/ b.out = in.channels) /\ out = in BY DEF InfersShapes, Fits
  <2>4. out.channels = IF Parametric(b.op) THEN b.out ELSE in.channels BY <2>2, BlockShapeIs
  <2>5. b.out = in.channels BY <2>3, <2>4
  <2>6. b.stride = 1
    <3> SUFFICES ASSUME b.stride # 1 PROVE FALSE OBVIOUS
    <3>1. /\ in.size \in Positive /\ b.kernel \in OddKernels /\ b.stride \in 2..4
      BY <2>2 DEF BlockForms, RawBlocks, ShapeForms
    <3>2. in.size # 1 BY <1>3, <3>1 DEF StridedShortcut
    <3>3. ConvSize(in.size, b.kernel, b.stride) = in.size BY <2>3 DEF BlockShape
    <3> DEFINE n == in.size
               k == b.kernel
               q == (n - 1) \div b.stride
    <3>4. n + 2 * (k \div 2) - k = n - 1 BY <3>1 DEF OddKernels, Positive
    <3>5. q + 1 = n BY <3>3, <3>4 DEF ConvSize
    <3>6. b.stride \in {2, 3, 4} BY <3>1
    <3>7. n \in Nat /\ n >= 2 BY <3>1, <3>2 DEF Positive
    <3> HIDE DEF n
    <3>8. q < n - 1 /\ q \in Int BY <3>6, <3>7
    <3> HIDE DEF q
    <3> QED BY <3>5, <3>7, <3>8
  <2> QED BY <1>2, <2>5, <2>6
<1> QED BY <1>2, <1>3 DEF Builds

-----------------------------------------------------------------------------
(***************************************************************************)
(* The widths of the stages after a repair.                                *)
(***************************************************************************)
\* Up to its first convolution a stage has the width that reaches it, from
\* there on the width it is to have.
LEMMA StageLaw ==
    ASSUME NEW a \in Genotypes, NEW widths \in Targets(a), NEW c, RepairOf(c, a, widths),
           NEW s \in 1..Len(a.stages)
    PROVE  /\ \A i \in 1..Len(a.stages[s]) :
                 c.stages[s][i].out = IF \E j \in 1..i : Parametric(a.stages[s][j].op)
                                      THEN WidthFor(a, widths, s, Entering(c, s))
                                      ELSE Entering(c, s)
           /\ StageWidth(c.stages[s]) = IF PlainStage(a.stages[s]) THEN Entering(c, s)
                                        ELSE WidthFor(a, widths, s, Entering(c, s))
<1> DEFINE m == Len(a.stages[s])
           width == WidthFor(a, widths, s, Entering(c, s))
           in == Entering(c, s)
           op(i) == a.stages[s][i].op
           out(i) == c.stages[s][i].out
           set(i) == \E j \in 1..i : Parametric(op(j))
           law(i) == out(i) = IF set(i) THEN width ELSE in
           I == {i \in 0..m : i = 0 \/ law(i)}
<1>1. /\ m \in Nat /\ m >= 1 /\ c \in Genotypes
      /\ s \in 1..Len(c.stages) /\ Len(c.stages[s]) = m
  BY GenotypeIs, StageIs DEF RepairOf
<1>2. ASSUME NEW i \in 1..m
      PROVE  out(i) = IF Parametric(op(i)) THEN width ELSE WidthBefore(c, <<s, i>>)
  BY RepairedBlock
<1>3. /\ WidthBefore(c, <<s, 1>>) = in
      /\ \A i \in 2..m : WidthBefore(c, <<s, i>>) = out(i - 1)
  BY <1>1, WidthsAre
<1>4. StageWidth(c.stages[s]) = out(m) BY <1>1, WidthsAre
<1>5. PlainStage(a.stages[s]) <=> ~set(m) BY DEF PlainStage
<1> HIDE DEF m, width, in, op, out
<1>6. 0 \in I BY <1>1
<1>7. ASSUME NEW i \in 1..m, i - 1 \in I PROVE i \in I
  <2>1. CASE i = 1
    <3>1. set(i) <=> Parametric(op(i)) BY <2>1
    <3>2. law(i) BY <1>2, <1>3, <2>1, <3>1
    <3> QED BY <1>1, <3>2
  <2>2. CASE i > 1
    <3>1. i \in 2..m /\ i - 1 \in 1..m /\ law(i - 1) BY <1>1, <1>7, <2>2
    <3>2. set(i) <=> Parametric(op(i)) \/ set(i - 1)
      <4>1. \A j \in 1..i : j = i \/ j \in 1..(i - 1) BY <3>1
      <4>2. i \in 1..i /\ \A j \in 1..(i - 1) : j \in 1..i BY <3>1
      <4> QED BY <4>1, <4>2
    <3> HIDE DEF set
    <3>3. law(i) BY <1>2, <1>3, <3>1, <3>2
    <3> QED BY <1>1, <3>3
  <2> QED BY <1>1, <2>1, <2>2
<1> HIDE DEF I
<1>8. \A i \in 0..m : i \in I BY <1>1, <1>6, <1>7, UpTheInterval
<1>9. \A i \in 1..m : law(i)
  <2>1. \A i \in 1..m : i \in I BY <1>1, <1>8
  <2> QED BY <2>1 DEF I
<1>10. StageWidth(c.stages[s]) = IF PlainStage(a.stages[s]) THEN in ELSE width
  <2>1. m \in 1..m BY <1>1
  <2> HIDE DEF set
  <2> QED BY <1>4, <1>5, <1>9, <2>1
<1> QED BY <1>9, <1>10 DEF m, width, in, op, out

LEMMA SettledWidths ==
    ASSUME NEW a, Settled(a), NEW s \in 1..Len(a.stages)
    PROVE  /\ PlainStage(a.stages[s]) => StageWidth(a.stages[s]) = Entering(a, s)
           /\ \A i \in 1..Len(a.stages[s]) :
                 /\ Parametric(a.stages[s][i].op) =>
                       a.stages[s][i].out = StageWidth(a.stages[s])
                 /\ (\A j \in 1..i : ~Parametric(a.stages[s][j].op)) =>
                       a.stages[s][i].out = Entering(a, s)
<1>1. a \in Genotypes /\ NoTarget \in Targets(a) /\ RepairOf(a, a, NoTarget)
  BY SettledIsRepaired DEF Settled, Targets
<1> DEFINE width == WidthFor(a, NoTarget, s, Entering(a, s))
<1>2. /\ \A i \in 1..Len(a.stages[s]) :
            a.stages[s][i].out = IF \E j \in 1..i : Parametric(a.stages[s][j].op)
                                 THEN width ELSE Entering(a, s)
      /\ StageWidth(a.stages[s]) = IF PlainStage(a.stages[s]) THEN Entering(a, s) ELSE width
  BY <1>1, StageLaw
<1> HIDE DEF width
<1>3. ASSUME NEW i \in 1..Len(a.stages[s]), Parametric(a.stages[s][i].op)
      PROVE  a.stages[s][i].out = StageWidth(a.stages[s])
  <2>1. i \in 1..i BY <1>1, GenotypeIs, StageIs
  <2>2. ~PlainStage(a.stages[s]) BY <1>3 DEF PlainStage
  <2> QED BY <1>2, <1>3, <2>1, <2>2
<1> QED BY <1>2, <1>3

-----------------------------------------------------------------------------
(***************************************************************************)
(* Membership: the widths of the stages, and all the rest.                 *)
(***************************************************************************)
BlockOffered(b, first, sp) ==
    /\ b.op \in sp.block.op
    /\ UsesKernel(b.op) => b.kernel \in sp.block.kernel
    /\ UsesExpansion(b.op) => b.expansion \in sp.block.expansion
    /\ Parametric(b.op) => b.norm \in sp.block.norm /\ b.act \in sp.block.act
    /\ b.residual => sp.block.residual
    /\ b.op # "identity" => b.stride \in (IF first THEN sp.stage_strides ELSE {1})

HeadOffered(h, sp) ==
    \A f \in DOMAIN h : (f = "act" => h.hidden > 0) => h[f] \in sp.head[f]

FrameOffered(a, sp) ==
    /\ a.channels = sp.channels /\ a.size = sp.size /\ a.classes = sp.classes
    /\ Len(a.stages) \in sp.num_stages
    /\ \A f \in DOMAIN a.stem : a.stem[f] \in sp.stem[f]
    /\ HeadOffered(a.head, sp)
    /\ \A s \in 1..Len(a.stages) :
          /\ Len(a.stages[s]) \in sp.blocks_per_stage
          /\ \A i \in 1..Len(a.stages[s]) : BlockOffered(a.stages[s][i], i = 1, sp)

WidthsOffered(a, sp) ==
    \A s \in 1..Len(a.stages) :
        /\ StageWidth(a.stages[s]) \in sp.stage_channels
        /\ sp.monotonic /\ s > 1 => StageWidth(a.stages[s - 1]) <= StageWidth(a.stages[s])

LEMMA BlockOfferedIs ==
    ASSUME NEW b, NEW first \in BOOLEAN, NEW sp
    PROVE  BlockIssues(b, first, sp) = {} <=> BlockOffered(b, first, sp)
<1> DEFINE wrong(f) == UsesField(b.op, f) /\ b[f] \notin sp.block[f]
           strides == IF first THEN sp.stage_strides ELSE {1}
<1>1. BlockIssues(b, first, sp) = {} <=>
        /\ b.op \in sp.block.op
        /\ {f \in UsableFields : wrong(f)} = {}
        /\ ~(b.residual /\ ~sp.block.residual)
        /\ ~(b.op # "identity" /\ b.stride \notin strides)
  <2> HIDE DEF strides, wrong
  <2>1. BlockIssues(b, first, sp) =
          (IF b.op \notin sp.block.op THEN {"operation"} ELSE {})
            \cup {f \in UsableFields : wrong(f)}
            \cup (IF b.residual /\ ~sp.block.residual THEN {"residual"} ELSE {})
            \cup (IF b.op # "identity" /\ b.stride \notin strides THEN {"stride"} ELSE {})
    BY DEF BlockIssues, wrong, strides
  <2> DEFINE fields == {f \in UsableFields : wrong(f)}
             x == b.op \notin sp.block.op
             y == b.residual /\ ~sp.block.residual
             z == b.op # "identity" /\ b.stride \notin strides
             X == IF x THEN {"operation"} ELSE {}
             Y == IF y THEN {"residual"} ELSE {}
             Z == IF z THEN {"stride"} ELSE {}
  <2>2. BlockIssues(b, first, sp) = X \cup fields \cup Y \cup Z BY <2>1
  <2>3. (X = {} <=> ~x) /\ (Y = {} <=> ~y) /\ (Z = {} <=> ~z) OBVIOUS
  <2> HIDE DEF fields, X, Y, Z, x, y, z
  <2>4. BlockIssues(b, first, sp) = {} <=> X = {} /\ fields = {} /\ Y = {} /\ Z = {}
    BY <2>2
  <2>5. BlockIssues(b, first, sp) = {} <=> ~x /\ fields = {} /\ ~y /\ ~z BY <2>3, <2>4
  <2> QED BY <2>5 DEF x, y, z, fields
<1>2. {f \in UsableFields : wrong(f)} = {} <=>
        ~wrong("kernel") /\ ~wrong("expansion") /\ ~wrong("norm") /\ ~wrong("act")
  <2> HIDE DEF wrong
  <2> QED BY DEF UsableFields
<1>3. /\ wrong("kernel") <=> UsesKernel(b.op) /\ b.kernel \notin sp.block.kernel
      /\ wrong("expansion") <=> UsesExpansion(b.op) /\ b.expansion \notin sp.block.expansion
      /\ wrong("norm") <=> Parametric(b.op) /\ b.norm \notin sp.block.norm
      /\ wrong("act") <=> Parametric(b.op) /\ b.act \notin sp.block.act
  BY DEF UsesField
<1> HIDE DEF wrong, strides
<1> QED BY <1>1, <1>2, <1>3 DEF BlockOffered, strides

LEMMA StageWidthIs ==
    ASSUME NEW a \in Genotypes, NEW s \in 1..Len(a.stages)
    PROVE  /\ StageWidth(a.stages[s]) \in Int
           /\ s > 1 => StageWidth(a.stages[s - 1]) \in Int
<1>1. s > 1 => s - 1 \in 1..Len(a.stages) BY GenotypeIs
<1>2. \A t \in 1..Len(a.stages) : StageWidth(a.stages[t]) \in Positive BY WidthsAre
<1>3. Positive \subseteq Int BY DEF Positive
<1> HIDE DEF Positive
<1> QED BY <1>1, <1>2, <1>3

\* A stage that has no issue.
StageOffered(a, s, sp) ==
    /\ Len(a.stages[s]) \in sp.blocks_per_stage
    /\ StageWidth(a.stages[s]) \in sp.stage_channels
    /\ sp.monotonic /\ s > 1 => StageWidth(a.stages[s]) >= StageWidth(a.stages[s - 1])
    /\ \A i \in DOMAIN a.stages[s] : BlockOffered(a.stages[s][i], i = 1, sp)

LEMMA StageOfferedIs ==
    ASSUME NEW a \in Genotypes, NEW s \in 1..Len(a.stages), NEW sp
    PROVE  StageIssues(a, s, sp) = {} <=> StageOffered(a, s, sp)
<1> DEFINE stage == a.stages[s]
           blocks == UNION {BlockIssues(stage[i], i = 1, sp) : i \in DOMAIN stage}
           x == Len(stage) \notin sp.blocks_per_stage
           y == StageWidth(stage) \notin sp.stage_channels
           z == sp.monotonic /\ s > 1 /\ StageWidth(stage) < StageWidth(a.stages[s - 1])
           X == IF x THEN {"blocks"} ELSE {}
           Y == IF y THEN {"width"} ELSE {}
           Z == IF z THEN {"order"} ELSE {}
<1>1. StageIssues(a, s, sp) = X \cup Y \cup Z \cup blocks BY DEF StageIssues
<1>2. (X = {} <=> ~x) /\ (Y = {} <=> ~y) /\ (Z = {} <=> ~z) OBVIOUS
<1>3. blocks = {} <=> \A i \in DOMAIN stage : BlockOffered(stage[i], i = 1, sp)
  <2>1. blocks = {} <=> \A i \in DOMAIN stage : BlockIssues(stage[i], i = 1, sp) = {} OBVIOUS
  <2>2. \A i \in DOMAIN stage : (i = 1) \in BOOLEAN OBVIOUS
  <2> HIDE DEF stage, blocks
  <2> QED BY <2>1, <2>2, BlockOfferedIs
<1>4. ~z <=> (sp.monotonic /\ s > 1 => StageWidth(stage) >= StageWidth(a.stages[s - 1]))
  <2>1. /\ StageWidth(stage) \in Int
        /\ s > 1 => StageWidth(a.stages[s - 1]) \in Int
    BY StageWidthIs
  <2> HIDE DEF stage
  <2> QED BY <2>1
<1> HIDE DEF blocks, X, Y, Z, z
<1>5. StageIssues(a, s, sp) = {} <=> X = {} /\ Y = {} /\ Z = {} /\ blocks = {} BY <1>1
<1>6. StageIssues(a, s, sp) = {} <=> ~x /\ ~y /\ ~z /\ blocks = {} BY <1>2, <1>5
<1> QED BY <1>3, <1>4, <1>6 DEF StageOffered

LEMMA MembershipIs ==
    ASSUME NEW a \in Genotypes, NEW sp
    PROVE  MembershipIssues(a, sp) = {} <=> FrameOffered(a, sp) /\ WidthsOffered(a, sp)
<1> DEFINE frame == {f \in {"channels", "size", "classes"} : a[f] # sp[f]}
           x == Len(a.stages) \notin sp.num_stages
           y == \E f \in DOMAIN a.stem : a.stem[f] \notin sp.stem[f]
           z == \E f \in DOMAIN a.head : /\ f = "act" => a.head.hidden > 0
                                         /\ a.head[f] \notin sp.head[f]
           stages == UNION {StageIssues(a, s, sp) : s \in DOMAIN a.stages}
           X == IF x THEN {"stages"} ELSE {}
           Y == IF y THEN {"stem"} ELSE {}
           Z == IF z THEN {"head"} ELSE {}
<1>1. MembershipIssues(a, sp) = frame \cup X \cup Y \cup Z \cup stages
  BY DEF MembershipIssues
<1>2. (X = {} <=> ~x) /\ (Y = {} <=> ~y) /\ (Z = {} <=> ~z) OBVIOUS
<1>3. frame = {} <=> a.channels = sp.channels /\ a.size = sp.size /\ a.classes = sp.classes
  OBVIOUS
<1>4. stages = {} <=> \A s \in 1..Len(a.stages) : StageOffered(a, s, sp)
  <2>1. DOMAIN a.stages = 1..Len(a.stages) BY GenotypeIs
  <2>2. stages = {} <=> \A s \in 1..Len(a.stages) : StageIssues(a, s, sp) = {} BY <2>1
  <2> HIDE DEF stages
  <2> QED BY <2>2, StageOfferedIs
<1>5. ~z <=> HeadOffered(a.head, sp) BY DEF HeadOffered
<1>6. (\A s \in 1..Len(a.stages) : StageOffered(a, s, sp)) <=>
        /\ WidthsOffered(a, sp)
        /\ \A s \in 1..Len(a.stages) :
             /\ Len(a.stages[s]) \in sp.blocks_per_stage
             /\ \A i \in 1..Len(a.stages[s]) : BlockOffered(a.stages[s][i], i = 1, sp)
  <2>1. ASSUME NEW s \in 1..Len(a.stages)
        PROVE  /\ DOMAIN a.stages[s] = 1..Len(a.stages[s])
               /\ StageWidth(a.stages[s]) \in Int
               /\ s > 1 => StageWidth(a.stages[s - 1]) \in Int
    <3>1. DOMAIN a.stages[s] = 1..Len(a.stages[s]) BY GenotypeIs, StageIs
    <3> QED BY <3>1, StageWidthIs
  <2> QED BY <2>1 DEF StageOffered, WidthsOffered
<1> HIDE DEF frame, x, z, stages, X, Y, Z
<1>7. MembershipIssues(a, sp) = {} <=>
        frame = {} /\ X = {} /\ Y = {} /\ stages = {} /\ Z = {}
  BY <1>1
<1>8. MembershipIssues(a, sp) = {} <=> frame = {} /\ ~x /\ ~y /\ stages = {} /\ ~z
  BY <1>2, <1>7
<1>9. ~y <=> \A f \in DOMAIN a.stem : a.stem[f] \in sp.stem[f] OBVIOUS
<1> HIDE DEF y
<1> QED BY <1>3, <1>4, <1>5, <1>6, <1>8, <1>9 DEF FrameOffered, x

\* Repair takes no block out of the space.
LEMMA RepairOffered ==
    ASSUME NEW a \in Genotypes, NEW widths \in Targets(a), NEW c, RepairOf(c, a, widths),
           NEW sp, FrameOffered(a, sp)
    PROVE  FrameOffered(c, sp)
<1>1. /\ c \in Genotypes /\ Len(c.stages) = Len(a.stages)
      /\ c = [a EXCEPT !.stages = c.stages]
      /\ \A s \in 1..Len(a.stages) : Len(c.stages[s]) = Len(a.stages[s])
  BY DEF RepairOf
<1>2. /\ c.channels = a.channels /\ c.size = a.size /\ c.classes = a.classes
      /\ c.stem = a.stem /\ c.head = a.head
  BY <1>1 DEF Genotypes
<1>3. ASSUME NEW s \in 1..Len(a.stages), NEW i \in 1..Len(a.stages[s])
      PROVE  BlockOffered(c.stages[s][i], i = 1, sp)
  <2> DEFINE b == a.stages[s][i]
             d == c.stages[s][i]
             first == i = 1
  <2>1. BlockOffered(b, first, sp) BY DEF FrameOffered
  <2>2. /\ d.op = b.op /\ d.kernel = b.kernel /\ d.expansion = b.expansion
        /\ d.stride = b.stride /\ d.norm = b.norm /\ d.act = b.act
        /\ d.residual => b.residual
    BY RepairedFields
  <2> HIDE DEF b, d, first
  <2>3. BlockOffered(d, first, sp) BY <2>1, <2>2 DEF BlockOffered
  <2> QED BY <2>3 DEF d, first
<1> QED BY <1>1, <1>2, <1>3 DEF FrameOffered

\* Nor does it take a stage out of it, when the widths its convolutions get
\* are offered and in order and a first stage without one has such a width.
LEMMA OfferedWidths ==
    ASSUME NEW a \in Genotypes, NEW widths \in Targets(a), NEW c, RepairOf(c, a, widths),
           NEW sp, NEW V \in [1..Len(a.stages) -> Positive],
           \A s \in 1..Len(a.stages) : V[s] \in sp.stage_channels,
           sp.monotonic => \A s \in 2..Len(a.stages) : V[s - 1] <= V[s],
           \A s \in 1..Len(a.stages) :
               ~PlainStage(a.stages[s]) => WidthFor(a, widths, s, Entering(c, s)) = V[s],
           PlainStage(a.stages[1]) => a.stem.out = V[1]
    PROVE  WidthsOffered(c, sp)
<1> DEFINE n == Len(a.stages)
           W(s) == StageWidth(c.stages[s])
           plain(s) == PlainStage(a.stages[s])
           claim(s) == W(s) \in sp.stage_channels /\ (sp.monotonic => W(s) <= V[s])
           S == {s \in 0..n : s = 0 \/ claim(s)}
<1>1. n \in Nat /\ n >= 1 /\ Len(c.stages) = n /\ c \in Genotypes BY GenotypeIs DEF RepairOf
<1>2. c.stem = a.stem BY DEF RepairOf, Genotypes
<1>3. \A s \in 1..n : W(s) = IF plain(s) THEN Entering(c, s) ELSE V[s] BY StageLaw
<1>4. /\ Entering(c, 1) = a.stem.out
      /\ \A s \in 2..n : Entering(c, s) = W(s - 1)
  BY <1>2 DEF Entering
<1>5. \A s \in 1..n : W(s) \in Int /\ V[s] \in Int
  <2>1. \A s \in 1..n : W(s) \in Int BY <1>1, StageWidthIs
  <2>2. \A s \in 1..n : V[s] \in Int BY DEF Positive
  <2> QED BY <2>1, <2>2
<1>6. \A s \in 1..n : V[s] \in sp.stage_channels OBVIOUS
<1>7. sp.monotonic => \A s \in 2..n : V[s - 1] <= V[s] OBVIOUS
<1>8. plain(1) => a.stem.out = V[1] OBVIOUS
<1> HIDE DEF n, W, plain
<1>9. 0 \in S BY <1>1
<1>10. ASSUME NEW s \in 1..n, s - 1 \in S PROVE s \in S
  <2>1. CASE ~plain(s)
    <3>1. W(s) = V[s] BY <1>3, <2>1
    <3>2. claim(s) BY <1>5, <1>6, <3>1
    <3> QED BY <1>1, <3>2
  <2>2. CASE plain(s) /\ s = 1
    <3>1. W(s) = V[s] BY <1>3, <1>4, <1>8, <2>2
    <3>2. claim(s) BY <1>5, <1>6, <3>1
    <3> QED BY <1>1, <3>2
  <2>3. CASE plain(s) /\ s > 1
    <3>1. s \in 2..n /\ s - 1 \in 1..n /\ claim(s - 1) BY <1>1, <1>10, <2>3
    <3>2. W(s) = W(s - 1) BY <1>3, <1>4, <2>3, <3>1
    <3>3. claim(s) BY <1>5, <1>7, <3>1, <3>2
    <3> QED BY <1>1, <3>3
  <2> QED BY <1>1, <2>1, <2>2, <2>3
<1> HIDE DEF S
<1>11. \A s \in 0..n : s \in S BY <1>1, <1>9, <1>10, UpTheInterval
<1>12. \A s \in 1..n : claim(s)
  <2>1. \A s \in 1..n : s \in S BY <1>1, <1>11
  <2> QED BY <2>1 DEF S
<1>13. ASSUME NEW s \in 2..n, sp.monotonic PROVE W(s - 1) <= W(s)
  <2>1. s \in 1..n /\ s - 1 \in 1..n BY <1>1
  <2>2. CASE plain(s)
    <3>1. W(s) = W(s - 1) BY <1>3, <1>4, <2>1, <2>2
    <3> QED BY <1>5, <2>1, <3>1
  <2>3. CASE ~plain(s)
    <3>1. W(s) = V[s] BY <1>3, <2>1, <2>3
    <3> QED BY <1>5, <1>7, <1>12, <1>13, <2>1, <3>1
  <2> QED BY <2>2, <2>3
<1>14. \A s \in 1..n : s > 1 => s \in 2..n BY <1>1
<1> QED BY <1>1, <1>12, <1>13, <1>14 DEF WidthsOffered, W

-----------------------------------------------------------------------------
(***************************************************************************)
(* The space of a run, and the widths of an architecture in it.            *)
(***************************************************************************)
\* A space whose choices are of the right types; of the ratios and dropouts,
\* which are not rounded in a space, nothing is said.
Typed(sp) ==
    /\ sp.channels \in Positive /\ sp.size \in Positive /\ sp.classes \in Positive
    /\ sp.stage_channels \subseteq Positive /\ sp.stage_strides \subseteq 1..4
    /\ sp.num_stages \subseteq 1..8 /\ sp.blocks_per_stage \subseteq 1..16
    /\ sp.block.op \subseteq OperationTypes /\ sp.block.kernel \subseteq OddKernels
    /\ sp.block.residual \in BOOLEAN
    /\ sp.block.norm \subseteq NormalizationTypes /\ sp.block.act \subseteq ActivationTypes
    /\ DOMAIN sp.stem = {"out", "kernel", "stride", "norm", "act"}
    /\ sp.stem.out \subseteq Positive /\ sp.stem.kernel \subseteq OddKernels
    /\ sp.stem.stride \subseteq 1..4
    /\ sp.stem.norm \subseteq NormalizationTypes /\ sp.stem.act \subseteq ActivationTypes
    /\ sp.head.pooling \subseteq PoolingTypes /\ sp.head.hidden \subseteq Nat
    /\ sp.head.act \subseteq ActivationTypes

\* One whose ratios and dropouts a specification takes as they are.
Exact(sp) ==
    /\ Typed(sp)
    /\ sp.block.expansion \subseteq Expansions /\ sp.head.dropout \subseteq Dropouts

LEMMA ValidIs ==
    ASSUME NEW sp, SpaceValid(sp)
    PROVE  /\ Typed(sp)
           /\ sp.block.expansion \subseteq Nat
           /\ \A d \in sp.head.dropout : d \in Nat /\ 10 * d <= 9 * Unit
<1>1. sp.channels \in Positive /\ sp.size \in Positive /\ sp.classes \in Positive
  <2>1. sp.channels \in 1..16 /\ sp.size \in 4..1024 /\ sp.classes \in 2..MaxClasses
    BY Zenon DEF SpaceValid
  <2> QED BY <2>1 DEF Positive
<1>2. /\ sp.stage_channels \subseteq Positive /\ sp.stage_strides \subseteq 1..4
      /\ sp.num_stages \subseteq 1..8 /\ sp.blocks_per_stage \subseteq 1..16
  BY Zenon DEF SpaceValid, Positive
<1>3. BlockChoicesValid(sp.block) /\ StemChoicesValid(sp.stem) /\ HeadChoicesValid(sp.head)
  BY Zenon DEF SpaceValid
<1>4. /\ sp.block.op \subseteq OperationTypes /\ sp.block.kernel \subseteq OddKernels
      /\ sp.block.expansion \subseteq Nat /\ sp.block.residual \in BOOLEAN
      /\ sp.block.norm \subseteq NormalizationTypes /\ sp.block.act \subseteq ActivationTypes
  BY <1>3 DEF BlockChoicesValid
<1>5. /\ DOMAIN sp.stem = {"out", "kernel", "stride", "norm", "act"}
      /\ sp.stem.out \subseteq Positive /\ sp.stem.kernel \subseteq OddKernels
      /\ sp.stem.stride \subseteq 1..4
      /\ sp.stem.norm \subseteq NormalizationTypes /\ sp.stem.act \subseteq ActivationTypes
  BY <1>3 DEF StemChoicesValid, Positive
<1>6. /\ sp.head.pooling \subseteq PoolingTypes /\ sp.head.hidden \subseteq Nat
      /\ \A d \in sp.head.dropout : d \in Nat /\ 10 * d <= 9 * Unit
      /\ sp.head.act \subseteq ActivationTypes
  BY <1>3 DEF HeadChoicesValid
<1> QED BY <1>1, <1>2, <1>4, <1>5, <1>6 DEF Typed

\* Every ratio that an exact space offers may be drawn from it.
LEMMA RatiosAre ==
    ASSUME NEW sp, Exact(sp)
    PROVE  Ratios(sp) = sp.block.expansion
BY DEF Exact, Ratios, Expansions

\* An architecture of the search: nothing to repair, and offered by the space.
Member(a, sp) == Settled(a) /\ MembershipIssues(a, sp) = {}

LEMMA MemberIs ==
    ASSUME NEW sp, NEW a, Member(a, sp)
    PROVE  /\ a \in Genotypes /\ FrameOffered(a, sp) /\ WidthsOffered(a, sp)
           /\ StageWidths(a) \in [1..Len(a.stages) -> Positive]
           /\ \A s \in 1..Len(a.stages) :
                 /\ StageWidths(a)[s] = StageWidth(a.stages[s])
                 /\ StageWidths(a)[s] \in sp.stage_channels
           /\ sp.monotonic =>
                 \A s \in 2..Len(a.stages) : StageWidths(a)[s - 1] <= StageWidths(a)[s]
<1>1. a \in Genotypes /\ FrameOffered(a, sp) /\ WidthsOffered(a, sp)
  BY MembershipIs DEF Member, Settled
<1>2. DOMAIN a.stages = 1..Len(a.stages) /\ Len(a.stages) \in Nat BY <1>1, GenotypeIs
<1>3. \A s \in 1..Len(a.stages) : StageWidth(a.stages[s]) \in Positive BY <1>1, WidthsAre
<1>4. StageWidths(a) = [s \in 1..Len(a.stages) |-> StageWidth(a.stages[s])]
  BY <1>2 DEF StageWidths
<1>5. \A s \in 1..Len(a.stages) : StageWidths(a)[s] = StageWidth(a.stages[s]) BY <1>4
<1>6. StageWidths(a) \in [1..Len(a.stages) -> Positive] BY <1>3, <1>4
<1>7. \A s \in 1..Len(a.stages) : StageWidths(a)[s] \in sp.stage_channels
  BY <1>1, <1>5 DEF WidthsOffered
<1>8. ASSUME sp.monotonic, NEW s \in 2..Len(a.stages)
      PROVE  StageWidths(a)[s - 1] <= StageWidths(a)[s]
  <2>1. s \in 1..Len(a.stages) /\ s - 1 \in 1..Len(a.stages) /\ s > 1 BY <1>2
  <2>2. StageWidth(a.stages[s - 1]) <= StageWidth(a.stages[s])
    BY <1>1, <1>8, <2>1 DEF WidthsOffered
  <2> QED BY <1>5, <2>1, <2>2
<1> QED BY <1>1, <1>5, <1>6, <1>7, <1>8

\* The intended width of a stage whose convolutions agree.
LEMMA IntendedIs ==
    ASSUME NEW a \in Genotypes, NEW s \in 1..Len(a.stages), NEW in \in Positive, NEW w,
           ~PlainStage(a.stages[s]),
           \A i \in 1..Len(a.stages[s]) :
               Parametric(a.stages[s][i].op) => a.stages[s][i].out = w
    PROVE  WidthFor(a, NoTarget, s, in) = w
<1>1. a.stages[s] \in StageForms BY GenotypeIs
<1>2. PICK i \in 1..Len(a.stages[s]) :
         Parametric(a.stages[s][i].op) /\ IntendedWidth(a.stages[s], in) = a.stages[s][i].out
  BY <1>1, IntendedWidthIs
<1> QED BY <1>2 DEF WidthFor

-----------------------------------------------------------------------------
(***************************************************************************)
(* The operators that replace one block.                                   *)
(***************************************************************************)
LEMMA WithBlockIs ==
    ASSUME NEW a \in Genotypes, NEW p \in Positions(a), NEW b \in RawBlocks
    PROVE  LET x == WithBlock(a, p, b) IN
           /\ x \in Genotypes /\ x = [a EXCEPT !.stages = x.stages]
           /\ Len(x.stages) = Len(a.stages)
           /\ \A s \in 1..Len(a.stages) :
                 /\ Len(x.stages[s]) = Len(a.stages[s])
                 /\ \A i \in 1..Len(a.stages[s]) :
                       x.stages[s][i] = IF <<s, i>> = p THEN Canonical(b) ELSE a.stages[s][i]
<1> DEFINE x == WithBlock(a, p, b)
           d == Canonical(b)
           stage == [a.stages[p[1]] EXCEPT ![p[2]] = d]
           stages == [a.stages EXCEPT ![p[1]] = stage]
<1>1. /\ p[1] \in 1..Len(a.stages) /\ p[2] \in 1..Len(a.stages[p[1]]) /\ p = <<p[1], p[2]>>
  BY PositionsAre
<1>2. d \in BlockForms BY CanonicalIs
<1>3. /\ a.stages \in Seq(StageForms) /\ Len(a.stages) >= 1 /\ Len(a.stages) \in Nat
      /\ \A s \in 1..Len(a.stages) : a.stages[s] \in StageForms
  BY GenotypeIs
<1>4. x = [a EXCEPT !.stages = stages] BY DEF WithBlock, Genotypes
<1> HIDE DEF d, x
<1>5. stage \in StageForms /\ Len(stage) = Len(a.stages[p[1]])
  <2>1. a.stages[p[1]] \in Seq(BlockForms) /\ a.stages[p[1]] # <<>> BY <1>1, <1>3 DEF StageForms
  <2>2. stage \in Seq(BlockForms) /\ Len(stage) = Len(a.stages[p[1]]) BY <1>1, <1>2, <2>1
  <2>3. stage # <<>> BY <1>1, <2>1, <2>2
  <2> QED BY <2>2, <2>3 DEF StageForms
<1>6. \A i \in 1..Len(a.stages[p[1]]) :
         stage[i] = IF i = p[2] THEN d ELSE a.stages[p[1]][i]
  <2>1. a.stages[p[1]] \in Seq(BlockForms) BY <1>1, <1>3 DEF StageForms
  <2> QED BY <2>1
<1> HIDE DEF stage
<1>7. /\ stages \in Seq(StageForms) /\ Len(stages) = Len(a.stages) /\ stages # <<>>
      /\ \A s \in 1..Len(a.stages) : stages[s] = IF s = p[1] THEN stage ELSE a.stages[s]
  BY <1>1, <1>3, <1>5
<1> HIDE DEF stages
<1>8. x \in Genotypes /\ x.stages = stages /\ x = [a EXCEPT !.stages = x.stages]
  BY <1>4, <1>7 DEF Genotypes
<1>9. ASSUME NEW s \in 1..Len(a.stages)
      PROVE  /\ Len(x.stages[s]) = Len(a.stages[s])
             /\ \A i \in 1..Len(a.stages[s]) :
                   x.stages[s][i] = IF <<s, i>> = p THEN Canonical(b) ELSE a.stages[s][i]
  <2>1. CASE s = p[1]
    <3>1. x.stages[s] = stage BY <1>7, <1>8, <2>1
    <3>2. \A i \in 1..Len(a.stages[s]) : i = p[2] <=> <<s, i>> = p BY <1>1, <2>1
    <3> QED BY <1>5, <1>6, <2>1, <3>1, <3>2 DEF d
  <2>2. CASE s # p[1]
    <3>1. x.stages[s] = a.stages[s] BY <1>7, <1>8, <2>2
    <3>2. \A i \in 1..Len(a.stages[s]) : <<s, i>> # p BY <1>1, <2>2
    <3> QED BY <3>1, <3>2
  <2> QED BY <2>1, <2>2
<1> QED BY <1>7, <1>8, <1>9 DEF x

\* Replacing a block by one of the same width that is offered keeps the
\* architecture in the space, if what becomes a pool or an identity can be one.
LEMMA ReplacedStays ==
    ASSUME NEW sp, NEW a, Member(a, sp), NEW p \in Positions(a), NEW b \in RawBlocks,
           Canonical(b).out = BlockAt(a, p).out,
           BlockOffered(Canonical(b), p[2] = 1, sp),
           Parametric(b.op) => Parametric(BlockAt(a, p).op),
           Parametric(BlockAt(a, p).op) /\ ~Parametric(b.op) =>
               WidthBefore(a, p) = BlockAt(a, p).out
    PROVE  MembershipIssues(Repair(WithBlock(a, p, b)), sp) = {}
<1> DEFINE x == WithBlock(a, p, b)
           c == Repair(x)
           d == Canonical(b)
           n == Len(a.stages)
           V == StageWidths(a)
<1>1. Settled(a) /\ a \in Genotypes BY MemberIs DEF Member
<1>2. /\ FrameOffered(a, sp)
      /\ V \in [1..n -> Positive]
      /\ \A s \in 1..n : V[s] = StageWidth(a.stages[s]) /\ V[s] \in sp.stage_channels
      /\ sp.monotonic => \A s \in 2..n : V[s - 1] <= V[s]
  BY MemberIs
<1>3. /\ x \in Genotypes /\ x = [a EXCEPT !.stages = x.stages]
      /\ Len(x.stages) = n
      /\ \A s \in 1..n :
            /\ Len(x.stages[s]) = Len(a.stages[s])
            /\ \A i \in 1..Len(a.stages[s]) :
                  x.stages[s][i] = IF <<s, i>> = p THEN d ELSE a.stages[s][i]
  BY <1>1, WithBlockIs
<1>4. d.op = b.op /\ d.out = BlockAt(a, p).out BY CanonicalIs
<1>5. /\ x.channels = a.channels /\ x.size = a.size /\ x.classes = a.classes
      /\ x.stem = a.stem /\ x.head = a.head
  BY <1>1, <1>3 DEF Genotypes
<1>6. RepairOf(c, x, NoTarget) /\ Settled(c) /\ c \in Genotypes /\ NoTarget \in Targets(x)
  BY <1>3, RepairOfRepair DEF Settled, Targets
<1>7. BlockOffered(d, p[2] = 1, sp) OBVIOUS
<1> HIDE DEF x, d, V, c
<1>8. FrameOffered(x, sp)
  <2>1. ASSUME NEW s \in 1..n, NEW i \in 1..Len(a.stages[s])
        PROVE  BlockOffered(x.stages[s][i], i = 1, sp)
    <3>1. CASE <<s, i>> = p
      <4>1. x.stages[s][i] = d /\ p[2] = i BY <1>3, <3>1
      <4> QED BY <1>7, <4>1
    <3>2. CASE <<s, i>> # p
      <4>1. x.stages[s][i] = a.stages[s][i] BY <1>3, <3>2
      <4> QED BY <1>2, <4>1 DEF FrameOffered
    <3> QED BY <3>1, <3>2
  <2> QED BY <1>2, <1>3, <1>5, <2>1 DEF FrameOffered
<1>9. FrameOffered(c, sp) BY <1>3, <1>6, <1>8, RepairOffered
<1>10. ASSUME NEW s \in 1..n, NEW i \in 1..Len(a.stages[s]), Parametric(x.stages[s][i].op)
       PROVE  x.stages[s][i].out = V[s]
  <2>1. Parametric(a.stages[s][i].op) => a.stages[s][i].out = V[s]
    BY <1>1, <1>2, SettledWidths
  <2>2. CASE <<s, i>> = p
    <3>1. x.stages[s][i] = d /\ BlockAt(a, p) = a.stages[s][i] BY <1>3, <2>2 DEF BlockAt
    <3>2. Parametric(a.stages[s][i].op) BY <1>4, <1>10, <3>1
    <3> QED BY <1>4, <2>1, <3>1, <3>2
  <2>3. CASE <<s, i>> # p BY <1>3, <1>10, <2>1, <2>3
  <2> QED BY <2>2, <2>3
<1>11. ASSUME NEW s \in 1..n, ~PlainStage(x.stages[s])
       PROVE  WidthFor(x, NoTarget, s, Entering(c, s)) = V[s]
  <2>1. Entering(c, s) \in Positive BY <1>3, <1>6, WidthsAre DEF RepairOf
  <2>2. s \in 1..Len(x.stages) BY <1>3
  <2>3. \A i \in 1..Len(x.stages[s]) :
           Parametric(x.stages[s][i].op) => x.stages[s][i].out = V[s]
    BY <1>3, <1>10
  <2> QED BY <1>3, <1>11, <2>1, <2>2, <2>3, IntendedIs
<1>12. PlainStage(x.stages[1]) => x.stem.out = V[1]
  <2> SUFFICES ASSUME PlainStage(x.stages[1]) PROVE x.stem.out = V[1] OBVIOUS
  <2>1. 1 \in 1..n BY <1>1, GenotypeIs
  <2>2. V[1] = StageWidth(a.stages[1]) /\ Entering(a, 1) = a.stem.out BY <1>2, <2>1 DEF Entering
  <2>3. CASE PlainStage(a.stages[1]) BY <1>1, <1>5, <2>1, <2>2, <2>3, SettledWidths
  <2>4. CASE ~PlainStage(a.stages[1])
    <3>1. PICK j \in 1..Len(a.stages[1]) : Parametric(a.stages[1][j].op) BY <2>4 DEF PlainStage
    <3>2. ~Parametric(x.stages[1][j].op) BY <1>3, <2>1, <3>1 DEF PlainStage
    <3>3. p = <<1, j>> /\ x.stages[1][j] = d BY <1>3, <2>1, <3>1, <3>2
    <3>4. BlockAt(a, p) = a.stages[1][j] BY <3>3 DEF BlockAt
    <3>5. WidthBefore(a, p) = a.stages[1][j].out BY <1>4, <3>1, <3>2, <3>3, <3>4
    <3>6. a.stages[1][j].out = V[1] BY <1>1, <2>1, <2>2, <3>1, SettledWidths
    <3>7. CASE j = 1
      <4>1. WidthBefore(a, p) = Entering(a, 1) BY <1>1, <2>1, <3>3, <3>7, WidthsAre
      <4> QED BY <1>5, <2>2, <3>5, <3>6, <4>1
    <3>8. CASE j > 1
      <4>1. WidthBefore(a, p) = a.stages[1][j - 1].out BY <1>1, <2>1, <3>3, <3>8, WidthsAre
      <4>2. Len(a.stages[1]) \in Nat BY <1>1, <2>1, GenotypeIs, StageIs
      <4>3. j - 1 \in 1..Len(a.stages[1]) BY <3>8, <4>2
      <4>4. ASSUME NEW k \in 1..(j - 1) PROVE ~Parametric(a.stages[1][k].op)
        <5>1. k \in 1..Len(a.stages[1]) /\ k # j BY <3>8, <4>2
        <5>2. x.stages[1][k] = a.stages[1][k] BY <1>3, <2>1, <3>3, <5>1
        <5> QED BY <1>3, <2>1, <5>1, <5>2 DEF PlainStage
      <4>5. a.stages[1][j - 1].out = Entering(a, 1) BY <1>1, <2>1, <4>3, <4>4, SettledWidths
      <4> QED BY <1>5, <2>2, <3>5, <3>6, <4>1, <4>5
    <3> QED BY <3>7, <3>8
  <2> QED BY <2>3, <2>4
<1>13. WidthsOffered(c, sp)
  <2>1. V \in [1..Len(x.stages) -> Positive] BY <1>2, <1>3
  <2> QED BY <1>2, <1>3, <1>6, <1>11, <1>12, <2>1, OfferedWidths, SMTT(40)
<1>14. MembershipIssues(c, sp) = {} BY <1>6, <1>9, <1>13, MembershipIs
<1> QED BY <1>14 DEF c, x

\* What repair makes of an architecture with another block.
LEMMA ReplacedIs ==
    ASSUME NEW sp, NEW a, Member(a, sp), NEW p \in Positions(a), NEW b \in RawBlocks
    PROVE  LET x == WithBlock(a, p, b)
               c == Repair(x)
               d == Canonical(b)
           IN /\ x \in Genotypes /\ c \in Genotypes
              /\ Canonical(b) # BlockAt(a, p) => x # a
              /\ c.head = a.head /\ SameLayout(a, c)
              /\ \A q \in Positions(a) : q # p => BlockAt(c, q).op = BlockAt(a, q).op
              /\ BlockAt(c, p).op = d.op /\ BlockAt(c, p).kernel = d.kernel
              /\ BlockAt(c, p).norm = d.norm /\ BlockAt(c, p).act = d.act
              /\ MembershipIssues(c, sp) = {} => BlockOffered(BlockAt(c, p), p[2] = 1, sp)
<1> DEFINE x == WithBlock(a, p, b)
           c == Repair(x)
           d == Canonical(b)
           n == Len(a.stages)
<1>1. a \in Genotypes BY MemberIs
<1>2. /\ x \in Genotypes /\ x = [a EXCEPT !.stages = x.stages]
      /\ Len(x.stages) = n
      /\ \A s \in 1..n :
            /\ Len(x.stages[s]) = Len(a.stages[s])
            /\ \A i \in 1..Len(a.stages[s]) :
                  x.stages[s][i] = IF <<s, i>> = p THEN d ELSE a.stages[s][i]
  BY <1>1, WithBlockIs
<1>3. RepairOf(c, x, NoTarget) /\ Settled(c) /\ c \in Genotypes /\ NoTarget \in Targets(x)
  BY <1>2, RepairOfRepair DEF Settled, Targets
<1> HIDE DEF x, c, d
<1>4. /\ c = [x EXCEPT !.stages = c.stages] /\ Len(c.stages) = n
      /\ \A s \in 1..n : Len(c.stages[s]) = Len(a.stages[s])
  BY <1>2, <1>3 DEF RepairOf
<1>5. c.head = a.head BY <1>1, <1>2, <1>4 DEF Genotypes
<1>6. SameLayout(a, c)
  <2>1. DOMAIN a.stages = 1..n /\ DOMAIN c.stages = 1..n BY <1>1, <1>3, <1>4, GenotypeIs
  <2> QED BY <1>4, <2>1 DEF SameLayout
<1>7. ASSUME NEW q \in Positions(a)
      PROVE  LET e == IF q = p THEN d ELSE BlockAt(a, q) IN
             /\ BlockAt(c, q).op = e.op /\ BlockAt(c, q).kernel = e.kernel
             /\ BlockAt(c, q).norm = e.norm /\ BlockAt(c, q).act = e.act
             /\ BlockAt(x, q) = e
  <2>1. /\ q[1] \in 1..n /\ q[2] \in 1..Len(a.stages[q[1]]) /\ q = <<q[1], q[2]>>
    BY <1>1, PositionsAre
  <2> DEFINE e == IF q = p THEN d ELSE BlockAt(a, q)
             f == BlockAt(c, q)
             s == q[1]
             i == q[2]
  <2>2. x.stages[s][i] = e BY <1>2, <2>1 DEF BlockAt
  <2>3. s \in 1..Len(x.stages) /\ i \in 1..Len(x.stages[s]) BY <1>2, <2>1
  <2>4. f = c.stages[s][i] BY DEF BlockAt
  <2> HIDE DEF s, i
  <2>5. /\ c.stages[s][i].op = x.stages[s][i].op
        /\ c.stages[s][i].kernel = x.stages[s][i].kernel
        /\ c.stages[s][i].norm = x.stages[s][i].norm
        /\ c.stages[s][i].act = x.stages[s][i].act
    BY <1>2, <1>3, <2>3, RepairedFields
  <2>6. BlockAt(x, q) = e BY <2>2 DEF BlockAt, s, i
  <2> HIDE DEF e, f
  <2> QED BY <2>2, <2>4, <2>5, <2>6 DEF e, f
<1>8. MembershipIssues(c, sp) = {} => BlockOffered(BlockAt(c, p), p[2] = 1, sp)
  <2>1. p[1] \in 1..n /\ p[2] \in 1..Len(a.stages[p[1]]) BY <1>1, PositionsAre
  <2>2. BlockAt(c, p) = c.stages[p[1]][p[2]] BY DEF BlockAt
  <2>3. p[1] \in 1..Len(c.stages) /\ p[2] \in 1..Len(c.stages[p[1]]) BY <1>4, <2>1
  <2>4. MembershipIssues(c, sp) = {} => FrameOffered(c, sp) BY <1>3, MembershipIs
  <2> QED BY <2>2, <2>3, <2>4 DEF FrameOffered
<1>9. d # BlockAt(a, p) => x # a
  <2>1. BlockAt(x, p) = d BY <1>7
  <2> QED BY <2>1
<1>10. /\ BlockAt(c, p).op = d.op /\ BlockAt(c, p).kernel = d.kernel
       /\ BlockAt(c, p).norm = d.norm /\ BlockAt(c, p).act = d.act
  BY <1>7
<1>11. \A q \in Positions(a) : q # p => BlockAt(c, q).op = BlockAt(a, q).op BY <1>7
<1> QED BY <1>2, <1>3, <1>5, <1>6, <1>8, <1>9, <1>10, <1>11 DEF x, c, d

-----------------------------------------------------------------------------
(***************************************************************************)
(* What holds of every child of every operator.                            *)
(***************************************************************************)
\* The doors of LeavesOnlyByInheritance.
Door(name, a, c, sp) ==
    \/ /\ name = "operation"
       /\ \E p \in Positions(a) : Inherits(BlockAt(a, p), BlockAt(c, p))
    \/ name = "head" /\ a.head.hidden = 0 /\ c.head.hidden > 0
    \/ name = "stem" /\ 1 \in PlainStages(a)
    \/ name = "stage_depth" /\ 1 \in PlainStages(c) \ PlainStages(a)
    \/ /\ name = "num_stages" /\ Len(c.stages) > Len(a.stages)
       /\ 1 \notin sp.blocks_per_stage

Descends(a, c) ==
    /\ SameLayout(a, c) =>
          \A p \in Positions(a) : Rank(BlockAt(c, p).op) <= Rank(BlockAt(a, p).op)
    /\ a.head.hidden = 0 => c.head.hidden = 0

GoodChild(name, a, raw, sp) ==
    /\ raw \in Genotypes
    /\ raw = a => name = "stage_width" /\ PlainStages(a) # {}
    /\ MembershipIssues(Repair(raw), sp) # {} => Door(name, a, Repair(raw), sp)
    /\ MembershipIssues(Repair(raw), sp) = {} /\ Strict(sp) => Descends(a, Repair(raw))

LEMMA RankIs ==
    ASSUME NEW op \in OperationTypes
    PROVE  /\ Rank(op) \in Nat
           /\ Parametric(op) => Rank(op) = 2
           /\ op = "identity" => Rank(op) = 0
           /\ ~Parametric(op) /\ op # "identity" => Rank(op) = 1
<1>1. op \in {"conv", "dw_sep_conv", "identity", "max_pool", "avg_pool"} BY DEF OperationTypes
<1> QED BY <1>1 DEF Rank, Parametric

\* The fields of a canonical form.
LEMMA CanonicalFields ==
    ASSUME NEW b \in RawBlocks
    PROVE  LET c == Canonical(b) IN
           /\ c.op = b.op /\ c.out = b.out
           /\ c.kernel = IF UsesKernel(b.op) THEN b.kernel ELSE 1
           /\ c.expansion = IF UsesExpansion(b.op) THEN b.expansion ELSE Unit
           /\ c.stride = IF b.op = "identity" THEN 1 ELSE b.stride
           /\ c.residual => b.residual
           /\ c.norm = IF Parametric(b.op) THEN b.norm ELSE "none"
           /\ c.act = IF Parametric(b.op) THEN b.act ELSE "identity"
<1>1. Quantise(b.expansion) = b.expansion BY DEF RawBlocks, Expansions
<1> QED BY <1>1 DEF Canonical

LEMMA OperationGood ==
    ASSUME NEW sp, Typed(sp), NEW a, Member(a, sp), NEW raw \in OperationChildren(a, sp)
    PROVE  GoodChild("operation", a, raw, sp)
<1>1. PICK p \in Positions(a), o \in sp.block.op :
         /\ o # BlockAt(a, p).op
         /\ raw = WithBlock(a, p, [BlockAt(a, p) EXCEPT !.op = o])
         /\ WidthBefore(a, p) = BlockAt(a, p).out \/ Parametric(o)
         /\ ~(BlockAt(a, p).stride > 1 /\ o = "identity")
  BY DEF OperationChildren, InChannels, Others
<1> DEFINE old == BlockAt(a, p)
           b == [old EXCEPT !.op = o]
           c == Repair(raw)
           d == Canonical(b)
           first == p[2] = 1
<1>2. a \in Genotypes /\ FrameOffered(a, sp) BY MemberIs
<1>3. old \in BlockForms /\ old \in RawBlocks BY <1>2, PositionsAre DEF BlockForms
<1>4. o \in sp.block.op /\ o # old.op /\ o \in OperationTypes BY <1>1 DEF Typed
<1>5. b \in RawBlocks /\ b.op = o BY <1>3, <1>4 DEF RawBlocks
<1>6. /\ b.kernel = old.kernel /\ b.expansion = old.expansion /\ b.stride = old.stride
      /\ b.norm = old.norm /\ b.act = old.act /\ b.out = old.out /\ b.residual = old.residual
  BY <1>3 DEF RawBlocks
<1>7. BlockOffered(old, first, sp)
  <2>1. p[1] \in 1..Len(a.stages) /\ p[2] \in 1..Len(a.stages[p[1]]) BY <1>2, PositionsAre
  <2> QED BY <1>2, <2>1 DEF FrameOffered, BlockAt
<1>8. raw = WithBlock(a, p, b) BY <1>1
<1>9. WidthBefore(a, p) = old.out \/ Parametric(o) BY <1>1
<1>10. /\ ~UsesKernel(old.op) => old.kernel = 1
       /\ ~Parametric(old.op) => old.norm = "none" /\ old.act = "identity"
  BY <1>3, NormalForm
<1>11. old.op \in OperationTypes BY <1>3 DEF RawBlocks
<1> HIDE DEF b, old, first
<1>12. /\ d.op = o /\ d.out = old.out
       /\ d.kernel = IF UsesKernel(o) THEN old.kernel ELSE 1
       /\ d.expansion = IF UsesExpansion(o) THEN old.expansion ELSE Unit
       /\ d.stride = IF o = "identity" THEN 1 ELSE old.stride
       /\ d.residual => old.residual
       /\ d.norm = IF Parametric(o) THEN old.norm ELSE "none"
       /\ d.act = IF Parametric(o) THEN old.act ELSE "identity"
  BY <1>5, <1>6, CanonicalFields
<1>13. /\ raw \in Genotypes /\ c \in Genotypes
       /\ d # old => raw # a
       /\ c.head = a.head /\ SameLayout(a, c)
       /\ \A q \in Positions(a) : q # p => BlockAt(c, q).op = BlockAt(a, q).op
       /\ BlockAt(c, p).op = d.op /\ BlockAt(c, p).kernel = d.kernel
       /\ BlockAt(c, p).norm = d.norm /\ BlockAt(c, p).act = d.act
       /\ MembershipIssues(c, sp) = {} => BlockOffered(BlockAt(c, p), first, sp)
  BY <1>5, <1>8, ReplacedIs DEF old, first
<1> HIDE DEF c, d
<1>14. raw # a BY <1>4, <1>12, <1>13
<1>15. MembershipIssues(c, sp) # {} => Door("operation", a, c, sp)
  <2> SUFFICES ASSUME ~Inherits(old, BlockAt(c, p)) PROVE MembershipIssues(c, sp) = {}
    BY DEF Door, old
  <2>1. /\ UsesKernel(o) => UsesKernel(old.op)
        /\ UsesExpansion(o) => UsesExpansion(old.op)
        /\ Parametric(o) => Parametric(old.op)
    BY <1>12, <1>13 DEF Inherits
  <2>2. BlockOffered(d, first, sp)
    <3>1. o # "identity" => old.op # "identity" BY <2>1 DEF UsesKernel
    <3> QED BY <1>4, <1>7, <1>12, <2>1, <3>1 DEF BlockOffered
  <2>3. Parametric(BlockAt(a, p).op) /\ ~Parametric(b.op) => WidthBefore(a, p) = BlockAt(a, p).out
    BY <1>5, <1>9 DEF old
  <2> QED BY <1>5, <1>8, <1>12, <2>1, <2>2, <2>3, ReplacedStays DEF c, d, old, first
<1>16. MembershipIssues(c, sp) = {} /\ Strict(sp) => Descends(a, c)
  <2> SUFFICES ASSUME MembershipIssues(c, sp) = {}, Strict(sp),
                      NEW q \in Positions(a)
               PROVE  Rank(BlockAt(c, q).op) <= Rank(BlockAt(a, q).op)
    BY <1>13 DEF Descends
  <2>1. BlockAt(a, q).op \in OperationTypes
    BY <1>2, PositionsAre DEF BlockForms, RawBlocks
  <2>2. CASE q # p BY <1>13, <2>1, <2>2, RankIs
  <2>3. CASE q = p
    <3>1. BlockOffered(BlockAt(c, p), first, sp) BY <1>13
    <3>2. /\ UsesKernel(o) => d.kernel \in sp.block.kernel
          /\ Parametric(o) => d.norm \in sp.block.norm /\ d.act \in sp.block.act
      BY <1>12, <1>13, <3>1 DEF BlockOffered
    <3>3. UsesKernel(o) => UsesKernel(old.op)
      BY <1>10, <1>12, <3>2 DEF Strict
    <3>4. Parametric(o) => Parametric(old.op)
      BY <1>10, <1>12, <3>2 DEF Strict
    <3>5. Rank(o) <= Rank(old.op) BY <1>4, <1>11, <3>3, <3>4, RankIs DEF UsesKernel
    <3> QED BY <1>12, <1>13, <2>3, <3>5 DEF old
  <2> QED BY <2>2, <2>3
<1> QED BY <1>13, <1>14, <1>15, <1>16 DEF GoodChild, c

LEMMA SameOpsDescend ==
    ASSUME NEW a \in Genotypes, NEW c,
           SameLayout(a, c) => \A p \in Positions(a) : BlockAt(c, p).op = BlockAt(a, p).op,
           a.head.hidden = 0 => c.head.hidden = 0
    PROVE  Descends(a, c)
<1> SUFFICES ASSUME SameLayout(a, c), NEW p \in Positions(a)
             PROVE  Rank(BlockAt(c, p).op) <= Rank(BlockAt(a, p).op)
  BY DEF Descends
<1>1. BlockAt(a, p).op \in OperationTypes BY PositionsAre DEF BlockForms, RawBlocks
<1> QED BY <1>1, RankIs

\* An operator that keeps the operation and the width of the block it changes.
LEMMA SameOpGood ==
    ASSUME NEW sp, NEW a, Member(a, sp), NEW p \in Positions(a), NEW b \in RawBlocks, NEW name,
           b.op = BlockAt(a, p).op, b.out = BlockAt(a, p).out,
           Canonical(b) # BlockAt(a, p), BlockOffered(Canonical(b), p[2] = 1, sp)
    PROVE  GoodChild(name, a, WithBlock(a, p, b), sp)
<1> DEFINE raw == WithBlock(a, p, b)
           c == Repair(raw)
           d == Canonical(b)
           old == BlockAt(a, p)
<1>1. a \in Genotypes BY MemberIs
<1>2. d.op = old.op /\ d.out = old.out BY CanonicalIs
<1>3. /\ raw \in Genotypes /\ c \in Genotypes
      /\ d # old => raw # a
      /\ c.head = a.head
      /\ \A q \in Positions(a) : q # p => BlockAt(c, q).op = BlockAt(a, q).op
      /\ BlockAt(c, p).op = d.op
  BY ReplacedIs
<1>4. MembershipIssues(c, sp) = {} BY <1>2, ReplacedStays
<1> HIDE DEF raw, c, d
<1>5. \A q \in Positions(a) : BlockAt(c, q).op = BlockAt(a, q).op BY <1>2, <1>3
<1>6. Descends(a, c) BY <1>1, <1>3, <1>5, SameOpsDescend
<1>7. raw # a BY <1>3 DEF d
<1> QED BY <1>3, <1>4, <1>6, <1>7 DEF GoodChild, c, raw

\* The block at a position of an architecture of the search.
LEMMA MemberBlock ==
    ASSUME NEW sp, NEW a, Member(a, sp), NEW p \in Positions(a)
    PROVE  LET b == BlockAt(a, p) IN
           /\ b \in RawBlocks /\ b \in BlockForms /\ Canonical(b) = b
           /\ BlockOffered(b, p[2] = 1, sp)
<1>1. a \in Genotypes /\ FrameOffered(a, sp) BY MemberIs
<1>2. BlockAt(a, p) \in BlockForms BY <1>1, PositionsAre
<1>3. p[1] \in 1..Len(a.stages) /\ p[2] \in 1..Len(a.stages[p[1]]) BY <1>1, PositionsAre
<1>4. BlockOffered(BlockAt(a, p), p[2] = 1, sp) BY <1>1, <1>3 DEF FrameOffered, BlockAt
<1> QED BY <1>2, <1>4 DEF BlockForms

LEMMA FieldGood ==
    ASSUME NEW sp, Typed(sp), NEW a, Member(a, sp), NEW f \in UsableFields, NEW name,
           f = "expansion" => Exact(sp), NEW raw \in FieldChildren(a, sp, f)
    PROVE  GoodChild(name, a, raw, sp)
<1>1. PICK p \in Positions(a), v \in sp.block[f] :
         /\ UsesField(BlockAt(a, p).op, f) /\ v # BlockAt(a, p)[f]
         /\ raw = WithBlock(a, p, [BlockAt(a, p) EXCEPT ![f] = v])
  <2>1. FieldOptions(sp, f) = sp.block[f] BY RatiosAre DEF FieldOptions
  <2> QED BY <2>1 DEF FieldChildren, Others
<1> DEFINE old == BlockAt(a, p)
           b == [old EXCEPT ![f] = v]
           d == Canonical(b)
           first == p[2] = 1
<1>2. old \in RawBlocks /\ BlockOffered(old, first, sp) /\ Canonical(old) = old BY MemberBlock
<1>3. f \in {"kernel", "expansion", "norm", "act"} BY DEF UsableFields
<1>4. /\ sp.block.kernel \subseteq OddKernels
      /\ f = "expansion" => sp.block.expansion \subseteq Expansions
      /\ sp.block.norm \subseteq NormalizationTypes /\ sp.block.act \subseteq ActivationTypes
  BY DEF Exact, Typed
<1>5. UsesField(old.op, f) /\ v # old[f] /\ raw = WithBlock(a, p, b) BY <1>1
<1> HIDE DEF old, first
<1>6. /\ b \in RawBlocks /\ b.op = old.op /\ b.out = old.out /\ d # old
      /\ BlockOffered(d, first, sp)
  <2>1. ASSUME b \in RawBlocks
        PROVE  /\ d.op = b.op /\ d.out = b.out
               /\ d.kernel = IF UsesKernel(b.op) THEN b.kernel ELSE 1
               /\ d.expansion = IF UsesExpansion(b.op) THEN b.expansion ELSE Unit
               /\ d.stride = IF b.op = "identity" THEN 1 ELSE b.stride
               /\ d.residual => b.residual
               /\ d.norm = IF Parametric(b.op) THEN b.norm ELSE "none"
               /\ d.act = IF Parametric(b.op) THEN b.act ELSE "identity"
    BY <2>1, CanonicalFields
  <2>2. CASE f = "kernel"
    <3>1. b = [old EXCEPT !.kernel = v] BY <2>2
    <3>2. /\ b \in RawBlocks /\ b.op = old.op /\ b.out = old.out /\ b.kernel = v
          /\ b.expansion = old.expansion /\ b.stride = old.stride /\ b.norm = old.norm
          /\ b.act = old.act /\ b.residual = old.residual
      BY <1>2, <1>4, <2>2, <3>1 DEF RawBlocks
    <3>3. UsesKernel(old.op) /\ v # old.kernel /\ v \in sp.block.kernel
      BY <1>5, <2>2 DEF UsesField
    <3> HIDE DEF b, d
    <3> QED BY <1>2, <2>1, <3>2, <3>3 DEF BlockOffered
  <2>3. CASE f = "expansion"
    <3>1. b = [old EXCEPT !.expansion = v] BY <2>3
    <3>2. /\ b \in RawBlocks /\ b.op = old.op /\ b.out = old.out /\ b.kernel = old.kernel
          /\ b.expansion = v /\ b.stride = old.stride /\ b.norm = old.norm
          /\ b.act = old.act /\ b.residual = old.residual
      BY <1>2, <1>4, <2>3, <3>1 DEF RawBlocks
    <3>3. UsesExpansion(old.op) /\ v # old.expansion /\ v \in sp.block.expansion
      BY <1>5, <2>3 DEF UsesField
    <3> HIDE DEF b, d
    <3> QED BY <1>2, <2>1, <3>2, <3>3 DEF BlockOffered
  <2>4. CASE f = "norm"
    <3>1. b = [old EXCEPT !.norm = v] BY <2>4
    <3>2. /\ b \in RawBlocks /\ b.op = old.op /\ b.out = old.out /\ b.kernel = old.kernel
          /\ b.expansion = old.expansion /\ b.stride = old.stride /\ b.norm = v
          /\ b.act = old.act /\ b.residual = old.residual
      BY <1>2, <1>4, <2>4, <3>1 DEF RawBlocks
    <3>3. Parametric(old.op) /\ v # old.norm /\ v \in sp.block.norm
      BY <1>5, <2>4 DEF UsesField
    <3> HIDE DEF b, d
    <3> QED BY <1>2, <2>1, <3>2, <3>3 DEF BlockOffered
  <2>5. CASE f = "act"
    <3>1. b = [old EXCEPT !.act = v] BY <2>5
    <3>2. /\ b \in RawBlocks /\ b.op = old.op /\ b.out = old.out /\ b.kernel = old.kernel
          /\ b.expansion = old.expansion /\ b.stride = old.stride /\ b.norm = old.norm
          /\ b.act = v /\ b.residual = old.residual
      BY <1>2, <1>4, <2>5, <3>1 DEF RawBlocks
    <3>3. Parametric(old.op) /\ v # old.act /\ v \in sp.block.act
      BY <1>5, <2>5 DEF UsesField
    <3> HIDE DEF b, d
    <3> QED BY <1>2, <2>1, <3>2, <3>3 DEF BlockOffered
  <2> QED BY <1>3, <2>2, <2>3, <2>4, <2>5
<1> HIDE DEF b
<1> QED BY <1>5, <1>6, SameOpGood DEF old, first

LEMMA ResidualGood ==
    ASSUME NEW sp, NEW a, Member(a, sp), NEW name, NEW raw \in ResidualChildren(a, sp)
    PROVE  GoodChild(name, a, raw, sp)
<1>1. PICK p \in Positions(a) :
         /\ sp.block.residual /\ BlockAt(a, p).op # "identity"
         /\ raw = WithBlock(a, p, [BlockAt(a, p) EXCEPT !.residual = ~@])
  BY DEF ResidualChildren
<1> DEFINE old == BlockAt(a, p)
           other == ~old.residual
           b == [old EXCEPT !.residual = other]
           d == Canonical(b)
           first == p[2] = 1
<1>2. old \in RawBlocks /\ BlockOffered(old, first, sp) /\ Canonical(old) = old BY MemberBlock
<1>3. raw = WithBlock(a, p, b) /\ old.op # "identity" BY <1>1
<1> HIDE DEF old, first
<1>4. other \in BOOLEAN /\ other # old.residual BY <1>2 DEF RawBlocks
<1> HIDE DEF other
<1>5. /\ b \in RawBlocks /\ b.op = old.op /\ b.out = old.out /\ b.kernel = old.kernel
      /\ b.expansion = old.expansion /\ b.stride = old.stride /\ b.norm = old.norm
      /\ b.act = old.act /\ b.residual = other
  BY <1>2, <1>4 DEF RawBlocks
<1>6. d.residual = b.residual BY <1>3, <1>5, CanonicalIs
<1>7. /\ d.op = b.op /\ d.out = b.out
      /\ d.kernel = IF UsesKernel(b.op) THEN b.kernel ELSE 1
      /\ d.expansion = IF UsesExpansion(b.op) THEN b.expansion ELSE Unit
      /\ d.stride = IF b.op = "identity" THEN 1 ELSE b.stride
      /\ d.norm = IF Parametric(b.op) THEN b.norm ELSE "none"
      /\ d.act = IF Parametric(b.op) THEN b.act ELSE "identity"
  BY <1>5, CanonicalFields
<1> HIDE DEF b, d
<1>8. d # old BY <1>4, <1>5, <1>6
<1>9. BlockOffered(d, first, sp) BY <1>1, <1>2, <1>5, <1>7 DEF BlockOffered
<1> QED BY <1>3, <1>5, <1>8, <1>9, SameOpGood DEF old, first, d

LEMMA StrideGood ==
    ASSUME NEW sp, Typed(sp), NEW a, Member(a, sp), NEW name,
           NEW raw \in StrideChildren(a, sp)
    PROVE  GoodChild(name, a, raw, sp)
<1>1. PICK s \in DOMAIN a.stages, v \in sp.stage_strides :
         /\ a.stages[s][1].op # "identity" /\ v # a.stages[s][1].stride
         /\ raw = WithBlock(a, <<s, 1>>, [a.stages[s][1] EXCEPT !.stride = v])
  BY DEF StrideChildren, Others
<1> DEFINE p == <<s, 1>>
           old == BlockAt(a, p)
           b == [old EXCEPT !.stride = v]
           d == Canonical(b)
<1>2. p \in Positions(a) /\ old = a.stages[s][1]
  <2>1. a \in Genotypes BY MemberIs
  <2>2. s \in 1..Len(a.stages) /\ 1 \in 1..Len(a.stages[s])
    BY <1>1, <2>1, GenotypeIs, StageIs
  <2> QED BY <2>1, <2>2, PositionsAre
<1>3. old \in RawBlocks /\ BlockOffered(old, p[2] = 1, sp) /\ Canonical(old) = old
  BY <1>2, MemberBlock
<1>4. raw = WithBlock(a, p, b) /\ old.op # "identity" /\ v # old.stride /\ v \in 1..4
  BY <1>1, <1>2 DEF Typed
<1> HIDE DEF old
<1>5. /\ b \in RawBlocks /\ b.op = old.op /\ b.out = old.out /\ b.kernel = old.kernel
      /\ b.expansion = old.expansion /\ b.stride = v /\ b.norm = old.norm
      /\ b.act = old.act /\ b.residual = old.residual
  BY <1>3, <1>4 DEF RawBlocks
<1>6. /\ d.op = b.op /\ d.out = b.out
      /\ d.kernel = IF UsesKernel(b.op) THEN b.kernel ELSE 1
      /\ d.expansion = IF UsesExpansion(b.op) THEN b.expansion ELSE Unit
      /\ d.stride = IF b.op = "identity" THEN 1 ELSE b.stride
      /\ d.residual => b.residual
      /\ d.norm = IF Parametric(b.op) THEN b.norm ELSE "none"
      /\ d.act = IF Parametric(b.op) THEN b.act ELSE "identity"
  BY <1>5, CanonicalFields
<1> HIDE DEF b, d
<1>7. d # old BY <1>4, <1>5, <1>6
<1>8. BlockOffered(d, p[2] = 1, sp)
  <2>1. p[2] = 1 OBVIOUS
  <2> HIDE DEF p
  <2> QED BY <1>1, <1>3, <1>5, <1>6, <2>1 DEF BlockOffered
<1> HIDE DEF p
<1> QED BY <1>2, <1>4, <1>5, <1>7, <1>8, SameOpGood DEF old, d

-----------------------------------------------------------------------------
(***************************************************************************)
(* The operators that change the head, the stem and the widths.            *)
(***************************************************************************)
LEMMA CanonicalHeadIs ==
    ASSUME NEW h \in RawHeads
    PROVE  LET c == CanonicalHead(h) IN
           /\ c \in HeadForms
           /\ c.pooling = h.pooling /\ c.hidden = h.hidden /\ c.dropout = h.dropout
           /\ c.act = IF h.hidden = 0 THEN "identity" ELSE h.act
<1> DEFINE c == CanonicalHead(h)
           act == IF h.hidden = 0 THEN "identity" ELSE h.act
<1>1. c = [h EXCEPT !.act = act]
  <2>1. Quantise(h.dropout) = h.dropout BY DEF RawHeads, Dropouts
  <2>2. c = [h EXCEPT !.dropout = Quantise(h.dropout), !.act = act] BY DEF CanonicalHead
  <2> HIDE DEF c, act
  <2> QED BY <2>1, <2>2 DEF RawHeads
<1>2. act \in ActivationTypes BY DEF RawHeads, ActivationTypes
<1> HIDE DEF act, c
<1>3. /\ c \in RawHeads
      /\ c.pooling = h.pooling /\ c.hidden = h.hidden /\ c.dropout = h.dropout /\ c.act = act
  BY <1>1, <1>2 DEF RawHeads
<1>4. CanonicalHead(c) = c
  <2>1. CanonicalHead(c) = [c EXCEPT !.dropout = Quantise(c.dropout),
                                     !.act = IF c.hidden = 0 THEN "identity" ELSE c.act]
    BY DEF CanonicalHead
  <2>2. (IF c.hidden = 0 THEN "identity" ELSE c.act) = c.act BY <1>3 DEF act
  <2>3. Quantise(c.dropout) = c.dropout BY <1>3 DEF RawHeads, Dropouts
  <2>4. CanonicalHead(c) = [c EXCEPT !.dropout = c.dropout, !.act = c.act]
    BY <2>1, <2>2, <2>3
  <2>5. [c EXCEPT !.dropout = c.dropout, !.act = c.act] = c BY <1>3 DEF RawHeads
  <2> QED BY <2>4, <2>5
<1> QED BY <1>3, <1>4 DEF HeadForms, act, c

LEMMA HeadFormIs ==
    ASSUME NEW h \in HeadForms
    PROVE  h \in RawHeads /\ (h.hidden = 0 => h.act = "identity")
<1>1. h \in RawHeads /\ CanonicalHead(h) = h BY DEF HeadForms
<1>2. CanonicalHead(h).act = IF h.hidden = 0 THEN "identity" ELSE h.act
  BY <1>1, CanonicalHeadIs
<1> QED BY <1>1, <1>2

\* Whether an architecture is settled depends on its stages and their input.
LEMMA SettledFrame ==
    ASSUME NEW a, Settled(a), NEW x \in Genotypes, x.stages = a.stages, x.stem.out = a.stem.out
    PROVE  Settled(x)
<1>1. \A p : WidthBefore(x, p) = WidthBefore(a, p) BY DEF WidthBefore
<1>2. Sound(x) BY <1>1 DEF Sound, Settled
<1>3. Uniform(x) BY DEF Uniform, Settled
<1> QED BY <1>2, <1>3 DEF Settled

LEMMA HeadOfferedIs ==
    ASSUME NEW h \in RawHeads, NEW sp
    PROVE  HeadOffered(h, sp) <=>
             /\ h.pooling \in sp.head.pooling /\ h.hidden \in sp.head.hidden
             /\ h.dropout \in sp.head.dropout
             /\ h.hidden > 0 => h.act \in sp.head.act
<1>1. DOMAIN h = {"pooling", "hidden", "dropout", "act"} BY DEF RawHeads
<1>2. HeadOffered(h, sp) <=>
        /\ h["pooling"] \in sp.head["pooling"] /\ h["hidden"] \in sp.head["hidden"]
        /\ h["dropout"] \in sp.head["dropout"]
        /\ h.hidden > 0 => h["act"] \in sp.head["act"]
  BY <1>1 DEF HeadOffered
<1> QED BY <1>2

LEMMA HeadGood ==
    ASSUME NEW sp, Exact(sp), NEW a, Member(a, sp), NEW raw \in HeadChildren(a, sp)
    PROVE  GoodChild("head", a, raw, sp)
<1> DEFINE child(f, v) == [a EXCEPT !.head = CanonicalHead([a.head EXCEPT ![f] = v])]
           fields == {g \in DOMAIN a.head : g = "act" => a.head.hidden > 0}
           options(f) == Others(sp.head[f], a.head[f])
<1>1. PICK f \in fields : \E v \in options(f) : raw = child(f, v)
  <2>1. raw \in UNION {{child(f, v) : v \in options(f)} : f \in fields}
    BY DEF HeadChildren
  <2> HIDE DEF child, fields, options
  <2> QED BY <2>1
<1>2. PICK v \in options(f) : raw = child(f, v) BY <1>1
<1>3. /\ f \in DOMAIN a.head /\ (f = "act" => a.head.hidden > 0)
      /\ v \in sp.head[f] /\ v # a.head[f]
      /\ raw = [a EXCEPT !.head = CanonicalHead([a.head EXCEPT ![f] = v])]
  BY <1>1, <1>2 DEF Others
<1> HIDE DEF child, fields, options
<1> DEFINE old == a.head
           h == [old EXCEPT ![f] = v]
           d == CanonicalHead(h)
<1>4. /\ a \in Genotypes /\ FrameOffered(a, sp) /\ WidthsOffered(a, sp)
      /\ Settled(a) /\ old \in HeadForms
  BY MemberIs, GenotypeIs DEF Member
<1>5. old \in RawHeads /\ (old.hidden = 0 => old.act = "identity") BY <1>4, HeadFormIs
<1>6. /\ f \in {"pooling", "hidden", "dropout", "act"} /\ v \in sp.head[f]
      /\ sp.head.pooling \subseteq PoolingTypes /\ sp.head.hidden \subseteq Nat
      /\ sp.head.dropout \subseteq Dropouts /\ sp.head.act \subseteq ActivationTypes
  <2>1. f \in {"pooling", "hidden", "dropout", "act"}
    BY <1>3, <1>5 DEF RawHeads
  <2> HIDE DEF old, h, d
  <2> QED BY <1>3, <2>1 DEF Exact, Typed
<1>7. raw = [a EXCEPT !.head = d] /\ v # old[f] /\ (f = "act" => old.hidden > 0) BY <1>3
<1>8. HeadOffered(old, sp) BY <1>4 DEF FrameOffered
<1> HIDE DEF old
<1>9. h \in RawHeads
  <2>1. CASE f = "pooling" BY <1>5, <1>6, <2>1 DEF RawHeads
  <2>2. CASE f = "hidden" BY <1>5, <1>6, <2>2 DEF RawHeads
  <2>3. CASE f = "dropout" BY <1>5, <1>6, <2>3 DEF RawHeads
  <2>4. CASE f = "act" BY <1>5, <1>6, <2>4 DEF RawHeads
  <2> QED BY <1>6, <2>1, <2>2, <2>3, <2>4
<1>10. /\ h[f] = v
       /\ f # "pooling" => h.pooling = old.pooling
       /\ f # "hidden" => h.hidden = old.hidden
       /\ f # "dropout" => h.dropout = old.dropout
       /\ f # "act" => h.act = old.act
  BY <1>5, <1>6 DEF RawHeads
<1> HIDE DEF h
<1>11. /\ h.pooling = old.pooling \/ h.pooling \in sp.head.pooling
       /\ h.hidden = old.hidden \/ h.hidden \in sp.head.hidden
       /\ h.dropout = old.dropout \/ h.dropout \in sp.head.dropout
       /\ h.act = old.act \/ h.act \in sp.head.act
       /\ h.hidden = old.hidden \/ h.act = old.act
       /\ \/ h.pooling # old.pooling \/ h.hidden # old.hidden \/ h.dropout # old.dropout
          \/ h.act # old.act /\ h.hidden = old.hidden /\ old.hidden > 0
  <2>1. CASE f = "pooling" BY <1>6, <1>7, <1>10, <2>1
  <2>2. CASE f = "hidden" BY <1>6, <1>7, <1>10, <2>2
  <2>3. CASE f = "dropout" BY <1>6, <1>7, <1>10, <2>3
  <2>4. CASE f = "act" BY <1>6, <1>7, <1>10, <2>4
  <2> QED BY <1>6, <2>1, <2>2, <2>3, <2>4
<1>12. /\ d \in HeadForms
       /\ d.pooling = h.pooling /\ d.hidden = h.hidden /\ d.dropout = h.dropout
       /\ d.act = IF h.hidden = 0 THEN "identity" ELSE h.act
  BY <1>9, CanonicalHeadIs
<1> HIDE DEF d
<1>13. /\ raw \in Genotypes /\ raw.stages = a.stages /\ raw.stem = a.stem /\ raw.head = d
       /\ raw.channels = a.channels /\ raw.size = a.size /\ raw.classes = a.classes
  BY <1>4, <1>7, <1>12 DEF Genotypes
<1>14. Settled(raw) BY <1>4, <1>13, SettledFrame
<1>15. Repair(raw) = raw BY <1>14, RepairKeeps
<1>16. d # old
  <2>1. h.act # old.act /\ h.hidden = old.hidden /\ old.hidden > 0 => d.act # old.act
    BY <1>5, <1>12 DEF RawHeads
  <2> QED BY <1>12, <1>11, <2>1
<1>17. raw # a BY <1>13, <1>16 DEF old
<1>18. old.hidden \in Nat /\ d.hidden \in Nat /\ d \in RawHeads
  BY <1>5, <1>12, HeadFormIs DEF RawHeads
<1>19. ASSUME ~(old.hidden = 0 /\ d.hidden > 0) PROVE HeadOffered(d, sp)
  <2>1. /\ old.pooling \in sp.head.pooling /\ old.hidden \in sp.head.hidden
        /\ old.dropout \in sp.head.dropout
        /\ old.hidden > 0 => old.act \in sp.head.act
    BY <1>5, <1>8, HeadOfferedIs
  <2>2. /\ d.pooling \in sp.head.pooling /\ d.hidden \in sp.head.hidden
        /\ d.dropout \in sp.head.dropout
    BY <1>12, <1>11, <2>1
  <2>3. d.hidden > 0 => d.act \in sp.head.act
    <3> SUFFICES ASSUME d.hidden > 0 PROVE d.act \in sp.head.act OBVIOUS
    <3>1. d.act = h.act BY <1>12, <1>18
    <3>2. old.hidden > 0 BY <1>18, <1>19
    <3> QED BY <1>11, <2>1, <3>1, <3>2
  <2> QED BY <1>18, <2>2, <2>3, HeadOfferedIs
<1>20. ASSUME HeadOffered(d, sp) PROVE MembershipIssues(raw, sp) = {}
  <2>1. FrameOffered(raw, sp) BY <1>4, <1>13, <1>20 DEF FrameOffered
  <2>2. WidthsOffered(raw, sp) BY <1>4, <1>13 DEF WidthsOffered
  <2> QED BY <1>13, <2>1, <2>2, MembershipIs
<1>21. MembershipIssues(raw, sp) # {} => Door("head", a, raw, sp)
  BY <1>13, <1>19, <1>20 DEF Door, old
<1>22. MembershipIssues(raw, sp) = {} /\ Strict(sp) => Descends(a, raw)
  <2> SUFFICES ASSUME MembershipIssues(raw, sp) = {}, Strict(sp) PROVE Descends(a, raw) OBVIOUS
  <2>1. \A p \in Positions(a) : BlockAt(raw, p).op = BlockAt(a, p).op BY <1>13 DEF BlockAt
  <2>2. old.hidden = 0 => d.hidden = 0
    <3> SUFFICES ASSUME old.hidden = 0, d.hidden # 0 PROVE FALSE OBVIOUS
    <3>1. HeadOffered(d, sp) BY <1>13, MembershipIs DEF FrameOffered
    <3>2. d.act \in sp.head.act BY <1>18, <3>1, HeadOfferedIs
    <3>3. h.act = old.act BY <1>12, <1>11
    <3>4. d.act = "identity" BY <1>5, <1>12, <3>3
    <3> QED BY <3>2, <3>4 DEF Strict
  <2> QED BY <1>4, <1>13, <2>1, <2>2, SameOpsDescend DEF old
<1> QED BY <1>13, <1>15, <1>17, <1>21, <1>22 DEF GoodChild

LEMMA PlainStagesAre ==
    ASSUME NEW a \in Genotypes, NEW s
    PROVE  s \in PlainStages(a) <=> s \in 1..Len(a.stages) /\ PlainStage(a.stages[s])
<1>1. DOMAIN a.stages = 1..Len(a.stages) BY GenotypeIs
<1>2. ASSUME s \in 1..Len(a.stages)
      PROVE  (\A b \in Range(a.stages[s]) : ~Parametric(b.op)) <=> PlainStage(a.stages[s])
  <2>1. DOMAIN a.stages[s] = 1..Len(a.stages[s]) BY <1>2, GenotypeIs, StageIs
  <2> QED BY <2>1 DEF Range, PlainStage
<1> QED BY <1>1, <1>2 DEF PlainStages

\* What repair leaves as it is, and that once is enough.
LEMMA RepairedIs ==
    ASSUME NEW x \in Genotypes
    PROVE  LET c == Repair(x) IN
           /\ c \in Genotypes /\ Settled(c) /\ Repair(c) = c
           /\ c = [x EXCEPT !.stages = c.stages]
           /\ c.stem = x.stem /\ c.head = x.head
           /\ Len(c.stages) = Len(x.stages)
           /\ \A s \in 1..Len(x.stages) :
                 /\ Len(c.stages[s]) = Len(x.stages[s])
                 /\ PlainStage(c.stages[s]) <=> PlainStage(x.stages[s])
                 /\ \A i \in 1..Len(x.stages[s]) : c.stages[s][i].op = x.stages[s][i].op
<1> DEFINE c == Repair(x)
<1>1. RepairOf(c, x, NoTarget) /\ Settled(c) BY RepairOfRepair
<1>2. NoTarget \in Targets(x) BY DEF Targets
<1>3. /\ c \in Genotypes /\ c = [x EXCEPT !.stages = c.stages] /\ Len(c.stages) = Len(x.stages)
      /\ \A s \in 1..Len(x.stages) : Len(c.stages[s]) = Len(x.stages[s])
  BY <1>1 DEF RepairOf
<1>4. Repair(c) = c BY <1>1, RepairKeeps
<1> HIDE DEF c
<1>5. c.stem = x.stem /\ c.head = x.head BY <1>3 DEF Genotypes
<1>6. \A s \in 1..Len(x.stages) : \A i \in 1..Len(x.stages[s]) :
          c.stages[s][i].op = x.stages[s][i].op
  BY <1>1, <1>2, RepairedFields
<1>7. \A s \in 1..Len(x.stages) : PlainStage(c.stages[s]) <=> PlainStage(x.stages[s])
  BY <1>3, <1>6 DEF PlainStage
<1> QED BY <1>1, <1>3, <1>4, <1>5, <1>6, <1>7 DEF c

\* A repaired architecture is a member when its frame is offered and its
\* convolutions have offered widths, in order.
LEMMA RepairedOffered ==
    ASSUME NEW sp, NEW x \in Genotypes, FrameOffered(x, sp),
           NEW V \in [1..Len(x.stages) -> Positive],
           \A s \in 1..Len(x.stages) : V[s] \in sp.stage_channels,
           sp.monotonic => \A s \in 2..Len(x.stages) : V[s - 1] <= V[s],
           \A s \in 1..Len(x.stages) : \A i \in 1..Len(x.stages[s]) :
               Parametric(x.stages[s][i].op) => x.stages[s][i].out = V[s],
           PlainStage(x.stages[1]) => x.stem.out = V[1]
    PROVE  MembershipIssues(Repair(x), sp) = {}
<1> DEFINE c == Repair(x)
<1>1. RepairOf(c, x, NoTarget) /\ Settled(c) /\ c \in Genotypes
      /\ Len(c.stages) = Len(x.stages)
  BY RepairOfRepair, RepairedIs
<1>2. NoTarget \in Targets(x) BY DEF Targets
<1> HIDE DEF c
<1>3. FrameOffered(c, sp) BY <1>1, <1>2, RepairOffered
<1>4. ASSUME NEW s \in 1..Len(x.stages), ~PlainStage(x.stages[s])
      PROVE  WidthFor(x, NoTarget, s, Entering(c, s)) = V[s]
  <2>1. Entering(c, s) \in Positive BY <1>1, WidthsAre
  <2> QED BY <1>4, <2>1, IntendedIs
<1>5. WidthsOffered(c, sp) BY <1>1, <1>2, <1>4, OfferedWidths
<1> QED BY <1>1, <1>3, <1>5, MembershipIs DEF c

LEMMA StemGood ==
    ASSUME NEW sp, Typed(sp), NEW a, Member(a, sp), NEW raw \in StemChildren(a, sp)
    PROVE  GoodChild("stem", a, raw, sp)
<1> DEFINE child(f, v) == Repair([a EXCEPT !.stem[f] = v])
           fields == DOMAIN a.stem
           options(f) == Others(sp.stem[f], a.stem[f])
<1>1. PICK f \in fields : \E v \in options(f) : raw = child(f, v)
  <2>1. raw \in UNION {{child(f, v) : v \in options(f)} : f \in fields}
    BY DEF StemChildren
  <2> HIDE DEF child, fields, options
  <2> QED BY <2>1
<1>2. PICK v \in options(f) : raw = child(f, v) BY <1>1
<1>3. /\ f \in DOMAIN a.stem /\ v \in sp.stem[f] /\ v # a.stem[f]
      /\ raw = Repair([a EXCEPT !.stem[f] = v])
  BY <1>1, <1>2 DEF Others
<1> HIDE DEF child, fields, options
<1> DEFINE old == a.stem
           stem == [old EXCEPT ![f] = v]
           x == [a EXCEPT !.stem = stem]
<1>4. /\ a \in Genotypes /\ FrameOffered(a, sp) /\ WidthsOffered(a, sp)
      /\ Settled(a) /\ old \in StemForms
  BY MemberIs, GenotypeIs DEF Member
<1>5. raw = Repair(x)
  <2>1. [a EXCEPT !.stem[f] = v] = x BY <1>4 DEF Genotypes
  <2> QED BY <1>3, <2>1
<1>6. /\ f \in {"out", "kernel", "stride", "norm", "act"} /\ v \in sp.stem[f] /\ v # old[f]
      /\ sp.stem.out \subseteq Positive /\ sp.stem.kernel \subseteq OddKernels
      /\ sp.stem.stride \subseteq 1..4
      /\ sp.stem.norm \subseteq NormalizationTypes /\ sp.stem.act \subseteq ActivationTypes
  <2>1. f \in {"out", "kernel", "stride", "norm", "act"} BY <1>3, <1>4 DEF StemForms
  <2>2. v \in sp.stem[f] /\ v # old[f] BY <1>3
  <2> HIDE DEF old, stem, x
  <2> QED BY <2>1, <2>2 DEF Typed
<1>7. \A g \in DOMAIN old : old[g] \in sp.stem[g] BY <1>4 DEF FrameOffered
<1>8. PlainStage(a.stages[1]) => old.out = StageWidth(a.stages[1])
  <2>1. 1 \in 1..Len(a.stages) BY <1>4, GenotypeIs
  <2> QED BY <1>4, <2>1, SettledWidths DEF Entering
<1> HIDE DEF old
<1>9. stem \in StemForms /\ stem[f] = v /\ (f # "out" => stem.out = old.out)
      /\ DOMAIN stem = DOMAIN old /\ \A g \in DOMAIN old : g # f => stem[g] = old[g]
  <2>1. CASE f = "out" BY <1>4, <1>6, <2>1 DEF StemForms
  <2>2. CASE f = "kernel" BY <1>4, <1>6, <2>2 DEF StemForms
  <2>3. CASE f = "stride" BY <1>4, <1>6, <2>3 DEF StemForms
  <2>4. CASE f = "norm" BY <1>4, <1>6, <2>4 DEF StemForms
  <2>5. CASE f = "act" BY <1>4, <1>6, <2>5 DEF StemForms
  <2> QED BY <1>6, <2>1, <2>2, <2>3, <2>4, <2>5
<1> HIDE DEF stem
<1>10. /\ x \in Genotypes /\ x.stages = a.stages /\ x.stem = stem /\ x.head = a.head
       /\ x.channels = a.channels /\ x.size = a.size /\ x.classes = a.classes
  BY <1>4, <1>9 DEF Genotypes
<1> HIDE DEF x
<1>11. /\ raw \in Genotypes /\ Repair(raw) = raw /\ raw.stem = stem /\ raw.head = a.head
       /\ Len(raw.stages) = Len(a.stages)
       /\ \A s \in 1..Len(a.stages) : \A i \in 1..Len(a.stages[s]) :
             raw.stages[s][i].op = a.stages[s][i].op
  BY <1>5, <1>10, RepairedIs
<1>12. raw # a BY <1>6, <1>9, <1>11 DEF old
<1>13. ASSUME 1 \notin PlainStages(a) \/ f # "out" PROVE MembershipIssues(raw, sp) = {}
  <2>1. FrameOffered(x, sp) BY <1>3, <1>4, <1>7, <1>9, <1>10 DEF FrameOffered
  <2> DEFINE V == StageWidths(a)
  <2>2. /\ V \in [1..Len(a.stages) -> Positive]
        /\ \A s \in 1..Len(a.stages) : V[s] = StageWidth(a.stages[s]) /\ V[s] \in sp.stage_channels
        /\ sp.monotonic => \A s \in 2..Len(a.stages) : V[s - 1] <= V[s]
    BY MemberIs
  <2>3. \A s \in 1..Len(a.stages) : \A i \in 1..Len(a.stages[s]) :
            Parametric(a.stages[s][i].op) => a.stages[s][i].out = V[s]
    BY <1>4, <2>2, SettledWidths
  <2>4. PlainStage(a.stages[1]) => stem.out = V[1]
    <3>1. 1 \in 1..Len(a.stages) BY <1>4, GenotypeIs
    <3> QED BY <1>4, <1>9, <1>13, <1>8, <2>2, <3>1, PlainStagesAre
  <2> HIDE DEF V
  <2>5. /\ V \in [1..Len(x.stages) -> Positive]
        /\ \A s \in 1..Len(x.stages) : V[s] \in sp.stage_channels
        /\ sp.monotonic => \A s \in 2..Len(x.stages) : V[s - 1] <= V[s]
        /\ \A s \in 1..Len(x.stages) : \A i \in 1..Len(x.stages[s]) :
              Parametric(x.stages[s][i].op) => x.stages[s][i].out = V[s]
        /\ PlainStage(x.stages[1]) => x.stem.out = V[1]
    BY <1>10, <2>2, <2>3, <2>4
  <2>6. MembershipIssues(Repair(x), sp) = {} BY <1>10, <2>1, <2>5, RepairedOffered
  <2> QED BY <1>5, <2>6
<1>14. MembershipIssues(raw, sp) # {} => Door("stem", a, raw, sp) BY <1>13 DEF Door
<1>15. Descends(a, raw)
  <2>1. \A p \in Positions(a) : BlockAt(raw, p).op = BlockAt(a, p).op
    BY <1>4, <1>11, PositionsAre DEF BlockAt
  <2> QED BY <1>4, <1>11, <2>1, SameOpsDescend
<1> QED BY <1>11, <1>12, <1>14, <1>15 DEF GoodChild

LEMMA WidthGood ==
    ASSUME NEW sp, Typed(sp), NEW a, Member(a, sp), NEW raw \in WidthChildren(a, sp)
    PROVE  GoodChild("stage_width", a, raw, sp)
<1> DEFINE n == Len(a.stages)
           V == StageWidths(a)
<1>1. PICK s \in DOMAIN a.stages :
         \E w \in WidthOptions(a, sp, s) : raw = RepairTo(a, [V EXCEPT ![s] = w])
  BY DEF WidthChildren
<1>2. PICK w \in WidthOptions(a, sp, s) : raw = RepairTo(a, [V EXCEPT ![s] = w]) BY <1>1
<1> DEFINE widths == [V EXCEPT ![s] = w]
<1>3. /\ a \in Genotypes /\ FrameOffered(a, sp) /\ WidthsOffered(a, sp) /\ Settled(a)
      /\ n \in Nat /\ n >= 1 /\ s \in 1..n
      /\ V \in [1..n -> Positive]
      /\ \A t \in 1..n : V[t] = StageWidth(a.stages[t]) /\ V[t] \in sp.stage_channels
      /\ sp.monotonic => \A t \in 2..n : V[t - 1] <= V[t]
  BY <1>1, MemberIs, GenotypeIs DEF Member
<1>4. /\ w \in sp.stage_channels /\ w # V[s]
      /\ sp.monotonic => (s > 1 => w >= V[s - 1]) /\ (s < n => w <= V[s + 1])
  BY <1>2 DEF WidthOptions, Others
<1>5. w \in Positive BY <1>4 DEF Typed
<1> HIDE DEF V
<1>6. /\ widths \in [1..n -> Positive] /\ widths[s] = w
      /\ \A t \in 1..n : t # s => widths[t] = V[t]
  BY <1>3, <1>5
<1>7. raw = RepairTo(a, widths) BY <1>2
<1> HIDE DEF widths
<1>8. widths \in Targets(a) /\ widths # NoTarget
  <2>1. widths \in Targets(a) BY <1>6 DEF Targets
  <2>2. 1 \in DOMAIN widths /\ DOMAIN NoTarget = {} BY <1>3, <1>6 DEF NoTarget
  <2> QED BY <2>1, <2>2
<1>9. RepairOf(raw, a, widths) BY <1>3, <1>7, <1>8, RepairIs
<1>10. \A t \in 1..n : \A in : WidthFor(a, widths, t, in) = widths[t] BY <1>8 DEF WidthFor
<1>11. CASE PlainStage(a.stages[s])
  <2>1. RepairOf(a, a, widths)
    <3>1. ASSUME NEW t \in 1..n, NEW i \in 1..Len(a.stages[t])
          PROVE  Fixed(a.stages[t][i], widths[t], WidthBefore(a, <<t, i>>)) = a.stages[t][i]
      <4> DEFINE b == a.stages[t][i]
                 in == WidthBefore(a, <<t, i>>)
      <4>1. b \in BlockForms /\ in \in Positive /\ widths[t] \in Positive
        BY <1>3, <1>6, <3>1, WidthsAre, PositionsAre
      <4>2. /\ ~Parametric(b.op) => b.out = in
            /\ b.residual => b.stride = 1 /\ b.out = in
        BY <1>3, <3>1 DEF Settled, Sound
      <4>3. Parametric(b.op) => b.out = widths[t]
        <5> SUFFICES ASSUME Parametric(b.op) PROVE b.out = widths[t] OBVIOUS
        <5>1. t # s BY <1>11, <3>1 DEF PlainStage
        <5>2. b.out = StageWidth(a.stages[t]) BY <1>3, <3>1, SettledWidths
        <5> QED BY <1>3, <1>6, <3>1, <5>1, <5>2
      <4> HIDE DEF b, in
      <4>4. Fixed(b, widths[t], in) = b BY <4>1, <4>2, <4>3, FixedSame
      <4> QED BY <4>4 DEF b, in
    <3>2. a = [a EXCEPT !.stages = a.stages] BY <1>3 DEF Genotypes
    <3> QED BY <1>3, <1>10, <3>1, <3>2 DEF RepairOf
  <2>2. raw = a BY <1>3, <1>8, <1>9, <2>1, RepairUnique
  <2>3. Repair(a) = a BY <1>3, RepairKeeps
  <2>4. MembershipIssues(a, sp) = {} BY DEF Member
  <2>5. PlainStages(a) # {} BY <1>3, <1>11, PlainStagesAre
  <2>6. Descends(a, a) BY <1>3, SameOpsDescend
  <2> QED BY <1>3, <2>2, <2>3, <2>4, <2>5, <2>6 DEF GoodChild
<1>12. CASE ~PlainStage(a.stages[s])
  <2>1. Settled(raw) /\ raw \in Genotypes BY <1>3, <1>8, <1>9, RepairSettles DEF RepairOf
  <2>2. Repair(raw) = raw BY <2>1, RepairKeeps
  <2>3. raw # a
    <3>1. StageWidth(raw.stages[s]) = widths[s]
      <4>1. StageWidth(raw.stages[s]) = IF PlainStage(a.stages[s]) THEN Entering(raw, s)
                                        ELSE WidthFor(a, widths, s, Entering(raw, s))
        BY <1>3, <1>8, <1>9, StageLaw
      <4> QED BY <1>3, <1>10, <1>12, <4>1
    <3> QED BY <1>3, <1>4, <1>6, <3>1
  <2>4. MembershipIssues(raw, sp) = {}
    <3>1. FrameOffered(raw, sp) BY <1>3, <1>8, <1>9, RepairOffered
    <3>2. \A t \in 1..n : widths[t] \in sp.stage_channels BY <1>3, <1>4, <1>6
    <3>3. ASSUME sp.monotonic, NEW t \in 2..n PROVE widths[t - 1] <= widths[t]
      <4>1. t - 1 \in 1..n /\ t \in 1..n /\ V[t - 1] <= V[t] BY <1>3, <3>3
      <4>2. CASE t = s
        <5>1. widths[t - 1] = V[t - 1] /\ widths[t] = w BY <1>3, <1>6, <4>1, <4>2
        <5> QED BY <1>3, <1>4, <3>3, <4>2, <5>1
      <4>3. CASE t - 1 = s
        <5>1. widths[t - 1] = w /\ widths[t] = V[t] BY <1>3, <1>6, <4>1, <4>3
        <5>2. s < n /\ s + 1 = t BY <1>3, <4>3
        <5> QED BY <1>3, <1>4, <3>3, <5>1, <5>2
      <4>4. CASE t # s /\ t - 1 # s
        <5>1. widths[t - 1] = V[t - 1] /\ widths[t] = V[t] BY <1>6, <4>1, <4>4
        <5> QED BY <4>1, <5>1
      <4> QED BY <4>2, <4>3, <4>4
    <3>4. PlainStage(a.stages[1]) => a.stem.out = widths[1]
      <4> SUFFICES ASSUME PlainStage(a.stages[1]) PROVE a.stem.out = widths[1] OBVIOUS
      <4>1. 1 \in 1..n /\ s # 1 BY <1>3, <1>12
      <4>2. StageWidth(a.stages[1]) = a.stem.out BY <1>3, <4>1, SettledWidths DEF Entering
      <4> QED BY <1>3, <1>6, <4>1, <4>2
    <3>5. WidthsOffered(raw, sp)
      BY <1>3, <1>6, <1>8, <1>9, <1>10, <3>2, <3>3, <3>4, OfferedWidths
    <3> QED BY <2>1, <3>1, <3>5, MembershipIs
  <2>5. Descends(a, raw)
    <3>1. a \in Genotypes /\ widths \in Targets(a) BY <1>3, <1>8
    <3>2. \A t \in 1..n : \A i \in 1..Len(a.stages[t]) :
              raw.stages[t][i].op = a.stages[t][i].op
      <4> SUFFICES ASSUME NEW t \in 1..n, NEW i \in 1..Len(a.stages[t])
                   PROVE  raw.stages[t][i].op = a.stages[t][i].op
        OBVIOUS
      <4> QED BY <1>9, <3>1, RepairedFields
    <3>3. \A p \in Positions(a) : BlockAt(raw, p).op = BlockAt(a, p).op
      BY <1>3, <3>2, PositionsAre DEF BlockAt
    <3>4. raw.head = a.head BY <1>3, <1>9 DEF RepairOf, Genotypes
    <3> QED BY <1>3, <3>3, <3>4, SameOpsDescend
  <2> QED BY <2>1, <2>2, <2>3, <2>4, <2>5 DEF GoodChild
<1> QED BY <1>11, <1>12

-----------------------------------------------------------------------------
(***************************************************************************)
(* The operators that add and remove blocks and stages.                    *)
(***************************************************************************)
LEMMA NewBlockIs ==
    ASSUME NEW sp, Exact(sp), NEW width \in Positive, NEW strides \in SUBSET (1..4),
           NEW residual \in BOOLEAN, NEW b \in NewBlocks(sp, width, strides, residual)
    PROVE  /\ b \in BlockForms /\ Parametric(b.op) /\ b.op \in sp.block.op /\ b.out = width
           /\ b.kernel \in sp.block.kernel
           /\ UsesExpansion(b.op) => b.expansion \in sp.block.expansion
           /\ b.norm \in sp.block.norm /\ b.act \in sp.block.act
           /\ b.stride \in strides /\ b.residual = residual
<1> DEFINE raws == [op : ParametricOps(sp), kernel : sp.block.kernel,
                    expansion : sp.block.expansion, out : {width}, stride : strides,
                    residual : {residual}, norm : sp.block.norm, act : sp.block.act]
<1>1. PICK y \in raws : b = Canonical(y)
  <2>1. Ratios(sp) = sp.block.expansion BY RatiosAre
  <2> QED BY <2>1 DEF NewBlocks
<1>2. /\ y.op \in sp.block.op /\ Parametric(y.op) /\ y.kernel \in sp.block.kernel
      /\ y.expansion \in sp.block.expansion /\ y.out = width /\ y.stride \in strides
      /\ y.residual = residual /\ y.norm \in sp.block.norm /\ y.act \in sp.block.act
  BY <1>1 DEF ParametricOps
<1>3. /\ ParametricOps(sp) \subseteq OperationTypes /\ sp.block.kernel \subseteq OddKernels
      /\ sp.block.expansion \subseteq Expansions
      /\ sp.block.norm \subseteq NormalizationTypes /\ sp.block.act \subseteq ActivationTypes
  BY DEF Exact, Typed, ParametricOps
<1>4. y \in RawBlocks BY <1>1, <1>3 DEF RawBlocks
<1>5. y.op # "identity" /\ UsesKernel(y.op) BY <1>2 DEF Parametric, UsesKernel
<1>6. /\ b \in BlockForms /\ b.op = y.op /\ b.out = y.out /\ b.kernel = y.kernel
      /\ b.stride = y.stride /\ b.residual = y.residual
  BY <1>1, <1>4, <1>5, CanonicalIs
<1>7. /\ UsesExpansion(y.op) => b.expansion = y.expansion
      /\ b.norm = y.norm /\ b.act = y.act
  BY <1>1, <1>2, <1>4, CanonicalFields
<1> QED BY <1>2, <1>6, <1>7

LEMMA RestagedIs ==
    ASSUME NEW a \in Genotypes, NEW s \in 1..Len(a.stages), NEW stage \in StageForms
    PROVE  LET x == [a EXCEPT !.stages[s] = stage] IN
           /\ x \in Genotypes /\ Len(x.stages) = Len(a.stages)
           /\ x.stages[s] = stage
           /\ \A t \in 1..Len(a.stages) : t # s => x.stages[t] = a.stages[t]
           /\ x.channels = a.channels /\ x.size = a.size /\ x.classes = a.classes
           /\ x.stem = a.stem /\ x.head = a.head
<1> DEFINE stages == [a.stages EXCEPT ![s] = stage]
           x == [a EXCEPT !.stages = stages]
<1>1. /\ a.stages \in Seq(StageForms) /\ Len(a.stages) \in Nat /\ Len(a.stages) >= 1
      /\ DOMAIN a.stages = 1..Len(a.stages)
      /\ \A t \in 1..Len(a.stages) : a.stages[t] \in StageForms
  BY GenotypeIs
<1>2. /\ stages \in Seq(StageForms) /\ Len(stages) = Len(a.stages) /\ stages[s] = stage
      /\ \A t \in 1..Len(a.stages) : t # s => stages[t] = a.stages[t]
  BY <1>1
<1>3. stages # <<>> BY <1>1, <1>2
<1>4. [a EXCEPT !.stages[s] = stage] = x BY DEF Genotypes
<1> HIDE DEF stages
<1>5. /\ x \in Genotypes /\ x.stages = stages
      /\ x.channels = a.channels /\ x.size = a.size /\ x.classes = a.classes
      /\ x.stem = a.stem /\ x.head = a.head
  BY <1>2, <1>3 DEF Genotypes
<1> HIDE DEF x
<1> QED BY <1>2, <1>4, <1>5

\* A stage that becomes longer or shorter.
LEMMA RestagedGood ==
    ASSUME NEW sp, NEW a, Member(a, sp), NEW s \in 1..Len(a.stages), NEW stage \in StageForms,
           Len(stage) \in sp.blocks_per_stage, Len(stage) # Len(a.stages[s]),
           \A i \in 1..Len(stage) :
               /\ BlockOffered(stage[i], i = 1, sp)
               /\ Parametric(stage[i].op) => stage[i].out = StageWidth(a.stages[s])
    PROVE  GoodChild("stage_depth", a, Repair([a EXCEPT !.stages[s] = stage]), sp)
<1> DEFINE x == [a EXCEPT !.stages[s] = stage]
           raw == Repair(x)
           V == StageWidths(a)
<1>1. /\ a \in Genotypes /\ FrameOffered(a, sp) /\ Settled(a)
      /\ 1 \in 1..Len(a.stages)
  BY MemberIs, GenotypeIs DEF Member
<1>2. /\ V \in [1..Len(a.stages) -> Positive]
      /\ \A t \in 1..Len(a.stages) : V[t] = StageWidth(a.stages[t]) /\ V[t] \in sp.stage_channels
      /\ sp.monotonic => \A t \in 2..Len(a.stages) : V[t - 1] <= V[t]
  BY MemberIs
<1> HIDE DEF V
<1>3. /\ x \in Genotypes /\ Len(x.stages) = Len(a.stages)
      /\ x.stages[s] = stage
      /\ \A t \in 1..Len(a.stages) : t # s => x.stages[t] = a.stages[t]
      /\ x.channels = a.channels /\ x.size = a.size /\ x.classes = a.classes
      /\ x.stem = a.stem /\ x.head = a.head
  BY <1>1, RestagedIs
<1> HIDE DEF x
<1>4. /\ raw \in Genotypes /\ Repair(raw) = raw /\ raw.head = a.head
      /\ Len(raw.stages) = Len(a.stages) /\ Len(raw.stages[s]) = Len(stage)
      /\ PlainStage(raw.stages[1]) <=> PlainStage(x.stages[1])
  <2>1. /\ raw \in Genotypes /\ Repair(raw) = raw /\ raw.head = x.head
        /\ Len(raw.stages) = Len(x.stages)
        /\ \A t \in 1..Len(x.stages) :
              /\ Len(raw.stages[t]) = Len(x.stages[t])
              /\ PlainStage(raw.stages[t]) <=> PlainStage(x.stages[t])
    BY <1>3, RepairedIs
  <2> HIDE DEF raw
  <2> QED BY <1>1, <1>3, <2>1
<1>5. raw # a BY <1>4
<1>6. ASSUME 1 \notin PlainStages(raw) \ PlainStages(a) PROVE MembershipIssues(raw, sp) = {}
  <2>1. FrameOffered(x, sp)
    <3>1. \A t \in 1..Len(a.stages) :
             /\ Len(x.stages[t]) \in sp.blocks_per_stage
             /\ \A i \in 1..Len(x.stages[t]) : BlockOffered(x.stages[t][i], i = 1, sp)
      BY <1>1, <1>3 DEF FrameOffered
    <3> QED BY <1>1, <1>3, <3>1 DEF FrameOffered
  <2>2. ASSUME NEW t \in 1..Len(a.stages), NEW i \in 1..Len(x.stages[t]),
               Parametric(x.stages[t][i].op)
        PROVE  x.stages[t][i].out = V[t]
    <3>1. CASE t = s BY <1>2, <1>3, <2>2, <3>1
    <3>2. CASE t # s
      <4>1. x.stages[t] = a.stages[t] BY <1>3, <3>2
      <4>2. a.stages[t][i].out = StageWidth(a.stages[t]) BY <1>1, <2>2, <4>1, SettledWidths
      <4> QED BY <1>2, <4>1, <4>2
    <3> QED BY <3>1, <3>2
  <2>3. PlainStage(x.stages[1]) => x.stem.out = V[1]
    <3> SUFFICES ASSUME PlainStage(x.stages[1]) PROVE a.stem.out = V[1] BY <1>3
    <3>1. 1 \in PlainStages(raw) BY <1>1, <1>4, PlainStagesAre
    <3>2. PlainStage(a.stages[1]) BY <1>1, <1>6, <3>1, PlainStagesAre
    <3>3. StageWidth(a.stages[1]) = Entering(a, 1) BY <1>1, <3>2, SettledWidths
    <3> QED BY <1>1, <1>2, <3>3 DEF Entering
  <2>4. /\ V \in [1..Len(x.stages) -> Positive]
        /\ \A t \in 1..Len(x.stages) : V[t] \in sp.stage_channels
        /\ sp.monotonic => \A t \in 2..Len(x.stages) : V[t - 1] <= V[t]
        /\ \A t \in 1..Len(x.stages) : \A i \in 1..Len(x.stages[t]) :
              Parametric(x.stages[t][i].op) => x.stages[t][i].out = V[t]
    BY <1>2, <1>3, <2>2
  <2> QED BY <1>3, <2>1, <2>3, <2>4, RepairedOffered
<1>7. MembershipIssues(raw, sp) # {} => Door("stage_depth", a, raw, sp) BY <1>6 DEF Door
<1>8. Descends(a, raw)
  <2>1. ~SameLayout(a, raw) BY <1>1, <1>4, GenotypeIs DEF SameLayout
  <2> QED BY <1>4, <2>1 DEF Descends
<1> QED BY <1>4, <1>5, <1>7, <1>8 DEF GoodChild, x

LEMMA GrownIs ==
    ASSUME NEW stage \in StageForms, NEW b \in BlockForms
    PROVE  LET longer == Append(stage, b) IN
           /\ longer \in StageForms /\ Len(longer) = Len(stage) + 1
           /\ longer[Len(stage) + 1] = b
           /\ \A i \in 1..Len(stage) : longer[i] = stage[i]
BY DEF StageForms

LEMMA ShrunkIs ==
    ASSUME NEW stage \in StageForms, NEW k \in 2..Len(stage)
    PROVE  LET shorter == RemoveAt(stage, k) IN
           /\ shorter \in StageForms /\ Len(shorter) = Len(stage) - 1
           /\ \A i \in 1..Len(shorter) :
                 \E j \in 1..Len(stage) : shorter[i] = stage[j] /\ (i = 1 <=> j = 1)
<1> DEFINE m == Len(stage)
           left == SubSeq(stage, 1, k - 1)
           right == SubSeq(stage, k + 1, m)
           shorter == left \o right
<1>1. stage \in Seq(BlockForms) /\ m \in Nat /\ k \in 2..m BY DEF StageForms
<1>2. /\ left \in Seq(BlockForms) /\ Len(left) = k - 1
      /\ \A i \in 1..k - 1 : left[i] = stage[i]
  BY <1>1
<1>3. /\ right \in Seq(BlockForms) /\ Len(right) = m - k
      /\ \A i \in 1..m - k : right[i] = stage[k + i]
  BY <1>1
<1> HIDE DEF left, right, m
<1>4. /\ shorter \in Seq(BlockForms) /\ Len(shorter) = m - 1
      /\ \A i \in 1..k - 1 : shorter[i] = stage[i]
      /\ \A i \in k..m - 1 : shorter[i] = stage[i + 1]
  <2>1. shorter \in Seq(BlockForms) /\ Len(shorter) = m - 1
    <3>1. shorter \in Seq(BlockForms) /\ Len(shorter) = Len(left) + Len(right)
      BY <1>2, <1>3, ConcatProperties
    <3> HIDE DEF shorter
    <3> QED BY <1>1, <1>2, <1>3, <3>1
  <2>2. ASSUME NEW i \in 1..k - 1 PROVE shorter[i] = stage[i] BY <1>1, <1>2, <1>3
  <2>3. ASSUME NEW i \in k..m - 1 PROVE shorter[i] = stage[i + 1]
    <3>1. i - (k - 1) \in 1..m - k /\ i > k - 1 /\ i <= m - 1 BY <1>1
    <3>2. shorter[i] = right[i - (k - 1)] BY <1>1, <1>2, <1>3, <3>1
    <3>3. k + (i - (k - 1)) = i + 1 BY <1>1
    <3> QED BY <1>3, <3>1, <3>2, <3>3
  <2> QED BY <2>1, <2>2, <2>3
<1>5. shorter # <<>> BY <1>1, <1>4
<1>6. RemoveAt(stage, k) = shorter BY DEF RemoveAt, left, right, m
<1> HIDE DEF shorter
<1>7. ASSUME NEW i \in 1..m - 1
      PROVE  \E j \in 1..m : shorter[i] = stage[j] /\ (i = 1 <=> j = 1)
  <2>1. CASE i <= k - 1
    <3>1. i \in 1..k - 1 /\ i \in 1..m BY <1>1, <2>1
    <3> QED BY <1>4, <3>1
  <2>2. CASE ~(i <= k - 1)
    <3>1. i \in k..m - 1 /\ i + 1 \in 1..m /\ i # 1 /\ i + 1 # 1 BY <1>1, <2>2
    <3> QED BY <1>4, <3>1
  <2> QED BY <2>1, <2>2
<1> QED BY <1>4, <1>5, <1>6, <1>7 DEF StageForms, m

LEMMA DepthGood ==
    ASSUME NEW sp, Exact(sp), NEW a, Member(a, sp), NEW raw \in DepthChildren(a, sp)
    PROVE  GoodChild("stage_depth", a, raw, sp)
<1> DEFINE grown(s) == {Append(a.stages[s], b) :
                          b \in NewBlocks(sp, StageWidth(a.stages[s]), {1}, sp.block.residual)}
           shrunk(s) == {RemoveAt(a.stages[s], i) : i \in 2..Len(a.stages[s])}
           resized(s) ==
             (IF Len(a.stages[s]) + 1 \in sp.blocks_per_stage THEN grown(s) ELSE {})
               \cup (IF Len(a.stages[s]) - 1 \in sp.blocks_per_stage THEN shrunk(s) ELSE {})
           child(s, stage) == Repair([a EXCEPT !.stages[s] = stage])
<1>1. PICK s \in DOMAIN a.stages : \E stage \in resized(s) : raw = child(s, stage)
  <2>1. raw \in UNION {{child(s, stage) : stage \in resized(s)} : s \in DOMAIN a.stages}
    BY DEF DepthChildren
  <2> HIDE DEF child, resized
  <2> QED BY <2>1
<1>2. PICK stage \in resized(s) : raw = child(s, stage) BY <1>1
<1>3. /\ a \in Genotypes /\ FrameOffered(a, sp) /\ Settled(a) /\ s \in 1..Len(a.stages)
  BY <1>1, MemberIs, GenotypeIs DEF Member
<1> DEFINE old == a.stages[s]
<1>4. /\ old \in StageForms /\ Len(old) \in Nat /\ Len(old) >= 1
      /\ \A i \in 1..Len(old) : BlockOffered(old[i], i = 1, sp)
      /\ \A i \in 1..Len(old) : Parametric(old[i].op) => old[i].out = StageWidth(old)
      /\ StageWidth(old) \in Positive
  <2>1. old \in StageForms BY <1>3, GenotypeIs
  <2>2. Len(old) \in Nat /\ Len(old) >= 1 BY <2>1, StageIs
  <2>3. \A i \in 1..Len(old) : BlockOffered(old[i], i = 1, sp) BY <1>3 DEF FrameOffered
  <2>4. \A i \in 1..Len(old) : Parametric(old[i].op) => old[i].out = StageWidth(old)
    BY <1>3, SettledWidths
  <2>5. StageWidth(old) \in Positive BY <1>3, WidthsAre
  <2> QED BY <2>1, <2>2, <2>3, <2>4, <2>5
<1>5. raw = Repair([a EXCEPT !.stages[s] = stage]) BY <1>2
<1>6. CASE Len(old) + 1 \in sp.blocks_per_stage /\ stage \in grown(s)
  <2>1. PICK b \in NewBlocks(sp, StageWidth(old), {1}, sp.block.residual) : stage = Append(old, b)
    BY <1>6
  <2>2. /\ b \in BlockForms /\ Parametric(b.op) /\ b.op \in sp.block.op
        /\ b.out = StageWidth(old) /\ b.kernel \in sp.block.kernel
        /\ UsesExpansion(b.op) => b.expansion \in sp.block.expansion
        /\ b.norm \in sp.block.norm /\ b.act \in sp.block.act
        /\ b.stride \in {1} /\ b.residual = sp.block.residual
    <3>1. {1} \in SUBSET (1..4) OBVIOUS
    <3>2. sp.block.residual \in BOOLEAN BY DEF Exact, Typed
    <3> QED BY <1>4, <2>1, <3>1, <3>2, NewBlockIs
  <2> HIDE DEF old
  <2>3. BlockOffered(b, FALSE, sp) BY <2>2 DEF BlockOffered
  <2>4. /\ stage \in StageForms /\ Len(stage) = Len(old) + 1
        /\ stage[Len(old) + 1] = b
        /\ \A i \in 1..Len(old) : stage[i] = old[i]
    BY <1>4, <2>1, <2>2, GrownIs
  <2>5. ASSUME NEW i \in 1..Len(stage)
        PROVE  /\ BlockOffered(stage[i], i = 1, sp)
               /\ Parametric(stage[i].op) => stage[i].out = StageWidth(old)
    <3>1. CASE i = Len(old) + 1
      <4>1. (i = 1) = FALSE BY <1>4, <3>1
      <4> QED BY <2>2, <2>3, <2>4, <3>1, <4>1
    <3>2. CASE i # Len(old) + 1
      <4>1. i \in 1..Len(old) BY <1>4, <2>4, <3>2
      <4> QED BY <1>4, <2>4, <4>1
    <3> QED BY <3>1, <3>2
  <2> QED BY <1>3, <1>4, <1>5, <1>6, <2>4, <2>5, RestagedGood DEF old
<1>7. CASE Len(old) - 1 \in sp.blocks_per_stage /\ stage \in shrunk(s)
  <2>1. PICK k \in 2..Len(old) : stage = RemoveAt(old, k) BY <1>7
  <2> HIDE DEF old
  <2>2. /\ stage \in StageForms /\ Len(stage) = Len(old) - 1
        /\ \A i \in 1..Len(stage) :
              \E j \in 1..Len(old) : stage[i] = old[j] /\ (i = 1 <=> j = 1)
    <3> DEFINE shorter == RemoveAt(old, k)
    <3>1. /\ shorter \in StageForms /\ Len(shorter) = Len(old) - 1
          /\ \A i \in 1..Len(shorter) :
                \E j \in 1..Len(old) : shorter[i] = old[j] /\ (i = 1 <=> j = 1)
      BY <1>4, ShrunkIs
    <3> HIDE DEF shorter
    <3>2. stage = shorter BY <2>1 DEF shorter
    <3> QED BY <3>1, <3>2
  <2>3. ASSUME NEW i \in 1..Len(stage)
        PROVE  /\ BlockOffered(stage[i], i = 1, sp)
               /\ Parametric(stage[i].op) => stage[i].out = StageWidth(old)
    <3>1. PICK j \in 1..Len(old) : stage[i] = old[j] /\ (i = 1 <=> j = 1) BY <2>2
    <3>2. (i = 1) = (j = 1) BY <3>1
    <3> QED BY <1>4, <3>1, <3>2
  <2>4. Len(stage) \in sp.blocks_per_stage /\ Len(stage) # Len(old) BY <1>4, <1>7, <2>2
  <2> QED BY <1>3, <1>5, <2>2, <2>3, <2>4, RestagedGood DEF old
<1> HIDE DEF grown, shrunk
<1> QED BY <1>2, <1>6, <1>7

\* A body with one stage more or less.
LEMMA LengthenedGood ==
    ASSUME NEW sp, NEW a, Member(a, sp), NEW stages \in Seq(StageForms) \ {<<>>},
           Len(stages) # Len(a.stages), Len(stages) \in sp.num_stages,
           \/ \A t \in 1..Len(stages) : Len(stages[t]) \in sp.blocks_per_stage
           \/ 1 \notin sp.blocks_per_stage /\ Len(stages) > Len(a.stages),
           NEW V \in [1..Len(stages) -> Positive],
           \A t \in 1..Len(stages) : V[t] \in sp.stage_channels,
           sp.monotonic => \A t \in 2..Len(stages) : V[t - 1] <= V[t],
           \A t \in 1..Len(stages) : \A i \in 1..Len(stages[t]) :
               /\ BlockOffered(stages[t][i], i = 1, sp)
               /\ Parametric(stages[t][i].op) => stages[t][i].out = V[t],
           PlainStage(stages[1]) => a.stem.out = V[1]
    PROVE  GoodChild("num_stages", a, Repair([a EXCEPT !.stages = stages]), sp)
<1> DEFINE x == [a EXCEPT !.stages = stages]
           raw == Repair(x)
<1>1. a \in Genotypes /\ FrameOffered(a, sp) BY MemberIs
<1>2. /\ x \in Genotypes /\ x.stages = stages
      /\ x.channels = a.channels /\ x.size = a.size /\ x.classes = a.classes
      /\ x.stem = a.stem /\ x.head = a.head
  BY <1>1 DEF Genotypes
<1> HIDE DEF x
<1>3. /\ raw \in Genotypes /\ Repair(raw) = raw /\ raw.head = a.head
      /\ Len(raw.stages) = Len(stages)
  BY <1>2, RepairedIs
<1>4. raw # a BY <1>3
<1>5. ASSUME \A t \in 1..Len(stages) : Len(stages[t]) \in sp.blocks_per_stage
      PROVE  MembershipIssues(raw, sp) = {}
  <2>1. FrameOffered(x, sp) BY <1>1, <1>2, <1>5 DEF FrameOffered
  <2>2. /\ V \in [1..Len(x.stages) -> Positive]
        /\ \A t \in 1..Len(x.stages) : V[t] \in sp.stage_channels
        /\ sp.monotonic => \A t \in 2..Len(x.stages) : V[t - 1] <= V[t]
        /\ \A t \in 1..Len(x.stages) : \A i \in 1..Len(x.stages[t]) :
              Parametric(x.stages[t][i].op) => x.stages[t][i].out = V[t]
        /\ PlainStage(x.stages[1]) => x.stem.out = V[1]
    BY <1>2
  <2> QED BY <1>2, <2>1, <2>2, RepairedOffered
<1>6. MembershipIssues(raw, sp) # {} => Door("num_stages", a, raw, sp)
  BY <1>3, <1>5 DEF Door
<1>7. Descends(a, raw)
  <2>1. ~SameLayout(a, raw) BY <1>1, <1>3, GenotypeIs DEF SameLayout
  <2> QED BY <1>3, <2>1 DEF Descends
<1> QED BY <1>3, <1>4, <1>6, <1>7 DEF GoodChild, x

LEMMA StagesGood ==
    ASSUME NEW sp, Exact(sp), NEW a, Member(a, sp), NEW raw \in StagesChildren(a, sp)
    PROVE  GoodChild("num_stages", a, raw, sp)
<1> DEFINE n == Len(a.stages)
           last == StageWidth(Last(a.stages))
           wider == {w \in sp.stage_channels : w >= last}
           widths == IF wider = {} THEN {last} ELSE wider
           appended == UNION {{Append(a.stages, <<b>>) :
                                 b \in NewBlocks(sp, w, sp.stage_strides, FALSE)} : w \in widths}
           bodies == (IF n + 1 \in sp.num_stages THEN appended ELSE {})
                       \cup (IF n - 1 \in sp.num_stages /\ n > 1 THEN {Front(a.stages)} ELSE {})
<1>1. PICK stages \in bodies : raw = Repair([a EXCEPT !.stages = stages]) BY DEF StagesChildren
<1>2. /\ a \in Genotypes /\ FrameOffered(a, sp) /\ Settled(a)
      /\ n \in Nat /\ n >= 1 /\ a.stages \in Seq(StageForms)
      /\ \A t \in 1..n : a.stages[t] \in StageForms
  BY MemberIs, GenotypeIs DEF Member
<1> DEFINE W == StageWidths(a)
<1>3. /\ W \in [1..n -> Positive]
      /\ \A t \in 1..n : W[t] = StageWidth(a.stages[t]) /\ W[t] \in sp.stage_channels
      /\ sp.monotonic => \A t \in 2..n : W[t - 1] <= W[t]
  BY MemberIs
<1>4. /\ \A t \in 1..n : Len(a.stages[t]) \in sp.blocks_per_stage
      /\ \A t \in 1..n : \A i \in 1..Len(a.stages[t]) : BlockOffered(a.stages[t][i], i = 1, sp)
  BY <1>2 DEF FrameOffered
<1>5. ASSUME NEW t \in 1..n, NEW i \in 1..Len(a.stages[t]), Parametric(a.stages[t][i].op)
      PROVE  a.stages[t][i].out = W[t]
  <2>1. a.stages[t][i].out = StageWidth(a.stages[t]) BY <1>2, <1>5, SettledWidths
  <2> QED BY <1>3, <2>1
<1>6. PlainStage(a.stages[1]) => a.stem.out = W[1]
  <2> SUFFICES ASSUME PlainStage(a.stages[1]) PROVE a.stem.out = W[1] OBVIOUS
  <2>1. 1 \in 1..n BY <1>2
  <2>2. StageWidth(a.stages[1]) = Entering(a, 1) BY <1>2, <2>1, SettledWidths
  <2> QED BY <1>3, <2>1, <2>2 DEF Entering
<1>7. last = W[n] BY <1>2, <1>3 DEF Last
<1> HIDE DEF W
<1>8. CASE n + 1 \in sp.num_stages /\ stages \in appended
  <2>1. PICK w \in widths : \E b \in NewBlocks(sp, w, sp.stage_strides, FALSE) :
                                stages = Append(a.stages, <<b>>)
    <3> HIDE DEF widths
    <3> QED BY <1>8
  <2>2. PICK b \in NewBlocks(sp, w, sp.stage_strides, FALSE) : stages = Append(a.stages, <<b>>)
    BY <2>1
  <2>3. w \in sp.stage_channels /\ w >= W[n]
    <3>1. W[n] \in wider
      <4>1. W[n] \in sp.stage_channels /\ W[n] \in Nat BY <1>2, <1>3 DEF Positive
      <4> QED BY <1>7, <4>1
    <3> QED BY <1>7, <2>1, <3>1
  <2> HIDE DEF widths, last, wider
  <2>4. w \in Positive /\ sp.stage_strides \in SUBSET (1..4) BY <2>3 DEF Exact, Typed
  <2>5. /\ b \in BlockForms /\ Parametric(b.op) /\ b.op \in sp.block.op /\ b.out = w
        /\ b.kernel \in sp.block.kernel
        /\ UsesExpansion(b.op) => b.expansion \in sp.block.expansion
        /\ b.norm \in sp.block.norm /\ b.act \in sp.block.act
        /\ b.stride \in sp.stage_strides /\ b.residual = FALSE
    BY <2>2, <2>4, NewBlockIs
  <2>6. BlockOffered(b, TRUE, sp) BY <2>5 DEF BlockOffered
  <2> DEFINE new == <<b>>
             V == [t \in 1..n + 1 |-> IF t = n + 1 THEN w ELSE W[t]]
  <2>7. new \in StageForms /\ Len(new) = 1 /\ new[1] = b BY <2>5 DEF StageForms
  <2> HIDE DEF new
  <2>8. /\ stages \in Seq(StageForms) \ {<<>>} /\ Len(stages) = n + 1
        /\ stages[n + 1] = new
        /\ \A t \in 1..n : stages[t] = a.stages[t]
    <3>1. stages = Append(a.stages, new) BY <2>2 DEF new
    <3> QED BY <1>2, <2>7, <3>1
  <2>9. ASSUME NEW t \in 1..n + 1, t # n + 1 PROVE t \in 1..n BY <1>2, <2>9
  <2>10. /\ V \in [1..n + 1 -> Positive] /\ V[n + 1] = w
         /\ \A t \in 1..n : V[t] = W[t]
    BY <1>2, <1>3, <2>4, <2>9
  <2> HIDE DEF V
  <2>11. \A t \in 1..n + 1 : V[t] \in sp.stage_channels BY <1>3, <2>3, <2>9, <2>10
  <2>12. ASSUME sp.monotonic, NEW t \in 2..n + 1 PROVE V[t - 1] <= V[t]
    <3>1. t - 1 \in 1..n BY <1>2
    <3>2. CASE t = n + 1
      <4>1. t - 1 = n BY <1>2, <3>2
      <4>2. w \in Nat /\ W[n] \in Nat BY <1>2, <1>3, <2>4 DEF Positive
      <4> QED BY <2>3, <2>10, <3>1, <3>2, <4>1, <4>2
    <3>3. CASE t # n + 1
      <4>1. t \in 2..n /\ t \in 1..n BY <1>2, <3>3
      <4> QED BY <1>3, <2>10, <2>12, <3>1, <4>1
    <3> QED BY <3>2, <3>3
  <2>13. ASSUME NEW t \in 1..n + 1, NEW i \in 1..Len(stages[t])
         PROVE  /\ BlockOffered(stages[t][i], i = 1, sp)
                /\ Parametric(stages[t][i].op) => stages[t][i].out = V[t]
    <3>1. CASE t = n + 1
      <4>1. stages[t] = new BY <2>8, <3>1
      <4>2. i \in 1..1 BY <2>7, <2>13, <4>1
      <4>3. i = 1 /\ stages[t][i] = b BY <2>7, <4>1, <4>2
      <4>4. (i = 1) = TRUE BY <4>3
      <4> QED BY <2>5, <2>6, <2>10, <3>1, <4>3, <4>4
    <3>2. CASE t # n + 1
      <4>1. t \in 1..n BY <2>9, <3>2
      <4> QED BY <1>4, <1>5, <2>8, <2>10, <2>13, <4>1
    <3> QED BY <3>1, <3>2
  <2>14. PlainStage(stages[1]) => a.stem.out = V[1]
    <3>1. 1 \in 1..n BY <1>2
    <3> QED BY <1>6, <2>8, <2>10, <3>1
  <2>15. \/ \A t \in 1..n + 1 : Len(stages[t]) \in sp.blocks_per_stage
         \/ 1 \notin sp.blocks_per_stage /\ n + 1 > n
    <3> SUFFICES ASSUME 1 \in sp.blocks_per_stage, NEW t \in 1..n + 1
                 PROVE  Len(stages[t]) \in sp.blocks_per_stage
      BY <1>2
    <3> QED BY <1>4, <2>7, <2>8, <2>9
  <2>16. n + 1 # n BY <1>2
  <2>17. /\ Len(stages) # n /\ Len(stages) \in sp.num_stages
         /\ V \in [1..Len(stages) -> Positive]
         /\ \A t \in 1..Len(stages) : V[t] \in sp.stage_channels
         /\ sp.monotonic => \A t \in 2..Len(stages) : V[t - 1] <= V[t]
         /\ \A t \in 1..Len(stages) : \A i \in 1..Len(stages[t]) :
               /\ BlockOffered(stages[t][i], i = 1, sp)
               /\ Parametric(stages[t][i].op) => stages[t][i].out = V[t]
    BY <1>8, <2>8, <2>10, <2>11, <2>12, <2>13, <2>16
  <2>18. \/ \A t \in 1..Len(stages) : Len(stages[t]) \in sp.blocks_per_stage
         \/ 1 \notin sp.blocks_per_stage /\ Len(stages) > n
    BY <2>8, <2>15
  <2> HIDE DEF appended, bodies
  <2>19. GoodChild("num_stages", a, Repair([a EXCEPT !.stages = stages]), sp)
    BY <2>8, <2>14, <2>17, <2>18, LengthenedGood
  <2> QED BY <1>1, <2>19
<1>9. CASE n - 1 \in sp.num_stages /\ n > 1 /\ stages = Front(a.stages)
  <2> DEFINE V == [t \in 1..n - 1 |-> W[t]]
  <2>1. /\ stages \in Seq(StageForms) \ {<<>>} /\ Len(stages) = n - 1
        /\ \A t \in 1..n - 1 : stages[t] = a.stages[t]
    <3>1. stages = SubSeq(a.stages, 1, n - 1) BY <1>9 DEF Front
    <3>2. n - 1 \in Nat /\ n - 1 >= 1 BY <1>2, <1>9
    <3>3. /\ stages \in Seq(StageForms) /\ Len(stages) = n - 1
          /\ \A t \in 1..n - 1 : stages[t] = a.stages[t]
      BY <1>2, <3>1, <3>2
    <3> QED BY <3>2, <3>3
  <2>2. /\ V \in [1..n - 1 -> Positive]
        /\ \A t \in 1..n - 1 : t \in 1..n /\ V[t] = W[t]
    BY <1>2, <1>3
  <2> HIDE DEF V
  <2>3. \A t \in 1..n - 1 : V[t] \in sp.stage_channels BY <1>3, <2>2
  <2>4. ASSUME sp.monotonic, NEW t \in 2..n - 1 PROVE V[t - 1] <= V[t]
    <3>1. t - 1 \in 1..n - 1 /\ t \in 1..n - 1 /\ t \in 2..n BY <1>2
    <3> QED BY <1>3, <2>2, <2>4, <3>1
  <2>5. ASSUME NEW t \in 1..n - 1, NEW i \in 1..Len(stages[t])
        PROVE  /\ BlockOffered(stages[t][i], i = 1, sp)
               /\ Parametric(stages[t][i].op) => stages[t][i].out = V[t]
    BY <1>4, <1>5, <2>1, <2>2, <2>5
  <2>6. PlainStage(stages[1]) => a.stem.out = V[1]
    <3>1. 1 \in 1..n - 1 BY <1>2, <1>9
    <3> QED BY <1>6, <2>1, <2>2, <3>1
  <2>7. \A t \in 1..n - 1 : Len(stages[t]) \in sp.blocks_per_stage BY <1>4, <2>1, <2>2
  <2>8. n - 1 # n BY <1>2
  <2>9. /\ Len(stages) # n /\ Len(stages) \in sp.num_stages
        /\ V \in [1..Len(stages) -> Positive]
        /\ \A t \in 1..Len(stages) : V[t] \in sp.stage_channels
        /\ sp.monotonic => \A t \in 2..Len(stages) : V[t - 1] <= V[t]
        /\ \A t \in 1..Len(stages) : \A i \in 1..Len(stages[t]) :
              /\ BlockOffered(stages[t][i], i = 1, sp)
              /\ Parametric(stages[t][i].op) => stages[t][i].out = V[t]
    BY <1>9, <2>1, <2>2, <2>3, <2>4, <2>5, <2>8
  <2>10. \A t \in 1..Len(stages) : Len(stages[t]) \in sp.blocks_per_stage BY <2>1, <2>7
  <2> HIDE DEF appended, bodies
  <2>11. GoodChild("num_stages", a, Repair([a EXCEPT !.stages = stages]), sp)
    BY <2>1, <2>6, <2>9, <2>10, LengthenedGood
  <2> QED BY <1>1, <2>11
<1> HIDE DEF appended
<1> QED BY <1>1, <1>8, <1>9

-----------------------------------------------------------------------------
(***************************************************************************)
(* Spaces with ratios and dropouts that a specification rounds.            *)
(***************************************************************************)
\* The space as a specification sees it.
Rounded(sp) ==
    [channels |-> sp.channels, size |-> sp.size, classes |-> sp.classes,
     num_stages |-> sp.num_stages, blocks_per_stage |-> sp.blocks_per_stage,
     stage_channels |-> sp.stage_channels, stage_strides |-> sp.stage_strides,
     monotonic |-> sp.monotonic,
     block |-> [op |-> sp.block.op, kernel |-> sp.block.kernel,
                expansion |-> {Quantise(v) : v \in Ratios(sp)},
                residual |-> sp.block.residual, norm |-> sp.block.norm, act |-> sp.block.act],
     stem |-> sp.stem,
     head |-> [pooling |-> sp.head.pooling, hidden |-> sp.head.hidden,
               dropout |-> {Quantise(d) : d \in sp.head.dropout}, act |-> sp.head.act],
     limits |-> sp.limits]

\* The two agree on everything but the ratios and the dropouts.
LEMMA RoundedAgrees ==
    ASSUME NEW sp
    PROVE  LET R == Rounded(sp) IN
           /\ R.channels = sp.channels /\ R.size = sp.size /\ R.classes = sp.classes
           /\ R.num_stages = sp.num_stages /\ R.blocks_per_stage = sp.blocks_per_stage
           /\ R.stage_channels = sp.stage_channels /\ R.stage_strides = sp.stage_strides
           /\ R.monotonic = sp.monotonic /\ R.stem = sp.stem
           /\ R.block.op = sp.block.op /\ R.block.kernel = sp.block.kernel
           /\ R.block.residual = sp.block.residual
           /\ R.block.norm = sp.block.norm /\ R.block.act = sp.block.act
           /\ R.head.pooling = sp.head.pooling /\ R.head.hidden = sp.head.hidden
           /\ R.head.act = sp.head.act
           /\ R.block.expansion = {Quantise(v) : v \in Ratios(sp)}
           /\ R.head.dropout = {Quantise(d) : d \in sp.head.dropout}
BY DEF Rounded

LEMMA RoundedExact ==
    ASSUME NEW sp, SpaceValid(sp)
    PROVE  /\ Exact(Rounded(sp))
           /\ \A v \in Ratios(sp) : v \in Nat /\ Quantise(v) \in Expansions
           /\ \A d \in sp.head.dropout : d \in Nat /\ Quantise(d) \in Dropouts
<1> DEFINE R == Rounded(sp)
<1>1. \A v \in Ratios(sp) : v \in Nat /\ Quantise(v) \in Expansions
  BY ValidIs, RoundedIs DEF Ratios
<1>2. \A d \in sp.head.dropout : d \in Nat /\ Quantise(d) \in Dropouts BY ValidIs, RoundedIs
<1>3. Typed(sp) BY ValidIs
<1>4. Typed(R)
  <2> HIDE DEF R
  <2> QED BY <1>3, RoundedAgrees DEF Typed, R
<1>5. R.block.expansion \subseteq Expansions /\ R.head.dropout \subseteq Dropouts
  BY <1>1, <1>2, RoundedAgrees
<1> QED BY <1>1, <1>2, <1>4, <1>5 DEF Exact

\* What is rounded and offered is offered by both.
LEMMA RoundedOffers ==
    ASSUME NEW sp, SpaceValid(sp)
    PROVE  /\ \A e \in Expansions : e \in sp.block.expansion =>
                 e \in Ratios(sp) /\ e \in Rounded(sp).block.expansion
           /\ \A d \in Dropouts : d \in sp.head.dropout => d \in Rounded(sp).head.dropout
BY RoundedAgrees DEF Ratios, Expansions, Dropouts

LEMMA RoundedFrame ==
    ASSUME NEW sp, SpaceValid(sp), NEW x \in Genotypes, FrameOffered(x, sp)
    PROVE  FrameOffered(x, Rounded(sp))
<1> DEFINE R == Rounded(sp)
<1>1. HeadOffered(x.head, sp) /\ x.head \in RawHeads
  BY GenotypeIs, HeadFormIs DEF FrameOffered
<1>2. x.head.dropout \in Dropouts BY <1>1 DEF RawHeads
<1>3. HeadOffered(x.head, R) BY <1>1, <1>2, HeadOfferedIs, RoundedAgrees, RoundedOffers
<1>4. ASSUME NEW b \in BlockForms, NEW first \in BOOLEAN, BlockOffered(b, first, sp)
      PROVE  BlockOffered(b, first, R)
  <2>1. b.expansion \in Expansions BY DEF BlockForms, RawBlocks
  <2> HIDE DEF R
  <2> QED BY <1>4, <2>1, RoundedAgrees, RoundedOffers DEF BlockOffered, R
<1>5. ASSUME NEW s \in 1..Len(x.stages), NEW i \in 1..Len(x.stages[s])
      PROVE  BlockOffered(x.stages[s][i], i = 1, R)
  <2>1. x.stages[s][i] \in BlockForms BY GenotypeIs, StageIs
  <2>2. BlockOffered(x.stages[s][i], i = 1, sp) BY DEF FrameOffered
  <2>3. (i = 1) \in BOOLEAN OBVIOUS
  <2> HIDE DEF R
  <2> QED BY <1>4, <2>1, <2>2, <2>3
<1> HIDE DEF R
<1> QED BY <1>3, <1>5, RoundedAgrees DEF FrameOffered, R

LEMMA RoundedMember ==
    ASSUME NEW sp, SpaceValid(sp), NEW x \in Genotypes, MembershipIssues(x, sp) = {}
    PROVE  MembershipIssues(x, Rounded(sp)) = {}
<1>1. FrameOffered(x, sp) /\ WidthsOffered(x, sp) BY MembershipIs
<1>2. FrameOffered(x, Rounded(sp)) BY <1>1, RoundedFrame
<1>3. WidthsOffered(x, Rounded(sp)) BY <1>1, RoundedAgrees DEF WidthsOffered
<1> QED BY <1>2, <1>3, MembershipIs

\* What the rounded space offers can only be refused for its rounding.
LEMMA RoundedBlockIssues ==
    ASSUME NEW sp, SpaceValid(sp), NEW b, NEW first \in BOOLEAN,
           BlockOffered(b, first, Rounded(sp))
    PROVE  BlockIssues(b, first, sp) \subseteq LostByRounding(sp)
<1> DEFINE lost == {f \in UsableFields : UsesField(b.op, f) /\ b[f] \notin sp.block[f]}
           x == b.op \notin sp.block.op
           y == b.residual /\ ~sp.block.residual
           z == b.op # "identity" /\ b.stride \notin (IF first THEN sp.stage_strides ELSE {1})
           X == IF x THEN {"operation"} ELSE {}
           Y == IF y THEN {"residual"} ELSE {}
           Z == IF z THEN {"stride"} ELSE {}
<1>1. BlockIssues(b, first, sp) = X \cup lost \cup Y \cup Z BY DEF BlockIssues
<1>2. /\ b.op \in sp.block.op
      /\ UsesKernel(b.op) => b.kernel \in sp.block.kernel
      /\ UsesExpansion(b.op) => b.expansion \in {Quantise(v) : v \in Ratios(sp)}
      /\ Parametric(b.op) => b.norm \in sp.block.norm /\ b.act \in sp.block.act
      /\ b.residual => sp.block.residual
      /\ b.op # "identity" => b.stride \in (IF first THEN sp.stage_strides ELSE {1})
  BY RoundedAgrees DEF BlockOffered
<1>3. ~x /\ ~y /\ ~z BY <1>2
<1>4. X = {} /\ Y = {} /\ Z = {} BY <1>3
<1>5. ASSUME NEW f \in lost PROVE f \in LostByRounding(sp)
  <2>1. f \in {"kernel", "expansion", "norm", "act"} BY DEF UsableFields
  <2>2. UsesField(b.op, f) /\ b[f] \notin sp.block[f] OBVIOUS
  <2>3. f = "expansion" BY <1>2, <2>1, <2>2 DEF UsesField
  <2>4. UsesExpansion(b.op) /\ b.expansion \notin sp.block.expansion
    BY <2>2, <2>3 DEF UsesField
  <2>5. \E v \in Ratios(sp) : Quantise(v) \notin sp.block.expansion BY <1>2, <2>4
  <2> QED BY <2>3, <2>5 DEF LostByRounding
<1> HIDE DEF lost, X, Y, Z
<1> QED BY <1>1, <1>4, <1>5

LEMMA RoundedIssues ==
    ASSUME NEW sp, SpaceValid(sp), NEW a \in Genotypes,
           MembershipIssues(a, Rounded(sp)) = {}
    PROVE  MembershipIssues(a, sp) \subseteq LostByRounding(sp)
<1> DEFINE R == Rounded(sp)
           frame == {f \in {"channels", "size", "classes"} : a[f] # sp[f]}
           x == Len(a.stages) \notin sp.num_stages
           y == \E f \in DOMAIN a.stem : a.stem[f] \notin sp.stem[f]
           z == \E f \in DOMAIN a.head : /\ f = "act" => a.head.hidden > 0
                                         /\ a.head[f] \notin sp.head[f]
           stages == UNION {StageIssues(a, s, sp) : s \in DOMAIN a.stages}
           X == IF x THEN {"stages"} ELSE {}
           Y == IF y THEN {"stem"} ELSE {}
           Z == IF z THEN {"head"} ELSE {}
<1>1. MembershipIssues(a, sp) = frame \cup X \cup Y \cup Z \cup stages
  BY DEF MembershipIssues
<1>2. FrameOffered(a, R) /\ WidthsOffered(a, R) BY MembershipIs
<1> HIDE DEF R
<1>3. /\ a.channels = sp.channels /\ a.size = sp.size /\ a.classes = sp.classes
      /\ Len(a.stages) \in sp.num_stages
      /\ \A f \in DOMAIN a.stem : a.stem[f] \in sp.stem[f]
      /\ HeadOffered(a.head, R)
      /\ \A s \in 1..Len(a.stages) :
            /\ Len(a.stages[s]) \in sp.blocks_per_stage
            /\ \A i \in 1..Len(a.stages[s]) : BlockOffered(a.stages[s][i], i = 1, R)
            /\ StageWidth(a.stages[s]) \in sp.stage_channels
            /\ sp.monotonic /\ s > 1 => StageWidth(a.stages[s - 1]) <= StageWidth(a.stages[s])
  BY <1>2, RoundedAgrees DEF FrameOffered, WidthsOffered, R
<1>4. frame = {} /\ ~x /\ ~y BY <1>3
<1>5. X = {} /\ Y = {} BY <1>4
<1>6. z => "head" \in LostByRounding(sp)
  <2> SUFFICES ASSUME NEW f \in DOMAIN a.head, f = "act" => a.head.hidden > 0,
                      a.head[f] \notin sp.head[f]
               PROVE  "head" \in LostByRounding(sp)
    OBVIOUS
  <2>1. a.head \in RawHeads BY GenotypeIs, HeadFormIs
  <2>2. f \in {"pooling", "hidden", "dropout", "act"} BY <2>1 DEF RawHeads
  <2>3. /\ a.head.pooling \in sp.head.pooling /\ a.head.hidden \in sp.head.hidden
        /\ a.head.dropout \in {Quantise(d) : d \in sp.head.dropout}
        /\ a.head.hidden > 0 => a.head.act \in sp.head.act
    BY <1>3, <2>1, HeadOfferedIs, RoundedAgrees DEF R
  <2>4. f = "dropout" BY <2>2, <2>3
  <2>5. \E d \in sp.head.dropout : Quantise(d) \notin sp.head.dropout BY <2>3, <2>4
  <2> QED BY <2>5 DEF LostByRounding
<1>7. Z \subseteq LostByRounding(sp) BY <1>6
<1>8. ASSUME NEW s \in DOMAIN a.stages PROVE StageIssues(a, s, sp) \subseteq LostByRounding(sp)
  <2> DEFINE stage == a.stages[s]
             blocks == UNION {BlockIssues(stage[i], i = 1, sp) : i \in DOMAIN stage}
             p == Len(stage) \notin sp.blocks_per_stage
             q == StageWidth(stage) \notin sp.stage_channels
             r == sp.monotonic /\ s > 1 /\ StageWidth(stage) < StageWidth(a.stages[s - 1])
             P == IF p THEN {"blocks"} ELSE {}
             Q == IF q THEN {"width"} ELSE {}
             O == IF r THEN {"order"} ELSE {}
  <2>1. StageIssues(a, s, sp) = P \cup Q \cup O \cup blocks BY DEF StageIssues
  <2>2. s \in 1..Len(a.stages) /\ DOMAIN stage = 1..Len(stage) BY GenotypeIs, StageIs
  <2>3. /\ StageWidth(stage) \in Int
        /\ s > 1 => StageWidth(a.stages[s - 1]) \in Int
    BY <2>2, StageWidthIs
  <2>4. ~p /\ ~q BY <1>3, <2>2
  <2>5. ~r BY <1>3, <2>2, <2>3
  <2>6. P = {} /\ Q = {} /\ O = {} BY <2>4, <2>5
  <2>7. ASSUME NEW i \in DOMAIN stage
        PROVE  BlockIssues(stage[i], i = 1, sp) \subseteq LostByRounding(sp)
    <3>1. BlockOffered(stage[i], i = 1, R) BY <1>3, <2>2
    <3>2. (i = 1) \in BOOLEAN OBVIOUS
    <3> HIDE DEF stage
    <3> QED BY <3>1, <3>2, RoundedBlockIssues DEF R
  <2>8. blocks \subseteq LostByRounding(sp) BY <2>7
  <2> HIDE DEF P, Q, O, blocks
  <2> QED BY <2>1, <2>6, <2>8
<1>9. stages \subseteq LostByRounding(sp) BY <1>8
<1> HIDE DEF frame, X, Y, Z, stages
<1> QED BY <1>1, <1>4, <1>5, <1>7, <1>9

\* A block drawn with a ratio is the block drawn with the ratio it is rounded to.
LEMMA CanonicalRounds ==
    ASSUME NEW y, NEW z, y.expansion \in Nat, z.expansion = Quantise(y.expansion),
           z.op = y.op, z.kernel = y.kernel, z.out = y.out, z.stride = y.stride,
           z.residual = y.residual, z.norm = y.norm, z.act = y.act
    PROVE  Canonical(z) = Canonical(y)
<1>1. Quantise(z.expansion) = z.expansion BY RoundedIs
<1> QED BY <1>1 DEF Canonical

LEMMA RoundedNewBlocks ==
    ASSUME NEW sp, SpaceValid(sp), NEW width, NEW strides, NEW residual,
           NEW b \in NewBlocks(sp, width, strides, residual)
    PROVE  b \in NewBlocks(Rounded(sp), width, strides, residual)
<1> DEFINE R == Rounded(sp)
           raws(t, ratios) ==
               [op : ParametricOps(t), kernel : t.block.kernel, expansion : ratios,
                out : {width}, stride : strides, residual : {residual},
                norm : t.block.norm, act : t.block.act]
<1>1. PICK y \in raws(sp, Ratios(sp)) : b = Canonical(y) BY DEF NewBlocks
<1> DEFINE z == [y EXCEPT !.expansion = Quantise(y.expansion)]
<1>2. y.expansion \in Ratios(sp) /\ y.expansion \in Nat BY <1>1, RoundedExact
<1>3. /\ z.expansion = Quantise(y.expansion)
      /\ z.op = y.op /\ z.kernel = y.kernel /\ z.out = y.out /\ z.stride = y.stride
      /\ z.residual = y.residual /\ z.norm = y.norm /\ z.act = y.act
  BY <1>1
<1>4. z \in raws(sp, {Quantise(v) : v \in Ratios(sp)}) BY <1>1, <1>2
<1>5. Canonical(z) = b BY <1>1, <1>2, <1>3, CanonicalRounds
<1> HIDE DEF z
<1>6. /\ Ratios(R) = {Quantise(v) : v \in Ratios(sp)}
      /\ ParametricOps(R) = ParametricOps(sp) /\ R.block.kernel = sp.block.kernel
      /\ R.block.norm = sp.block.norm /\ R.block.act = sp.block.act
  BY RoundedAgrees, RoundedExact, RatiosAre DEF ParametricOps
<1> HIDE DEF R
<1>7. z \in raws(R, Ratios(R)) BY <1>4, <1>6
<1> QED BY <1>5, <1>7 DEF NewBlocks, R

LEMMA RoundedDrawnBlocks ==
    ASSUME NEW sp, SpaceValid(sp), NEW in, NEW width, NEW stride,
           NEW b \in DrawnBlocks(sp, in, width, stride)
    PROVE  b \in DrawnBlocks(Rounded(sp), in, width, stride)
<1> DEFINE R == Rounded(sp)
           ops(t) == {op \in t.block.op : /\ in = width \/ Parametric(op)
                                          /\ ~(stride > 1 /\ op = "identity")}
           shortcut(t) ==
               IF t.block.residual /\ stride = 1 /\ in = width THEN BOOLEAN ELSE {FALSE}
           raws(t, ratios) ==
               [op : ops(t), kernel : t.block.kernel, expansion : ratios,
                out : {width}, stride : {stride}, residual : shortcut(t),
                norm : t.block.norm, act : t.block.act]
<1>1. PICK y \in raws(sp, Ratios(sp)) : b = Canonical(y) BY DEF DrawnBlocks
<1>2. /\ Ratios(R) = {Quantise(v) : v \in Ratios(sp)}
      /\ ops(R) = ops(sp) /\ shortcut(R) = shortcut(sp) /\ R.block.kernel = sp.block.kernel
      /\ R.block.norm = sp.block.norm /\ R.block.act = sp.block.act
  <2>1. R.block.op = sp.block.op /\ R.block.residual = sp.block.residual BY RoundedAgrees
  <2>2. ops(R) = ops(sp) /\ shortcut(R) = shortcut(sp)
    <3> HIDE DEF R
    <3> QED BY <2>1
  <2> HIDE DEF ops, shortcut
  <2> QED BY <2>2, RoundedAgrees, RoundedExact, RatiosAre
<1>3. DrawnBlocks(R, in, width, stride) = {Canonical(x) : x \in raws(R, Ratios(R))}
  BY DEF DrawnBlocks
<1> HIDE DEF ops, shortcut
<1> DEFINE z == [y EXCEPT !.expansion = Quantise(y.expansion)]
<1>4. y.expansion \in Ratios(sp) /\ y.expansion \in Nat BY <1>1, RoundedExact
<1>5. /\ z.expansion = Quantise(y.expansion)
      /\ z.op = y.op /\ z.kernel = y.kernel /\ z.out = y.out /\ z.stride = y.stride
      /\ z.residual = y.residual /\ z.norm = y.norm /\ z.act = y.act
  BY <1>1
<1>6. z \in raws(sp, {Quantise(v) : v \in Ratios(sp)}) BY <1>1, <1>4
<1>7. Canonical(z) = b BY <1>1, <1>4, <1>5, CanonicalRounds
<1> HIDE DEF z, R
<1>8. z \in raws(R, Ratios(R)) BY <1>6, <1>2
<1> HIDE DEF raws
<1> QED BY <1>7, <1>8, <1>3 DEF R

-----------------------------------------------------------------------------
(***************************************************************************)
(* What every operator returns.                                            *)
(***************************************************************************)
\* The sixth door is rounding.
Leaves(name, a, c, sp) ==
    \/ Door(name, a, c, sp)
    \/ /\ name \in {"expansion_ratio", "stage_depth", "num_stages", "head"}
       /\ MembershipIssues(c, sp) \subseteq LostByRounding(sp)

GoodOffspring(name, a, raw, sp) ==
    /\ raw \in Genotypes
    /\ raw = a =>
          \/ name = "stage_width" /\ PlainStages(a) # {}
          \/ name = "expansion_ratio" /\ Coincide(Ratios(sp))
          \/ name = "head" /\ Coincide(sp.head.dropout)
    /\ MembershipIssues(Repair(raw), sp) # {} => Leaves(name, a, Repair(raw), sp)
    /\ MembershipIssues(Repair(raw), sp) = {} /\ Strict(sp) => Descends(a, Repair(raw))

LEMMA GoodAsItIs ==
    ASSUME NEW name, NEW a, NEW raw, NEW sp, GoodChild(name, a, raw, sp)
    PROVE  GoodOffspring(name, a, raw, sp)
BY DEF GoodChild, GoodOffspring, Leaves

\* The child of an operator that draws a ratio or a dropout.
LEMMA GoodOnceRounded ==
    ASSUME NEW name \in {"expansion_ratio", "stage_depth", "num_stages", "head"},
           NEW sp, SpaceValid(sp), NEW a, NEW raw, GoodChild(name, a, raw, Rounded(sp))
    PROVE  GoodOffspring(name, a, raw, sp)
<1> DEFINE R == Rounded(sp)
           c == Repair(raw)
<1>1. raw \in Genotypes /\ raw # a BY DEF GoodChild
<1>2. c \in Genotypes BY <1>1, RepairedIs
<1>3. ASSUME MembershipIssues(c, sp) # {} PROVE Leaves(name, a, c, sp)
  <2>1. CASE MembershipIssues(c, R) = {}
    <3>1. MembershipIssues(c, sp) \subseteq LostByRounding(sp) BY <1>2, <2>1, RoundedIssues
    <3> QED BY <3>1 DEF Leaves
  <2>2. CASE MembershipIssues(c, R) # {}
    <3>1. Door(name, a, c, R) BY <2>2 DEF GoodChild
    <3>2. R.blocks_per_stage = sp.blocks_per_stage BY RoundedAgrees
    <3> HIDE DEF c, R
    <3> QED BY <3>1, <3>2 DEF Door, Leaves
  <2> QED BY <2>1, <2>2
<1>4. ASSUME MembershipIssues(c, sp) = {}, Strict(sp) PROVE Descends(a, c)
  <2>1. MembershipIssues(c, R) = {} BY <1>2, <1>4, RoundedMember
  <2>2. Strict(R) BY <1>4, RoundedAgrees DEF Strict
  <2> QED BY <2>1, <2>2 DEF GoodChild
<1> QED BY <1>1, <1>3, <1>4 DEF GoodOffspring, c

\* An architecture handed back.
LEMMA GoodUnchanged ==
    ASSUME NEW sp, NEW a, Member(a, sp), NEW name,
           \/ name = "expansion_ratio" /\ Coincide(Ratios(sp))
           \/ name = "head" /\ Coincide(sp.head.dropout)
    PROVE  GoodOffspring(name, a, a, sp)
<1>1. Repair(a) = a /\ a \in Genotypes BY RepairKeeps DEF Member, Settled
<1>2. Descends(a, a) BY <1>1, SameOpsDescend
<1> QED BY <1>1, <1>2 DEF GoodOffspring, Member

LEMMA RatioGood ==
    ASSUME NEW sp, SpaceValid(sp), NEW a, Member(a, sp),
           NEW raw \in FieldChildren(a, sp, "expansion")
    PROVE  GoodOffspring("expansion_ratio", a, raw, sp)
<1> DEFINE R == Rounded(sp)
<1>1. PICK p \in Positions(a), v \in Ratios(sp) :
         /\ UsesField(BlockAt(a, p).op, "expansion") /\ v # BlockAt(a, p)["expansion"]
         /\ raw = WithBlock(a, p, [BlockAt(a, p) EXCEPT !["expansion"] = v])
  <2>1. FieldOptions(sp, "expansion") = Ratios(sp) BY DEF FieldOptions
  <2> QED BY <2>1 DEF FieldChildren, Others
<1> DEFINE old == BlockAt(a, p)
           y == [old EXCEPT !["expansion"] = v]
           e == Quantise(v)
           z == [old EXCEPT !["expansion"] = e]
<1>2. old \in RawBlocks /\ Canonical(old) = old /\ BlockOffered(old, p[2] = 1, sp) BY MemberBlock
<1>3. v \in Nat /\ e \in Expansions /\ e \in Ratios(R)
  BY RoundedExact, RoundedAgrees, RatiosAre
<1> HIDE DEF old, e
<1>4. /\ y.expansion = v /\ z.expansion = e
      /\ z.op = y.op /\ z.kernel = y.kernel /\ z.out = y.out /\ z.stride = y.stride
      /\ z.residual = y.residual /\ z.norm = y.norm /\ z.act = y.act
  BY <1>2 DEF RawBlocks
<1> HIDE DEF y, z
<1>5. Canonical(z) = Canonical(y) BY <1>3, <1>4, CanonicalRounds DEF e
<1>6. raw = WithBlock(a, p, z) BY <1>1, <1>5 DEF WithBlock, old, y
<1>7. a \in Genotypes /\ Settled(a) BY MemberIs DEF Member
<1>8. CASE e = old.expansion
  <2>1. z = old BY <1>2, <1>8 DEF z, RawBlocks
  <2>2. raw = a
    <3>1. raw = WithBlock(a, p, old) BY <1>6, <2>1
    <3>2. /\ raw \in Genotypes /\ raw = [a EXCEPT !.stages = raw.stages]
          /\ Len(raw.stages) = Len(a.stages)
          /\ \A s \in 1..Len(a.stages) :
                /\ Len(raw.stages[s]) = Len(a.stages[s])
                /\ \A i \in 1..Len(a.stages[s]) :
                      raw.stages[s][i] = IF <<s, i>> = p THEN Canonical(old) ELSE a.stages[s][i]
      BY <1>2, <1>7, <3>1, WithBlockIs
    <3>3. p[1] \in 1..Len(a.stages) /\ p[2] \in 1..Len(a.stages[p[1]]) /\ p = <<p[1], p[2]>>
      BY <1>7, PositionsAre
    <3>4. \A s \in 1..Len(a.stages) : \A i \in 1..Len(a.stages[s]) :
             raw.stages[s][i] = a.stages[s][i]
      BY <1>2, <3>2, <3>3 DEF old, BlockAt
    <3>5. a = [a EXCEPT !.stages = a.stages] BY <1>7 DEF Genotypes
    <3> QED BY <1>7, <3>2, <3>4, <3>5, SameStages
  <2>3. old.expansion \in Ratios(sp)
    <3>1. UsesExpansion(old.op) BY <1>1 DEF UsesField, old
    <3>2. old.expansion \in sp.block.expansion BY <1>2, <3>1 DEF BlockOffered
    <3>3. old.expansion \in Expansions BY <1>2 DEF RawBlocks
    <3> QED BY <3>2, <3>3, RoundedOffers
  <2>4. Quantise(v) # v /\ Quantise(v) \in Ratios(sp) BY <1>1, <1>8, <2>3 DEF e, old
  <2>5. Coincide(Ratios(sp)) BY <2>4 DEF Coincide
  <2> QED BY <2>2, <2>5, GoodUnchanged
<1>9. CASE e # old.expansion
  <2>1. raw \in FieldChildren(a, R, "expansion")
    <3>1. p \in {q \in Positions(a) : UsesField(BlockAt(a, q).op, "expansion")} BY <1>1
    <3>2. e \in Others(FieldOptions(R, "expansion"), BlockAt(a, p)["expansion"])
      BY <1>3, <1>9 DEF FieldOptions, Others, old
    <3>3. raw = WithBlock(a, p, [BlockAt(a, p) EXCEPT !["expansion"] = e])
      BY <1>6 DEF z, old
    <3> DEFINE child(q, w) == WithBlock(a, q, [BlockAt(a, q) EXCEPT !["expansion"] = w])
               choices(q) == Others(FieldOptions(R, "expansion"), BlockAt(a, q)["expansion"])
               users == {q \in Positions(a) : UsesField(BlockAt(a, q).op, "expansion")}
    <3>4. FieldChildren(a, R, "expansion") =
            UNION {{child(q, w) : w \in choices(q)} : q \in users}
      BY DEF FieldChildren
    <3>5. p \in users /\ e \in choices(p) /\ raw = child(p, e) BY <3>1, <3>2, <3>3
    <3> HIDE DEF R, child, choices, users
    <3> QED BY <3>4, <3>5
  <2>2. Member(a, R) /\ Exact(R) BY <1>7, RoundedMember, RoundedExact DEF Member
  <2>3. "expansion" \in UsableFields BY DEF UsableFields
  <2> HIDE DEF R
  <2>4. GoodChild("expansion_ratio", a, raw, R) BY <2>1, <2>2, <2>3, FieldGood DEF Exact
  <2> QED BY <2>4, GoodOnceRounded DEF R
<1> QED BY <1>8, <1>9

LEMMA GrowthGood ==
    ASSUME NEW sp, SpaceValid(sp), NEW a, Member(a, sp), NEW raw \in DepthChildren(a, sp)
    PROVE  GoodOffspring("stage_depth", a, raw, sp)
<1> DEFINE R == Rounded(sp)
           grown(t, s) == {Append(a.stages[s], b) :
                             b \in NewBlocks(t, StageWidth(a.stages[s]), {1}, t.block.residual)}
           shrunk(s) == {RemoveAt(a.stages[s], i) : i \in 2..Len(a.stages[s])}
           resized(t, s) ==
             (IF Len(a.stages[s]) + 1 \in t.blocks_per_stage THEN grown(t, s) ELSE {})
               \cup (IF Len(a.stages[s]) - 1 \in t.blocks_per_stage THEN shrunk(s) ELSE {})
           child(s, stage) == Repair([a EXCEPT !.stages[s] = stage])
           all(t) == UNION {{child(s, stage) : stage \in resized(t, s)} : s \in DOMAIN a.stages}
<1>1. raw \in all(sp) /\ DepthChildren(a, R) = all(R) BY DEF DepthChildren
<1>2. R.blocks_per_stage = sp.blocks_per_stage /\ R.block.residual = sp.block.residual
  BY RoundedAgrees
<1> HIDE DEF R, child
<1>3. ASSUME NEW s, NEW x \in grown(sp, s) PROVE x \in grown(R, s)
  BY <1>2, <1>3, RoundedNewBlocks DEF R
<1> HIDE DEF grown, shrunk
<1>4. ASSUME NEW s, NEW x \in resized(sp, s) PROVE x \in resized(R, s) BY <1>2, <1>3, <1>4
<1> HIDE DEF resized
<1>5. raw \in all(R) BY <1>1, <1>4
<1> HIDE DEF all
<1>6. Member(a, R) /\ Exact(R) BY RoundedMember, RoundedExact DEF Member, Settled, R
<1>7. GoodChild("stage_depth", a, raw, R) BY <1>1, <1>5, <1>6, DepthGood
<1> QED BY <1>7, GoodOnceRounded DEF R

LEMMA LengthGood ==
    ASSUME NEW sp, SpaceValid(sp), NEW a, Member(a, sp), NEW raw \in StagesChildren(a, sp)
    PROVE  GoodOffspring("num_stages", a, raw, sp)
<1> DEFINE R == Rounded(sp)
           n == Len(a.stages)
           last == StageWidth(Last(a.stages))
           wider(t) == {w \in t.stage_channels : w >= last}
           widths(t) == IF wider(t) = {} THEN {last} ELSE wider(t)
           single(t, w) == {Append(a.stages, <<b>>) : b \in NewBlocks(t, w, t.stage_strides, FALSE)}
           appended(t) == UNION {single(t, w) : w \in widths(t)}
           bodies(t) == (IF n + 1 \in t.num_stages THEN appended(t) ELSE {})
                          \cup (IF n - 1 \in t.num_stages /\ n > 1 THEN {Front(a.stages)} ELSE {})
           all(t) == {Repair([a EXCEPT !.stages = stages]) : stages \in bodies(t)}
<1>1. raw \in all(sp) /\ StagesChildren(a, R) = all(R) BY DEF StagesChildren
<1>2. /\ R.stage_channels = sp.stage_channels /\ R.stage_strides = sp.stage_strides
      /\ R.num_stages = sp.num_stages
  BY RoundedAgrees
<1> HIDE DEF R
<1>3. ASSUME NEW w, NEW x \in single(sp, w) PROVE x \in single(R, w)
  BY <1>2, <1>3, RoundedNewBlocks DEF R
<1> HIDE DEF single
<1>4. widths(R) = widths(sp) BY <1>2
<1> HIDE DEF widths
<1>5. ASSUME NEW x \in appended(sp) PROVE x \in appended(R) BY <1>3, <1>4, <1>5
<1> HIDE DEF appended
<1>6. ASSUME NEW x \in bodies(sp) PROVE x \in bodies(R) BY <1>2, <1>5, <1>6
<1> HIDE DEF bodies
<1>7. raw \in all(R) BY <1>1, <1>6
<1> HIDE DEF all
<1>8. Member(a, R) /\ Exact(R) BY RoundedMember, RoundedExact DEF Member, Settled, R
<1>9. GoodChild("num_stages", a, raw, R) BY <1>1, <1>7, <1>8, StagesGood
<1> QED BY <1>9, GoodOnceRounded DEF R

LEMMA HeadChildGood ==
    ASSUME NEW sp, SpaceValid(sp), NEW a, Member(a, sp), NEW raw \in HeadChildren(a, sp)
    PROVE  GoodOffspring("head", a, raw, sp)
<1> DEFINE R == Rounded(sp)
           child(f, v) == [a EXCEPT !.head = CanonicalHead([a.head EXCEPT ![f] = v])]
           fields == {g \in DOMAIN a.head : g = "act" => a.head.hidden > 0}
           options(t, f) == Others(t.head[f], a.head[f])
           all(t) == UNION {{child(f, v) : v \in options(t, f)} : f \in fields}
<1>1. raw \in all(sp) /\ HeadChildren(a, R) = all(R) BY DEF HeadChildren
<1>2. /\ a \in Genotypes /\ Settled(a) /\ a.head \in HeadForms /\ HeadOffered(a.head, sp)
  BY MemberIs, GenotypeIs DEF Member, FrameOffered
<1>3. /\ a.head \in RawHeads /\ CanonicalHead(a.head) = a.head
      /\ DOMAIN a.head = {"pooling", "hidden", "dropout", "act"}
  BY <1>2 DEF HeadForms, RawHeads
<1>4. Member(a, R) /\ Exact(R) BY <1>2, RoundedMember, RoundedExact DEF Member
<1>5. /\ R.head.pooling = sp.head.pooling /\ R.head.hidden = sp.head.hidden
      /\ R.head.act = sp.head.act
      /\ R.head.dropout = {Quantise(d) : d \in sp.head.dropout}
  BY RoundedAgrees
<1> HIDE DEF child, options
<1>6. PICK f \in fields : \E v \in options(sp, f) : raw = child(f, v) BY <1>1
<1>7. PICK v \in options(sp, f) : raw = child(f, v) BY <1>6
<1>8. /\ f \in {"pooling", "hidden", "dropout", "act"} /\ v \in sp.head[f] /\ v # a.head[f]
  BY <1>3, <1>7 DEF options, Others
<1> HIDE DEF R, fields
<1>9. ASSUME raw \in all(R) PROVE GoodOffspring("head", a, raw, sp)
  <2> HIDE DEF all
  <2>1. GoodChild("head", a, raw, R) BY <1>1, <1>4, <1>9, HeadGood
  <2> QED BY <2>1, GoodOnceRounded DEF R
<1>10. CASE f # "dropout"
  <2>1. R.head[f] = sp.head[f] BY <1>5, <1>8, <1>10
  <2>2. v \in options(R, f) BY <1>8, <2>1 DEF options, Others
  <2>3. raw \in all(R) BY <1>7, <2>2
  <2> QED BY <1>9, <2>3
<1>11. CASE f = "dropout"
  <2> DEFINE e == Quantise(v)
  <2>1. v \in Nat /\ e \in Dropouts /\ v \in sp.head.dropout /\ v # a.head.dropout
    BY <1>8, <1>11, RoundedExact
  <2>2. e \in R.head[f] BY <1>5, <1>11, <2>1
  <2>3. Quantise(e) = e /\ e \in Nat BY <2>1 DEF Dropouts
  <2>4. child(f, e) = raw
    <3> DEFINE h(d) == [a.head EXCEPT ![f] = d]
    <3>1. CanonicalHead(h(e)) = CanonicalHead(h(v))
      <4>1. /\ h(e).dropout = e /\ h(v).dropout = v
            /\ h(e).hidden = h(v).hidden /\ h(e).act = h(v).act
        BY <1>3, <1>11 DEF RawHeads
      <4> DEFINE act == IF h(v).hidden = 0 THEN "identity" ELSE h(v).act
      <4>2. /\ CanonicalHead(h(e)) = [h(e) EXCEPT !.dropout = Quantise(e), !.act = act]
            /\ CanonicalHead(h(v)) = [h(v) EXCEPT !.dropout = e, !.act = act]
        <5> HIDE DEF h
        <5> QED BY <4>1 DEF CanonicalHead
      <4> HIDE DEF act, e
      <4>3. /\ h(e) = [a.head EXCEPT !.dropout = e]
            /\ h(v) = [a.head EXCEPT !.dropout = v]
        BY <1>11
      <4>4. /\ [h(e) EXCEPT !.dropout = e, !.act = act] = [a.head EXCEPT !.dropout = e, !.act = act]
            /\ [h(v) EXCEPT !.dropout = e, !.act = act] = [a.head EXCEPT !.dropout = e, !.act = act]
        <5> HIDE DEF h
        <5> QED BY <1>3, <4>3 DEF RawHeads
      <4> HIDE DEF h
      <4> QED BY <2>3, <4>2, <4>4
    <3> QED BY <1>7, <3>1 DEF child
  <2> HIDE DEF e
  <2>5. CASE e # a.head[f]
    <3>1. e \in options(R, f) BY <2>2, <2>5 DEF options, Others
    <3>2. raw \in all(R) BY <1>7, <2>4, <3>1
    <3> QED BY <1>9, <3>2
  <2>6. CASE e = a.head[f]
    <3>1. raw = a
      <4>1. [a.head EXCEPT ![f] = e] = a.head BY <1>3, <1>11, <2>6 DEF RawHeads
      <4>2. raw = [a EXCEPT !.head = a.head] BY <1>3, <2>4, <4>1 DEF child
      <4> QED BY <1>2, <4>2 DEF Genotypes
    <3>2. Coincide(sp.head.dropout)
      <4>1. a.head.dropout \in sp.head.dropout BY <1>2, <1>3, HeadOfferedIs
      <4>2. Quantise(v) # v /\ Quantise(v) \in sp.head.dropout
        BY <1>11, <2>1, <2>6, <4>1 DEF e
      <4> QED BY <2>1, <4>2 DEF Coincide
    <3> QED BY <3>1, <3>2, GoodUnchanged
  <2> QED BY <2>5, <2>6
<1> QED BY <1>10, <1>11

\* Every child of every operator is good.
LEMMA ChildGood ==
    ASSUME NEW sp, SpaceValid(sp), NEW a, Member(a, sp), NEW name \in Operators,
           NEW raw \in Children(name, a, sp)
    PROVE  GoodOffspring(name, a, raw, sp)
<1> USE DEF Children, Offspring
<1>1. Typed(sp) BY ValidIs
<1>2. CASE name = "operation"
  <2>1. raw \in OperationChildren(a, sp) BY <1>2
  <2> QED BY <1>1, <1>2, <2>1, OperationGood, GoodAsItIs
<1>3. CASE name \in {"kernel_size", "activation", "normalization"}
  <2>1. \E f \in UsableFields : raw \in FieldChildren(a, sp, f) /\ f # "expansion"
    BY <1>3 DEF UsableFields
  <2> QED BY <1>1, <2>1, FieldGood, GoodAsItIs
<1>4. CASE name = "expansion_ratio"
  <2>1. raw \in FieldChildren(a, sp, "expansion") BY <1>4
  <2> QED BY <1>4, <2>1, RatioGood
<1>5. CASE name = "residual"
  <2>1. raw \in ResidualChildren(a, sp) BY <1>5
  <2> QED BY <2>1, ResidualGood, GoodAsItIs
<1>6. CASE name = "stride"
  <2>1. raw \in StrideChildren(a, sp) BY <1>6
  <2> QED BY <1>1, <2>1, StrideGood, GoodAsItIs
<1>7. CASE name = "stage_width"
  <2>1. raw \in WidthChildren(a, sp) BY <1>7
  <2> QED BY <1>1, <1>7, <2>1, WidthGood, GoodAsItIs
<1>8. CASE name = "stage_depth"
  <2>1. raw \in DepthChildren(a, sp) BY <1>8
  <2> QED BY <1>8, <2>1, GrowthGood
<1>9. CASE name = "num_stages"
  <2>1. raw \in StagesChildren(a, sp) BY <1>9
  <2> QED BY <1>9, <2>1, LengthGood
<1>10. CASE name = "stem"
  <2>1. raw \in StemChildren(a, sp) BY <1>10
  <2> QED BY <1>1, <1>10, <2>1, StemGood, GoodAsItIs
<1>11. CASE name = "head"
  <2>1. raw \in HeadChildren(a, sp) BY <1>11
  <2> QED BY <1>11, <2>1, HeadChildGood
<1> QED BY <1>2, <1>3, <1>4, <1>5, <1>6, <1>7, <1>8, <1>9, <1>10, <1>11 DEF Operators

-----------------------------------------------------------------------------
(***************************************************************************)
(* What the sampler draws.                                                 *)
(***************************************************************************)
\* A block that the sampler may put behind a width.
Drawn(b, sp, in, width, stride) ==
    /\ b \in BlockForms /\ b.out = width
    /\ ~Parametric(b.op) => in = width
    /\ b.residual => b.stride = 1 /\ in = width
    /\ \A first \in BOOLEAN :
          stride \in (IF first THEN sp.stage_strides ELSE {1}) => BlockOffered(b, first, sp)

LEMMA DrawnBlockIs ==
    ASSUME NEW sp, Exact(sp), NEW in \in Positive, NEW width \in Positive,
           NEW stride \in 1..4, NEW b \in DrawnBlocks(sp, in, width, stride)
    PROVE  Drawn(b, sp, in, width, stride)
<1> DEFINE ops == {op \in sp.block.op : /\ in = width \/ Parametric(op)
                                        /\ ~(stride > 1 /\ op = "identity")}
           shortcut == IF sp.block.residual /\ stride = 1 /\ in = width THEN BOOLEAN ELSE {FALSE}
           raws == [op : ops, kernel : sp.block.kernel,
                    expansion : Ratios(sp), out : {width},
                    stride : {stride}, residual : shortcut,
                    norm : sp.block.norm, act : sp.block.act]
<1>1. PICK y \in raws : b = Canonical(y) BY DEF DrawnBlocks
<1>2. /\ y.op \in ops /\ y.kernel \in sp.block.kernel
      /\ y.expansion \in sp.block.expansion /\ y.out = width /\ y.stride = stride
      /\ y.residual \in shortcut /\ y.norm \in sp.block.norm /\ y.act \in sp.block.act
  BY <1>1, RatiosAre
<1>3. /\ ops \subseteq OperationTypes /\ sp.block.kernel \subseteq OddKernels
      /\ sp.block.expansion \subseteq Expansions
      /\ sp.block.norm \subseteq NormalizationTypes /\ sp.block.act \subseteq ActivationTypes
      /\ shortcut \subseteq BOOLEAN
  BY DEF Exact, Typed
<1>4. y \in RawBlocks
  <2> HIDE DEF ops, shortcut
  <2> QED BY <1>1, <1>3, RatiosAre DEF RawBlocks
<1>5. y.op \in sp.block.op /\ (in = width \/ Parametric(y.op)) BY <1>2
<1>6. y.residual => sp.block.residual /\ stride = 1 /\ in = width BY <1>2
<1> HIDE DEF ops, shortcut, raws
<1>7. b \in BlockForms BY <1>1, <1>4, CanonicalIs
<1>8. /\ b.op = y.op /\ b.out = y.out
      /\ b.kernel = IF UsesKernel(y.op) THEN y.kernel ELSE 1
      /\ b.expansion = IF UsesExpansion(y.op) THEN y.expansion ELSE Unit
      /\ b.stride = IF y.op = "identity" THEN 1 ELSE y.stride
      /\ b.residual => y.residual
      /\ b.norm = IF Parametric(y.op) THEN y.norm ELSE "none"
      /\ b.act = IF Parametric(y.op) THEN y.act ELSE "identity"
  BY <1>1, <1>4, CanonicalFields
<1>9. ASSUME NEW first \in BOOLEAN, stride \in (IF first THEN sp.stage_strides ELSE {1})
      PROVE  BlockOffered(b, first, sp)
  BY <1>2, <1>5, <1>6, <1>8, <1>9 DEF BlockOffered
<1> QED BY <1>2, <1>5, <1>6, <1>7, <1>8, <1>9 DEF Drawn

\* A stage that the sampler may put behind a width.
DrawnStage(stage, sp, in, width) ==
    /\ stage \in StageForms /\ Len(stage) \in sp.blocks_per_stage
    /\ \A i \in 1..Len(stage) :
          /\ stage[i].out = width
          /\ ~Parametric(stage[i].op) => (i = 1 => in = width)
          /\ stage[i].residual => stage[i].stride = 1 /\ (i = 1 => in = width)
          /\ BlockOffered(stage[i], i = 1, sp)

LEMMA DrawnStageIs ==
    ASSUME NEW sp, SpaceValid(sp), NEW in \in Positive, NEW width \in Positive,
           NEW stage \in DrawnStages(sp, in, width)
    PROVE  DrawnStage(stage, Rounded(sp), in, width)
<1> DEFINE R == Rounded(sp)
           firsts(stride) == DrawnBlocks(sp, in, width, stride)
           later == DrawnBlocks(sp, width, width, 1)
           rests(depth) == [1..depth - 1 -> later]
           from(depth, stride) == {<<draw[1]>> \o draw[2] : draw \in firsts(stride) \X rests(depth)}
<1>1. PICK depth \in sp.blocks_per_stage, stride \in sp.stage_strides : stage \in from(depth, stride)
  <2>1. stage \in UNION {UNION {from(depth, stride) : stride \in sp.stage_strides} :
                         depth \in sp.blocks_per_stage}
    BY DEF DrawnStages
  <2> HIDE DEF from
  <2> QED BY <2>1
<1>2. PICK first \in firsts(stride), rest \in rests(depth) : stage = <<first>> \o rest
  <2> HIDE DEF firsts, rests
  <2> QED BY <1>1
<1>3. stride \in 1..4 /\ depth \in 1..16 BY ValidIs DEF Typed
<1>4. Exact(R) BY RoundedExact
<1>5. R.blocks_per_stage = sp.blocks_per_stage /\ R.stage_strides = sp.stage_strides
  BY RoundedAgrees
<1>6. first \in DrawnBlocks(R, in, width, stride) BY RoundedDrawnBlocks
<1> HIDE DEF later, R
<1>7. Drawn(first, R, in, width, stride) BY <1>3, <1>4, <1>6, DrawnBlockIs
<1>8. ASSUME NEW b \in later PROVE Drawn(b, R, width, width, 1)
  <2>1. 1 \in 1..4 OBVIOUS
  <2>2. b \in DrawnBlocks(R, width, width, 1) BY <1>8, RoundedDrawnBlocks DEF later, R
  <2> QED BY <1>4, <2>1, <2>2, DrawnBlockIs
<1>9. later \subseteq BlockForms BY <1>8 DEF Drawn
<1>10. rest \in Seq(BlockForms) /\ Len(rest) = depth - 1 BY <1>3, <1>9
<1>11. first \in BlockForms BY <1>7 DEF Drawn
<1>12. /\ stage \in Seq(BlockForms) /\ Len(stage) = depth /\ stage[1] = first
       /\ \A i \in 2..depth : stage[i] \in later
  <2> DEFINE head == <<first>>
  <2>1. head \in Seq(BlockForms) /\ Len(head) = 1 /\ head[1] = first BY <1>11
  <2> HIDE DEF head
  <2>2. stage = head \o rest BY <1>2 DEF head
  <2>3. /\ head \o rest \in Seq(BlockForms) /\ Len(head \o rest) = 1 + (depth - 1)
        /\ \A i \in 1..1 + (depth - 1) :
              (head \o rest)[i] = IF i <= 1 THEN head[i] ELSE rest[i - 1]
    BY <1>10, <2>1, ConcatProperties, SMTT(40)
  <2>4. 1 + (depth - 1) = depth BY <1>3
  <2>5. ASSUME NEW i \in 2..depth PROVE stage[i] \in later
    <3>1. i \in 1..depth /\ ~(i <= 1) /\ i - 1 \in 1..depth - 1 BY <1>3
    <3>2. stage[i] = rest[i - 1] BY <2>2, <2>3, <2>4, <3>1
    <3> QED BY <3>1, <3>2
  <2>6. 1 \in 1..depth BY <1>3
  <2>7. stage[1] = first BY <2>1, <2>2, <2>3, <2>4, <2>6
  <2> HIDE DEF firsts, rests
  <2> QED BY <2>2, <2>3, <2>4, <2>5, <2>7
<1> HIDE DEF firsts, rests, from
<1>13. stage \in StageForms BY <1>3, <1>12 DEF StageForms
<1>14. ASSUME NEW i \in 1..Len(stage)
       PROVE  /\ stage[i].out = width
              /\ ~Parametric(stage[i].op) => (i = 1 => in = width)
              /\ stage[i].residual => stage[i].stride = 1 /\ (i = 1 => in = width)
              /\ BlockOffered(stage[i], i = 1, R)
  <2>1. CASE i = 1
    <3>1. (i = 1) = TRUE /\ stage[i] = first BY <1>12, <2>1
    <3> QED BY <1>7, <1>5, <3>1 DEF Drawn
  <2>2. CASE i # 1
    <3>1. (i = 1) = FALSE /\ i \in 2..depth BY <1>3, <1>12, <2>2
    <3>2. Drawn(stage[i], R, width, width, 1) BY <1>8, <1>12, <3>1
    <3> QED BY <3>1, <3>2 DEF Drawn
  <2> QED BY <2>1, <2>2
<1> QED BY <1>12, <1>13, <1>14, <1>5 DEF DrawnStage, R

\* The width that reaches a drawn stage.
Behind(in, w, n) == IF n = 1 THEN in ELSE w[n - 1]

\* Every body of n stages comes from one of n - 1 and a drawn stage.
LEMMA DrawnBodyIs ==
    ASSUME NEW sp, SpaceValid(sp), NEW in \in Positive, NEW m \in Nat,
           NEW w \in [1..m -> Positive], NEW body \in DrawnBodies(sp, in, w)
    PROVE  /\ body \in Seq(StageForms) /\ Len(body) = m
           /\ \A s \in 1..m : DrawnStage(body[s], Rounded(sp), Behind(in, w, s), w[s])
<1> DEFINE T == SUBSET Seq(StageForms)
           stages(n) == DrawnStages(sp, Behind(in, w, n), w[n])
           more(S, n) == {Append(draw[1], draw[2]) : draw \in S \X stages(n)}
           step == [n \in 1..m |-> [S \in T |-> more(S, n)]]
           eq(f) == f = [n \in 0..m |-> IF n = 0 THEN {<<>>} ELSE more(f[n - 1], n)]
<1>1. ASSUME NEW n \in 1..m
      PROVE  Behind(in, w, n) \in Positive /\ w[n] \in Positive
  <2>1. w[n] \in Positive BY <1>1
  <2>2. n # 1 => n - 1 \in 1..m BY <1>1
  <2> QED BY <2>1, <2>2 DEF Behind
<1>2. ASSUME NEW n \in 1..m, NEW stage \in stages(n)
      PROVE  DrawnStage(stage, Rounded(sp), Behind(in, w, n), w[n]) /\ stage \in StageForms
  <2>1. DrawnStage(stage, Rounded(sp), Behind(in, w, n), w[n]) BY <1>1, <1>2, DrawnStageIs
  <2> QED BY <2>1 DEF DrawnStage
<1> HIDE DEF stages
<1>3. ASSUME NEW n \in 1..m, NEW S \in T PROVE more(S, n) \in T
  <2> SUFFICES ASSUME NEW x \in more(S, n) PROVE x \in Seq(StageForms) OBVIOUS
  <2>1. PICK draw \in S \X stages(n) : x = Append(draw[1], draw[2]) OBVIOUS
  <2>2. draw[1] \in Seq(StageForms) /\ draw[2] \in StageForms BY <1>2, <2>1
  <2> QED BY <2>1, <2>2
<1> HIDE DEF more
<1>4. {<<>>} \in T OBVIOUS
<1> HIDE DEF T
<1>5. step \in Steps(T, m) BY <1>3 DEF Steps
<1>6. \E f : eq(f)
  <2>1. PICK f : Follows(f, T, m, {<<>>}, step)
    <3> HIDE DEF step
    <3> QED BY <1>4, <1>5, RecursionExists
  <2>2. ASSUME NEW n \in 0..m
        PROVE  f[n] = IF n = 0 THEN {<<>>} ELSE more(f[n - 1], n)
    <3>1. f[n] = IF n = 0 THEN {<<>>} ELSE step[n][f[n - 1]]
      <4> HIDE DEF step
      <4> QED BY <2>1 DEF Follows
    <3>2. CASE n = 0 BY <3>1, <3>2
    <3>3. CASE n # 0
      <4>1. n \in 1..m /\ f[n - 1] \in T
        <5> HIDE DEF step
        <5> QED BY <2>1, <3>3 DEF Follows
      <4>2. step[n][f[n - 1]] = more(f[n - 1], n) BY <4>1
      <4> HIDE DEF step
      <4> QED BY <3>1, <3>3, <4>2
    <3> QED BY <3>2, <3>3
  <2>3. f \in [0..m -> T]
    <3> HIDE DEF step
    <3> QED BY <2>1 DEF Follows
  <2> QED BY <2>2, <2>3
<1> DEFINE bodies == CHOOSE f : eq(f)
<1>7. eq(bodies) BY <1>6
<1>8. Len(w) = m OBVIOUS
<1>9. body \in bodies[m] BY <1>8 DEF DrawnBodies, more, stages, Behind
<1> HIDE DEF bodies
<1> DEFINE Of(n, b) == /\ b \in Seq(StageForms) /\ Len(b) = n
                       /\ \A s \in 1..n : DrawnStage(b[s], Rounded(sp), Behind(in, w, s), w[s])
           Good == {n \in 0..m : \A b \in bodies[n] : Of(n, b)}
<1>10. 0 \in Good
  <2>1. bodies[0] = {<<>>} /\ 0 \in 0..m BY <1>7
  <2>2. Of(0, <<>>)
    <3>1. <<>> \in Seq(StageForms) /\ Len(<<>>) = 0 /\ 1..0 = {} OBVIOUS
    <3> QED BY <3>1
  <2> HIDE DEF Of
  <2> QED BY <2>1, <2>2
<1>11. ASSUME NEW n \in 1..m, n - 1 \in Good PROVE n \in Good
  <2>1. n \in 0..m /\ bodies[n] = more(bodies[n - 1], n)
    <3>1. n \in 0..m /\ n # 0 OBVIOUS
    <3>2. bodies[n] = IF n = 0 THEN {<<>>} ELSE more(bodies[n - 1], n) BY <1>7, <3>1
    <3> QED BY <3>1, <3>2
  <2> SUFFICES ASSUME NEW b \in bodies[n] PROVE Of(n, b) BY <2>1
  <2>2. PICK draw \in bodies[n - 1] \X stages(n) : b = Append(draw[1], draw[2])
    BY <2>1 DEF more
  <2> DEFINE old == draw[1]
             new == draw[2]
  <2>3. Of(n - 1, old)
    <3>1. old \in bodies[n - 1] BY <2>2
    <3> HIDE DEF old, Of
    <3> QED BY <1>11, <3>1
  <2>4. DrawnStage(new, Rounded(sp), Behind(in, w, n), w[n]) /\ new \in StageForms BY <1>2, <2>2
  <2>5. b = Append(old, new) BY <2>2
  <2> HIDE DEF old, new
  <2>6. /\ b \in Seq(StageForms) /\ Len(b) = n /\ b[n] = new
        /\ \A s \in 1..n - 1 : b[s] = old[s]
    BY <2>3, <2>4, <2>5
  <2>7. ASSUME NEW s \in 1..n PROVE DrawnStage(b[s], Rounded(sp), Behind(in, w, s), w[s])
    <3>1. CASE s = n BY <2>4, <2>6, <3>1
    <3>2. CASE s # n
      <4>1. s \in 1..n - 1 BY <3>2
      <4> QED BY <2>3, <2>6, <4>1
    <3> QED BY <3>1, <3>2
  <2> QED BY <2>6, <2>7
<1>12. m \in Good
  <2> HIDE DEF Good
  <2>1. \A n \in 0..m : n \in Good BY <1>10, <1>11, UpTheInterval
  <2> QED BY <2>1
<1> QED BY <1>9, <1>12

LEMMA DrawnFrameIs ==
    ASSUME NEW sp, SpaceValid(sp), NEW stem \in DrawnStems(sp), NEW head \in DrawnHeads(sp)
    PROVE  /\ stem \in StemForms /\ \A f \in DOMAIN stem : stem[f] \in sp.stem[f]
           /\ head \in HeadForms /\ HeadOffered(head, Rounded(sp))
<1>1. stem \in StemForms
  <2>1. /\ sp.stem.out \subseteq Positive /\ sp.stem.kernel \subseteq OddKernels
        /\ sp.stem.stride \subseteq 1..4
        /\ sp.stem.norm \subseteq NormalizationTypes /\ sp.stem.act \subseteq ActivationTypes
    BY ValidIs DEF Typed
  <2> QED BY <2>1 DEF DrawnStems, StemForms
<1>2. \A f \in DOMAIN stem : stem[f] \in sp.stem[f] BY DEF DrawnStems
<1> DEFINE raws == [pooling : sp.head.pooling, hidden : sp.head.hidden,
                    dropout : sp.head.dropout, act : sp.head.act]
<1>3. PICK h \in raws : head = CanonicalHead(h) BY DEF DrawnHeads
<1> DEFINE q == [h EXCEPT !.dropout = Quantise(h.dropout)]
<1>4. /\ q \in RawHeads
      /\ q.pooling = h.pooling /\ q.hidden = h.hidden /\ q.act = h.act
      /\ q.dropout = Quantise(h.dropout)
  <2>1. /\ sp.head.pooling \subseteq PoolingTypes /\ sp.head.hidden \subseteq Nat
        /\ sp.head.act \subseteq ActivationTypes
    BY ValidIs DEF Typed
  <2>2. Quantise(h.dropout) \in Dropouts BY <1>3, RoundedExact
  <2> QED BY <1>3, <2>1, <2>2 DEF RawHeads
<1>5. CanonicalHead(q) = head
  <2> DEFINE e == Quantise(h.dropout)
             act == IF h.hidden = 0 THEN "identity" ELSE h.act
  <2>1. Quantise(e) = e BY <1>4 DEF RawHeads, Dropouts
  <2>2. CanonicalHead(q) = [q EXCEPT !.dropout = Quantise(e), !.act = act]
    <3> HIDE DEF q
    <3> QED BY <1>4 DEF CanonicalHead
  <2>3. CanonicalHead(h) = [h EXCEPT !.dropout = e, !.act = act] BY DEF CanonicalHead
  <2> HIDE DEF act, e
  <2> QED BY <1>3, <2>1, <2>2, <2>3 DEF e
<1>6. /\ h.pooling \in sp.head.pooling /\ h.hidden \in sp.head.hidden
      /\ h.dropout \in sp.head.dropout /\ h.act \in sp.head.act
  BY <1>3
<1> HIDE DEF raws, q
<1>7. /\ head \in HeadForms
      /\ head.pooling = h.pooling /\ head.hidden = h.hidden
      /\ head.dropout = Quantise(h.dropout)
      /\ head.act = IF h.hidden = 0 THEN "identity" ELSE h.act
  BY <1>4, <1>5, CanonicalHeadIs
<1>8. head \in RawHeads BY <1>7, HeadFormIs
<1>9. head.hidden > 0 => head.act = h.act BY <1>7
<1>10. HeadOffered(head, Rounded(sp)) BY <1>6, <1>7, <1>8, <1>9, HeadOfferedIs, RoundedAgrees
<1> QED BY <1>1, <1>2, <1>7, <1>10

\* Where a draw comes from.
LEMMA DrawParts ==
    ASSUME NEW sp, NEW raw \in Drafts(sp)
    PROVE  \E stem \in DrawnStems(sp), n \in sp.num_stages : \E w \in DrawnWidths(sp, n) :
              /\ raw.channels = sp.channels /\ raw.size = sp.size /\ raw.classes = sp.classes
              /\ raw.stem = stem /\ raw.stages \in DrawnBodies(sp, stem.out, w)
              /\ raw.head \in DrawnHeads(sp)
              /\ raw = [channels |-> sp.channels, size |-> sp.size, classes |-> sp.classes,
                        stem |-> stem, stages |-> raw.stages, head |-> raw.head]
<1> DEFINE made(stem, w) ==
             [channels : {sp.channels}, size : {sp.size}, classes : {sp.classes},
              stem : {stem}, stages : DrawnBodies(sp, stem.out, w), head : DrawnHeads(sp)]
           for(stem, n) == UNION {made(stem, w) : w \in DrawnWidths(sp, n)}
<1>1. PICK stem \in DrawnStems(sp), n \in sp.num_stages : raw \in for(stem, n)
  <2>1. raw \in UNION {UNION {for(stem, n) : n \in sp.num_stages} : stem \in DrawnStems(sp)}
    BY DEF Drafts
  <2> HIDE DEF for
  <2> QED BY <2>1
<1>2. PICK w \in DrawnWidths(sp, n) : raw \in made(stem, w)
  <2> HIDE DEF made
  <2> QED BY <1>1
<1>3. /\ raw.channels = sp.channels /\ raw.size = sp.size /\ raw.classes = sp.classes
      /\ raw.stem = stem /\ raw.stages \in DrawnBodies(sp, stem.out, w)
      /\ raw.head \in DrawnHeads(sp)
      /\ raw = [channels |-> sp.channels, size |-> sp.size, classes |-> sp.classes,
                stem |-> stem, stages |-> raw.stages, head |-> raw.head]
  BY <1>2
<1> HIDE DEF made, for
<1> QED BY <1>1, <1>2, <1>3

\* The sampler draws inside the rounded space, and nothing in need of repair.
LEMMA DrawIs ==
    ASSUME NEW sp, SpaceValid(sp), NEW raw \in Drafts(sp)
    PROVE  Member(raw, Rounded(sp))
<1> DEFINE R == Rounded(sp)
<1>1. PICK stem \in DrawnStems(sp), n \in sp.num_stages : \E w \in DrawnWidths(sp, n) :
           /\ raw.channels = sp.channels /\ raw.size = sp.size /\ raw.classes = sp.classes
           /\ raw.stem = stem /\ raw.stages \in DrawnBodies(sp, stem.out, w)
           /\ raw.head \in DrawnHeads(sp)
           /\ raw = [channels |-> sp.channels, size |-> sp.size, classes |-> sp.classes,
                     stem |-> stem, stages |-> raw.stages, head |-> raw.head]
  BY DrawParts
<1>2. PICK w \in DrawnWidths(sp, n) :
           /\ raw.channels = sp.channels /\ raw.size = sp.size /\ raw.classes = sp.classes
           /\ raw.stem = stem /\ raw.stages \in DrawnBodies(sp, stem.out, w)
           /\ raw.head \in DrawnHeads(sp)
           /\ raw = [channels |-> sp.channels, size |-> sp.size, classes |-> sp.classes,
                     stem |-> stem, stages |-> raw.stages, head |-> raw.head]
  BY <1>1
<1>3. n \in 1..8 /\ sp.stage_channels \subseteq Positive
      /\ sp.channels \in Positive /\ sp.size \in Positive /\ sp.classes \in Positive
  BY ValidIs DEF Typed
<1>4. /\ w \in [1..n -> Positive] /\ \A s \in 1..n : w[s] \in sp.stage_channels
      /\ sp.monotonic => \A i \in 1..n - 1 : w[i] <= w[i + 1]
  BY <1>3 DEF DrawnWidths
<1>5. /\ stem \in StemForms /\ \A f \in DOMAIN stem : stem[f] \in sp.stem[f]
      /\ raw.head \in HeadForms /\ HeadOffered(raw.head, R)
  BY <1>2, DrawnFrameIs
<1>6. stem.out \in Positive BY <1>5 DEF StemForms
<1> DEFINE in(s) == Behind(stem.out, w, s)
<1>7. /\ raw.stages \in Seq(StageForms) /\ Len(raw.stages) = n
      /\ \A s \in 1..n : DrawnStage(raw.stages[s], R, in(s), w[s])
  BY <1>2, <1>3, <1>4, <1>6, DrawnBodyIs
<1>8. /\ R.channels = sp.channels /\ R.size = sp.size /\ R.classes = sp.classes
      /\ R.num_stages = sp.num_stages /\ R.blocks_per_stage = sp.blocks_per_stage
      /\ R.stage_channels = sp.stage_channels /\ R.monotonic = sp.monotonic /\ R.stem = sp.stem
  BY RoundedAgrees
<1> HIDE DEF R
<1>9. raw.stages # <<>> BY <1>3, <1>7
<1>10. raw \in Genotypes BY <1>2, <1>3, <1>5, <1>7, <1>9 DEF Genotypes
<1>11. ASSUME NEW s \in 1..n
       PROVE  /\ raw.stages[s] \in StageForms /\ Len(raw.stages[s]) \in sp.blocks_per_stage
              /\ \A i \in 1..Len(raw.stages[s]) :
                    /\ raw.stages[s][i].out = w[s]
                    /\ ~Parametric(raw.stages[s][i].op) => (i = 1 => in(s) = w[s])
                    /\ raw.stages[s][i].residual =>
                          raw.stages[s][i].stride = 1 /\ (i = 1 => in(s) = w[s])
                    /\ BlockOffered(raw.stages[s][i], i = 1, R)
  BY <1>7, <1>11, <1>8 DEF DrawnStage
<1>12. ASSUME NEW s \in 1..n PROVE StageWidth(raw.stages[s]) = w[s]
  <2>1. raw.stages[s] \in StageForms BY <1>11
  <2>2. Len(raw.stages[s]) \in 1..Len(raw.stages[s]) BY <2>1, StageIs
  <2>3. StageWidth(raw.stages[s]) = raw.stages[s][Len(raw.stages[s])].out
    BY <1>7, <1>10, <1>12, WidthsAre
  <2> QED BY <1>11, <2>2, <2>3
<1>13. ASSUME NEW s \in 1..n PROVE Entering(raw, s) = in(s)
  <2>1. CASE s = 1 BY <1>2, <2>1 DEF Entering, Behind
  <2>2. CASE s # 1
    <3>1. s > 1 /\ s - 1 \in 1..n BY <1>3, <2>2
    <3> QED BY <1>12, <2>2, <3>1 DEF Entering, Behind
  <2> QED BY <2>1, <2>2
<1> HIDE DEF in
<1>14. Sound(raw)
  <2> SUFFICES ASSUME NEW s \in 1..n, NEW i \in 1..Len(raw.stages[s])
               PROVE  LET b == raw.stages[s][i]
                          width == WidthBefore(raw, <<s, i>>)
                      IN /\ ~Parametric(b.op) => b.out = width
                         /\ b.residual => b.stride = 1 /\ b.out = width
    BY <1>7 DEF Sound
  <2> DEFINE b == raw.stages[s][i]
             width == WidthBefore(raw, <<s, i>>)
  <2>1. /\ b.out = w[s] /\ (~Parametric(b.op) => (i = 1 => in(s) = w[s]))
        /\ b.residual => b.stride = 1 /\ (i = 1 => in(s) = w[s])
    BY <1>11
  <2>2. width = IF i > 1 THEN w[s] ELSE in(s)
    <3>1. raw.stages[s] \in StageForms BY <1>11
    <3>2. CASE i = 1
      <4>1. WidthBefore(raw, <<s, 1>>) = Entering(raw, s) BY <1>7, <1>10, WidthsAre
      <4> QED BY <1>13, <3>2, <4>1
    <3>3. CASE i # 1
      <4>1. i > 1 /\ i - 1 \in 1..Len(raw.stages[s]) BY <3>1, <3>3, StageIs
      <4>2. width = raw.stages[s][i - 1].out BY <1>7, <1>10, <4>1, WidthsAre
      <4> QED BY <1>11, <4>1, <4>2
    <3> QED BY <3>2, <3>3
  <2>3. i \in Int /\ (i = 1 <=> ~(i > 1))
    <3>1. raw.stages[s] \in StageForms BY <1>11
    <3>2. Len(raw.stages[s]) \in Nat BY <3>1, StageIs
    <3> QED BY <3>2
  <2> HIDE DEF b, width
  <2>4. (~Parametric(b.op) => b.out = width) /\ (b.residual => b.stride = 1 /\ b.out = width)
    BY <2>1, <2>2, <2>3
  <2> QED BY <2>4 DEF b, width
<1>15. Uniform(raw) BY <1>7, <1>11, SMTT(40) DEF Uniform
<1>16. Settled(raw) BY <1>10, <1>14, <1>15 DEF Settled
<1>17. FrameOffered(raw, R) BY <1>2, <1>5, <1>7, <1>11, <1>8 DEF FrameOffered
<1>18. WidthsOffered(raw, R)
  <2> SUFFICES ASSUME NEW s \in 1..n
               PROVE  /\ StageWidth(raw.stages[s]) \in sp.stage_channels
                      /\ sp.monotonic /\ s > 1 =>
                            StageWidth(raw.stages[s - 1]) <= StageWidth(raw.stages[s])
    BY <1>7, <1>8 DEF WidthsOffered
  <2>1. StageWidth(raw.stages[s]) \in sp.stage_channels BY <1>4, <1>12
  <2>2. ASSUME sp.monotonic, s > 1 PROVE StageWidth(raw.stages[s - 1]) <= StageWidth(raw.stages[s])
    <3>1. s - 1 \in 1..n - 1 /\ s - 1 \in 1..n /\ (s - 1) + 1 = s BY <1>3, <2>2
    <3>2. w[s - 1] <= w[s] BY <1>4, <2>2, <3>1
    <3> QED BY <1>12, <3>1, <3>2
  <2> QED BY <2>1, <2>2
<1> QED BY <1>10, <1>16, <1>17, <1>18, MembershipIs DEF Member, R

-----------------------------------------------------------------------------
(***************************************************************************)
(* The walk.                                                               *)
(***************************************************************************)
\* The inductive invariant: the line of descent stays among the members of
\* its space.
WalkInv == space \in Spaces /\ (Bred => Member(current, space))

LEMMA WalkBegins == Init => WalkInv
BY DEF Init, WalkInv, Bred

LEMMA SampleStep ==
    ASSUME WalkInv, Sample
    PROVE  WalkInv'
<1>1. SpaceValid(space) /\ space' = space /\ space \in Spaces
  BY SpacesAssumption DEF WalkInv, Sample
<1>2. PICK raw \in Draws(space) : current' = Repair(raw) /\ Issues(Repair(raw), space) = {}
  BY DEF Sample, Samples
<1>3. Settled(raw) BY <1>1, DrawIs DEF Draws, Member
<1>4. Repair(raw) = raw BY <1>3, RepairKeeps
<1>5. MembershipIssues(raw, space) = {} BY <1>2, <1>4 DEF Issues
<1> QED BY <1>1, <1>2, <1>3, <1>4, <1>5 DEF WalkInv, Member

LEMMA MutateStep ==
    ASSUME WalkInv, NEW name \in Operators, Mutate(name)
    PROVE  /\ WalkInv'
           /\ Strict(space) => Descends(current, current')
<1>1. /\ SpaceValid(space) /\ space' = space /\ space \in Spaces /\ Bred
      /\ Member(current, space)
  BY SpacesAssumption DEF WalkInv, Mutate, Bred
<1>2. PICK raw \in Children(name, current, space) :
          current' = Repair(raw) /\ Issues(Repair(raw), space) = {}
  BY DEF Mutate, Accepted
<1>3. GoodOffspring(name, current, raw, space) BY <1>1, ChildGood
<1>4. MembershipIssues(Repair(raw), space) = {} BY <1>2 DEF Issues
<1>5. Settled(Repair(raw)) BY <1>3, RepairedIs DEF GoodOffspring
<1>6. Member(current', space) BY <1>2, <1>4, <1>5 DEF Member
<1>7. Strict(space) => Descends(current, current') BY <1>2, <1>3, <1>4 DEF GoodOffspring
<1> QED BY <1>1, <1>6, <1>7 DEF WalkInv

LEMMA NextIs ==
    ASSUME Next
    PROVE  Sample \/ \E name \in Operators : Mutate(name)
BY DEF Next, Operators, MutateOperation, MutateKernelSize, MutateExpansionRatio,
       MutateActivation, MutateNormalization, MutateResidual, MutateStride, MutateStageWidth,
       MutateStageDepth, MutateNumStages, MutateStem, MutateHead

LEMMA WalkStep == WalkInv /\ [Next]_vars => WalkInv'
<1> SUFFICES ASSUME WalkInv, [Next]_vars PROVE WalkInv' OBVIOUS
<1>1. CASE UNCHANGED vars BY <1>1 DEF WalkInv, Bred, vars
<1>2. CASE Sample BY <1>2, SampleStep
<1>3. CASE \E name \in Operators : Mutate(name) BY <1>3, MutateStep
<1> QED BY <1>1, <1>2, <1>3, NextIs

\* The architectures of a walk are members of its space: genotypes in normal
\* form that repair leaves alone and membership finds no fault with.
THEOREM WalkTheorem == Spec => []WalkInv
<1>1. Init => WalkInv BY WalkBegins
<1>2. WalkInv /\ [Next]_vars => WalkInv' BY WalkStep
<1> QED BY <1>1, <1>2, PTL DEF Spec

\* Whatever the sampler draws needs no repair and is inside the space but for
\* a choice that rounding turns into another, and one pass of repair is enough
\* after any mutation (sampler.py, repair.py).
THEOREM RepairTheorem == Spec => []RepairSuffices
<1>1. WalkInv => RepairSuffices
  <2> SUFFICES ASSUME WalkInv PROVE RepairSuffices OBVIOUS
  <2>1. SpaceValid(space) BY SpacesAssumption DEF WalkInv
  <2>2. ASSUME NEW raw \in Draws(space)
        PROVE  /\ Repair(raw) = raw /\ InfersShapes(raw)
               /\ MembershipIssues(raw, space) \subseteq LostByRounding(space)
    <3>1. Settled(raw) /\ MembershipIssues(raw, Rounded(space)) = {}
      BY <2>1, <2>2, DrawIs DEF Draws, Member
    <3>2. Repair(raw) = raw /\ raw \in Genotypes BY <3>1, RepairKeeps DEF Settled
    <3>3. InfersShapes(raw) BY <3>1, SettledShapes
    <3>4. MembershipIssues(raw, space) \subseteq LostByRounding(space)
      BY <2>1, <3>1, <3>2, RoundedIssues
    <3> QED BY <3>2, <3>3, <3>4
  <2>3. ASSUME Bred PROVE InNormalForm(current)
    <3>1. current \in Genotypes BY <2>3 DEF WalkInv, Member, Settled
    <3> QED BY <3>1, PositionsAre, GenotypeIs DEF InNormalForm, BlockForms, HeadForms
  <2>4. ASSUME Bred, NEW raw \in RawChildren
        PROVE  InfersShapes(Repair(raw)) /\ Repair(Repair(raw)) = Repair(raw)
    <3>1. PICK name \in Operators : raw \in Children(name, current, space)
      BY <2>4 DEF RawChildren
    <3>2. GoodOffspring(name, current, raw, space) BY <2>1, <2>4, <3>1, ChildGood DEF WalkInv
    <3>3. Settled(Repair(raw)) /\ Repair(Repair(raw)) = Repair(raw)
      BY <3>2, RepairedIs DEF GoodOffspring
    <3> QED BY <3>3, SettledShapes
  <2> QED BY <2>2, <2>3, <2>4 DEF RepairSuffices
<1> QED BY <1>1, WalkTheorem, PTL

\* A child leaves its space by one of six doors only (mutation.py).
THEOREM LeavingTheorem == Spec => []LeavesOnlyByInheritance
<1>1. WalkInv => LeavesOnlyByInheritance
  <2> SUFFICES ASSUME WalkInv, Bred, NEW name \in Operators,
                      NEW raw \in Children(name, current, space)
               PROVE  LET child == Repair(raw)
                      IN /\ raw = current =>
                               \/ name = "stage_width" /\ PlainStages(current) # {}
                               \/ name = "expansion_ratio" /\ Coincide(Ratios(space))
                               \/ name = "head" /\ Coincide(space.head.dropout)
                         /\ MembershipIssues(child, space) # {} =>
                               Leaves(name, current, child, space)
    BY DEF LeavesOnlyByInheritance, Leaves, Door
  <2>1. SpaceValid(space) BY SpacesAssumption DEF WalkInv
  <2>2. GoodOffspring(name, current, raw, space) BY <2>1, ChildGood DEF WalkInv
  <2> QED BY <2>2 DEF GoodOffspring
<1> QED BY <1>1, WalkTheorem, PTL

\* Where no fixed value is offered, no mutation leads back up (mutation.py).
THEOREM DescentTheorem == Spec => OperationsOnlyDescend
<1> DEFINE Down == (Bred /\ Strict(space)) => Descends(current, current')
<1>1. WalkInv /\ [Next]_vars => [Down]_vars
  <2> SUFFICES ASSUME WalkInv, Next PROVE Down \/ UNCHANGED vars OBVIOUS
  <2>1. CASE Sample BY <2>1 DEF Sample, Bred
  <2>2. CASE \E name \in Operators : Mutate(name)
    <3>1. PICK name \in Operators : Mutate(name) BY <2>2
    <3> QED BY <3>1, MutateStep
  <2> QED BY <2>1, <2>2, NextIs
<1>2. [Down]_vars =>
        [(Bred /\ Strict(space)) =>
          /\ SameLayout(current, current') =>
                \A p \in Positions(current) :
                    Rank(BlockAt(current', p).op) <= Rank(BlockAt(current, p).op)
          /\ current.head.hidden = 0 => current'.head.hidden = 0]_vars
  BY DEF Descends
<1> HIDE DEF Down
<1> QED BY <1>1, <1>2, WalkTheorem, PTL DEF Spec, OperationsOnlyDescend

-----------------------------------------------------------------------------
(***************************************************************************)
(* Sums over sequences of records.                                         *)
(***************************************************************************)
\* The running sums of a column, and their last.
Sums(t, R, f) ==
    /\ t \in [0..Len(R) -> Int] /\ t[0] = 0
    /\ \A i \in 1..Len(R) : t[i] = t[i - 1] + R[i][f]
    /\ Total(R, f) = t[Len(R)]

LEMMA TotalIs ==
    ASSUME NEW S, NEW f, \A x \in S : x[f] \in Int, NEW R \in Seq(S)
    PROVE  \E t : Sums(t, R, f)
<1> DEFINE n == Len(R)
           step == [i \in 1..n |-> [x \in Int |-> x + R[i][f]]]
           eq(t) == t = [i \in 0..n |-> IF i = 0 THEN 0 ELSE t[i - 1] + R[i][f]]
<1>1. n \in Nat /\ \A i \in 1..n : R[i][f] \in Int OBVIOUS
<1> HIDE DEF n
<1>2. step \in Steps(Int, n) BY <1>1 DEF Steps
<1>3. \E t : eq(t)
  <2>1. PICK t : Follows(t, Int, n, 0, step)
    <3> HIDE DEF step
    <3>1. \A T : 0 \in T /\ step \in Steps(T, n) => \E t : Follows(t, T, n, 0, step)
      BY <1>1, RecursionExists
    <3> QED BY <1>2, <3>1
  <2>2. ASSUME NEW i \in 0..n
        PROVE  t[i] = IF i = 0 THEN 0 ELSE t[i - 1] + R[i][f]
    <3>1. t[i] = IF i = 0 THEN 0 ELSE step[i][t[i - 1]]
      <4> HIDE DEF step
      <4> QED BY <2>1 DEF Follows
    <3>2. CASE i = 0 BY <3>1, <3>2
    <3>3. CASE i # 0
      <4>1. i \in 1..n /\ i - 1 \in 0..n /\ t[i - 1] \in Int
        <5> HIDE DEF step
        <5> QED BY <1>1, <2>1, <3>3 DEF Follows
      <4>2. step[i][t[i - 1]] = t[i - 1] + R[i][f] BY <4>1
      <4> QED BY <3>1, <3>3, <4>2
    <3> QED BY <3>2, <3>3
  <2>3. t \in [0..n -> Int] BY <2>1 DEF Follows
  <2> QED BY <2>2, <2>3
<1> DEFINE t == CHOOSE t : eq(t)
<1>4. eq(t) BY <1>3
<1>5. Total(R, f) = t[n] BY DEF Total, n
<1> HIDE DEF t
<1>6. t[0] = 0 BY <1>1, <1>4
<1>7. ASSUME NEW i \in 1..n PROVE t[i] = t[i - 1] + R[i][f]
  <2>1. i \in 0..n /\ i # 0 BY <1>1
  <2> QED BY <1>4, <2>1
<1>8. \A i \in 0..n : t[i] \in Int
  <2> DEFINE G == {i \in 0..n : t[i] \in Int}
  <2>1. 0 \in G BY <1>1, <1>6
  <2>2. ASSUME NEW i \in 1..n, i - 1 \in G PROVE i \in G
    <3>1. t[i - 1] \in Int /\ i \in 0..n BY <1>1, <2>2
    <3> QED BY <1>1, <1>7, <3>1
  <2> HIDE DEF G
  <2>3. \A i \in 0..n : i \in G BY <1>1, <2>1, <2>2, UpTheInterval
  <2> QED BY <2>3 DEF G
<1>9. t \in [0..n -> Int] BY <1>4, <1>8
<1>10. Sums(t, R, f) BY <1>5, <1>6, <1>7, <1>9 DEF Sums, n
<1> QED BY <1>10

LEMMA TotalOfNone ==
    ASSUME NEW f
    PROVE  Total(<<>>, f) = 0
<1>1. <<>> \in Seq({}) /\ \A x \in {} : x[f] \in Int OBVIOUS
<1>2. PICK t : Sums(t, <<>>, f) BY <1>1, TotalIs
<1> QED BY <1>2 DEF Sums

LEMMA TotalOfOne ==
    ASSUME NEW x, NEW f, x[f] \in Int
    PROVE  Total(<<x>>, f) = x[f]
<1> DEFINE R == <<x>>
<1>1. R \in Seq({x}) /\ Len(R) = 1 /\ R[1] = x OBVIOUS
<1> HIDE DEF R
<1>2. PICK t : Sums(t, R, f) BY <1>1, TotalIs
<1>3. t[1] = t[0] + R[1][f] /\ t[0] = 0 /\ Total(R, f) = t[1] BY <1>1, <1>2 DEF Sums
<1> QED BY <1>1, <1>3 DEF R

LEMMA TotalOfBoth ==
    ASSUME NEW S, NEW f, \A x \in S : x[f] \in Int, NEW Q \in Seq(S), NEW R \in Seq(S)
    PROVE  /\ Total(Q \o R, f) = Total(Q, f) + Total(R, f)
           /\ Total(Q, f) \in Int /\ Total(R, f) \in Int
<1> DEFINE m == Len(Q)
           n == Len(R)
           QR == Q \o R
<1>1. /\ QR \in Seq(S) /\ Len(QR) = m + n /\ m \in Nat /\ n \in Nat
      /\ \A i \in 1..m + n : QR[i] = IF i <= m THEN Q[i] ELSE R[i - m]
  BY ConcatProperties
<1>2. PICK q : Sums(q, Q, f) BY TotalIs
<1>3. PICK r : Sums(r, R, f) BY TotalIs
<1>4. PICK t : Sums(t, QR, f)
  <2> HIDE DEF QR
  <2> QED BY <1>1, TotalIs
<1>5. /\ q \in [0..m -> Int] /\ q[0] = 0 /\ Total(Q, f) = q[m]
      /\ \A i \in 1..m : q[i] = q[i - 1] + Q[i][f]
  BY <1>2 DEF Sums
<1>6. /\ r \in [0..n -> Int] /\ r[0] = 0 /\ Total(R, f) = r[n]
      /\ \A i \in 1..n : r[i] = r[i - 1] + R[i][f]
  BY <1>3 DEF Sums
<1> HIDE DEF QR, m, n
<1>7. /\ t \in [0..m + n -> Int] /\ t[0] = 0 /\ Total(QR, f) = t[m + n]
      /\ \A i \in 1..m + n : t[i] = t[i - 1] + QR[i][f]
  BY <1>1, <1>4 DEF Sums
<1>8. \A i \in 0..m : t[i] = q[i]
  <2> DEFINE G == {i \in 0..m : t[i] = q[i]}
  <2>1. 0 \in G BY <1>1, <1>5, <1>7
  <2>2. ASSUME NEW i \in 1..m, i - 1 \in G PROVE i \in G
    <3>1. i \in 1..m + n /\ i <= m /\ i \in 0..m BY <1>1
    <3>2. QR[i] = Q[i] BY <1>1, <3>1
    <3> QED BY <1>5, <1>7, <2>2, <3>1, <3>2
  <2> HIDE DEF G
  <2>3. \A i \in 0..m : i \in G BY <1>1, <2>1, <2>2, UpTheInterval
  <2> QED BY <2>3 DEF G
<1>9. \A i \in 0..n : t[m + i] = q[m] + r[i]
  <2> DEFINE G == {i \in 0..n : t[m + i] = q[m] + r[i]}
  <2>1. 0 \in G
    <3>1. m \in 0..m /\ m + 0 = m /\ 0 \in 0..n BY <1>1
    <3>2. t[m + 0] = q[m] /\ q[m] \in Int BY <1>5, <1>8, <3>1
    <3> QED BY <1>6, <3>1, <3>2
  <2>2. ASSUME NEW i \in 1..n, i - 1 \in G PROVE i \in G
    <3>1. m + i \in 1..m + n /\ ~(m + i <= m) /\ (m + i) - m = i /\ (m + i) - 1 = m + (i - 1)
      BY <1>1
    <3>2. QR[m + i] = R[i] BY <1>1, <3>1
    <3>3. t[m + i] = t[m + (i - 1)] + R[i][f] BY <1>7, <3>1, <3>2
    <3>4. t[m + (i - 1)] = q[m] + r[i - 1] BY <2>2
    <3>5. R[i][f] \in Int /\ q[m] \in Int /\ r[i - 1] \in Int /\ i \in 0..n
      <4>1. i - 1 \in 0..n /\ m \in 0..m /\ R[i] \in S BY <1>1 DEF n
      <4> QED BY <1>1, <1>5, <1>6, <4>1
    <3>6. r[i] = r[i - 1] + R[i][f] BY <1>6
    <3>7. t[m + i] = q[m] + r[i] BY <3>3, <3>4, <3>5, <3>6
    <3> QED BY <3>5, <3>7
  <2> HIDE DEF G
  <2>3. \A i \in 0..n : i \in G BY <1>1, <2>1, <2>2, UpTheInterval
  <2> QED BY <2>3 DEF G
<1>10. n \in 0..n /\ m \in 0..m BY <1>1
<1> QED BY <1>5, <1>6, <1>7, <1>9, <1>10 DEF QR

-----------------------------------------------------------------------------
(***************************************************************************)
(* The cost model and the network, piece by piece.                         *)
(***************************************************************************)
UnitRecords == [trainable : Int, buffers : Int, macs : Int]

ModuleRecords ==
    [kind : {"conv", "linear", "batch_norm", "group_norm", "flatten", "dropout"}
              \cup OperationTypes \cup ActivationTypes \cup PoolingTypes,
     in : Int, out : Int, kernel : Int, groups : Positive, bias : BOOLEAN]

FootprintRecords == [trainable : Int, buffers : Int, bytes : Int, counters : Int]

Footprints(modules) == [i \in DOMAIN modules |-> Footprint(modules[i])]

\* The sums of some units are those of some modules, but for the bytes of the
\* batch counters.
Balanced(units, feet) ==
    /\ Total(feet, "trainable") = Total(units, "trainable")
    /\ Total(feet, "buffers") = Total(units, "buffers")
    /\ Total(feet, "bytes") = 4 * (Total(units, "trainable") + Total(units, "buffers"))
                                + 4 * Total(feet, "counters")

Matches(units, modules) ==
    /\ units \in Seq(UnitRecords) /\ modules \in Seq(ModuleRecords)
    /\ Balanced(units, Footprints(modules))

LEMMA WeightsAre ==
    ASSUME NEW m \in ModuleRecords
    PROVE  Weights(m) \in Int /\ Buffers(m) \in Int /\ StoredBytes(m) \in Int
<1>1. /\ m.in \in Int /\ m.out \in Int /\ m.kernel \in Int /\ m.groups \in Nat /\ m.groups # 0
  BY DEF ModuleRecords, Positive
<1>2. m.in \div m.groups \in Int BY <1>1
<1> DEFINE q == m.in \div m.groups
<1>3. m.out * q * m.kernel * m.kernel \in Int
  <2> HIDE DEF q
  <2>1. m.out * q \in Int BY <1>1, <1>2 DEF q
  <2> QED BY <1>1, <2>1
<1>4. Weights(m) \in Int
  <2> DEFINE product == m.out * q * m.kernel * m.kernel
  <2>1. Weights(m) = CASE m.kind \in {"conv", "linear"} ->
                            product + (IF m.bias THEN m.out ELSE 0)
                       [] m.kind \in {"batch_norm", "group_norm"} -> 2 * m.out
                       [] OTHER -> 0
    BY DEF Weights
  <2>2. product \in Int BY <1>3
  <2> HIDE DEF product
  <2>3. CASE m.kind \in {"conv", "linear"} BY <1>1, <2>1, <2>2, <2>3
  <2>4. CASE m.kind \in {"batch_norm", "group_norm"} BY <1>1, <2>1, <2>4
  <2>5. CASE m.kind \notin {"conv", "linear", "batch_norm", "group_norm"} BY <2>1, <2>5
  <2> QED BY <2>3, <2>4, <2>5
<1>5. Buffers(m) \in Int BY <1>1 DEF Buffers
<1>6. StoredBytes(m) \in Int BY <1>1, <1>4 DEF StoredBytes
<1> QED BY <1>4, <1>5, <1>6

LEMMA FootprintsAre ==
    ASSUME NEW modules \in Seq(ModuleRecords)
    PROVE  /\ Footprints(modules) \in Seq(FootprintRecords)
           /\ Len(Footprints(modules)) = Len(modules)
           /\ \A i \in 1..Len(modules) : Footprints(modules)[i] = Footprint(modules[i])
<1>1. \A m \in ModuleRecords : Footprint(m) \in FootprintRecords
  BY WeightsAre DEF Footprint, FootprintRecords
<1>2. Len(modules) \in Nat /\ DOMAIN modules = 1..Len(modules) OBVIOUS
<1>3. \A i \in 1..Len(modules) : Footprint(modules[i]) \in FootprintRecords BY <1>1
<1>4. Footprints(modules) = [i \in 1..Len(modules) |-> Footprint(modules[i])]
  BY <1>2 DEF Footprints
<1> QED BY <1>2, <1>3, <1>4

LEMMA ColumnsAre ==
    /\ \A u \in UnitRecords : u["trainable"] \in Int /\ u["buffers"] \in Int
    /\ \A m \in FootprintRecords : /\ m["trainable"] \in Int /\ m["buffers"] \in Int
                                   /\ m["bytes"] \in Int /\ m["counters"] \in Int
BY DEF UnitRecords, FootprintRecords

LEMMA FootprintsJoin ==
    ASSUME NEW m \in Seq(ModuleRecords), NEW n \in Seq(ModuleRecords)
    PROVE  Footprints(m \o n) = Footprints(m) \o Footprints(n)
<1> DEFINE p == Footprints(m)
           q == Footprints(n)
<1>1. p \in Seq(FootprintRecords) /\ q \in Seq(FootprintRecords) BY FootprintsAre
<1>2. m \o n \in Seq(ModuleRecords) BY ConcatProperties
<1>3. /\ Len(m \o n) = Len(m) + Len(n)
      /\ \A i \in 1..Len(m) + Len(n) : (m \o n)[i] = IF i <= Len(m) THEN m[i] ELSE n[i - Len(m)]
  BY <1>1, ConcatProperties
<1>4. /\ Len(p) = Len(m) /\ Len(q) = Len(n) /\ Len(m) \in Nat /\ Len(n) \in Nat
      /\ \A i \in 1..Len(m) : p[i] = Footprint(m[i])
      /\ \A i \in 1..Len(n) : q[i] = Footprint(n[i])
  BY <1>1, FootprintsAre
<1>5. /\ Footprints(m \o n) \in Seq(FootprintRecords)
      /\ Len(Footprints(m \o n)) = Len(m) + Len(n)
      /\ \A i \in 1..Len(m) + Len(n) : Footprints(m \o n)[i] = Footprint((m \o n)[i])
  BY <1>2, <1>3, FootprintsAre
<1>6. /\ p \o q \in Seq(FootprintRecords) /\ Len(p \o q) = Len(m) + Len(n)
      /\ \A i \in 1..Len(m) + Len(n) : (p \o q)[i] = IF i <= Len(m) THEN p[i] ELSE q[i - Len(m)]
  <2> HIDE DEF p, q
  <2>1. /\ p \o q \in Seq(FootprintRecords) /\ Len(p \o q) = Len(p) + Len(q)
        /\ \A i \in 1..Len(p) + Len(q) :
              (p \o q)[i] = IF i <= Len(p) THEN p[i] ELSE q[i - Len(p)]
    BY <1>1, ConcatProperties
  <2> QED BY <1>4, <2>1
<1> HIDE DEF p, q
<1>7. ASSUME NEW i \in 1..Len(m) + Len(n) PROVE Footprints(m \o n)[i] = (p \o q)[i]
  <2>1. CASE i <= Len(m)
    <3>1. i \in 1..Len(m) BY <1>4, <2>1
    <3> QED BY <1>3, <1>4, <1>5, <1>6, <2>1, <3>1
  <2>2. CASE ~(i <= Len(m))
    <3>1. i - Len(m) \in 1..Len(n) BY <1>4, <2>2
    <3> QED BY <1>3, <1>4, <1>5, <1>6, <2>2, <3>1
  <2> QED BY <2>1, <2>2
<1> DEFINE P == Footprints(m \o n)
           Q == p \o q
<1>8. P \in Seq(FootprintRecords) /\ Q \in Seq(FootprintRecords) /\ Len(P) = Len(Q)
      /\ \A i \in 1..Len(P) : P[i] = Q[i]
  BY <1>5, <1>6, <1>7
<1> HIDE DEF P, Q
<1>9. P = Q BY <1>8, SeqEqual
<1> QED BY <1>9 DEF P, Q, p, q

LEMMA MatchesBoth ==
    ASSUME NEW u, NEW m, NEW v, NEW n, Matches(u, m), Matches(v, n)
    PROVE  Matches(u \o v, m \o n)
<1> DEFINE p == Footprints(m)
           q == Footprints(n)
<1>1. /\ u \in Seq(UnitRecords) /\ v \in Seq(UnitRecords)
      /\ m \in Seq(ModuleRecords) /\ n \in Seq(ModuleRecords)
      /\ p \in Seq(FootprintRecords) /\ q \in Seq(FootprintRecords)
      /\ Balanced(u, p) /\ Balanced(v, q)
  BY FootprintsAre DEF Matches
<1>2. u \o v \in Seq(UnitRecords) /\ m \o n \in Seq(ModuleRecords)
  BY <1>1, ConcatProperties
<1>3. Footprints(m \o n) = p \o q BY <1>1, FootprintsJoin
<1> HIDE DEF p, q
<1>4. /\ Total(u \o v, "trainable") = Total(u, "trainable") + Total(v, "trainable")
      /\ Total(u \o v, "buffers") = Total(u, "buffers") + Total(v, "buffers")
      /\ Total(u, "trainable") \in Int /\ Total(v, "trainable") \in Int
      /\ Total(u, "buffers") \in Int /\ Total(v, "buffers") \in Int
  BY <1>1, ColumnsAre, TotalOfBoth
<1>5. /\ Total(p \o q, "trainable") = Total(p, "trainable") + Total(q, "trainable")
      /\ Total(p \o q, "buffers") = Total(p, "buffers") + Total(q, "buffers")
      /\ Total(p \o q, "bytes") = Total(p, "bytes") + Total(q, "bytes")
      /\ Total(p \o q, "counters") = Total(p, "counters") + Total(q, "counters")
      /\ Total(p, "counters") \in Int /\ Total(q, "counters") \in Int
  BY <1>1, ColumnsAre, TotalOfBoth
<1>6. Balanced(u \o v, p \o q) BY <1>1, <1>4, <1>5, SMTT(40) DEF Balanced
<1> QED BY <1>2, <1>3, <1>6 DEF Matches

\* FlattenSeq appends one sequence after the other.
Joins(t, seqs, S) ==
    /\ t \in [1..Len(seqs) -> Seq(S)]
    /\ t[1] = seqs[1]
    /\ \A i \in 2..Len(seqs) : t[i] = t[i - 1] \o seqs[i]
    /\ FlattenSeq(seqs) = t[Len(seqs)]

LEMMA FlattenIs ==
    ASSUME NEW S, NEW seqs \in Seq(Seq(S)), Len(seqs) >= 1
    PROVE  \E t : Joins(t, seqs, S)
<1> DEFINE n == Len(seqs)
           T == Seq(S)
           step == [i \in 1..n - 1 |-> [x \in T |-> x \o seqs[i + 1]]]
           eq(t) == t = [i \in 1..n |-> IF i = 1 THEN seqs[1] ELSE t[i - 1] \o seqs[i]]
           raw(t) == t = [i \in 1..n |-> IF i = 1 THEN seqs[i] ELSE t[i - 1] \o seqs[i]]
<1>1. n \in Nat /\ n >= 1 /\ n - 1 \in Nat /\ \A i \in 1..n : seqs[i] \in T OBVIOUS
<1>2. \A x, y \in T : x \o y \in T BY ConcatProperties
<1>3. FlattenSeq(seqs) = (CHOOSE t : raw(t))[n] BY <1>1 DEF FlattenSeq
<1>4. \A t : raw(t) <=> eq(t)
  <2> SUFFICES ASSUME NEW t
               PROVE  [i \in 1..n |-> IF i = 1 THEN seqs[i] ELSE t[i - 1] \o seqs[i]]
                        = [i \in 1..n |-> IF i = 1 THEN seqs[1] ELSE t[i - 1] \o seqs[i]]
    OBVIOUS
  <2> QED OBVIOUS
<1> HIDE DEF n, T
<1>5. step \in Steps(T, n - 1)
  <2>1. \A i \in 1..n - 1 : i + 1 \in 1..n BY <1>1
  <2> QED BY <1>1, <1>2, <2>1 DEF Steps
<1>6. \E t : eq(t)
  <2>1. PICK g : Follows(g, T, n - 1, seqs[1], step)
    <3> HIDE DEF step
    <3>1. seqs[1] \in T BY <1>1
    <3> QED BY <1>1, <1>5, <3>1, RecursionExists
  <2> DEFINE t == [i \in 1..n |-> g[i - 1]]
  <2>2. ASSUME NEW i \in 1..n
        PROVE  t[i] = IF i = 1 THEN seqs[1] ELSE t[i - 1] \o seqs[i]
    <3>1. i - 1 \in 0..n - 1 /\ t[i] = g[i - 1] BY <1>1
    <3>2. g[i - 1] = IF i - 1 = 0 THEN seqs[1] ELSE step[i - 1][g[(i - 1) - 1]]
      <4> HIDE DEF step, t
      <4> QED BY <2>1, <3>1 DEF Follows
    <3>3. CASE i = 1 BY <3>1, <3>2, <3>3
    <3>4. CASE i # 1
      <4>1. i - 1 \in 1..n - 1 /\ (i - 1) - 1 \in 0..n - 1 /\ i - 1 # 0 /\ (i - 1) + 1 = i
            /\ i - 1 \in 1..n
        BY <1>1, <3>4
      <4>2. g[(i - 1) - 1] \in T /\ t[i - 1] = g[(i - 1) - 1]
        <5> HIDE DEF step
        <5> QED BY <2>1, <4>1 DEF Follows
      <4>3. step[i - 1][g[(i - 1) - 1]] = g[(i - 1) - 1] \o seqs[(i - 1) + 1] BY <4>1, <4>2
      <4> HIDE DEF step, t
      <4> QED BY <3>1, <3>2, <3>4, <4>1, <4>2, <4>3
    <3> QED BY <3>3, <3>4
  <2>3. t = [i \in 1..n |-> t[i]] OBVIOUS
  <2> HIDE DEF t
  <2>4. eq(t) BY <2>2, <2>3
  <2> HIDE DEF eq
  <2> QED BY <2>4
<1> DEFINE t == CHOOSE t : raw(t)
<1>7. raw(t)
  <2>1. \E x : raw(x) BY <1>4, <1>6
  <2> HIDE DEF raw
  <2> QED BY <2>1
<1>8. eq(t)
  <2> HIDE DEF t, raw, eq
  <2> QED BY <1>4, <1>7
<1>9. FlattenSeq(seqs) = t[n] BY <1>3
<1> HIDE DEF t, raw
<1>10. t[1] = seqs[1] BY <1>1, <1>8
<1>11. ASSUME NEW i \in 2..n PROVE t[i] = t[i - 1] \o seqs[i]
  <2>1. i \in 1..n /\ i # 1 BY <1>1
  <2> QED BY <1>8, <2>1
<1>12. \A i \in 0..n - 1 : t[i + 1] \in T
  <2> DEFINE G == {i \in 0..n - 1 : t[i + 1] \in T}
  <2>1. 0 \in G BY <1>1, <1>10
  <2>2. ASSUME NEW i \in 1..n - 1, i - 1 \in G PROVE i \in G
    <3>1. (i - 1) + 1 = i /\ i + 1 \in 2..n /\ i + 1 \in 1..n /\ (i + 1) - 1 = i /\ i \in 0..n - 1
      BY <1>1
    <3>2. t[i] \in T BY <2>2, <3>1
    <3>3. t[i + 1] = t[i] \o seqs[i + 1] BY <1>11, <3>1
    <3> QED BY <1>1, <1>2, <3>1, <3>2, <3>3
  <2> HIDE DEF G
  <2>3. \A i \in 0..n - 1 : i \in G BY <1>1, <2>1, <2>2, UpTheInterval
  <2> QED BY <2>3 DEF G
<1>13. \A i \in 1..n : t[i] \in T
  <2> SUFFICES ASSUME NEW i \in 1..n PROVE t[i] \in T OBVIOUS
  <2>1. i - 1 \in 0..n - 1 /\ (i - 1) + 1 = i BY <1>1
  <2> QED BY <1>12, <2>1
<1>14. t \in [1..n -> T] BY <1>8, <1>13
<1>15. Joins(t, seqs, S) BY <1>9, <1>10, <1>11, <1>14 DEF Joins, n, T
<1> QED BY <1>15

LEMMA MatchesFlatten ==
    ASSUME NEW U, NEW M, Len(U) = Len(M), Len(U) >= 1,
           U \in Seq(Seq(UnitRecords)), M \in Seq(Seq(ModuleRecords)),
           \A i \in 1..Len(U) : Matches(U[i], M[i])
    PROVE  Matches(FlattenSeq(U), FlattenSeq(M))
<1> DEFINE n == Len(U)
<1>1. PICK u : Joins(u, U, UnitRecords) BY FlattenIs
<1>2. PICK m : Joins(m, M, ModuleRecords) BY FlattenIs
<1>3. n \in Nat /\ n >= 1 OBVIOUS
<1>4. /\ u[1] = U[1] /\ m[1] = M[1]
      /\ \A i \in 2..n : u[i] = u[i - 1] \o U[i] /\ m[i] = m[i - 1] \o M[i]
      /\ FlattenSeq(U) = u[n] /\ FlattenSeq(M) = m[n]
  BY <1>1, <1>2 DEF Joins
<1>5. \A i \in 1..n : Matches(U[i], M[i]) OBVIOUS
<1> HIDE DEF n
<1> DEFINE G == {i \in 0..n - 1 : Matches(u[i + 1], m[i + 1])}
<1>6. 0 \in G BY <1>3, <1>4, <1>5
<1>7. ASSUME NEW i \in 1..n - 1, i - 1 \in G PROVE i \in G
  <2>1. (i - 1) + 1 = i /\ i + 1 \in 2..n /\ i + 1 \in 1..n /\ (i + 1) - 1 = i /\ i \in 0..n - 1
    BY <1>3
  <2>2. Matches(u[i], m[i]) /\ Matches(U[i + 1], M[i + 1]) BY <1>5, <1>7, <2>1
  <2>3. u[i + 1] = u[i] \o U[i + 1] /\ m[i + 1] = m[i] \o M[i + 1] BY <1>4, <2>1
  <2>4. Matches(u[i] \o U[i + 1], m[i] \o M[i + 1]) BY <2>2, MatchesBoth
  <2> QED BY <2>1, <2>3, <2>4
<1>8. \A i \in 0..n - 1 : i \in G
  <2> HIDE DEF G
  <2>1. n - 1 \in Nat BY <1>3
  <2> QED BY <1>6, <1>7, <2>1, UpTheInterval
<1>9. n - 1 \in 0..n - 1 /\ (n - 1) + 1 = n BY <1>3
<1>10. Matches(u[n], m[n]) BY <1>8, <1>9
<1> QED BY <1>4, <1>10

LEMMA PairJoins ==
    ASSUME NEW x, NEW y
    PROVE  <<x, y>> = <<x>> \o <<y>>
<1> DEFINE S == {x, y}
           P == <<x, y>>
           Q == <<x>>
           R == <<y>>
<1>1. /\ P \in Seq(S) /\ Q \in Seq(S) /\ R \in Seq(S)
      /\ Len(P) = 2 /\ Len(Q) = 1 /\ Len(R) = 1
      /\ P[1] = x /\ P[2] = y /\ Q[1] = x /\ R[1] = y
  OBVIOUS
<1> HIDE DEF P, Q, R, S
<1>2. /\ Q \o R \in Seq(S) /\ Len(Q \o R) = Len(Q) + Len(R)
      /\ \A i \in 1..Len(Q) + Len(R) : (Q \o R)[i] = IF i <= Len(Q) THEN Q[i] ELSE R[i - Len(Q)]
  BY <1>1, ConcatProperties
<1>3. (Q \o R)[1] = x /\ (Q \o R)[2] = y BY <1>1, <1>2
<1>4. Len(P) = Len(Q \o R) /\ \A i \in 1..Len(P) : P[i] = (Q \o R)[i]
  <2>1. \A i \in 1..2 : i = 1 \/ i = 2 OBVIOUS
  <2> QED BY <1>1, <1>2, <1>3, <2>1
<1> DEFINE T == Q \o R
<1>5. P = T
  <2>1. T \in Seq(S) /\ Len(P) = Len(T) /\ \A i \in 1..Len(P) : P[i] = T[i] BY <1>2, <1>4
  <2> HIDE DEF T
  <2> QED BY <1>1, <2>1, SeqEqual
<1> QED BY <1>5 DEF P, Q, R

LEMMA TripleJoins ==
    ASSUME NEW x, NEW y, NEW z
    PROVE  <<x, y, z>> = <<x, y>> \o <<z>>
<1> DEFINE S == {x, y, z}
           P == <<x, y, z>>
           Q == <<x, y>>
           R == <<z>>
<1>1. /\ P \in Seq(S) /\ Q \in Seq(S) /\ R \in Seq(S)
      /\ Len(P) = 3 /\ Len(Q) = 2 /\ Len(R) = 1
      /\ P[1] = x /\ P[2] = y /\ P[3] = z /\ Q[1] = x /\ Q[2] = y /\ R[1] = z
  OBVIOUS
<1> HIDE DEF P, Q, R, S
<1>2. /\ Q \o R \in Seq(S) /\ Len(Q \o R) = Len(Q) + Len(R)
      /\ \A i \in 1..Len(Q) + Len(R) : (Q \o R)[i] = IF i <= Len(Q) THEN Q[i] ELSE R[i - Len(Q)]
  BY <1>1, ConcatProperties
<1>3. (Q \o R)[1] = x /\ (Q \o R)[2] = y /\ (Q \o R)[3] = z BY <1>1, <1>2
<1>4. Len(P) = Len(Q \o R) /\ \A i \in 1..Len(P) : P[i] = (Q \o R)[i]
  <2>1. \A i \in 1..3 : i = 1 \/ i = 2 \/ i = 3 OBVIOUS
  <2> QED BY <1>1, <1>2, <1>3, <2>1
<1> DEFINE T == Q \o R
<1>5. P = T
  <2>1. T \in Seq(S) /\ Len(P) = Len(T) /\ \A i \in 1..Len(P) : P[i] = T[i] BY <1>2, <1>4
  <2> HIDE DEF T
  <2> QED BY <1>1, <2>1, SeqEqual
<1> QED BY <1>5 DEF P, Q, R

LEMMA FeetOfOne ==
    ASSUME NEW m \in ModuleRecords
    PROVE  /\ <<m>> \in Seq(ModuleRecords)
           /\ Total(Footprints(<<m>>), "trainable") = Weights(m)
           /\ Total(Footprints(<<m>>), "buffers") = Buffers(m)
           /\ Total(Footprints(<<m>>), "bytes") = StoredBytes(m)
           /\ Total(Footprints(<<m>>), "counters") = IF m.kind = "batch_norm" THEN 1 ELSE 0
<1> DEFINE x == Footprint(m)
           R == <<m>>
           P == Footprints(R)
           Q == <<x>>
<1>1. R \in Seq(ModuleRecords) /\ Len(R) = 1 /\ R[1] = m OBVIOUS
<1>2. P \in Seq(FootprintRecords) /\ Len(P) = 1 /\ P[1] = x
  <2> HIDE DEF R, x
  <2>1. 1 \in 1..Len(R) BY <1>1
  <2> QED BY <1>1, <2>1, FootprintsAre DEF x
<1>3. P = Q
  <2>1. x \in FootprintRecords
    <3> HIDE DEF P, x, R
    <3>1. 1 \in 1..Len(P) BY <1>2
    <3> QED BY <1>2, <3>1, ElementOfSeq
  <2>2. Q \in Seq(FootprintRecords) /\ Len(Q) = 1 /\ Q[1] = x
    <3> HIDE DEF x
    <3> QED BY <2>1
  <2>3. Len(P) = Len(Q) /\ \A i \in 1..Len(P) : P[i] = Q[i]
    <3> HIDE DEF P, Q
    <3> QED BY <1>2, <2>2
  <2> HIDE DEF P, Q
  <2> QED BY <1>2, <2>2, <2>3, SeqEqual
<1>4. /\ x["trainable"] = Weights(m) /\ x["buffers"] = Buffers(m)
      /\ x["bytes"] = StoredBytes(m)
      /\ x["counters"] = IF m.kind = "batch_norm" THEN 1 ELSE 0
  BY DEF Footprint
<1>5. Weights(m) \in Int /\ Buffers(m) \in Int /\ StoredBytes(m) \in Int BY WeightsAre
<1>6. /\ x["trainable"] \in Int /\ x["buffers"] \in Int /\ x["bytes"] \in Int
      /\ x["counters"] \in Int
  BY <1>4, <1>5
<1> HIDE DEF x
<1>7. /\ Total(Q, "trainable") = x["trainable"] /\ Total(Q, "buffers") = x["buffers"]
      /\ Total(Q, "bytes") = x["bytes"] /\ Total(Q, "counters") = x["counters"]
  BY <1>6, TotalOfOne
<1> HIDE DEF P, Q
<1>8. /\ Total(P, "trainable") = Weights(m) /\ Total(P, "buffers") = Buffers(m)
      /\ Total(P, "bytes") = StoredBytes(m)
      /\ Total(P, "counters") = IF m.kind = "batch_norm" THEN 1 ELSE 0
  BY <1>3, <1>4, <1>7
<1> QED BY <1>1, <1>8 DEF P

\* An activation, a pool, a dropout or a flattening has no parameter.
Silent(m) == m \in ModuleRecords /\ m.kind \notin {"conv", "linear", "batch_norm", "group_norm"}

LEMMA SilentMatches ==
    ASSUME NEW m, Silent(m)
    PROVE  Matches(<<>>, <<m>>)
<1>1. m \in ModuleRecords BY DEF Silent
<1>2. Weights(m) = 0 /\ Buffers(m) = 0 /\ StoredBytes(m) = 0 /\ m.kind # "batch_norm"
  <2>1. m.kind \notin {"conv", "linear", "batch_norm", "group_norm"} BY DEF Silent
  <2>2. Weights(m) = 0 BY <2>1 DEF Weights
  <2> QED BY <2>1, <2>2 DEF Buffers, StoredBytes
<1> DEFINE P == Footprints(<<m>>)
<1>3. /\ <<m>> \in Seq(ModuleRecords)
      /\ Total(P, "trainable") = 0 /\ Total(P, "buffers") = 0
      /\ Total(P, "bytes") = 0 /\ Total(P, "counters") = 0
  BY <1>1, <1>2, FeetOfOne
<1>4. Total(<<>>, "trainable") = 0 /\ Total(<<>>, "buffers") = 0 BY TotalOfNone
<1>5. <<>> \in Seq(UnitRecords) OBVIOUS
<1> HIDE DEF P
<1>6. Balanced(<<>>, P) BY <1>3, <1>4 DEF Balanced
<1> QED BY <1>3, <1>5, <1>6 DEF Matches, P

LEMMA PlainIsSilent ==
    ASSUME NEW kind \in {"flatten", "dropout", "identity", "max_pool", "avg_pool"}
                          \cup ActivationTypes \cup PoolingTypes
    PROVE  Silent(Plain(kind))
<1>1. 1 \in Positive BY DEF Positive
<1>2. kind \in {"conv", "linear", "batch_norm", "group_norm", "flatten", "dropout"}
               \cup OperationTypes \cup ActivationTypes \cup PoolingTypes
  BY DEF OperationTypes
<1>3. kind \notin {"conv", "linear", "batch_norm", "group_norm"}
  BY DEF ActivationTypes, PoolingTypes
<1>4. Plain(kind).kind = kind BY DEF Plain, Module
<1>5. Plain(kind) \in ModuleRecords BY <1>1, <1>2 DEF Plain, Module, ModuleRecords
<1> QED BY <1>3, <1>4, <1>5 DEF Silent

LEMMA GroupCountIs ==
    ASSUME NEW c \in Int
    PROVE  GroupCount(c) \in Positive
<1> DEFINE S == {k \in 0..7 : c % (8 - k) = 0}
           Best(g) == c % g = 0 /\ \A h \in 1..8 : c % h = 0 => h <= g
<1>1. S \in SUBSET Nat /\ 7 \in S
  <2>1. 8 - 7 = 1 /\ c % 1 = 0 OBVIOUS
  <2>2. c % (8 - 7) = 0 BY <2>1, Zenon
  <2>3. 7 \in 0..7 /\ 0..7 \in SUBSET Nat OBVIOUS
  <2> QED BY <2>2, <2>3
<1>2. PICK k \in S : \A j \in S : k <= j
  <2> HIDE DEF S
  <2> QED BY <1>1, LeastExists
<1>3. 8 - k \in 1..8 /\ c % (8 - k) = 0 BY <1>2
<1>4. ASSUME NEW h \in 1..8, c % h = 0 PROVE h <= 8 - k
  <2>1. 8 - h \in 0..7 /\ 8 - (8 - h) = h OBVIOUS
  <2>2. 8 - h \in S BY <1>4, <2>1
  <2> QED BY <1>2, <2>2
<1>5. \E g \in 1..8 : Best(g) BY <1>3, <1>4
<1>6. GroupCount(c) \in 1..8
  <2>1. GroupCount(c) = CHOOSE g \in 1..8 : Best(g) BY DEF GroupCount
  <2> HIDE DEF Best
  <2> QED BY <1>5, <2>1
<1> QED BY <1>6 DEF Positive

\* A convolution with its normalisation costs what the two modules hold.
LEMMA UnitMatches ==
    ASSUME NEW in \in Int, NEW out \in Int, NEW k \in Int, NEW g \in Positive,
           NEW norm \in NormalizationTypes, NEW size \in Int
    PROVE  Matches(<<UnitCost(in, out, k, g, norm, size)>>,
                   <<Module("conv", in, out, k, g, norm = "none"), Normalization(norm, out)>>)
<1> DEFINE u == UnitCost(in, out, k, g, norm, size)
           m == Module("conv", in, out, k, g, norm = "none")
           n == Normalization(norm, out)
           w == ConvParameters(in, out, k, g, norm = "none")
<1>1. m \in ModuleRecords BY DEF Module, ModuleRecords
<1>2. /\ n \in ModuleRecords
      /\ n.kind = IF norm = "batch" THEN "batch_norm"
                  ELSE IF norm = "group" THEN "group_norm" ELSE "identity"
      /\ norm # "none" => n.out = out
  <2>1. 1 \in Positive /\ GroupCount(out) \in Positive BY GroupCountIs DEF Positive
  <2>2. CASE norm = "batch"
    <3>1. n = Module("batch_norm", out, out, 1, 1, TRUE) BY <2>2 DEF Normalization
    <3> HIDE DEF n
    <3> QED BY <2>1, <2>2, <3>1 DEF Module, ModuleRecords
  <2>3. CASE norm = "group"
    <3>1. n = Module("group_norm", out, out, 1, GroupCount(out), TRUE)
      BY <2>3 DEF Normalization
    <3> HIDE DEF n
    <3> QED BY <2>1, <2>3, <3>1 DEF Module, ModuleRecords
  <2>4. CASE norm = "none"
    <3>1. n = Module("identity", 1, 1, 1, 1, FALSE) BY <2>4 DEF Normalization, Plain
    <3> HIDE DEF n
    <3> QED BY <2>1, <2>4, <3>1 DEF Module, ModuleRecords, OperationTypes
  <2> QED BY <2>2, <2>3, <2>4 DEF NormalizationTypes
<1>3. Weights(m) = w /\ Buffers(m) = 0 /\ StoredBytes(m) = 4 * w /\ m.kind = "conv"
  <2>1. m.kind = "conv" /\ m.in = in /\ m.out = out /\ m.kernel = k /\ m.groups = g
        /\ m.bias = (norm = "none")
    BY DEF Module
  <2>2. Weights(m) = m.out * (m.in \div m.groups) * m.kernel * m.kernel
                       + (IF m.bias THEN m.out ELSE 0)
    BY <2>1 DEF Weights
  <2>3. Weights(m) = w
    <3> HIDE DEF m
    <3> QED BY <2>1, <2>2 DEF ConvParameters
  <2>4. Weights(m) \in Int BY <1>1, WeightsAre
  <2> HIDE DEF m, w
  <2> QED BY <2>1, <2>3, <2>4 DEF Buffers, StoredBytes
<1>4. /\ Weights(n) = NormTrainable(norm, out) /\ Buffers(n) = NormBuffers(norm, out)
      /\ StoredBytes(n) = 4 * (NormTrainable(norm, out) + NormBuffers(norm, out))
                            + 4 * (IF n.kind = "batch_norm" THEN 1 ELSE 0)
      /\ NormTrainable(norm, out) \in Int /\ NormBuffers(norm, out) \in Int
  <2> HIDE DEF n
  <2>1. CASE norm = "batch"
    <3>1. n.kind = "batch_norm" /\ n.out = out BY <1>2, <2>1
    <3>2. Weights(n) = 2 * out BY <3>1 DEF Weights
    <3> QED BY <2>1, <3>1, <3>2 DEF Buffers, StoredBytes, NormTrainable, NormBuffers
  <2>2. CASE norm = "group"
    <3>1. n.kind = "group_norm" /\ n.out = out BY <1>2, <2>2
    <3>2. Weights(n) = 2 * out BY <3>1 DEF Weights
    <3> QED BY <2>2, <3>1, <3>2 DEF Buffers, StoredBytes, NormTrainable, NormBuffers
  <2>3. CASE norm = "none"
    <3>1. n.kind = "identity" BY <1>2, <2>3
    <3>2. Weights(n) = 0 BY <3>1 DEF Weights
    <3> QED BY <2>3, <3>1, <3>2 DEF Buffers, StoredBytes, NormTrainable, NormBuffers
  <2> QED BY <2>1, <2>2, <2>3 DEF NormalizationTypes
<1>5. w \in Int
  <2>1. Weights(m) \in Int BY <1>1, WeightsAre
  <2> HIDE DEF m, w
  <2> QED BY <1>3, <2>1
<1>6. u \in UnitRecords /\ u["trainable"] = w + NormTrainable(norm, out)
      /\ u["buffers"] = NormBuffers(norm, out)
  <2>1. in \div g \in Int BY DEF Positive
  <2> DEFINE q == in \div g
  <2>2. u = [trainable |-> w + NormTrainable(norm, out), buffers |-> NormBuffers(norm, out),
             macs |-> q * k * k * out * size * size]
    BY DEF UnitCost
  <2>3. q * k * k * out * size * size \in Int
    <3>1. q * k \in Int BY <2>1
    <3>2. q * k * k \in Int BY <3>1
    <3>3. q * k * k * out \in Int BY <3>2
    <3>4. q * k * k * out * size \in Int BY <3>3
    <3> QED BY <3>4
  <2> DEFINE product == q * k * k * out * size * size
  <2> HIDE DEF u, w, product
  <2>4. u = [trainable |-> w + NormTrainable(norm, out), buffers |-> NormBuffers(norm, out),
             macs |-> product]
    BY <2>2 DEF product
  <2>5. product \in Int BY <2>3 DEF product
  <2> QED BY <1>4, <1>5, <2>4, <2>5 DEF UnitRecords
<1> HIDE DEF m, n, u, w
<1> DEFINE P == Footprints(<<m>> \o <<n>>)
<1>7. /\ Total(<<u>>, "trainable") = w + NormTrainable(norm, out)
      /\ Total(<<u>>, "buffers") = NormBuffers(norm, out)
      /\ <<u>> \in Seq(UnitRecords)
  <2>1. u["trainable"] \in Int /\ u["buffers"] \in Int BY <1>4, <1>5, <1>6
  <2>2. Total(<<u>>, "trainable") = u["trainable"] /\ Total(<<u>>, "buffers") = u["buffers"]
    BY <2>1, TotalOfOne
  <2> QED BY <1>6, <2>2
<1>8. <<m, n>> = <<m>> \o <<n>> BY PairJoins
<1>9. /\ <<m, n>> \in Seq(ModuleRecords)
      /\ Total(P, "trainable") = Weights(m) + Weights(n)
      /\ Total(P, "buffers") = Buffers(m) + Buffers(n)
      /\ Total(P, "bytes") = StoredBytes(m) + StoredBytes(n)
      /\ Total(P, "counters") = IF n.kind = "batch_norm" THEN 1 ELSE 0
  <2> DEFINE p == Footprints(<<m>>)
             q == Footprints(<<n>>)
  <2>1. /\ <<m>> \in Seq(ModuleRecords) /\ <<n>> \in Seq(ModuleRecords)
        /\ Total(p, "trainable") = Weights(m) /\ Total(q, "trainable") = Weights(n)
        /\ Total(p, "buffers") = Buffers(m) /\ Total(q, "buffers") = Buffers(n)
        /\ Total(p, "bytes") = StoredBytes(m) /\ Total(q, "bytes") = StoredBytes(n)
        /\ Total(p, "counters") = 0
        /\ Total(q, "counters") = IF n.kind = "batch_norm" THEN 1 ELSE 0
    BY <1>1, <1>2, <1>3, FeetOfOne
  <2>2. p \in Seq(FootprintRecords) /\ q \in Seq(FootprintRecords) BY <2>1, FootprintsAre
  <2>3. P = p \o q BY <2>1, FootprintsJoin
  <2>4. <<m, n>> \in Seq(ModuleRecords) BY <1>1, <1>2
  <2> HIDE DEF p, q, P
  <2>5. /\ Total(p \o q, "trainable") = Total(p, "trainable") + Total(q, "trainable")
        /\ Total(p \o q, "buffers") = Total(p, "buffers") + Total(q, "buffers")
        /\ Total(p \o q, "bytes") = Total(p, "bytes") + Total(q, "bytes")
        /\ Total(p \o q, "counters") = Total(p, "counters") + Total(q, "counters")
    BY <2>2, ColumnsAre, TotalOfBoth
  <2>6. Total(P, "counters") = IF n.kind = "batch_norm" THEN 1 ELSE 0
    BY <2>1, <2>3, <2>5
  <2> QED BY <2>1, <2>3, <2>4, <2>5, <2>6
<1> HIDE DEF P
<1>10. Balanced(<<u>>, P)
  <2> DEFINE c == IF n.kind = "batch_norm" THEN 1 ELSE 0
             x == NormTrainable(norm, out)
             y == NormBuffers(norm, out)
  <2>1. /\ Total(P, "trainable") = w + x /\ Total(P, "buffers") = 0 + y
        /\ Total(P, "bytes") = 4 * w + (4 * (x + y) + 4 * c)
        /\ Total(P, "counters") = c
        /\ w \in Int /\ x \in Int /\ y \in Int /\ c \in Int
    BY <1>3, <1>4, <1>5, <1>9
  <2>2. Total(<<u>>, "trainable") = w + x /\ Total(<<u>>, "buffers") = y BY <1>7
  <2> HIDE DEF c, x, y
  <2> QED BY <2>1, <2>2 DEF Balanced
<1>11. Matches(<<u>>, <<m, n>>)
  <2>1. Footprints(<<m, n>>) = P BY <1>8 DEF P
  <2> QED BY <1>7, <1>9, <1>10, <2>1 DEF Matches
<1> QED BY <1>11 DEF u, m, n

LEMMA SilentAround ==
    ASSUME NEW u, NEW m, Matches(u, m), NEW x, Silent(x)
    PROVE  Matches(u, m \o <<x>>) /\ Matches(u, <<x>> \o m)
<1>1. Matches(<<>>, <<x>>) BY SilentMatches
<1>2. Matches(u \o <<>>, m \o <<x>>) /\ Matches(<<>> \o u, <<x>> \o m)
  BY <1>1, MatchesBoth
<1>3. u \in Seq(UnitRecords) BY DEF Matches
<1>4. u \o <<>> = u /\ <<>> \o u = u BY <1>3, ConcatEmptySeq
<1> QED BY <1>2, <1>4

LEMMA ConvBnActMatches ==
    ASSUME NEW in \in Int, NEW out \in Int, NEW k \in Int, NEW g \in Positive,
           NEW norm \in NormalizationTypes, NEW size \in Int, NEW act \in ActivationTypes
    PROVE  Matches(<<UnitCost(in, out, k, g, norm, size)>>, ConvBnAct(in, out, k, g, norm, act))
<1> DEFINE u == <<UnitCost(in, out, k, g, norm, size)>>
           x == Module("conv", in, out, k, g, norm = "none")
           y == Normalization(norm, out)
           z == Plain(act)
<1>1. Matches(u, <<x, y>>) BY UnitMatches
<1>2. Silent(z) BY PlainIsSilent
<1>3. ConvBnAct(in, out, k, g, norm, act) = <<x, y, z>> BY DEF ConvBnAct
<1> HIDE DEF u, x, y, z
<1>4. <<x, y, z>> = <<x, y>> \o <<z>> BY TripleJoins
<1>5. Matches(u, <<x, y>> \o <<z>>) BY <1>1, <1>2, SilentAround
<1>6. Matches(u, ConvBnAct(in, out, k, g, norm, act)) BY <1>3, <1>4, <1>5
<1> QED BY <1>6 DEF u

LEMMA LinearMatches ==
    ASSUME NEW in \in Int, NEW out \in Int
    PROVE  Matches(<<LinearCost(in, out)>>, <<Module("linear", in, out, 1, 1, TRUE)>>)
<1> DEFINE u == LinearCost(in, out)
           m == Module("linear", in, out, 1, 1, TRUE)
<1>1. m \in ModuleRecords
  <2>1. 1 \in Positive BY DEF Positive
  <2> QED BY <2>1 DEF Module, ModuleRecords
<1>2. m.kind = "linear" /\ m.in = in /\ m.out = out /\ m.kernel = 1 /\ m.groups = 1 /\ m.bias = TRUE
  BY DEF Module
<1>3. /\ u["trainable"] = in * out + out /\ u["buffers"] = 0 /\ u \in UnitRecords
      /\ in * out \in Int /\ out * in = in * out
  <2>1. in * out \in Int /\ in * out + out \in Int /\ out * in = in * out OBVIOUS
  <2> QED BY <2>1 DEF LinearCost, UnitRecords
<1> HIDE DEF u, m
<1>4. Weights(m) = in * out + out
  <2>1. in \div 1 = in /\ out * in * 1 * 1 = out * in BY <1>3
  <2>2. Weights(m) = m.out * (m.in \div m.groups) * m.kernel * m.kernel
                       + (IF m.bias THEN m.out ELSE 0)
    BY <1>2 DEF Weights
  <2>3. Weights(m) = out * in * 1 * 1 + out BY <1>2, <2>1, <2>2
  <2> QED BY <1>3, <2>1, <2>3
<1>5. Buffers(m) = 0 /\ StoredBytes(m) = 4 * Weights(m) + 0 BY <1>2 DEF Buffers, StoredBytes
<1> DEFINE w == in * out + out
           P == Footprints(<<m>>)
<1>6. w \in Int BY <1>3
<1>7. /\ <<m>> \in Seq(ModuleRecords)
      /\ Total(P, "trainable") = w /\ Total(P, "buffers") = 0
      /\ Total(P, "bytes") = 4 * w + 0 /\ Total(P, "counters") = 0
  <2> HIDE DEF w
  <2>1. Weights(m) = w BY <1>4 DEF w
  <2> QED BY <1>1, <1>2, <1>5, <2>1, FeetOfOne
<1>8. Total(<<u>>, "trainable") = w /\ Total(<<u>>, "buffers") = 0 /\ <<u>> \in Seq(UnitRecords)
  <2>1. u["trainable"] = w /\ u["buffers"] = 0 BY <1>3
  <2> HIDE DEF w
  <2> QED BY <1>3, <1>6, <2>1, TotalOfOne
<1> HIDE DEF w, P
<1>9. Balanced(<<u>>, P) BY <1>6, <1>7, <1>8 DEF Balanced
<1>10. Matches(<<u>>, <<m>>) BY <1>7, <1>8, <1>9 DEF Matches, P
<1> QED BY <1>10 DEF u, m

LEMMA HiddenIs ==
    ASSUME NEW b, b.expansion \in Positive, NEW in \in Positive
    PROVE  Hidden(b, in) \in Positive
<1>1. CASE b.expansion = Unit BY <1>1 DEF Hidden
<1>2. CASE b.expansion # Unit
  <2> DEFINE q == in * b.expansion
             near == (((q + 4 * Unit) \div Unit) \div 8) * 8
             rounded == IF near < 8 THEN 8 ELSE near
             bumped == 10 * Unit * rounded < 9 * q
  <2>1. q \in Nat BY DEF Positive
  <2>2. Hidden(b, in) = IF bumped THEN rounded + 8 ELSE rounded
    BY <1>2 DEF Hidden, MakeDivisible
  <2> HIDE DEF q, bumped
  <2>3. (q + 4 * Unit) \div Unit \in Nat BY <2>1, RoundedIs
  <2>4. ((q + 4 * Unit) \div Unit) \div 8 \in Nat BY <2>3
  <2>5. near \in Nat BY <2>4
  <2> HIDE DEF near
  <2>6. rounded \in Nat /\ rounded >= 8 BY <2>5
  <2> HIDE DEF rounded
  <2> QED BY <2>2, <2>6 DEF Positive
<1> QED BY <1>1, <1>2

LEMMA BlockMatches ==
    ASSUME NEW b \in BlockForms, NEW in \in ShapeForms, NEW out \in ShapeForms,
           out.channels = b.out
    PROVE  Matches(BlockCost(b, in, out), Operation(b, in.channels))
<1> DEFINE c == in.channels
           h == Hidden(b, c)
           first == <<UnitCost(c, h, 1, 1, b.norm, in.size)>>
           second == UnitCost(h, h, b.kernel, h, b.norm, out.size)
           third == UnitCost(h, b.out, 1, 1, b.norm, out.size)
<1>1. b.expansion \in Positive
  <2>1. b.expansion \in Expansions BY DEF BlockForms, RawBlocks
  <2>2. \A e \in Expansions : e \in Positive BY RoundedIs DEF Positive
  <2> QED BY <2>1, <2>2
<1>2. /\ b.op \in OperationTypes /\ b.kernel \in Int /\ b.out \in Int
      /\ b.norm \in NormalizationTypes /\ b.act \in ActivationTypes
      /\ c \in Positive /\ in.size \in Int /\ out.size \in Int
  BY DEF BlockForms, RawBlocks, ShapeForms, Positive, OddKernels
<1>3. h \in Positive BY <1>1, <1>2, HiddenIs
<1>4. c \in Int /\ h \in Int /\ 1 \in Int /\ 1 \in Positive BY <1>2, <1>3 DEF Positive
<1> HIDE DEF c, h
<1>5. CASE b.op = "conv"
  <2>1. BlockCost(b, in, out) = <<UnitCost(c, b.out, b.kernel, 1, b.norm, out.size)>>
    BY <1>5 DEF BlockCost, c
  <2>2. Operation(b, c) = ConvBnAct(c, b.out, b.kernel, 1, b.norm, b.act) BY <1>5 DEF Operation
  <2>3. Matches(BlockCost(b, in, out), Operation(b, c))
    BY <1>2, <1>4, <2>1, <2>2, ConvBnActMatches
  <2> QED BY <2>3 DEF c
<1>6. CASE b.op = "dw_sep_conv"
  <2> DEFINE m1 == ConvBnAct(c, h, 1, 1, b.norm, b.act)
             m2 == ConvBnAct(h, h, b.kernel, h, b.norm, b.act)
             m3 == <<Module("conv", h, b.out, 1, 1, b.norm = "none"), Normalization(b.norm, b.out)>>
             e == IF h = c THEN <<>> ELSE first
             f == IF h # c THEN m1 ELSE <<>>
  <2>1. BlockCost(b, in, out) = e \o <<second, third>> BY <1>6 DEF BlockCost, c, h
  <2>2. Operation(b, c) = f \o m2 \o m3 BY <1>6 DEF Operation, SeparableConv, h
  <2>3. Matches(first, m1) BY <1>2, <1>4, ConvBnActMatches
  <2>4. Matches(<<second>>, m2) BY <1>2, <1>3, <1>4, ConvBnActMatches
  <2>5. Matches(<<third>>, m3) BY <1>2, <1>4, UnitMatches
  <2> HIDE DEF m1, m2, m3, first, second, third
  <2>6. Matches(<<second, third>>, m2 \o m3)
    <3>1. Matches(<<second>> \o <<third>>, m2 \o m3) BY <2>4, <2>5, MatchesBoth
    <3> QED BY <3>1, PairJoins
  <2>7. m2 \in Seq(ModuleRecords) /\ m3 \in Seq(ModuleRecords) /\ m2 \o m3 \in Seq(ModuleRecords)
    BY <2>4, <2>5, <2>6 DEF Matches
  <2>8. CASE h = c
    <3>1. BlockCost(b, in, out) = <<second, third>>
      <4>1. BlockCost(b, in, out) = <<>> \o <<second, third>> BY <2>1, <2>8
      <4>2. <<second, third>> \in Seq(UnitRecords) BY <2>6 DEF Matches
      <4> QED BY <4>1, <4>2, ConcatEmptySeq
    <3>2. Operation(b, c) = m2 \o m3
      <4>1. Operation(b, c) = <<>> \o m2 \o m3 BY <2>2, <2>8
      <4> QED BY <2>7, <4>1, ConcatEmptySeq
    <3> QED BY <2>6, <3>1, <3>2 DEF c
  <2>9. CASE h # c
    <3>1. BlockCost(b, in, out) = first \o <<second, third>> BY <2>1, <2>9
    <3>2. m1 \in Seq(ModuleRecords) BY <2>3 DEF Matches
    <3>3. Operation(b, c) = m1 \o (m2 \o m3)
      <4>1. Operation(b, c) = m1 \o m2 \o m3 BY <2>2, <2>9
      <4> QED BY <2>7, <3>2, <4>1, ConcatAssociative
    <3>4. Matches(first \o <<second, third>>, m1 \o (m2 \o m3)) BY <2>3, <2>6, MatchesBoth
    <3> QED BY <3>1, <3>3, <3>4 DEF c
  <2> QED BY <2>8, <2>9
<1>7. CASE b.op \notin {"conv", "dw_sep_conv"}
  <2>1. BlockCost(b, in, out) = <<>> BY <1>7 DEF BlockCost
  <2>2. Operation(b, c) = <<Plain(b.op)>> BY <1>7 DEF Operation
  <2>3. b.op \in {"identity", "max_pool", "avg_pool"} BY <1>2, <1>7 DEF OperationTypes
  <2>4. Silent(Plain(b.op)) BY <2>3, PlainIsSilent
  <2>5. Matches(<<>>, <<Plain(b.op)>>) BY <2>4, SilentMatches
  <2> QED BY <2>1, <2>2, <2>5 DEF c
<1> QED BY <1>5, <1>6, <1>7

LEMMA HeadMatches ==
    ASSUME NEW a \in Genotypes, NEW in \in Positive
    PROVE  Matches(HeadCost(a, in), Classifier(a, in))
<1> DEFINE h == a.head.hidden
           pool == Plain(a.head.pooling)
           flat == Plain("flatten")
           mid == Plain(a.head.act)
           drop == Plain("dropout")
           one == Module("linear", in, h, 1, 1, TRUE)
           two == Module("linear", h, a.classes, 1, 1, TRUE)
           only == Module("linear", in, a.classes, 1, 1, TRUE)
           d == IF a.head.dropout # 0 THEN <<drop>> ELSE <<>>
<1>1. /\ h \in Nat /\ a.classes \in Int /\ in \in Int /\ h \in Int
      /\ a.head.pooling \in PoolingTypes /\ a.head.act \in ActivationTypes
  <2>1. a.head \in RawHeads /\ a.classes \in Positive BY GenotypeIs DEF HeadForms
  <2> QED BY <2>1 DEF RawHeads, Positive
<1>2. Silent(pool) /\ Silent(flat) /\ Silent(mid) /\ Silent(drop) BY <1>1, PlainIsSilent
<1>3. /\ HeadCost(a, in) = IF h > 0 THEN <<LinearCost(in, h), LinearCost(h, a.classes)>>
                            ELSE <<LinearCost(in, a.classes)>>
      /\ Classifier(a, in) = <<pool, flat>> \o (IF h > 0 THEN <<one, mid>> ELSE <<>>) \o d
                               \o <<IF h > 0 THEN two ELSE only>>
  BY DEF HeadCost, Classifier
<1>4. /\ Matches(<<LinearCost(in, h)>>, <<one>>)
      /\ Matches(<<LinearCost(h, a.classes)>>, <<two>>)
      /\ Matches(<<LinearCost(in, a.classes)>>, <<only>>)
  BY <1>1, LinearMatches
<1>5. Matches(<<>>, <<pool, flat>>)
  <2> HIDE DEF pool, flat
  <2>1. Matches(<<>>, <<pool>>) BY <1>2, SilentMatches
  <2>2. Matches(<<>>, <<pool>> \o <<flat>>) BY <1>2, <2>1, SilentAround
  <2> QED BY <2>2, PairJoins
<1>6. <<>> \o <<>> = <<>> /\ <<>> \in Seq(ModuleRecords) /\ <<>> \in Seq(UnitRecords) OBVIOUS
<1>7. CASE ~(h > 0)
  <2> DEFINE u == <<LinearCost(in, a.classes)>>
  <2>1. HeadCost(a, in) = u /\ Classifier(a, in) = <<pool, flat>> \o <<>> \o d \o <<only>>
    BY <1>3, <1>7
  <2> HIDE DEF pool, flat, drop, only, u
  <2>2. <<pool, flat>> \o <<>> = <<pool, flat>>
    <3>1. <<pool, flat>> \in Seq(ModuleRecords) BY <1>5 DEF Matches
    <3> QED BY <3>1, ConcatEmptySeq
  <2>3. Matches(<<>>, <<pool, flat>> \o d)
    <3>1. CASE a.head.dropout # 0 BY <1>2, <1>5, <3>1, SilentAround
    <3>2. CASE a.head.dropout = 0 BY <1>5, <2>2, <3>2
    <3> QED BY <3>1, <3>2
  <2> HIDE DEF d
  <2>4. Matches(u, <<only>>) BY <1>4 DEF u
  <2>5. Matches(<<>> \o u, <<pool, flat>> \o d \o <<only>>) BY <2>3, <2>4, MatchesBoth
  <2>6. <<>> \o u = u
    <3>1. u \in Seq(UnitRecords) BY <2>4 DEF Matches
    <3> QED BY <3>1, ConcatEmptySeq
  <2> QED BY <2>1, <2>2, <2>5, <2>6
<1>8. CASE h > 0
  <2> DEFINE u == LinearCost(in, h)
             v == LinearCost(h, a.classes)
             p == <<pool, flat>>
             q == <<one, mid>>
  <2>1. HeadCost(a, in) = <<u, v>> /\ Classifier(a, in) = p \o q \o d \o <<two>>
    BY <1>3, <1>8
  <2>2. Matches(<<u>>, <<one>>) /\ Matches(<<v>>, <<two>>) BY <1>4
  <2> HIDE DEF pool, flat, drop, mid, one, two, u, v
  <2>3. Matches(<<u>>, q)
    <3>1. Matches(<<u>>, <<one>> \o <<mid>>) BY <1>2, <2>2, SilentAround
    <3> QED BY <3>1, PairJoins
  <2>4. Matches(<<>>, p) BY <1>5
  <2> HIDE DEF p, q
  <2>5. Matches(<<u>>, p \o q)
    <3>1. Matches(<<>> \o <<u>>, p \o q) BY <2>3, <2>4, MatchesBoth
    <3>2. <<u>> \in Seq(UnitRecords) BY <2>3 DEF Matches
    <3> QED BY <3>1, <3>2, ConcatEmptySeq
  <2>6. Matches(<<u>>, p \o q \o d)
    <3>1. CASE a.head.dropout # 0 BY <1>2, <2>5, <3>1, SilentAround
    <3>2. CASE a.head.dropout = 0
      <4>1. p \o q \in Seq(ModuleRecords) BY <2>5 DEF Matches
      <4>2. p \o q \o <<>> = p \o q BY <4>1, ConcatEmptySeq
      <4> QED BY <2>5, <3>2, <4>2
    <3> QED BY <3>1, <3>2
  <2> HIDE DEF d
  <2>7. Matches(<<u>> \o <<v>>, p \o q \o d \o <<two>>) BY <2>2, <2>6, MatchesBoth
  <2>8. <<u>> \o <<v>> = <<u, v>> BY PairJoins
  <2> QED BY <2>1, <2>7, <2>8
<1> QED BY <1>7, <1>8

LEMMA ListIs ==
    ASSUME NEW S, NEW n \in Nat, NEW f, f = [i \in 1..n |-> f[i]], \A i \in 1..n : f[i] \in S
    PROVE  f \in Seq(S) /\ Len(f) = n
OBVIOUS

\* Block by block, the cost model and the network agree.
LEMMA BodyMatches ==
    ASSUME NEW a \in Genotypes, NEW cost, NEW op,
           \A s \in 1..Len(a.stages) : \A i \in 1..Len(a.stages[s]) :
               Matches(cost[<<s, i>>], op[<<s, i>>])
    PROVE  Matches(FlattenSeq([s \in DOMAIN a.stages |->
                        FlattenSeq([i \in DOMAIN a.stages[s] |-> cost[<<s, i>>]])]),
                   FlattenSeq([s \in DOMAIN a.stages |->
                        FlattenSeq([i \in DOMAIN a.stages[s] |-> op[<<s, i>>]])]))
<1> DEFINE n == Len(a.stages)
           U(s) == [i \in DOMAIN a.stages[s] |-> cost[<<s, i>>]]
           M(s) == [i \in DOMAIN a.stages[s] |-> op[<<s, i>>]]
           UU == [s \in DOMAIN a.stages |-> FlattenSeq(U(s))]
           MM == [s \in DOMAIN a.stages |-> FlattenSeq(M(s))]
<1>1. n \in Nat /\ n >= 1 /\ DOMAIN a.stages = 1..n BY GenotypeIs
<1>2. ASSUME NEW s \in 1..n PROVE Matches(FlattenSeq(U(s)), FlattenSeq(M(s)))
  <2> DEFINE m == Len(a.stages[s])
             u == U(s)
             w == M(s)
  <2>1. m \in Nat /\ m >= 1 /\ DOMAIN a.stages[s] = 1..m BY GenotypeIs, StageIs
  <2>2. \A i \in 1..m : Matches(cost[<<s, i>>], op[<<s, i>>]) OBVIOUS
  <2> HIDE DEF m
  <2>3. /\ DOMAIN u = 1..m /\ DOMAIN w = 1..m
        /\ u = [i \in 1..m |-> u[i]] /\ w = [i \in 1..m |-> w[i]]
        /\ \A i \in 1..m : u[i] = cost[<<s, i>>] /\ w[i] = op[<<s, i>>]
    BY <2>1
  <2> HIDE DEF u, w
  <2>4. \A i \in 1..m : Matches(u[i], w[i]) BY <2>2, <2>3
  <2>5. \A i \in 1..m : u[i] \in Seq(UnitRecords) /\ w[i] \in Seq(ModuleRecords)
    BY <2>4 DEF Matches
  <2>6. /\ u \in Seq(Seq(UnitRecords)) /\ w \in Seq(Seq(ModuleRecords))
        /\ Len(u) = m /\ Len(w) = m
    BY <2>1, <2>3, <2>5, ListIs
  <2>7. Matches(FlattenSeq(u), FlattenSeq(w)) BY <2>1, <2>4, <2>6, MatchesFlatten
  <2> QED BY <2>7 DEF u, w
<1> HIDE DEF n
<1>3. /\ DOMAIN UU = 1..n /\ DOMAIN MM = 1..n
      /\ UU = [s \in 1..n |-> UU[s]] /\ MM = [s \in 1..n |-> MM[s]]
      /\ \A s \in 1..n : UU[s] = FlattenSeq(U(s)) /\ MM[s] = FlattenSeq(M(s))
  <2> HIDE DEF U, M
  <2> QED BY <1>1
<1> HIDE DEF UU, MM
<1>4. \A s \in 1..n : Matches(UU[s], MM[s])
  <2> HIDE DEF U, M
  <2> QED BY <1>2, <1>3
<1>5. \A s \in 1..n : UU[s] \in Seq(UnitRecords) /\ MM[s] \in Seq(ModuleRecords)
  BY <1>4 DEF Matches
<1>6. /\ UU \in Seq(Seq(UnitRecords)) /\ MM \in Seq(Seq(ModuleRecords))
      /\ Len(UU) = n /\ Len(MM) = n
  <2> HIDE DEF U, M
  <2> QED BY <1>1, <1>3, <1>5, ListIs
<1>7. Matches(FlattenSeq(UU), FlattenSeq(MM))
  <2> HIDE DEF U, M
  <2> QED BY <1>1, <1>4, <1>6, MatchesFlatten
<1> QED BY <1>7 DEF UU, MM

LEMMA NetworkMatches ==
    ASSUME NEW a, Settled(a)
    PROVE  LET cost == Cost(a)
               built == Summary(a)
           IN /\ cost.trainable = built.trainable /\ cost.buffers = built.buffers
              /\ built.bytes = cost.bytes + 4 * built.counters
<1> DEFINE spend(p) == BlockCost(BlockAt(a, p), ShapeBefore(a, p), ShapeAfter(a, p))
           make(p) == Operation(BlockAt(a, p), WidthBefore(a, p))
           unit == UnitCost(a.channels, a.stem.out, a.stem.kernel, 1, a.stem.norm,
                            StemShape(a).size)
           stem == ConvBnAct(a.channels, a.stem.out, a.stem.kernel, 1, a.stem.norm, a.stem.act)
           w == FeatureShape(a).channels
           u == <<unit>> \o BlockByBlock(a, spend) \o HeadCost(a, w)
           m == stem \o BlockByBlock(a, make) \o Classifier(a, w)
<1>1. a \in Genotypes BY DEF Settled
<1>2. /\ \A p \in Positions(a) : /\ ShapeBefore(a, p).channels = WidthBefore(a, p)
                                 /\ ShapeAfter(a, p).channels = BlockAt(a, p).out
      /\ w = StageWidth(Last(a.stages))
  BY SettledShapes
<1>3. w \in Positive
  <2>1. Len(a.stages) \in 0..Len(a.stages) BY <1>1, GenotypeIs
  <2>2. FeatureShape(a) \in ShapeForms BY <1>1, <2>1, ShapesAre DEF FeatureShape
  <2> QED BY <2>2 DEF ShapeForms
<1>4. Matches(<<unit>>, stem)
  <2>1. /\ a.channels \in Int /\ a.stem.out \in Int /\ a.stem.kernel \in Int /\ 1 \in Positive
        /\ a.stem.norm \in NormalizationTypes /\ a.stem.act \in ActivationTypes
    BY <1>1, GenotypeIs DEF StemForms, Positive, OddKernels
  <2>2. StemShape(a).size \in Int BY <1>1, StemShapeIs DEF ShapeForms, Positive
  <2> QED BY <2>1, <2>2, ConvBnActMatches
<1>5. ASSUME NEW s \in 1..Len(a.stages), NEW i \in 1..Len(a.stages[s])
      PROVE  Matches(spend(<<s, i>>), make(<<s, i>>))
  <2> DEFINE b == BlockAt(a, <<s, i>>)
             in == ShapeBefore(a, <<s, i>>)
             out == ShapeAfter(a, <<s, i>>)
  <2>1. <<s, i>> \in Positions(a) /\ b \in BlockForms BY <1>1, PositionsAre
  <2>2. in \in ShapeForms /\ out \in ShapeForms BY <1>1, ShapesFollow
  <2>3. in.channels = WidthBefore(a, <<s, i>>) /\ out.channels = b.out BY <1>2, <2>1
  <2> HIDE DEF b, in, out
  <2>4. Matches(BlockCost(b, in, out), Operation(b, in.channels))
    BY <2>1, <2>2, <2>3, BlockMatches
  <2>5. Matches(BlockCost(b, in, out), Operation(b, WidthBefore(a, <<s, i>>))) BY <2>3, <2>4
  <2> QED BY <2>5 DEF b, in, out
<1>6. Matches(BlockByBlock(a, spend), BlockByBlock(a, make))
  <2> DEFINE f == [p \in Positions(a) |-> spend(p)]
             g == [p \in Positions(a) |-> make(p)]
             here == [s \in DOMAIN a.stages |->
                         FlattenSeq([i \in DOMAIN a.stages[s] |-> f[<<s, i>>]])]
             there == [s \in DOMAIN a.stages |->
                         FlattenSeq([i \in DOMAIN a.stages[s] |-> g[<<s, i>>]])]
  <2>1. ASSUME NEW s \in DOMAIN a.stages, NEW i \in DOMAIN a.stages[s]
        PROVE  f[<<s, i>>] = spend(<<s, i>>) /\ g[<<s, i>>] = make(<<s, i>>)
    <3>1. <<s, i>> \in Positions(a) BY <1>1, GenotypeIs, StageIs, PositionsAre
    <3> HIDE DEF spend, make
    <3> QED BY <3>1
  <2>2. \A s \in 1..Len(a.stages) : \A i \in 1..Len(a.stages[s]) :
           Matches(f[<<s, i>>], g[<<s, i>>])
    <3>1. ASSUME NEW s \in 1..Len(a.stages), NEW i \in 1..Len(a.stages[s])
          PROVE  s \in DOMAIN a.stages /\ i \in DOMAIN a.stages[s]
      BY <1>1, GenotypeIs, StageIs
    <3> HIDE DEF spend, make, f, g
    <3> QED BY <1>5, <2>1, <3>1
  <2> HIDE DEF spend, make, f, g
  <2>3. Matches(FlattenSeq(here), FlattenSeq(there)) BY <1>1, <2>2, BodyMatches
  <2>4. \A s \in DOMAIN a.stages :
           /\ [i \in DOMAIN a.stages[s] |-> f[<<s, i>>]]
                = [i \in DOMAIN a.stages[s] |-> spend(<<s, i>>)]
           /\ [i \in DOMAIN a.stages[s] |-> g[<<s, i>>]]
                = [i \in DOMAIN a.stages[s] |-> make(<<s, i>>)]
    BY <2>1
  <2>5. /\ here = [s \in DOMAIN a.stages |->
                      FlattenSeq([i \in DOMAIN a.stages[s] |-> spend(<<s, i>>)])]
        /\ there = [s \in DOMAIN a.stages |->
                      FlattenSeq([i \in DOMAIN a.stages[s] |-> make(<<s, i>>)])]
    BY <2>4
  <2>6. BlockByBlock(a, spend) = FlattenSeq(here) /\ BlockByBlock(a, make) = FlattenSeq(there)
    <3> HIDE DEF here, there
    <3> QED BY <2>5 DEF BlockByBlock
  <2> QED BY <2>3, <2>6
<1>7. Matches(HeadCost(a, w), Classifier(a, w)) BY <1>1, <1>3, HeadMatches
<1>8. Cost(a).trainable = Total(u, "trainable") /\ Cost(a).buffers = Total(u, "buffers")
      /\ Cost(a).bytes = 4 * (Total(u, "trainable") + Total(u, "buffers"))
  BY DEF Cost
<1>9. Network(a) = m BY <1>2 DEF Network
<1>10. /\ Summary(a).trainable = Total(Footprints(m), "trainable")
       /\ Summary(a).buffers = Total(Footprints(m), "buffers")
       /\ Summary(a).bytes = Total(Footprints(m), "bytes")
       /\ Summary(a).counters = Total(Footprints(m), "counters")
  <2> HIDE DEF m
  <2> QED BY <1>9 DEF Summary, Footprints
<1> HIDE DEF spend, make, unit, stem, w
<1>11. Matches(u, m)
  <2> DEFINE x == BlockByBlock(a, spend)
             y == BlockByBlock(a, make)
             p == <<unit>> \o x
             q == stem \o y
             h == HeadCost(a, w)
             k == Classifier(a, w)
  <2>1. Matches(x, y) /\ Matches(h, k) /\ Matches(<<unit>>, stem) BY <1>4, <1>6, <1>7
  <2>2. u = p \o h /\ m = q \o k OBVIOUS
  <2> HIDE DEF x, y, h, k, u, m
  <2>3. Matches(p, q) BY <2>1, MatchesBoth
  <2> HIDE DEF p, q
  <2>4. Matches(p \o h, q \o k) BY <2>1, <2>3, MatchesBoth
  <2> QED BY <2>2, <2>4
<1> HIDE DEF u, m
<1>12. Balanced(u, Footprints(m)) BY <1>11 DEF Matches
<1> QED BY <1>8, <1>10, <1>12 DEF Balanced

\* The estimate is what the network holds, and only a shortcut around a stride
\* keeps an unrepaired child from being built (cost.py, models/builder.py).
THEOREM EstimateTheorem == Spec => []EstimateMatchesNetwork
<1>1. WalkInv => EstimateMatchesNetwork
  <2> SUFFICES ASSUME WalkInv, Bred PROVE EstimateMatchesNetwork
    BY DEF EstimateMatchesNetwork
  <2>1. SpaceValid(space) /\ Member(current, space) BY SpacesAssumption DEF WalkInv
  <2>2. Settled(current) BY <2>1 DEF Member
  <2>3. Builds(current) BY <2>2, SettledShapes
  <2>4. ASSUME NEW raw \in RawChildren, InfersShapes(raw)
        PROVE  /\ \A p \in Positions(raw) : WidthBefore(raw, p) = ShapeBefore(raw, p).channels
               /\ Builds(raw) \/ \E p \in Positions(raw) : StridedShortcut(raw, p)
    <3>1. PICK name \in Operators : raw \in Children(name, current, space)
      BY <2>4 DEF RawChildren
    <3>2. GoodOffspring(name, current, raw, space) BY <2>1, <3>1, ChildGood
    <3>3. raw \in Genotypes BY <3>2 DEF GoodOffspring
    <3> QED BY <2>4, <3>3, InferredShapes
  <2>5. LET cost == Cost(current)
            built == Summary(current)
        IN /\ cost.trainable = built.trainable /\ cost.buffers = built.buffers
           /\ built.bytes = cost.bytes + 4 * built.counters
    BY <2>2, NetworkMatches
  <2> QED BY <2>3, <2>4, <2>5 DEF EstimateMatchesNetwork
<1> QED BY <1>1, WalkTheorem, PTL

-----------------------------------------------------------------------------
(***************************************************************************)
(* Counting.                                                               *)
(***************************************************************************)
AtMostMany(S, n) == IsFiniteSet(S) /\ n \in Nat /\ Cardinality(S) <= n

\* What induction over the subsets of a finite set needs.
LEMMA SubsetInduction ==
    ASSUME NEW S, IsFiniteSet(S), NEW T,
           \A t \in SUBSET S : (\A x \in t : t \ {x} \in T) => t \in T
    PROVE  S \in T
<1> DEFINE G == {n \in Nat : \A t \in SUBSET S : Cardinality(t) <= n => t \in T}
<1>1. \A t \in SUBSET S : IsFiniteSet(t) /\ Cardinality(t) \in Nat
  BY FS_Subset, FS_CardinalityType
<1>2. 0 \in G
  <2> SUFFICES ASSUME NEW t \in SUBSET S, Cardinality(t) <= 0 PROVE t \in T OBVIOUS
  <2>1. Cardinality(t) = 0 BY <1>1
  <2>2. t = {} BY <1>1, <2>1, FS_EmptySet
  <2> QED BY <2>2
<1>3. ASSUME NEW n \in G PROVE n + 1 \in G
  <2>1. n \in Nat /\ n + 1 \in Nat OBVIOUS
  <2> SUFFICES ASSUME NEW t \in SUBSET S, Cardinality(t) <= n + 1 PROVE t \in T BY <2>1
  <2>2. ASSUME NEW x \in t PROVE t \ {x} \in T
    <3>1. t \ {x} \in SUBSET S /\ Cardinality(t \ {x}) = Cardinality(t) - 1
      BY <1>1, FS_RemoveElement
    <3>2. Cardinality(t \ {x}) <= n BY <1>1, <2>1, <3>1
    <3> QED BY <3>1, <3>2
  <2> QED BY <2>2
<1>4. G = Nat
  <2>1. G \in SUBSET Nat OBVIOUS
  <2> HIDE DEF G
  <2> QED BY <1>2, <1>3, <2>1, NatSetInduction
<1>5. Cardinality(S) \in G /\ Cardinality(S) <= Cardinality(S) BY <1>1, <1>4
<1> QED BY <1>5

LEMMA SmallerSet ==
    ASSUME NEW S, NEW n, AtMostMany(S, n), NEW T \in SUBSET S, NEW m \in Nat, n <= m
    PROVE  AtMostMany(T, m)
<1>1. IsFiniteSet(T) /\ Cardinality(T) <= Cardinality(S) BY FS_Subset DEF AtMostMany
<1>2. Cardinality(T) \in Nat /\ Cardinality(S) \in Nat BY <1>1, FS_CardinalityType DEF AtMostMany
<1> QED BY <1>1, <1>2 DEF AtMostMany

LEMMA CountedSet ==
    ASSUME NEW S, IsFiniteSet(S)
    PROVE  AtMostMany(S, Cardinality(S)) /\ Cardinality(S) \in Nat
<1>1. Cardinality(S) \in Nat BY FS_CardinalityType
<1> QED BY <1>1 DEF AtMostMany

LEMMA SingletonBound ==
    ASSUME NEW x
    PROVE  AtMostMany({x}, 1)
<1>1. IsFiniteSet({x}) /\ Cardinality({x}) = 1 BY FS_Singleton
<1> QED BY <1>1 DEF AtMostMany

\* What is a value of f at a member of S.
LEMMA ImageBound ==
    ASSUME NEW S, NEW n, AtMostMany(S, n), NEW f, NEW T, \A y \in T : \E x \in S : f[x] = y
    PROVE  AtMostMany(T, n)
<1> DEFINE R == {x \in S : f[x] \in T}
           g == [x \in R |-> f[x]]
<1>1. AtMostMany(R, n)
  <2>1. R \in SUBSET S /\ n \in Nat /\ n <= n BY DEF AtMostMany
  <2> HIDE DEF R
  <2> QED BY <2>1, SmallerSet
<1>2. g \in Surjection(R, T) BY DEF Surjection
<1> HIDE DEF R, g
<1>3. IsFiniteSet(T) /\ Cardinality(T) <= Cardinality(R) BY <1>1, <1>2, FS_Surjection DEF AtMostMany
<1>4. Cardinality(T) \in Nat /\ Cardinality(R) \in Nat
  BY <1>1, <1>3, FS_CardinalityType DEF AtMostMany
<1> QED BY <1>1, <1>3, <1>4 DEF AtMostMany

LEMMA ProductBound ==
    ASSUME NEW S, NEW m, AtMostMany(S, m), NEW T, NEW n, AtMostMany(T, n)
    PROVE  AtMostMany(S \X T, m * n)
<1>1. IsFiniteSet(S \X T) /\ Cardinality(S \X T) = Cardinality(S) * Cardinality(T)
  BY FS_Product DEF AtMostMany
<1>2. Cardinality(S) \in Nat /\ Cardinality(T) \in Nat BY FS_CardinalityType DEF AtMostMany
<1>3. m * n \in Nat /\ Cardinality(S) * Cardinality(T) <= m * n
  BY <1>2, FactorsGrow DEF AtMostMany
<1> QED BY <1>1, <1>3 DEF AtMostMany

LEMMA BothBound ==
    ASSUME NEW S, NEW m, AtMostMany(S, m), NEW T, NEW n, AtMostMany(T, n)
    PROVE  AtMostMany(S \cup T, m + n)
<1>1. /\ IsFiniteSet(S \cup T) /\ IsFiniteSet(S \cap T)
      /\ Cardinality(S \cup T) = Cardinality(S) + Cardinality(T) - Cardinality(S \cap T)
  BY FS_Union, FS_Intersection DEF AtMostMany
<1>2. /\ Cardinality(S) \in Nat /\ Cardinality(T) \in Nat /\ Cardinality(S \cap T) \in Nat
      /\ m \in Nat /\ n \in Nat /\ Cardinality(S) <= m /\ Cardinality(T) <= n
  BY <1>1, FS_CardinalityType DEF AtMostMany
<1> QED BY <1>1, <1>2 DEF AtMostMany

\* Equally bounded parts.
LEMMA UnionBound ==
    ASSUME NEW S, NEW m, AtMostMany(S, m), NEW n \in Nat, NEW f,
           \A x \in S : AtMostMany(f[x], n)
    PROVE  AtMostMany(UNION {f[x] : x \in S}, m * n)
<1> DEFINE part(t) == UNION {f[x] : x \in t}
           T == {t \in SUBSET S : AtMostMany(part(t), Cardinality(t) * n)}
<1>1. IsFiniteSet(S) BY DEF AtMostMany
<1>2. {} \in T
  <2>1. part({}) = {} /\ Cardinality({}) = 0 /\ 0 * n = 0 BY FS_EmptySet
  <2>2. AtMostMany({}, 0) BY FS_EmptySet DEF AtMostMany
  <2> HIDE DEF part
  <2> QED BY <2>1, <2>2
<1>3. ASSUME NEW t \in SUBSET S, NEW x \in t, t \ {x} \in T PROVE t \in T
  <2>1. AtMostMany(part(t \ {x}), Cardinality(t \ {x}) * n) /\ AtMostMany(f[x], n) BY <1>3
  <2>2. part(t) = part(t \ {x}) \cup f[x] OBVIOUS
  <2>3. IsFiniteSet(t) BY <1>1, FS_Subset
  <2>4. Cardinality(t) \in Nat /\ Cardinality(t \ {x}) = Cardinality(t) - 1
    BY <2>3, FS_RemoveElement, FS_CardinalityType
  <2>5. (Cardinality(t) - 1) * n + n = Cardinality(t) * n BY <2>4
  <2> DEFINE rest == part(t \ {x})
             k == Cardinality(t \ {x}) * n
  <2>6. AtMostMany(rest, k) /\ AtMostMany(f[x], n) BY <2>1
  <2> HIDE DEF part, rest, k
  <2>7. AtMostMany(rest \cup f[x], k + n) BY <2>6, BothBound
  <2> QED BY <2>2, <2>4, <2>5, <2>7 DEF rest, k
<1> HIDE DEF T
<1>4. \A t \in SUBSET S : (\A x \in t : t \ {x} \in T) => t \in T BY <1>2, <1>3
<1>5. S \in T BY <1>1, <1>4, SubsetInduction
<1>6. AtMostMany(part(S), Cardinality(S) * n) BY <1>5 DEF T
<1>7. Cardinality(S) \in Nat BY <1>1, FS_CardinalityType
<1>8. m * n \in Nat /\ Cardinality(S) * n <= m * n BY <1>7, FactorsGrow DEF AtMostMany
<1> HIDE DEF part
<1>9. AtMostMany(part(S), m * n) BY <1>6, <1>8, SmallerSet
<1> QED BY <1>9 DEF part

\* One turn of the fold: h at some element, and the rest.
Some(s) == CHOOSE x \in s : TRUE

Turn(h, g, s) == IF s = {} THEN 0 ELSE h[Some(s)] + g[s \ {Some(s)}]

Folded(h, S) == CHOOSE g : g = [s \in SUBSET S |-> Turn(h, g, s)]

LEMMA SumIsAFold ==
    ASSUME NEW h
    PROVE  SumOf(h) = Folded(h, DOMAIN h)[DOMAIN h]
BY Zenon DEF SumOf, MapThenSumSet, MapThenFoldSet, Folded, Turn, Some

\* The subsets of S with at most n elements.
UpToSize(S, n) == {s \in SUBSET S : Cardinality(s) <= n}

LEMMA SmallerRest ==
    ASSUME NEW S, IsFiniteSet(S), NEW n \in Nat, NEW s \in UpToSize(S, n + 1), s # {}
    PROVE  s \ {Some(s)} \in UpToSize(S, n) /\ Some(s) \in S
<1>1. Some(s) \in s BY DEF Some
<1>2. s \in SUBSET S /\ IsFiniteSet(s) /\ Cardinality(s) <= n + 1
  BY FS_Subset DEF UpToSize
<1>3. Cardinality(s) \in Nat /\ Cardinality(s \ {Some(s)}) = Cardinality(s) - 1
  BY <1>1, <1>2, FS_RemoveElement, FS_CardinalityType
<1> QED BY <1>1, <1>2, <1>3 DEF UpToSize

LEMMA FoldsExist ==
    ASSUME NEW S, IsFiniteSet(S), NEW h \in [S -> Int]
    PROVE  Folded(h, S) = [s \in SUBSET S |-> Turn(h, Folded(h, S), s)]
<1> DEFINE T == {n \in Nat : \E g : g = [s \in UpToSize(S, n) |-> Turn(h, g, s)]}
<1>1. 0 \in T
  <2> DEFINE g == [s \in UpToSize(S, 0) |-> 0]
  <2>1. ASSUME NEW s \in UpToSize(S, 0) PROVE s = {}
    <3>1. IsFiniteSet(s) /\ Cardinality(s) <= 0 BY FS_Subset DEF UpToSize
    <3> QED BY <3>1, FS_CardinalityType, FS_EmptySet
  <2>2. \A s \in UpToSize(S, 0) : Turn(h, g, s) = 0 BY <2>1 DEF Turn
  <2>3. g = [s \in UpToSize(S, 0) |-> Turn(h, g, s)] BY <2>2
  <2> HIDE DEF g
  <2> QED BY <2>3
<1>2. ASSUME NEW n \in T PROVE n + 1 \in T
  <2>1. PICK g : g = [s \in UpToSize(S, n) |-> Turn(h, g, s)] OBVIOUS
  <2> DEFINE f == [s \in UpToSize(S, n + 1) |-> Turn(h, g, s)]
  <2>2. n \in Nat /\ UpToSize(S, n) \subseteq UpToSize(S, n + 1)
    <3>1. n \in Nat OBVIOUS
    <3>2. \A s \in SUBSET S : Cardinality(s) \in Nat BY FS_Subset, FS_CardinalityType
    <3> QED BY <3>1, <3>2 DEF UpToSize
  <2>3. \A s \in UpToSize(S, n) : f[s] = g[s] BY <2>1, <2>2
  <2>4. ASSUME NEW s \in UpToSize(S, n + 1) PROVE Turn(h, f, s) = Turn(h, g, s)
    <3>1. s # {} => f[s \ {Some(s)}] = g[s \ {Some(s)}] BY <2>2, <2>3, SmallerRest
    <3> HIDE DEF f
    <3> QED BY <3>1 DEF Turn
  <2>5. f = [s \in UpToSize(S, n + 1) |-> Turn(h, f, s)] BY <2>4
  <2> HIDE DEF f
  <2> QED BY <2>2, <2>5
<1>3. T = Nat
  <2> HIDE DEF T
  <2>1. T \in SUBSET Nat BY DEF T
  <2> QED BY <1>1, <1>2, <2>1, NatSetInduction
<1>4. Cardinality(S) \in T BY <1>3, FS_CardinalityType
<1>5. UpToSize(S, Cardinality(S)) = SUBSET S BY FS_Subset DEF UpToSize
<1>6. \E g : g = [s \in SUBSET S |-> Turn(h, g, s)] BY <1>4, <1>5
<1> QED BY <1>6, Zenon DEF Folded

\* Parts with bounds of their own.
LEMMA SumBound ==
    ASSUME NEW S, IsFiniteSet(S), NEW h, h = [x \in S |-> h[x]], NEW f,
           \A x \in S : AtMostMany(f[x], h[x])
    PROVE  AtMostMany(UNION {f[x] : x \in S}, SumOf(h))
<1> DEFINE part(t) == UNION {f[x] : x \in t}
           g == Folded(h, S)
           T == {t \in SUBSET S : AtMostMany(part(t), g[t])}
<1>1. h \in [S -> Int] /\ DOMAIN h = S
  <2>1. \A x \in S : h[x] \in Int BY DEF AtMostMany
  <2> QED BY <2>1
<1>2. g = [t \in SUBSET S |-> Turn(h, g, t)] BY <1>1, FoldsExist
<1>3. SumOf(h) = g[S] BY <1>1, SumIsAFold
<1> HIDE DEF g
<1>4. ASSUME NEW t \in SUBSET S, \A x \in t : t \ {x} \in T PROVE t \in T
  <2>1. g[t] = Turn(h, g, t) BY <1>2
  <2>2. CASE t = {}
    <3>1. part({}) = {} /\ g[{}] = 0 BY <2>1, <2>2 DEF Turn
    <3>2. AtMostMany({}, 0) BY FS_EmptySet DEF AtMostMany
    <3> HIDE DEF part
    <3> QED BY <2>2, <3>1, <3>2
  <2>3. CASE t # {}
    <3> DEFINE x == Some(t)
               rest == part(t \ {x})
    <3>1. x \in t BY <2>3 DEF Some
    <3>2. g[t] = h[x] + g[t \ {x}] BY <2>1, <2>3 DEF Turn
    <3> HIDE DEF x
    <3>3. AtMostMany(rest, g[t \ {x}]) /\ AtMostMany(f[x], h[x]) BY <1>4, <3>1
    <3>4. part(t) = f[x] \cup rest BY <3>1
    <3> HIDE DEF part, rest
    <3>5. AtMostMany(f[x] \cup rest, h[x] + g[t \ {x}]) BY <3>3, BothBound
    <3> QED BY <3>2, <3>4, <3>5
  <2> QED BY <2>2, <2>3
<1> HIDE DEF T
<1>5. S \in T BY <1>4, SubsetInduction
<1>6. AtMostMany(part(S), g[S]) BY <1>5 DEF T
<1> HIDE DEF part
<1> QED BY <1>3, <1>6 DEF part

LEMMA PowerIs ==
    ASSUME NEW b \in Nat, NEW e \in Nat
    PROVE  Power(b, e) \in Nat /\ Power(b, 0) = 1 /\ Power(b, e + 1) = Power(b, e) * b
<1> DEFINE pow(n) == CHOOSE f : f = [i \in 0..n |-> IF i = 0 THEN 1 ELSE f[i - 1] * b]
<1>1. ASSUME NEW n \in Nat
      PROVE  /\ pow(n) \in [0..n -> Nat] /\ pow(n)[0] = 1
             /\ \A i \in 1..n : pow(n)[i] = pow(n)[i - 1] * b
  <2> DEFINE step == [i \in 1..n |-> [x \in Nat |-> x * b]]
             eq(f) == f = [i \in 0..n |-> IF i = 0 THEN 1 ELSE f[i - 1] * b]
  <2>1. step \in Steps(Nat, n) /\ 1 \in Nat BY DEF Steps
  <2>2. PICK f : Follows(f, Nat, n, 1, step)
    <3> HIDE DEF step
    <3> QED BY <2>1, RecursionExists
  <2>3. /\ f \in [0..n -> Nat] /\ f[0] = 1
        /\ \A i \in 1..n : f[i] = f[i - 1] * b
    <3>1. f \in [0..n -> Nat] /\ \A i \in 0..n : f[i] = IF i = 0 THEN 1 ELSE step[i][f[i - 1]]
      BY <2>2 DEF Follows
    <3>2. ASSUME NEW i \in 1..n PROVE f[i] = f[i - 1] * b
      <4>1. i \in 0..n /\ i # 0 /\ i - 1 \in 0..n OBVIOUS
      <4>2. f[i] = step[i][f[i - 1]] /\ f[i - 1] \in Nat
        <5> HIDE DEF step
        <5> QED BY <3>1, <4>1
      <4> QED BY <4>2
    <3>3. 0 \in 0..n OBVIOUS
    <3> HIDE DEF step
    <3> QED BY <3>1, <3>2, <3>3
  <2> HIDE DEF step
  <2>4. eq(f)
    <3>1. ASSUME NEW i \in 0..n PROVE f[i] = IF i = 0 THEN 1 ELSE f[i - 1] * b
      <4>1. i = 0 \/ i \in 1..n OBVIOUS
      <4> QED BY <2>3, <4>1
    <3> QED BY <2>3, <3>1
  <2>5. eq(pow(n))
    <3> HIDE DEF eq
    <3>1. \E g : eq(g) BY <2>4
    <3>2. pow(n) = CHOOSE g : eq(g) BY DEF eq
    <3> QED BY <3>1, <3>2
  <2> HIDE DEF pow
  <2> DEFINE p == pow(n)
  <2>6. p = [i \in 0..n |-> IF i = 0 THEN 1 ELSE p[i - 1] * b] BY <2>5
  <2> HIDE DEF p
  <2>7. p[0] = 1 /\ \A i \in 1..n : p[i] = p[i - 1] * b
    <3>1. 0 \in 0..n /\ \A i \in 1..n : i \in 0..n /\ i # 0 OBVIOUS
    <3> QED BY <2>6, <3>1
  <2> DEFINE G == {i \in 0..n : p[i] \in Nat}
  <2>8. 0 \in G BY <2>7
  <2>9. ASSUME NEW i \in 1..n, i - 1 \in G PROVE i \in G
    <3>1. p[i - 1] * b \in Nat BY <2>9
    <3> QED BY <2>7, <3>1
  <2> HIDE DEF G
  <2>10. \A i \in 0..n : i \in G BY <2>8, <2>9, UpTheInterval
  <2>11. p \in [0..n -> Nat] BY <2>6, <2>10 DEF G
  <2> QED BY <2>7, <2>11 DEF p
<1>2. \A n \in Nat : Power(b, n) = pow(n)[n] BY DEF Power
<1> HIDE DEF pow
<1> DEFINE p == pow(e)
           q == pow(e + 1)
<1>3. e + 1 \in Nat /\ 0 \in Nat OBVIOUS
<1>4. /\ p \in [0..e -> Nat] /\ p[0] = 1 /\ \A i \in 1..e : p[i] = p[i - 1] * b
      /\ q[0] = 1 /\ \A i \in 1..e + 1 : q[i] = q[i - 1] * b
  BY <1>1, <1>3
<1>5. Power(b, e) = p[e] /\ Power(b, e + 1) = q[e + 1] BY <1>2, <1>3
<1>6. Power(b, 0) = 1
  <2>1. pow(0)[0] = 1 BY <1>1, <1>3
  <2> QED BY <1>2, <1>3, <2>1
<1> HIDE DEF p, q
<1>7. \A i \in 0..e : q[i] = p[i]
  <2> DEFINE G == {i \in 0..e : q[i] = p[i]}
  <2>1. 0 \in G BY <1>4
  <2>2. ASSUME NEW i \in 1..e, i - 1 \in G PROVE i \in G
    <3>1. i \in 0..e /\ i \in 1..e + 1 OBVIOUS
    <3> QED BY <1>4, <2>2, <3>1
  <2> HIDE DEF G
  <2>3. \A i \in 0..e : i \in G BY <2>1, <2>2, UpTheInterval
  <2> QED BY <2>3 DEF G
<1>8. e \in 0..e /\ e + 1 \in 1..e + 1 /\ (e + 1) - 1 = e OBVIOUS
<1>9. q[e + 1] = q[e] * b /\ q[e] = p[e] /\ p[e] \in Nat BY <1>4, <1>7, <1>8
<1> QED BY <1>5, <1>6, <1>9

\* Sequences of a given length.
LEMMA FunctionsBound ==
    ASSUME NEW S, NEW n, AtMostMany(S, n), NEW k \in Nat
    PROVE  AtMostMany([1..k -> S], Power(n, k))
<1> DEFINE G == {i \in Nat : AtMostMany([1..i -> S], Power(n, i))}
<1>1. n \in Nat BY DEF AtMostMany
<1>2. 0 \in G
  <2>1. AtMostMany({0}, 1) BY SingletonBound
  <2> DEFINE f == [x \in {0} |-> <<>>]
  <2>2. ASSUME NEW y \in [1..0 -> S] PROVE \E x \in {0} : f[x] = y
    <3>1. 1..0 = {} OBVIOUS
    <3>2. y = <<>> BY <3>1
    <3> QED BY <3>2
  <2> HIDE DEF f
  <2>3. AtMostMany([1..0 -> S], 1) BY <2>1, <2>2, ImageBound
  <2>4. Power(n, 0) = 1 BY <1>1, PowerIs
  <2> QED BY <2>3, <2>4
<1>3. ASSUME NEW i \in G PROVE i + 1 \in G
  <2>1. i \in Nat /\ AtMostMany([1..i -> S], Power(n, i)) OBVIOUS
  <2> DEFINE P == [1..i -> S] \X S
             f == [p \in P |-> [j \in 1..i + 1 |-> IF j = i + 1 THEN p[2] ELSE p[1][j]]]
  <2>2. AtMostMany(P, Power(n, i) * n) BY <2>1, ProductBound
  <2>3. ASSUME NEW y \in [1..i + 1 -> S] PROVE \E p \in P : f[p] = y
    <3> DEFINE z == [j \in 1..i |-> y[j]]
               p == <<z, y[i + 1]>>
    <3>1. i + 1 \in 1..i + 1 /\ 1..i \subseteq 1..i + 1 BY <2>1
    <3>2. z \in [1..i -> S] /\ y[i + 1] \in S BY <3>1
    <3>3. p \in P /\ p[1] = z /\ p[2] = y[i + 1] BY <3>2
    <3>4. \A j \in 1..i + 1 : (IF j = i + 1 THEN p[2] ELSE p[1][j]) = y[j]
      <4> SUFFICES ASSUME NEW j \in 1..i + 1, j # i + 1 PROVE p[1][j] = y[j] BY <3>3
      <4>1. j \in 1..i BY <2>1
      <4> QED BY <3>3, <4>1
    <3>5. f[p] = [j \in 1..i + 1 |-> IF j = i + 1 THEN p[2] ELSE p[1][j]] BY <3>3
    <3> HIDE DEF p, f, P
    <3>6. f[p] = y BY <3>4, <3>5
    <3> QED BY <3>3, <3>6
  <2> HIDE DEF P, f
  <2>4. AtMostMany([1..i + 1 -> S], Power(n, i) * n) BY <2>2, <2>3, ImageBound
  <2>5. Power(n, i + 1) = Power(n, i) * n BY <1>1, <2>1, PowerIs
  <2> QED BY <2>1, <2>4, <2>5
<1>4. G = Nat
  <2>1. G \in SUBSET Nat OBVIOUS
  <2> HIDE DEF G
  <2> QED BY <1>2, <1>3, <2>1, NatSetInduction
<1> QED BY <1>4

-----------------------------------------------------------------------------
(***************************************************************************)
(* Counting: the draws of a space.                                         *)
(***************************************************************************)
\* The options of a valid space are finitely many.
LEMMA FiniteTypes ==
    /\ IsFiniteSet(OperationTypes) /\ IsFiniteSet(NormalizationTypes)
    /\ IsFiniteSet(ActivationTypes) /\ IsFiniteSet(PoolingTypes) /\ IsFiniteSet(OddKernels)
    /\ IsFiniteSet(BOOLEAN)
    /\ IsFiniteSet(1..4) /\ IsFiniteSet(1..8) /\ IsFiniteSet(1..16)
<1>1. ASSUME NEW x, NEW y PROVE IsFiniteSet({x, y})
  <2>1. {x, y} = {x} \cup {y} OBVIOUS
  <2>2. IsFiniteSet({x}) /\ IsFiniteSet({y}) BY FS_Singleton
  <2>3. IsFiniteSet({x} \cup {y}) BY <2>2, FS_Union
  <2> QED BY <2>1, <2>3
<1>2. IsFiniteSet(OperationTypes)
  <2>1. OperationTypes = {"conv", "dw_sep_conv"} \cup {"identity", "max_pool"} \cup {"avg_pool"}
    BY DEF OperationTypes
  <2> QED BY <1>1, <2>1, FS_Singleton, FS_Union, Zenon
<1>3. IsFiniteSet(NormalizationTypes)
  <2>1. NormalizationTypes = {"batch", "group"} \cup {"none"} BY DEF NormalizationTypes
  <2> QED BY <1>1, <2>1, FS_Singleton, FS_Union, Zenon
<1>4. IsFiniteSet(ActivationTypes)
  <2>1. ActivationTypes = {"relu", "relu6"} \cup {"silu", "gelu"} \cup {"hardswish", "identity"}
    BY DEF ActivationTypes
  <2> QED BY <1>1, <2>1, FS_Union, Zenon
<1>5. IsFiniteSet(PoolingTypes) BY <1>1 DEF PoolingTypes
<1>6. /\ IsFiniteSet(1..4) /\ IsFiniteSet(1..8) /\ IsFiniteSet(1..16)
  <2>1. 0 \in Int /\ 1 \in Int /\ 4 \in Int /\ 8 \in Int /\ 16 \in Int OBVIOUS
  <2>2. IsFiniteSet(1..4) BY <2>1, FS_Interval
  <2>3. IsFiniteSet(1..8) BY <2>1, FS_Interval
  <2>4. IsFiniteSet(1..16) BY <2>1, FS_Interval
  <2> QED BY <2>2, <2>3, <2>4
<1>7. IsFiniteSet(OddKernels)
  <2>1. OddKernels \subseteq 1..8 BY DEF OddKernels
  <2> QED BY <1>6, <2>1, FS_Subset
<1>8. IsFiniteSet(BOOLEAN)
  <2>1. BOOLEAN = {TRUE, FALSE} OBVIOUS
  <2>2. IsFiniteSet({TRUE, FALSE}) BY <1>1
  <2> QED BY <2>1, <2>2
<1> QED BY <1>2, <1>3, <1>4, <1>5, <1>6, <1>7, <1>8

LEMMA SpaceFinite ==
    ASSUME NEW sp, SpaceValid(sp)
    PROVE  /\ IsFiniteSet(sp.num_stages) /\ IsFiniteSet(sp.blocks_per_stage)
           /\ IsFiniteSet(sp.stage_channels) /\ IsFiniteSet(sp.stage_strides)
           /\ IsFiniteSet(sp.block.op) /\ IsFiniteSet(sp.block.kernel)
           /\ IsFiniteSet(sp.block.expansion) /\ IsFiniteSet(sp.block.norm)
           /\ IsFiniteSet(sp.block.act)
           /\ IsFiniteSet(sp.stem.out) /\ IsFiniteSet(sp.stem.kernel)
           /\ IsFiniteSet(sp.stem.stride) /\ IsFiniteSet(sp.stem.norm)
           /\ IsFiniteSet(sp.stem.act)
           /\ IsFiniteSet(sp.head.pooling) /\ IsFiniteSet(sp.head.hidden)
           /\ IsFiniteSet(sp.head.dropout) /\ IsFiniteSet(sp.head.act)
<1>1. IsFiniteSet(sp.stage_channels) BY Zenon DEF SpaceValid
<1>2. BlockChoicesValid(sp.block) /\ StemChoicesValid(sp.stem) /\ HeadChoicesValid(sp.head)
  BY Zenon DEF SpaceValid
<1>3. IsFiniteSet(sp.block.expansion) BY <1>2, Zenon DEF BlockChoicesValid
<1>4. IsFiniteSet(sp.stem.out) BY <1>2, Zenon DEF StemChoicesValid
<1>5. IsFiniteSet(sp.head.hidden) BY <1>2, Zenon DEF HeadChoicesValid
<1>6. \A S, T : S \subseteq T /\ IsFiniteSet(T) => IsFiniteSet(S) BY FS_Subset
<1>7. /\ sp.stage_strides \subseteq 1..4
      /\ sp.num_stages \subseteq 1..8 /\ sp.blocks_per_stage \subseteq 1..16
      /\ sp.block.op \subseteq OperationTypes /\ sp.block.kernel \subseteq OddKernels
      /\ sp.block.norm \subseteq NormalizationTypes /\ sp.block.act \subseteq ActivationTypes
      /\ sp.stem.kernel \subseteq OddKernels /\ sp.stem.stride \subseteq 1..4
      /\ sp.stem.norm \subseteq NormalizationTypes /\ sp.stem.act \subseteq ActivationTypes
      /\ sp.head.pooling \subseteq PoolingTypes /\ sp.head.act \subseteq ActivationTypes
  BY ValidIs, Zenon DEF Typed
<1>8. IsFiniteSet(sp.head.dropout)
  <2>1. 0 \in Int /\ 9 * Unit \in Int BY RoundedIs
  <2>2. IsFiniteSet(0..9 * Unit) BY <2>1, FS_Interval
  <2>3. ASSUME NEW d \in sp.head.dropout PROVE d \in 0..9 * Unit
    <3>1. d \in Nat /\ 10 * d <= 9 * Unit BY ValidIs
    <3> QED BY <2>1, <3>1
  <2> QED BY <1>6, <2>2, <2>3
<1> QED BY <1>1, <1>3, <1>4, <1>5, <1>6, <1>7, <1>8, FiniteTypes, Zenon

\* What the sampler may put at a place whose width and stride are decided.
BlocksOf(sp, op, width, stride) ==
    {b \in BlockForms : /\ b.op = op /\ b.out = width
                        /\ UsesKernel(op) => b.kernel \in sp.block.kernel
                        /\ UsesExpansion(op) => b.expansion \in Rounded(sp).block.expansion
                        /\ Parametric(op) => b.norm \in sp.block.norm /\ b.act \in sp.block.act
                        /\ b.residual => sp.block.residual
                        /\ op # "identity" => b.stride = stride}

SomeBlocks(sp, width, stride) ==
    UNION {BlocksOf(sp, op, width, stride) : op \in sp.block.op}

BlocksForOp(sp, op) ==
    (IF UsesKernel(op) THEN Cardinality(sp.block.kernel) ELSE 1)
      * (IF UsesExpansion(op) THEN Cardinality(sp.block.expansion) ELSE 1)
      * (IF Parametric(op) THEN Cardinality(sp.block.norm) ELSE 1)
      * (IF Parametric(op) THEN Cardinality(sp.block.act) ELSE 1)
      * (IF sp.block.residual /\ op # "identity" THEN 2 ELSE 1)

LEMMA PerBlockChoicesAre ==
    ASSUME NEW sp
    PROVE  PerBlockChoices(sp) = SumOf([op \in sp.block.op |-> BlocksForOp(sp, op)])
<1>1. \A op : /\ UsesField(op, "kernel") = UsesKernel(op)
              /\ UsesField(op, "expansion") = UsesExpansion(op)
              /\ UsesField(op, "norm") = Parametric(op) /\ UsesField(op, "act") = Parametric(op)
  BY DEF UsesField, UsesKernel, UsesExpansion, Parametric
<1> QED BY <1>1, Zenon DEF PerBlockChoices, BlocksForOp

LEMMA BlocksOfBound ==
    ASSUME NEW sp, SpaceValid(sp), NEW op \in sp.block.op, NEW width, NEW stride
    PROVE  AtMostMany(BlocksOf(sp, op, width, stride), BlocksForOp(sp, op))
<1> DEFINE K == IF UsesKernel(op) THEN sp.block.kernel ELSE {1}
           E == IF UsesExpansion(op) THEN Rounded(sp).block.expansion ELSE {Unit}
           N == IF Parametric(op) THEN sp.block.norm ELSE {"none"}
           A == IF Parametric(op) THEN sp.block.act ELSE {"identity"}
           R == IF sp.block.residual /\ op # "identity" THEN BOOLEAN ELSE {FALSE}
           k == IF UsesKernel(op) THEN Cardinality(sp.block.kernel) ELSE 1
           e == IF UsesExpansion(op) THEN Cardinality(sp.block.expansion) ELSE 1
           n == IF Parametric(op) THEN Cardinality(sp.block.norm) ELSE 1
           a == IF Parametric(op) THEN Cardinality(sp.block.act) ELSE 1
           r == IF sp.block.residual /\ op # "identity" THEN 2 ELSE 1
<1>1. ASSUME NEW x PROVE AtMostMany({x}, 1) BY SingletonBound
<1>2. AtMostMany(K, k)
  <2>1. AtMostMany(sp.block.kernel, Cardinality(sp.block.kernel)) BY SpaceFinite, CountedSet
  <2> QED BY <1>1, <2>1
<1>3. AtMostMany(E, e)
  <2>1. AtMostMany(sp.block.expansion, Cardinality(sp.block.expansion)) BY SpaceFinite, CountedSet
  <2> DEFINE g == [v \in sp.block.expansion |-> Quantise(v)]
  <2>2. \A x \in Rounded(sp).block.expansion : \E v \in sp.block.expansion : g[v] = x
    BY RoundedAgrees DEF Ratios
  <2> HIDE DEF g
  <2>3. AtMostMany(Rounded(sp).block.expansion, Cardinality(sp.block.expansion))
    BY <2>1, <2>2, ImageBound
  <2> QED BY <1>1, <2>3
<1>4. AtMostMany(N, n)
  <2>1. AtMostMany(sp.block.norm, Cardinality(sp.block.norm)) BY SpaceFinite, CountedSet
  <2> QED BY <1>1, <2>1
<1>5. AtMostMany(A, a)
  <2>1. AtMostMany(sp.block.act, Cardinality(sp.block.act)) BY SpaceFinite, CountedSet
  <2> QED BY <1>1, <2>1
<1>6. AtMostMany(R, r)
  <2>1. AtMostMany({TRUE} \cup {FALSE}, 1 + 1)
    <3>1. AtMostMany({TRUE}, 1) /\ AtMostMany({FALSE}, 1) BY <1>1
    <3> QED BY <3>1, BothBound
  <2>2. BOOLEAN = {TRUE} \cup {FALSE} BY Zenon
  <2>3. AtMostMany(BOOLEAN, 2)
    <3>1. AtMostMany(BOOLEAN, 1 + 1) BY <2>1, <2>2
    <3>2. 1 + 1 = 2 OBVIOUS
    <3> QED BY <3>1, <3>2
  <2>4. AtMostMany({FALSE}, 1) BY <1>1
  <2> QED BY <2>3, <2>4
<1>7. BlocksForOp(sp, op) = k * e * n * a * r BY Zenon DEF BlocksForOp
<1> DEFINE Options == (((K \X E) \X N) \X A) \X R
           f == [t \in Options |->
                   [op |-> op, kernel |-> t[1][1][1][1], expansion |-> t[1][1][1][2],
                    out |-> width, stride |-> IF op = "identity" THEN 1 ELSE stride,
                    residual |-> t[2], norm |-> t[1][1][2], act |-> t[1][2]]]
<1>8. ASSUME NEW b \in BlocksOf(sp, op, width, stride)
      PROVE  /\ b.op = op /\ b.out = width /\ b \in RawBlocks
             /\ b.kernel \in K /\ b.expansion \in E /\ b.norm \in N /\ b.act \in A
             /\ b.residual \in R /\ b.stride = IF op = "identity" THEN 1 ELSE stride
  <2>1. /\ b \in BlockForms /\ b \in RawBlocks /\ b.op = op /\ b.out = width
        /\ UsesKernel(op) => b.kernel \in sp.block.kernel
        /\ UsesExpansion(op) => b.expansion \in Rounded(sp).block.expansion
        /\ Parametric(op) => b.norm \in sp.block.norm /\ b.act \in sp.block.act
        /\ b.residual => sp.block.residual
        /\ op # "identity" => b.stride = stride
    BY DEF BlocksOf, BlockForms
  <2>2. /\ ~UsesKernel(op) => b.kernel = 1
        /\ ~UsesExpansion(op) => b.expansion = Unit
        /\ op = "identity" => b.stride = 1 /\ ~b.residual
        /\ ~Parametric(op) => b.norm = "none" /\ b.act = "identity"
    BY <2>1, NormalForm
  <2>3. b.residual \in BOOLEAN BY <2>1 DEF RawBlocks
  <2>4. b.residual \in R BY <2>1, <2>2, <2>3
  <2> QED BY <2>1, <2>2, <2>4
<1> HIDE DEF K, E, N, A, R, k, e, n, a, r
<1>9. AtMostMany(Options, k * e * n * a * r)
  <2>1. AtMostMany(K \X E, k * e) BY <1>2, <1>3, ProductBound
  <2>2. AtMostMany((K \X E) \X N, k * e * n) BY <1>4, <2>1, ProductBound
  <2>3. AtMostMany(((K \X E) \X N) \X A, k * e * n * a) BY <1>5, <2>2, ProductBound
  <2> QED BY <1>6, <2>3, ProductBound
<1>10. ASSUME NEW b \in BlocksOf(sp, op, width, stride) PROVE \E t \in Options : f[t] = b
  <2> DEFINE t == <<<<<<<<b.kernel, b.expansion>>, b.norm>>, b.act>>, b.residual>>
  <2>1. t \in Options BY <1>8
  <2>2. f[t] = [op |-> op, kernel |-> b.kernel, expansion |-> b.expansion,
                out |-> width, stride |-> IF op = "identity" THEN 1 ELSE stride,
                residual |-> b.residual, norm |-> b.norm, act |-> b.act]
    BY <2>1
  <2>3. b = [op |-> b.op, kernel |-> b.kernel, expansion |-> b.expansion, out |-> b.out,
             stride |-> b.stride, residual |-> b.residual, norm |-> b.norm, act |-> b.act]
    BY <1>8 DEF RawBlocks
  <2> HIDE DEF t, f, Options
  <2>4. f[t] = b BY <1>8, <2>2, <2>3
  <2> QED BY <2>1, <2>4
<1> HIDE DEF Options, f
<1> QED BY <1>7, <1>9, <1>10, ImageBound

LEMMA BlocksBound ==
    ASSUME NEW sp, SpaceValid(sp), NEW width, NEW stride
    PROVE  AtMostMany(SomeBlocks(sp, width, stride), PerBlockChoices(sp))
<1> DEFINE S == sp.block.op
           h == [op \in S |-> BlocksForOp(sp, op)]
           f == [op \in S |-> BlocksOf(sp, op, width, stride)]
<1>1. \A op \in S : AtMostMany(f[op], h[op]) BY BlocksOfBound
<1>2. h = [op \in S |-> h[op]] OBVIOUS
<1>3. SomeBlocks(sp, width, stride) = UNION {f[op] : op \in S} BY DEF SomeBlocks
<1>4. PerBlockChoices(sp) = SumOf(h) BY PerBlockChoicesAre
<1>5. IsFiniteSet(S) BY SpaceFinite
<1> HIDE DEF S, h, f
<1>6. AtMostMany(UNION {f[op] : op \in S}, SumOf(h)) BY <1>1, <1>2, <1>5, SumBound
<1> QED BY <1>3, <1>4, <1>6

LEMMA OfferedBlock ==
    ASSUME NEW sp, NEW b \in BlockForms, NEW first \in BOOLEAN, BlockOffered(b, first, Rounded(sp)),
           NEW stride, b.op # "identity" => b.stride = stride
    PROVE  b \in SomeBlocks(sp, b.out, stride)
<1>1. b.op \in sp.block.op BY RoundedAgrees DEF BlockOffered
<1>2. b \in BlocksOf(sp, b.op, b.out, stride) BY RoundedAgrees DEF BlockOffered, BlocksOf
<1> QED BY <1>1, <1>2 DEF SomeBlocks

\* The stages of one depth, width and stride.
StagesOf(sp, depth, width, stride) ==
    {stage \in StageForms : /\ Len(stage) = depth
                            /\ stage[1] \in SomeBlocks(sp, width, stride)
                            /\ \A i \in 2..depth : stage[i] \in SomeBlocks(sp, width, 1)}

StagesOfDepth(sp, depth) ==
    UNION {UNION {StagesOf(sp, depth, width, stride) : stride \in sp.stage_strides} :
           width \in sp.stage_channels}

SomeStages(sp) == UNION {StagesOfDepth(sp, depth) : depth \in sp.blocks_per_stage}

LEMMA StagesOfBound ==
    ASSUME NEW sp, SpaceValid(sp), NEW depth \in sp.blocks_per_stage, NEW width, NEW stride
    PROVE  AtMostMany(StagesOf(sp, depth, width, stride), Power(PerBlockChoices(sp), depth))
<1> DEFINE n == PerBlockChoices(sp)
           F == SomeBlocks(sp, width, stride)
           G == SomeBlocks(sp, width, 1)
           rest == [1..depth - 1 -> G]
           P == F \X rest
           f == [p \in P |-> [i \in 1..depth |-> IF i = 1 THEN p[1] ELSE p[2][i - 1]]]
<1>1. AtMostMany(F, n) /\ AtMostMany(G, n) BY BlocksBound
<1>2. depth \in 1..16 BY ValidIs DEF Typed
<1>3. ASSUME NEW stage \in StagesOf(sp, depth, width, stride)
      PROVE  /\ stage = [i \in 1..depth |-> stage[i]] /\ stage[1] \in F
             /\ \A i \in 2..depth : stage[i] \in G
  <2>1. stage \in Seq(BlockForms) /\ Len(stage) = depth BY DEF StagesOf, StageForms
  <2>2. stage[1] \in F /\ \A i \in 2..depth : stage[i] \in G BY DEF StagesOf
  <2> HIDE DEF F, G
  <2> QED BY <2>1, <2>2
<1> HIDE DEF n, F, G
<1>4. n \in Nat /\ AtMostMany(rest, Power(n, depth - 1))
  <2>1. depth - 1 \in Nat BY <1>2
  <2> QED BY <1>1, <2>1, FunctionsBound DEF AtMostMany
<1> HIDE DEF rest
<1>5. AtMostMany(P, n * Power(n, depth - 1)) BY <1>1, <1>4, ProductBound
<1>6. n * Power(n, depth - 1) = Power(n, depth)
  <2>1. depth - 1 \in Nat /\ (depth - 1) + 1 = depth BY <1>2
  <2> DEFINE d == depth - 1
  <2>2. d \in Nat /\ d + 1 = depth BY <2>1
  <2> HIDE DEF d
  <2>3. Power(n, d + 1) = Power(n, d) * n /\ Power(n, d) \in Nat BY <1>4, <2>2, PowerIs
  <2>4. Power(n, d) * n = n * Power(n, d) BY <1>4, <2>3
  <2> QED BY <2>2, <2>3, <2>4 DEF d
<1>7. ASSUME NEW stage \in StagesOf(sp, depth, width, stride) PROVE \E p \in P : f[p] = stage
  <2> DEFINE z == [i \in 1..depth - 1 |-> stage[i + 1]]
             p == <<stage[1], z>>
  <2>1. \A i \in 1..depth - 1 : i + 1 \in 2..depth BY <1>2
  <2>2. z \in rest BY <1>3, <2>1 DEF rest
  <2>3. p \in P /\ p[1] = stage[1] /\ p[2] = z BY <1>3, <2>2
  <2>4. \A i \in 1..depth : (IF i = 1 THEN p[1] ELSE p[2][i - 1]) = stage[i]
    <3> SUFFICES ASSUME NEW i \in 1..depth, i # 1 PROVE p[2][i - 1] = stage[i] BY <2>3
    <3>1. i - 1 \in 1..depth - 1 /\ (i - 1) + 1 = i BY <1>2
    <3> QED BY <2>3, <3>1
  <2>5. f[p] = [i \in 1..depth |-> IF i = 1 THEN p[1] ELSE p[2][i - 1]] BY <2>3
  <2> HIDE DEF p, f, P
  <2>6. f[p] = stage BY <1>3, <2>4, <2>5
  <2> QED BY <2>3, <2>6
<1> HIDE DEF P, f
<1>8. AtMostMany(StagesOf(sp, depth, width, stride), n * Power(n, depth - 1))
  BY <1>5, <1>7, ImageBound
<1> QED BY <1>6, <1>8 DEF n

LEMMA StagesBound ==
    ASSUME NEW sp, SpaceValid(sp)
    PROVE  AtMostMany(SomeStages(sp), PerStageChoices(sp))
<1> DEFINE D == sp.blocks_per_stage
           W == sp.stage_channels
           T == sp.stage_strides
           w == Cardinality(W)
           t == Cardinality(T)
           pow(d) == Power(PerBlockChoices(sp), d)
           h == [d \in D |-> w * t * pow(d)]
           f == [d \in D |-> StagesOfDepth(sp, d)]
<1>1. IsFiniteSet(D) /\ AtMostMany(W, w) /\ AtMostMany(T, t) /\ w \in Nat /\ t \in Nat
  BY SpaceFinite, CountedSet
<1>2. ASSUME NEW d \in D PROVE AtMostMany(StagesOfDepth(sp, d), w * t * pow(d))
  <2> DEFINE n == pow(d)
             of(width) == [stride \in T |-> StagesOf(sp, d, width, stride)]
             g == [width \in W |-> UNION {of(width)[stride] : stride \in T}]
  <2>1. ASSUME NEW width, NEW stride PROVE AtMostMany(StagesOf(sp, d, width, stride), n)
    BY <1>2, StagesOfBound
  <2>2. n \in Nat BY <2>1 DEF AtMostMany
  <2> HIDE DEF n
  <2>3. ASSUME NEW width \in W PROVE AtMostMany(g[width], t * n)
    <3> DEFINE o == of(width)
    <3>1. \A stride \in T : AtMostMany(o[stride], n) BY <2>1
    <3>2. g[width] = UNION {o[stride] : stride \in T} BY <2>3
    <3> HIDE DEF o, g, T, t
    <3>3. AtMostMany(UNION {o[stride] : stride \in T}, t * n) BY <1>1, <2>2, <3>1, UnionBound
    <3> QED BY <3>2, <3>3
  <2>4. StagesOfDepth(sp, d) = UNION {g[width] : width \in W}
    <3>1. \A width \in W : g[width] = UNION {StagesOf(sp, d, width, stride) : stride \in T}
      OBVIOUS
    <3> HIDE DEF g
    <3> QED BY <3>1 DEF StagesOfDepth
  <2> HIDE DEF g, W, T, w, t
  <2>5. t * n \in Nat BY <1>1, <2>2
  <2>6. AtMostMany(UNION {g[width] : width \in W}, w * (t * n)) BY <1>1, <2>3, <2>5, UnionBound
  <2>7. w * (t * n) = w * t * n BY <1>1, <2>2
  <2> QED BY <2>4, <2>6, <2>7 DEF n
<1>3. PerStageChoices(sp) = SumOf(h) BY DEF PerStageChoices
<1> HIDE DEF pow
<1>4. h = [d \in D |-> h[d]] OBVIOUS
<1>5. \A d \in D : AtMostMany(f[d], h[d]) BY <1>2
<1>6. SomeStages(sp) = UNION {f[d] : d \in D} BY DEF SomeStages
<1> HIDE DEF D, h, f
<1>7. AtMostMany(UNION {f[d] : d \in D}, SumOf(h)) BY <1>1, <1>4, <1>5, SumBound
<1> QED BY <1>3, <1>6, <1>7

LEMMA DrawnAmongStages ==
    ASSUME NEW sp, SpaceValid(sp), NEW stage, NEW in, NEW width \in sp.stage_channels,
           DrawnStage(stage, Rounded(sp), in, width)
    PROVE  stage \in SomeStages(sp)
<1>1. /\ stage \in StageForms /\ Len(stage) \in sp.blocks_per_stage
      /\ Len(stage) \in Nat /\ Len(stage) >= 1
      /\ \A i \in 1..Len(stage) : /\ stage[i] \in BlockForms /\ stage[i].out = width
                                  /\ BlockOffered(stage[i], i = 1, Rounded(sp))
  BY StageIs, RoundedAgrees DEF DrawnStage
<1>2. 1 \in 1..Len(stage) /\ (1 = 1) = TRUE BY <1>1
<1>3. BlockOffered(stage[1], TRUE, Rounded(sp)) /\ stage[1] \in BlockForms /\ stage[1].out = width
  BY <1>1, <1>2
<1>4. PICK stride \in sp.stage_strides : stage[1].op # "identity" => stage[1].stride = stride
  <2>1. sp.stage_strides # {} BY Zenon DEF SpaceValid
  <2>2. stage[1].op # "identity" => stage[1].stride \in sp.stage_strides BY <1>3, RoundedAgrees DEF BlockOffered
  <2> QED BY <2>1, <2>2
<1>5. stage[1] \in SomeBlocks(sp, width, stride) BY <1>3, <1>4, OfferedBlock
<1>6. ASSUME NEW i \in 2..Len(stage) PROVE stage[i] \in SomeBlocks(sp, width, 1)
  <2>1. i \in 1..Len(stage) /\ (i = 1) = FALSE BY <1>1
  <2>2. BlockOffered(stage[i], FALSE, Rounded(sp)) /\ stage[i] \in BlockForms /\ stage[i].out = width
    BY <1>1, <2>1
  <2>3. stage[i].op # "identity" => stage[i].stride = 1 BY <2>2 DEF BlockOffered
  <2> QED BY <2>2, <2>3, OfferedBlock
<1>7. stage \in StagesOf(sp, Len(stage), width, stride) BY <1>1, <1>5, <1>6 DEF StagesOf
<1>8. stage \in StagesOfDepth(sp, Len(stage)) BY <1>7 DEF StagesOfDepth
<1> QED BY <1>1, <1>8 DEF SomeStages

SomeBodies(sp) == UNION {[1..n -> SomeStages(sp)] : n \in sp.num_stages}

BodiesUpTo(sp) == SumOf([n \in sp.num_stages |-> Power(PerStageChoices(sp), n)])

LEMMA BodiesBound ==
    ASSUME NEW sp, SpaceValid(sp)
    PROVE  AtMostMany(SomeBodies(sp), BodiesUpTo(sp))
<1> DEFINE N == sp.num_stages
           h == [n \in N |-> Power(PerStageChoices(sp), n)]
           f == [n \in N |-> [1..n -> SomeStages(sp)]]
<1>1. IsFiniteSet(N) /\ N \subseteq 1..8 BY SpaceFinite, ValidIs DEF Typed
<1>2. ASSUME NEW n \in N PROVE AtMostMany(f[n], h[n])
  <2>1. n \in Nat BY <1>1
  <2>2. AtMostMany(SomeStages(sp), PerStageChoices(sp)) BY StagesBound
  <2>3. AtMostMany([1..n -> SomeStages(sp)], Power(PerStageChoices(sp), n))
    BY <2>1, <2>2, FunctionsBound
  <2> QED BY <2>3
<1>3. h = [n \in N |-> h[n]] OBVIOUS
<1>4. SomeBodies(sp) = UNION {f[n] : n \in N} /\ BodiesUpTo(sp) = SumOf(h)
  BY DEF SomeBodies, BodiesUpTo
<1> HIDE DEF N, h, f
<1>5. AtMostMany(UNION {f[n] : n \in N}, SumOf(h)) BY <1>1, <1>2, <1>3, SumBound
<1> QED BY <1>4, <1>5

StemsOffered(sp) ==
    Cardinality(sp.stem.out) * Cardinality(sp.stem.kernel) * Cardinality(sp.stem.stride)
      * Cardinality(sp.stem.norm) * Cardinality(sp.stem.act)

HeadsOffered(sp) ==
    Cardinality(sp.head.pooling) * Cardinality(sp.head.hidden) * Cardinality(sp.head.dropout)
      * Cardinality(sp.head.act)

LEMMA StemsBound ==
    ASSUME NEW sp, SpaceValid(sp)
    PROVE  AtMostMany(DrawnStems(sp), StemsOffered(sp))
<1> DEFINE O == sp.stem.out
           K == sp.stem.kernel
           S == sp.stem.stride
           N == sp.stem.norm
           A == sp.stem.act
           P == (((O \X K) \X S) \X N) \X A
           f == [p \in P |-> [out |-> p[1][1][1][1], kernel |-> p[1][1][1][2],
                              stride |-> p[1][1][2], norm |-> p[1][2], act |-> p[2]]]
           o == Cardinality(O)
           k == Cardinality(K)
           s == Cardinality(S)
           n == Cardinality(N)
           a == Cardinality(A)
<1>1. /\ AtMostMany(O, o) /\ AtMostMany(K, k) /\ AtMostMany(S, s)
      /\ AtMostMany(N, n) /\ AtMostMany(A, a)
  BY SpaceFinite, CountedSet
<1>2. /\ StemsOffered(sp) = o * k * s * n * a
      /\ DrawnStems(sp) = [out : O, kernel : K, stride : S, norm : N, act : A]
  BY Zenon DEF StemsOffered, DrawnStems
<1> HIDE DEF O, K, S, N, A, o, k, s, n, a
<1>3. AtMostMany(P, o * k * s * n * a)
  <2>1. AtMostMany(O \X K, o * k) BY <1>1, ProductBound
  <2>2. AtMostMany((O \X K) \X S, o * k * s) BY <1>1, <2>1, ProductBound
  <2>3. AtMostMany(((O \X K) \X S) \X N, o * k * s * n) BY <1>1, <2>2, ProductBound
  <2> QED BY <1>1, <2>3, ProductBound
<1>4. ASSUME NEW stem \in [out : O, kernel : K, stride : S, norm : N, act : A]
      PROVE  \E p \in P : f[p] = stem
  <2> DEFINE p == <<<<<<<<stem.out, stem.kernel>>, stem.stride>>, stem.norm>>, stem.act>>
  <2>1. p \in P OBVIOUS
  <2>2. f[p] = [out |-> stem.out, kernel |-> stem.kernel, stride |-> stem.stride,
                norm |-> stem.norm, act |-> stem.act]
    BY <2>1
  <2> HIDE DEF p, f, P
  <2> QED BY <2>1, <2>2
<1> DEFINE T == [out : O, kernel : K, stride : S, norm : N, act : A]
           m == o * k * s * n * a
<1>5. AtMostMany(P, m) /\ \A stem \in T : \E p \in P : f[p] = stem BY <1>3, <1>4
<1>6. StemsOffered(sp) = m /\ DrawnStems(sp) = T BY <1>2
<1> HIDE DEF P, f, T, m
<1>7. AtMostMany(T, m) BY <1>5, ImageBound
<1> QED BY <1>6, <1>7

LEMMA HeadsBound ==
    ASSUME NEW sp, SpaceValid(sp)
    PROVE  AtMostMany(DrawnHeads(sp), HeadsOffered(sp))
<1> DEFINE Q == sp.head.pooling
           H == sp.head.hidden
           D == sp.head.dropout
           A == sp.head.act
           raws == [pooling : Q, hidden : H, dropout : D, act : A]
           P == ((Q \X H) \X D) \X A
           f == [p \in P |-> CanonicalHead([pooling |-> p[1][1][1], hidden |-> p[1][1][2],
                                            dropout |-> p[1][2], act |-> p[2]])]
           q == Cardinality(Q)
           h == Cardinality(H)
           d == Cardinality(D)
           a == Cardinality(A)
<1>1. AtMostMany(Q, q) /\ AtMostMany(H, h) /\ AtMostMany(D, d) /\ AtMostMany(A, a)
  BY SpaceFinite, CountedSet
<1>2. /\ HeadsOffered(sp) = q * h * d * a
      /\ DrawnHeads(sp) = {CanonicalHead(raw) : raw \in raws}
  BY Zenon DEF HeadsOffered, DrawnHeads
<1> HIDE DEF Q, H, D, A, q, h, d, a
<1>3. AtMostMany(P, q * h * d * a)
  <2>1. AtMostMany(Q \X H, q * h) BY <1>1, ProductBound
  <2>2. AtMostMany((Q \X H) \X D, q * h * d) BY <1>1, <2>1, ProductBound
  <2> QED BY <1>1, <2>2, ProductBound
<1>4. ASSUME NEW head \in {CanonicalHead(raw) : raw \in raws} PROVE \E p \in P : f[p] = head
  <2>1. PICK raw \in raws : head = CanonicalHead(raw) OBVIOUS
  <2> DEFINE p == <<<<<<raw.pooling, raw.hidden>>, raw.dropout>>, raw.act>>
  <2>2. p \in P /\ p = <<<<<<raw.pooling, raw.hidden>>, raw.dropout>>, raw.act>> BY <2>1
  <2>3. raw = [pooling |-> p[1][1][1], hidden |-> p[1][1][2], dropout |-> p[1][2], act |-> p[2]]
    <3>1. raw = [pooling |-> raw.pooling, hidden |-> raw.hidden,
                 dropout |-> raw.dropout, act |-> raw.act]
      BY <2>1
    <3> QED BY <2>2, <3>1
  <2>4. f[p] = CanonicalHead([pooling |-> p[1][1][1], hidden |-> p[1][1][2],
                              dropout |-> p[1][2], act |-> p[2]])
    <3> HIDE DEF p
    <3> QED BY <2>2
  <2> HIDE DEF p, f, P
  <2> QED BY <2>1, <2>2, <2>3, <2>4
<1> DEFINE T == {CanonicalHead(raw) : raw \in raws}
           m == q * h * d * a
<1>5. AtMostMany(P, m) /\ \A head \in T : \E p \in P : f[p] = head BY <1>3, <1>4
<1>6. HeadsOffered(sp) = m /\ DrawnHeads(sp) = T BY <1>2
<1> HIDE DEF P, f, T, m
<1>7. AtMostMany(T, m) BY <1>5, ImageBound
<1> QED BY <1>6, <1>7

\* cardinality_upper_bound bounds what the sampler can draw.
LEMMA DrawsBound ==
    ASSUME NEW sp, SpaceValid(sp)
    PROVE  Cardinality(Draws(sp)) <= UpperBound(sp)
<1> DEFINE P == (DrawnStems(sp) \X DrawnHeads(sp)) \X SomeBodies(sp)
           f == [p \in P |-> [channels |-> sp.channels, size |-> sp.size,
                              classes |-> sp.classes, stem |-> p[1][1], stages |-> p[2],
                              head |-> p[1][2]]]
           s == StemsOffered(sp)
           h == HeadsOffered(sp)
           b == BodiesUpTo(sp)
<1>1. UpperBound(sp) = s * h * b
  BY Zenon DEF UpperBound, StemsOffered, HeadsOffered, BodiesUpTo
<1>2. AtMostMany(P, s * h * b)
  <2> HIDE DEF s, h, b
  <2>1. AtMostMany(DrawnStems(sp), s) BY StemsBound DEF s
  <2>2. AtMostMany(DrawnHeads(sp), h) BY HeadsBound DEF h
  <2>3. AtMostMany(SomeBodies(sp), b) BY BodiesBound DEF b
  <2>4. AtMostMany(DrawnStems(sp) \X DrawnHeads(sp), s * h) BY <2>1, <2>2, ProductBound
  <2> QED BY <2>3, <2>4, ProductBound
<1>3. ASSUME NEW raw \in Drafts(sp) PROVE \E p \in P : f[p] = raw
  <2>1. PICK stem \in DrawnStems(sp), n \in sp.num_stages : \E w \in DrawnWidths(sp, n) :
           /\ raw.stem = stem /\ raw.stages \in DrawnBodies(sp, stem.out, w)
           /\ raw.head \in DrawnHeads(sp)
           /\ raw = [channels |-> sp.channels, size |-> sp.size, classes |-> sp.classes,
                     stem |-> stem, stages |-> raw.stages, head |-> raw.head]
    BY DrawParts
  <2>2. PICK w \in DrawnWidths(sp, n) :
           /\ raw.stem = stem /\ raw.stages \in DrawnBodies(sp, stem.out, w)
           /\ raw.head \in DrawnHeads(sp)
           /\ raw = [channels |-> sp.channels, size |-> sp.size, classes |-> sp.classes,
                     stem |-> stem, stages |-> raw.stages, head |-> raw.head]
    BY <2>1
  <2>3. n \in Nat /\ sp.stage_channels \subseteq Positive
    <3>1. n \in 1..8 /\ sp.stage_channels \subseteq Positive BY ValidIs DEF Typed
    <3> QED BY <3>1
  <2>4. w \in [1..n -> Positive] /\ \A i \in 1..n : w[i] \in sp.stage_channels
    BY <2>3 DEF DrawnWidths
  <2>5. stem.out \in Positive
    <3>1. stem \in StemForms BY <2>2, DrawnFrameIs
    <3> QED BY <3>1 DEF StemForms
  <2>6. /\ raw.stages \in Seq(StageForms) /\ Len(raw.stages) = n
        /\ \A i \in 1..n : DrawnStage(raw.stages[i], Rounded(sp), Behind(stem.out, w, i), w[i])
    BY <2>2, <2>3, <2>4, <2>5, DrawnBodyIs
  <2>7. \A i \in 1..n : raw.stages[i] \in SomeStages(sp) BY <2>4, <2>6, DrawnAmongStages
  <2>8. raw.stages \in [1..n -> SomeStages(sp)]
    <3>1. raw.stages = [i \in 1..n |-> raw.stages[i]] BY <2>6
    <3> QED BY <2>7, <3>1
  <2>9. raw.stages \in SomeBodies(sp) BY <2>8 DEF SomeBodies
  <2> DEFINE p == <<<<stem, raw.head>>, raw.stages>>
  <2>10. p \in P /\ p[1][1] = stem /\ p[1][2] = raw.head /\ p[2] = raw.stages BY <2>2, <2>9
  <2>11. f[p] = [channels |-> sp.channels, size |-> sp.size, classes |-> sp.classes,
                 stem |-> p[1][1], stages |-> p[2], head |-> p[1][2]]
    <3> HIDE DEF p
    <3> QED BY <2>10
  <2> HIDE DEF p, f, P
  <2> QED BY <2>2, <2>10, <2>11
<1> HIDE DEF P, f, s, h, b
<1>4. AtMostMany(Drafts(sp), s * h * b) BY <1>2, <1>3, ImageBound
<1>5. AtMostMany(Draws(sp), s * h * b)
  <2>1. Draws(sp) \in SUBSET Drafts(sp) BY DEF Draws
  <2> DEFINE m == s * h * b
  <2>2. AtMostMany(Drafts(sp), m) /\ m \in Nat /\ m <= m BY <1>4 DEF AtMostMany
  <2> HIDE DEF m
  <2>3. AtMostMany(Draws(sp), m) BY <2>1, <2>2, SmallerSet
  <2> QED BY <2>3 DEF m
<1> QED BY <1>1, <1>5 DEF AtMostMany

-----------------------------------------------------------------------------
(***************************************************************************)
(* The least a network costs.                                              *)
(***************************************************************************)
Payers == {u \in UnitRecords : u.trainable \in Nat}

\* These units train k parameters or more.
CostsAtLeast(units, k) ==
    units \in Seq(Payers) /\ k \in Nat /\ Total(units, "trainable") >= k

LEMMA PayersAre == \A u \in Payers : u["trainable"] \in Int
BY DEF Payers

LEMMA CostOfNone == CostsAtLeast(<<>>, 0)
<1>1. <<>> \in Seq(Payers) /\ Total(<<>>, "trainable") = 0 BY TotalOfNone
<1> QED BY <1>1 DEF CostsAtLeast

LEMMA CostOfOne ==
    ASSUME NEW u \in Payers, NEW k \in Nat, u.trainable >= k
    PROVE  CostsAtLeast(<<u>>, k)
<1>1. <<u>> \in Seq(Payers) OBVIOUS
<1>2. u["trainable"] = u.trainable /\ u["trainable"] \in Int BY PayersAre
<1>3. Total(<<u>>, "trainable") = u["trainable"] BY <1>2, TotalOfOne
<1> QED BY <1>1, <1>2, <1>3 DEF CostsAtLeast

LEMMA CostOfBoth ==
    ASSUME NEW p, NEW j, CostsAtLeast(p, j), NEW q, NEW k, CostsAtLeast(q, k)
    PROVE  CostsAtLeast(p \o q, j + k)
<1>1. p \in Seq(Payers) /\ q \in Seq(Payers) /\ j \in Nat /\ k \in Nat BY DEF CostsAtLeast
<1>2. /\ Total(p \o q, "trainable") = Total(p, "trainable") + Total(q, "trainable")
      /\ Total(p, "trainable") \in Int /\ Total(q, "trainable") \in Int
  BY <1>1, PayersAre, TotalOfBoth
<1>3. p \o q \in Seq(Payers) BY <1>1, ConcatProperties
<1>4. Total(p, "trainable") >= j /\ Total(q, "trainable") >= k BY DEF CostsAtLeast
<1>5. j + k \in Nat /\ Total(p \o q, "trainable") >= j + k
  <2> DEFINE x == Total(p, "trainable")
             y == Total(q, "trainable")
             z == Total(p \o q, "trainable")
  <2>1. z = x + y /\ x \in Int /\ y \in Int /\ x >= j /\ y >= k BY <1>2, <1>4
  <2> HIDE DEF x, y, z
  <2>2. z >= j + k BY <1>1, <2>1
  <2> QED BY <1>1, <2>2 DEF z
<1> QED BY <1>3, <1>5 DEF CostsAtLeast

\* A sequence of sequences costs what one of them does.
LEMMA CostOfPart ==
    ASSUME NEW n \in Nat, NEW seqs, seqs = [i \in 1..n |-> seqs[i]],
           \A i \in 1..n : CostsAtLeast(seqs[i], 0),
           NEW c \in 1..n, NEW k, CostsAtLeast(seqs[c], k)
    PROVE  CostsAtLeast(FlattenSeq(seqs), k)
<1>1. seqs \in Seq(Seq(Payers)) /\ Len(seqs) = n /\ n >= 1 /\ k \in Nat
  <2>1. \A i \in 1..n : seqs[i] \in Seq(Payers) BY DEF CostsAtLeast
  <2>2. seqs \in Seq(Seq(Payers)) /\ Len(seqs) = n BY <2>1, ListIs
  <2> QED BY <2>2 DEF CostsAtLeast
<1>2. PICK t : Joins(t, seqs, Payers) BY <1>1, FlattenIs
<1>3. /\ t[1] = seqs[1] /\ FlattenSeq(seqs) = t[n]
      /\ \A i \in 2..n : t[i] = t[i - 1] \o seqs[i]
  BY <1>1, <1>2 DEF Joins
<1> DEFINE due(i) == IF c <= i THEN k ELSE 0
           G == {i \in 0..n - 1 : CostsAtLeast(t[i + 1], due(i + 1))}
<1>4. 0 \in G
  <2>1. 0 + 1 = 1 /\ 0 \in 0..n - 1 /\ 1 \in 1..n BY <1>1
  <2>2. CASE c = 1 BY <1>3, <2>1, <2>2
  <2>3. CASE c # 1
    <3>1. due(1) = 0 BY <2>3
    <3> QED BY <1>3, <2>1, <3>1
  <2> QED BY <2>2, <2>3
<1>5. ASSUME NEW i \in 1..n - 1, i - 1 \in G PROVE i \in G
  <2>1. (i - 1) + 1 = i /\ i + 1 \in 2..n /\ i + 1 \in 1..n /\ (i + 1) - 1 = i /\ i \in 0..n - 1
    BY <1>1
  <2>2. CostsAtLeast(t[i], due(i)) BY <1>5, <2>1
  <2>3. t[i + 1] = t[i] \o seqs[i + 1] BY <1>3, <2>1
  <2>4. CASE c = i + 1
    <3>1. due(i) = 0 /\ due(i + 1) = k BY <1>1, <2>4
    <3>2. CostsAtLeast(seqs[i + 1], k) BY <2>4
    <3>3. CostsAtLeast(t[i] \o seqs[i + 1], 0 + k)
      <4> HIDE DEF due
      <4> QED BY <2>2, <3>1, <3>2, CostOfBoth
    <3>4. 0 + k = k BY <1>1
    <3> HIDE DEF due
    <3>5. CostsAtLeast(t[i + 1], due(i + 1)) BY <2>3, <3>1, <3>3, <3>4
    <3> QED BY <2>1, <3>5
  <2>5. CASE c # i + 1
    <3>1. due(i + 1) = due(i) /\ due(i) + 0 = due(i) BY <1>1, <2>5
    <3>2. CostsAtLeast(seqs[i + 1], 0) BY <2>1
    <3> HIDE DEF due
    <3>3. CostsAtLeast(t[i] \o seqs[i + 1], due(i) + 0) BY <2>2, <3>2, CostOfBoth
    <3>4. CostsAtLeast(t[i + 1], due(i + 1)) BY <2>3, <3>1, <3>3
    <3> QED BY <2>1, <3>4
  <2> QED BY <2>4, <2>5
<1>6. \A i \in 0..n - 1 : i \in G
  <2> HIDE DEF G
  <2>1. n - 1 \in Nat BY <1>1
  <2> QED BY <1>4, <1>5, <2>1, UpTheInterval
<1>7. n - 1 \in 0..n - 1 /\ (n - 1) + 1 = n /\ due(n) = k BY <1>1
<1>8. CostsAtLeast(t[n], due(n)) BY <1>6, <1>7
<1> QED BY <1>3, <1>7, <1>8

\* A dense convolution has a weight for each pair of channels.
LEMMA UnitCosts ==
    ASSUME NEW in \in Positive, NEW out \in Positive, NEW k \in OddKernels, NEW g \in Positive,
           NEW norm \in NormalizationTypes, NEW size \in Int
    PROVE  LET u == UnitCost(in, out, k, g, norm, size)
           IN u \in Payers /\ (g = 1 => u.trainable >= out * in)
<1> DEFINE u == UnitCost(in, out, k, g, norm, size)
           d == in \div g
           x == out * d
           y == x * k
           z == y * k
           rest == (IF norm = "none" THEN out ELSE 0) + NormTrainable(norm, out)
<1>1. in \in Nat /\ out \in Nat /\ in >= 1 /\ out >= 1 /\ k \in Nat /\ k >= 1 /\ g \in Nat /\ g >= 1
  BY DEF Positive, OddKernels
<1>2. u \in UnitRecords
  <2>1. in \in Int /\ out \in Int /\ k \in Int BY <1>1
  <2>2. Matches(<<u>>, <<Module("conv", in, out, k, g, norm = "none"), Normalization(norm, out)>>)
    BY <2>1, UnitMatches
  <2>3. <<u>> \in Seq(UnitRecords) BY <2>2 DEF Matches
  <2> HIDE DEF u
  <2> QED BY <2>3
<1>3. d \in Nat /\ (g = 1 => d = in) BY <1>1
<1> HIDE DEF d
<1>4. x \in Nat /\ (g = 1 => x = out * in) BY <1>1, <1>3
<1> HIDE DEF x
<1>5. y \in Nat /\ y >= x BY <1>1, <1>4
<1> HIDE DEF y
<1>6. z \in Nat /\ z >= y BY <1>1, <1>5
<1> HIDE DEF z
<1>7. rest \in Nat BY <1>1 DEF NormTrainable
<1>8. u.trainable = z + rest
  <2>1. u.trainable = ConvParameters(in, out, k, g, norm = "none") + NormTrainable(norm, out)
    BY DEF UnitCost
  <2>2. ConvParameters(in, out, k, g, norm = "none") = z + (IF norm = "none" THEN out ELSE 0)
    BY DEF ConvParameters, z, y, x, d
  <2>3. (IF norm = "none" THEN out ELSE 0) \in Int /\ NormTrainable(norm, out) \in Int
    BY <1>1 DEF NormTrainable
  <2> HIDE DEF u
  <2> QED BY <1>6, <2>1, <2>2, <2>3
<1> HIDE DEF u, rest
<1>9. u.trainable \in Nat /\ u.trainable >= x BY <1>4, <1>5, <1>6, <1>7, <1>8
<1>10. u \in Payers /\ (g = 1 => u.trainable >= out * in) BY <1>2, <1>4, <1>9 DEF Payers
<1> QED BY <1>10 DEF u

LEMMA LinearCosts ==
    ASSUME NEW in \in Nat, NEW out \in Nat
    PROVE  LinearCost(in, out) \in Payers /\ LinearCost(in, out).trainable = in * out + out
<1>1. in * out \in Nat OBVIOUS
<1> DEFINE x == in * out
<1>2. x \in Nat /\ x + out \in Nat BY <1>1
<1> HIDE DEF x
<1>3. LinearCost(in, out) = [trainable |-> x + out, buffers |-> 0, macs |-> x]
  BY DEF LinearCost, x
<1>4. LinearCost(in, out) \in Payers BY <1>2, <1>3 DEF Payers, UnitRecords
<1> QED BY <1>3, <1>4 DEF x

LEMMA CostsSomething ==
    ASSUME NEW units, NEW k, CostsAtLeast(units, k)
    PROVE  CostsAtLeast(units, 0)
<1>1. units \in Seq(Payers) /\ k \in Nat /\ Total(units, "trainable") >= k BY DEF CostsAtLeast
<1>2. Total(units, "trainable") \in Int BY <1>1, PayersAre, TotalOfBoth
<1>3. Total(units, "trainable") >= 0
  <2> DEFINE x == Total(units, "trainable")
  <2>1. x \in Int /\ x >= k BY <1>1, <1>2
  <2> HIDE DEF x
  <2>2. x >= 0 BY <1>1, <2>1
  <2> QED BY <2>2 DEF x
<1> QED BY <1>1, <1>3 DEF CostsAtLeast

LEMMA BlockCosts ==
    ASSUME NEW b \in BlockForms, NEW in \in ShapeForms, NEW out \in ShapeForms
    PROVE  /\ CostsAtLeast(BlockCost(b, in, out), 0)
           /\ /\ Parametric(b.op)
              /\ UsesExpansion(b.op) => Hidden(b, in.channels) >= in.channels
              => CostsAtLeast(BlockCost(b, in, out), out.channels * in.channels)
<1> DEFINE c == in.channels
           o == out.channels
           h == Hidden(b, c)
           only == UnitCost(c, o, b.kernel, 1, b.norm, out.size)
           first == UnitCost(c, h, 1, 1, b.norm, in.size)
           second == UnitCost(h, h, b.kernel, h, b.norm, out.size)
           third == UnitCost(h, o, 1, 1, b.norm, out.size)
<1>1. b.expansion \in Positive
  <2>1. b.expansion \in Expansions BY DEF BlockForms, RawBlocks
  <2>2. \A e \in Expansions : e \in Positive BY RoundedIs DEF Positive
  <2> QED BY <2>1, <2>2
<1>2. /\ b.op \in OperationTypes /\ b.kernel \in OddKernels /\ b.norm \in NormalizationTypes
      /\ c \in Positive /\ o \in Positive
      /\ in.size \in Int /\ out.size \in Int /\ 1 \in Positive /\ 1 \in OddKernels
  BY DEF BlockForms, RawBlocks, ShapeForms, Positive, OddKernels
<1>3. h \in Positive BY <1>1, <1>2, HiddenIs
<1>4. b.op = "dw_sep_conv" => UsesExpansion(b.op) BY DEF UsesExpansion
<1>5. b.op = "conv" => BlockCost(b, in, out) = <<only>> BY DEF BlockCost
<1>6. b.op = "dw_sep_conv" =>
        BlockCost(b, in, out) = (IF h = c THEN <<>> ELSE <<first>>) \o <<second, third>>
  BY DEF BlockCost
<1>7. b.op \notin {"conv", "dw_sep_conv"} => BlockCost(b, in, out) = <<>> BY DEF BlockCost
<1> HIDE DEF c, o, h
<1>8. only \in Payers /\ only.trainable >= o * c BY <1>2, UnitCosts
<1>9. first \in Payers /\ second \in Payers BY <1>2, <1>3, UnitCosts
<1>10. third \in Payers /\ third.trainable >= o * h BY <1>2, <1>3, UnitCosts
<1> HIDE DEF only, first, second, third
<1>11. o * c \in Nat /\ o * h \in Nat /\ (h >= c => o * h >= o * c)
  <2>1. o \in Nat /\ c \in Nat /\ h \in Nat BY <1>2, <1>3 DEF Positive
  <2> QED BY <2>1
<1>12. CASE b.op = "conv"
  <2>1. CostsAtLeast(<<only>>, o * c) BY <1>8, <1>11, CostOfOne
  <2>2. CostsAtLeast(<<only>>, 0) BY <2>1, CostsSomething
  <2> QED BY <1>5, <1>12, <2>1, <2>2 DEF o, c
<1>13. CASE b.op = "dw_sep_conv"
  <2> DEFINE e == IF h = c THEN <<>> ELSE <<first>>
             k == o * h
  <2>1. CostsAtLeast(e, 0)
    <3>1. first.trainable >= 0 BY <1>9 DEF Payers
    <3>2. CostsAtLeast(<<first>>, 0) BY <1>9, <3>1, CostOfOne
    <3> QED BY <3>2, CostOfNone
  <2>2. CostsAtLeast(<<second>>, 0)
    <3>1. second.trainable >= 0 BY <1>9 DEF Payers
    <3> QED BY <1>9, <3>1, CostOfOne
  <2>3. k \in Nat /\ third.trainable >= k BY <1>10, <1>11
  <2> HIDE DEF e, k
  <2>4. CostsAtLeast(<<third>>, k) BY <1>10, <2>3, CostOfOne
  <2>5. CostsAtLeast(<<second>> \o <<third>>, 0 + k) BY <2>2, <2>4, CostOfBoth
  <2>6. CostsAtLeast(<<second, third>>, k)
    <3>1. <<second, third>> = <<second>> \o <<third>> BY PairJoins
    <3>2. 0 + k = k BY <2>3
    <3> QED BY <2>5, <3>1, <3>2
  <2> DEFINE tail == <<second, third>>
             whole == e \o tail
  <2>7. CostsAtLeast(whole, k)
    <3>1. CostsAtLeast(tail, k) BY <2>6
    <3> HIDE DEF tail
    <3>2. CostsAtLeast(e \o tail, 0 + k) BY <2>1, <3>1, CostOfBoth
    <3>3. 0 + k = k BY <2>3
    <3> QED BY <3>2, <3>3
  <2>8. BlockCost(b, in, out) = whole BY <1>6, <1>13 DEF e
  <2> HIDE DEF whole
  <2>9. CostsAtLeast(whole, 0) BY <2>7, CostsSomething
  <2>10. ASSUME h >= c PROVE CostsAtLeast(whole, o * c)
    <3> DEFINE j == o * c
               x == Total(whole, "trainable")
    <3>1. j \in Nat /\ j <= k BY <1>11, <2>10 DEF k
    <3>2. whole \in Seq(Payers) /\ x >= k BY <2>7 DEF CostsAtLeast
    <3>3. x \in Int BY <3>2, PayersAre, TotalOfBoth
    <3> HIDE DEF j, x
    <3>4. x >= j BY <2>3, <3>1, <3>2, <3>3
    <3>5. CostsAtLeast(whole, j) BY <3>1, <3>2, <3>4 DEF CostsAtLeast, x
    <3> QED BY <3>5 DEF j
  <2> QED BY <1>4, <1>13, <2>8, <2>9, <2>10 DEF o, c, h
<1>14. CASE b.op \notin {"conv", "dw_sep_conv"}
  <2>1. ~Parametric(b.op) BY <1>14 DEF Parametric
  <2> QED BY <1>7, <1>14, <2>1, CostOfNone
<1> QED BY <1>12, <1>13, <1>14

\* A body costs what one of its blocks does.
LEMMA BodyCosts ==
    ASSUME NEW a \in Genotypes, NEW cost,
           \A s \in 1..Len(a.stages) : \A i \in 1..Len(a.stages[s]) :
               CostsAtLeast(cost[<<s, i>>], 0),
           NEW r \in 1..Len(a.stages), NEW c \in 1..Len(a.stages[r]),
           NEW k, CostsAtLeast(cost[<<r, c>>], k)
    PROVE  CostsAtLeast(FlattenSeq([s \in DOMAIN a.stages |->
                            FlattenSeq([i \in DOMAIN a.stages[s] |-> cost[<<s, i>>]])]), k)
<1> DEFINE n == Len(a.stages)
           U(s) == [i \in DOMAIN a.stages[s] |-> cost[<<s, i>>]]
           UU == [s \in DOMAIN a.stages |-> FlattenSeq(U(s))]
<1>1. n \in Nat /\ n >= 1 /\ DOMAIN a.stages = 1..n BY GenotypeIs
<1>2. ASSUME NEW s \in 1..n, NEW i \in 1..Len(a.stages[s]), NEW l, CostsAtLeast(cost[<<s, i>>], l)
      PROVE  CostsAtLeast(FlattenSeq(U(s)), l)
  <2> DEFINE m == Len(a.stages[s])
             u == U(s)
  <2>1. m \in Nat /\ m >= 1 /\ DOMAIN a.stages[s] = 1..m BY GenotypeIs, StageIs
  <2>2. \A j \in 1..m : CostsAtLeast(cost[<<s, j>>], 0) OBVIOUS
  <2>3. i \in 1..m OBVIOUS
  <2> HIDE DEF m
  <2>4. u = [j \in 1..m |-> u[j]] /\ \A j \in 1..m : u[j] = cost[<<s, j>>] BY <2>1
  <2> HIDE DEF u
  <2>5. (\A j \in 1..m : CostsAtLeast(u[j], 0)) /\ CostsAtLeast(u[i], l) BY <1>2, <2>2, <2>3, <2>4
  <2>6. CostsAtLeast(FlattenSeq(u), l) BY <2>1, <2>3, <2>4, <2>5, CostOfPart
  <2> QED BY <2>6 DEF u
<1>3. ASSUME NEW s \in 1..n PROVE CostsAtLeast(FlattenSeq(U(s)), 0)
  <2>1. 1 \in 1..Len(a.stages[s]) BY GenotypeIs, StageIs
  <2> HIDE DEF U
  <2> QED BY <1>2, <2>1
<1>4. CostsAtLeast(FlattenSeq(U(r)), k)
  <2> HIDE DEF U
  <2> QED BY <1>2
<1>5. r \in 1..n OBVIOUS
<1> HIDE DEF n
<1>6. UU = [s \in 1..n |-> UU[s]] /\ \A s \in 1..n : UU[s] = FlattenSeq(U(s))
  <2> HIDE DEF U
  <2> QED BY <1>1
<1> HIDE DEF UU
<1>7. (\A s \in 1..n : CostsAtLeast(UU[s], 0)) /\ CostsAtLeast(UU[r], k)
  <2> HIDE DEF U
  <2> QED BY <1>3, <1>4, <1>5, <1>6
<1>8. CostsAtLeast(FlattenSeq(UU), k)
  <2> HIDE DEF U
  <2> QED BY <1>1, <1>5, <1>6, <1>7, CostOfPart
<1> QED BY <1>8 DEF UU

LEMMA NarrowestIs ==
    ASSUME NEW widths \in SUBSET Positive, NEW w \in widths
    PROVE  Narrowest(widths) \in Positive /\ Narrowest(widths) <= w
<1>1. widths \in SUBSET Nat /\ widths # {} BY DEF Positive
<1>2. \E x \in widths : \A y \in widths : x <= y BY <1>1, LeastExists
<1>3. /\ Narrowest(widths) \in widths
      /\ \A y \in widths : Narrowest(widths) <= y
  BY <1>2 DEF Narrowest
<1> QED BY <1>3

\* A stage with a convolution has a first one.
LEMMA FirstConvolution ==
    ASSUME NEW a, Settled(a), \E b \in Range(a.stages[1]) : Parametric(b.op)
    PROVE  \E i \in 1..Len(a.stages[1]) :
              /\ Parametric(a.stages[1][i].op)
              /\ a.stages[1][i].out = StageWidth(a.stages[1])
              /\ WidthBefore(a, <<1, i>>) = a.stem.out
<1> DEFINE n == Len(a.stages[1])
           S == {i \in 1..n : Parametric(a.stages[1][i].op)}
<1>1. a \in Genotypes /\ 1 \in 1..Len(a.stages)
  <2>1. a \in Genotypes BY DEF Settled
  <2> QED BY <2>1, GenotypeIs
<1>2. n \in Nat /\ DOMAIN a.stages[1] = 1..n BY <1>1, GenotypeIs, StageIs
<1>3. S \in SUBSET Nat /\ S # {} BY <1>2 DEF Range
<1>4. PICK i \in S : \A j \in S : i <= j
  <2> HIDE DEF S
  <2> QED BY <1>3, LeastExists
<1>5. i \in 1..n /\ Parametric(a.stages[1][i].op) OBVIOUS
<1>6. \A j \in 1..n : j < i => ~Parametric(a.stages[1][j].op) BY <1>2, <1>4
<1>7. a.stages[1][i].out = StageWidth(a.stages[1]) BY <1>1, <1>5, SettledWidths
<1>8. Entering(a, 1) = a.stem.out BY DEF Entering
<1>9. WidthBefore(a, <<1, i>>) = a.stem.out
  <2>1. CASE i = 1 BY <1>1, <1>8, <2>1, WidthsAre
  <2>2. CASE i # 1
    <3>1. i > 1 /\ i - 1 \in 1..n /\ \A j \in 1..i - 1 : j \in 1..n /\ j < i BY <1>2, <1>5, <2>2
    <3>2. a.stages[1][i - 1].out = Entering(a, 1)
      <4>1. \A j \in 1..i - 1 : ~Parametric(a.stages[1][j].op) BY <1>6, <3>1
      <4> QED BY <1>1, <3>1, <4>1, SettledWidths
    <3>3. WidthBefore(a, <<1, i>>) = a.stages[1][i - 1].out BY <1>1, <1>5, <3>1, WidthsAre
    <3> QED BY <1>8, <3>2, <3>3
  <2> QED BY <2>1, <2>2
<1> QED BY <1>5, <1>7, <1>9

\* A network of convolutions trains what require_non_empty counts, or more.
LEMMA FloorHolds ==
    ASSUME NEW sp, SpaceValid(sp), NEW a, Member(a, sp), Convolutional(a)
    PROVE  Cost(a).trainable \in Int /\ Floor(sp) \in Int /\ Cost(a).trainable >= Floor(sp)
<1> DEFINE spend(p) == BlockCost(BlockAt(a, p), ShapeBefore(a, p), ShapeAfter(a, p))
           unit == UnitCost(a.channels, a.stem.out, a.stem.kernel, 1, a.stem.norm,
                            StemShape(a).size)
           w == FeatureShape(a).channels
           v == StageWidth(a.stages[1])
           o == a.stem.out
           stem == Narrowest(sp.stem.out)
           width == Narrowest(sp.stage_channels)
           body == BlockByBlock(a, spend)
           head == HeadCost(a, w)
           u == <<unit>> \o body \o head
<1>1. a \in Genotypes /\ Settled(a) BY MemberIs DEF Member
<1>2. /\ \A p \in Positions(a) : /\ ShapeBefore(a, p).channels = WidthBefore(a, p)
                                 /\ ShapeAfter(a, p).channels = BlockAt(a, p).out
      /\ w = StageWidth(Last(a.stages))
  BY <1>1, SettledShapes
<1>3. /\ 1 \in 1..Len(a.stages) /\ Len(a.stages) \in 1..Len(a.stages)
      /\ DOMAIN a.stages = 1..Len(a.stages)
  BY <1>1, GenotypeIs
<1>4. /\ v \in sp.stage_channels /\ w \in sp.stage_channels /\ a.channels = sp.channels
      /\ a.classes = sp.classes /\ o \in sp.stem.out
  <2>1. FrameOffered(a, sp) /\ WidthsOffered(a, sp) BY MemberIs
  <2>2. "out" \in DOMAIN a.stem BY <1>1, GenotypeIs DEF StemForms
  <2>3. Last(a.stages) = a.stages[Len(a.stages)] BY DEF Last
  <2> QED BY <1>2, <1>3, <2>1, <2>2, <2>3 DEF FrameOffered, WidthsOffered
<1>5. /\ stem \in Positive /\ stem <= o /\ width \in Positive /\ width <= v /\ width <= w
      /\ o \in Positive /\ v \in Positive /\ w \in Positive
      /\ sp.channels \in Positive /\ sp.classes \in Positive
  BY <1>4, ValidIs, NarrowestIs DEF Typed
<1>6. \A p : p \in Nat /\ p >= 1 <=> p \in Positive BY DEF Positive
<1>7. CostsAtLeast(<<unit>>, stem * sp.channels)
  <2>1. /\ a.stem.kernel \in OddKernels /\ a.stem.norm \in NormalizationTypes
        /\ StemShape(a).size \in Int /\ 1 \in Positive /\ a.channels \in Positive
    BY <1>1, GenotypeIs, StemShapeIs DEF StemForms, ShapeForms, Positive
  <2>2. unit \in Payers /\ unit.trainable >= o * a.channels BY <1>5, <2>1, UnitCosts
  <2> HIDE DEF unit, o, stem
  <2>3. unit.trainable \in Nat BY <2>2 DEF Payers
  <2>4. o \in Nat /\ stem \in Nat /\ sp.channels \in Nat BY <1>5, <1>6
  <2>5. /\ stem * sp.channels \in Nat /\ o * sp.channels \in Nat
        /\ stem * sp.channels <= o * sp.channels
    BY <1>5, <2>4, FactorsGrow
  <2>6. unit.trainable >= stem * sp.channels
    <3> DEFINE x == unit.trainable
               y == stem * sp.channels
               z == o * sp.channels
    <3>1. x \in Nat /\ y \in Nat /\ z \in Nat /\ y <= z /\ x >= z BY <1>4, <2>2, <2>3, <2>5
    <3> HIDE DEF x, y, z
    <3>2. x >= y BY <3>1
    <3> QED BY <3>2 DEF x, y
  <2> QED BY <2>2, <2>5, <2>6, CostOfOne
<1>8. CostsAtLeast(body, v * o)
  <2> DEFINE f == [p \in Positions(a) |-> spend(p)]
             here == [s \in DOMAIN a.stages |->
                         FlattenSeq([i \in DOMAIN a.stages[s] |-> f[<<s, i>>]])]
  <2>1. ASSUME NEW s \in 1..Len(a.stages), NEW i \in 1..Len(a.stages[s])
        PROVE  /\ s \in DOMAIN a.stages /\ i \in DOMAIN a.stages[s]
               /\ <<s, i>> \in Positions(a) /\ f[<<s, i>>] = spend(<<s, i>>)
    <3>1. s \in DOMAIN a.stages /\ i \in DOMAIN a.stages[s] BY <1>1, GenotypeIs, StageIs
    <3>2. <<s, i>> \in Positions(a) BY <1>1, PositionsAre
    <3> HIDE DEF spend
    <3> QED BY <3>1, <3>2
  <2>2. ASSUME NEW s \in 1..Len(a.stages), NEW i \in 1..Len(a.stages[s])
        PROVE  CostsAtLeast(f[<<s, i>>], 0)
    <3>1. BlockAt(a, <<s, i>>) \in BlockForms BY <1>1, PositionsAre
    <3>2. ShapeBefore(a, <<s, i>>) \in ShapeForms /\ ShapeAfter(a, <<s, i>>) \in ShapeForms
      BY <1>1, ShapesFollow
    <3>3. CostsAtLeast(spend(<<s, i>>), 0) BY <3>1, <3>2, BlockCosts
    <3> HIDE DEF f, spend
    <3> QED BY <2>1, <3>3
  <2>3. PICK c \in 1..Len(a.stages[1]) :
           /\ Parametric(a.stages[1][c].op) /\ a.stages[1][c].out = v
           /\ WidthBefore(a, <<1, c>>) = o
    <3>1. \E b \in Range(a.stages[1]) : Parametric(b.op) BY <1>3 DEF Convolutional
    <3> QED BY <1>1, <3>1, FirstConvolution
  <2>4. CostsAtLeast(f[<<1, c>>], v * o)
    <3> DEFINE b == BlockAt(a, <<1, c>>)
               in == ShapeBefore(a, <<1, c>>)
               out == ShapeAfter(a, <<1, c>>)
    <3>1. b \in BlockForms /\ b = a.stages[1][c] /\ <<1, c>> \in Positions(a)
      BY <1>1, <1>3, PositionsAre
    <3>2. in \in ShapeForms /\ out \in ShapeForms BY <1>1, <1>3, ShapesFollow
    <3>3. in.channels = o /\ out.channels = v BY <1>2, <2>3, <3>1
    <3>4. UsesExpansion(b.op) => Hidden(b, in.channels) >= in.channels
      BY <3>1 DEF Convolutional
    <3>5. Parametric(b.op) BY <2>3, <3>1
    <3>6. f[<<1, c>>] = BlockCost(b, in, out) BY <1>3, <2>1, <2>3
    <3> HIDE DEF f, b, in, out
    <3>7. CostsAtLeast(BlockCost(b, in, out), out.channels * in.channels)
      BY <3>1, <3>2, <3>4, <3>5, BlockCosts
    <3> QED BY <3>3, <3>6, <3>7
  <2> HIDE DEF spend, f
  <2>5. CostsAtLeast(FlattenSeq(here), v * o) BY <1>1, <1>3, <2>2, <2>4, BodyCosts
  <2>6. here = [s \in DOMAIN a.stages |->
                  FlattenSeq([i \in DOMAIN a.stages[s] |-> spend(<<s, i>>)])]
    <3>1. ASSUME NEW s \in DOMAIN a.stages
          PROVE  [i \in DOMAIN a.stages[s] |-> f[<<s, i>>]]
                   = [i \in DOMAIN a.stages[s] |-> spend(<<s, i>>)]
      <4>1. s \in 1..Len(a.stages) /\ DOMAIN a.stages[s] = 1..Len(a.stages[s])
        BY <1>1, <1>3, GenotypeIs, StageIs
      <4>2. \A i \in DOMAIN a.stages[s] : f[<<s, i>>] = spend(<<s, i>>) BY <2>1, <4>1
      <4> QED BY <4>2
    <3> QED BY <3>1
  <2>7. body = FlattenSeq(here)
    <3> HIDE DEF here
    <3> QED BY <2>6 DEF BlockByBlock
  <2> QED BY <2>5, <2>7
<1>9. CostsAtLeast(head, width * sp.classes + sp.classes)
  <2>1. head = <<LinearCost(w, a.classes)>> BY DEF HeadCost, Convolutional
  <2>2. w \in Nat /\ width \in Nat /\ a.classes \in Nat BY <1>4, <1>5, <1>6
  <2> HIDE DEF head, w, width
  <2>3. LinearCost(w, a.classes) \in Payers
        /\ LinearCost(w, a.classes).trainable = w * a.classes + a.classes
    BY <2>2, LinearCosts
  <2>4. width * a.classes \in Nat /\ w * a.classes \in Nat /\ width * a.classes <= w * a.classes
    BY <1>5, <2>2, FactorsGrow
  <2> DEFINE x == width * a.classes
             y == w * a.classes
             z == LinearCost(w, a.classes)
             k == x + a.classes
  <2>5. z \in Payers /\ z.trainable = y + a.classes /\ x \in Nat /\ y \in Nat /\ x <= y
    BY <2>3, <2>4
  <2> HIDE DEF x, y, z
  <2>6. k \in Nat /\ z.trainable >= k BY <2>2, <2>5
  <2> HIDE DEF k
  <2>7. CostsAtLeast(<<z>>, k) BY <2>5, <2>6, CostOfOne
  <2> QED BY <1>4, <2>1, <2>7 DEF k, x, z
<1>10. Cost(a).trainable = Total(u, "trainable")
  BY DEF Cost
<1>11. Floor(sp) = stem * sp.channels + width * stem + width * sp.classes + sp.classes
  BY DEF Floor
<1>12. width * stem \in Nat /\ v * o \in Nat /\ width * stem <= v * o
  <2>1. width \in Nat /\ stem \in Nat /\ v \in Nat /\ o \in Nat BY <1>5, <1>6
  <2> HIDE DEF width, stem, v, o
  <2> QED BY <1>5, <2>1, FactorsGrow
<1> DEFINE i == stem * sp.channels
           j == v * o
           k == width * sp.classes
           l == width * stem
<1>13. i \in Nat /\ k \in Nat /\ sp.classes \in Nat
  <2>1. width \in Nat /\ stem \in Nat /\ sp.channels \in Nat /\ sp.classes \in Nat BY <1>5, <1>6
  <2> HIDE DEF width, stem
  <2> QED BY <2>1
<1> HIDE DEF body, head, unit
<1>14. CostsAtLeast(u, i + j + (k + sp.classes))
  <2> DEFINE z == k + sp.classes
             p == <<unit>> \o body
  <2>1. CostsAtLeast(<<unit>>, i) /\ CostsAtLeast(body, j) /\ CostsAtLeast(head, z)
    BY <1>7, <1>8, <1>9
  <2> HIDE DEF i, j, z
  <2>2. CostsAtLeast(p, i + j) BY <2>1, CostOfBoth
  <2>3. u = p \o head OBVIOUS
  <2> HIDE DEF p, u
  <2>4. CostsAtLeast(p \o head, i + j + z) BY <2>1, <2>2, CostOfBoth
  <2> QED BY <2>3, <2>4 DEF z
<1>15. Floor(sp) = i + l + k + sp.classes /\ l \in Nat /\ j \in Nat /\ l <= j BY <1>11, <1>12
<1> HIDE DEF i, j, k, l, u
<1> DEFINE t == Total(u, "trainable")
<1>16. u \in Seq(Payers) /\ t >= i + j + (k + sp.classes) BY <1>14 DEF CostsAtLeast
<1>17. t \in Int BY <1>16, PayersAre, TotalOfBoth
<1> HIDE DEF t
<1>18. Floor(sp) \in Int /\ t >= Floor(sp) BY <1>13, <1>15, <1>16, <1>17
<1> QED BY <1>10, <1>17, <1>18 DEF t

\* The bound on the number of architectures bounds the draws, and a space that
\* is refused as empty has no network of convolutions (space.py).
THEOREM SpaceTheorem == Spec => []SpaceSpeaksTrue
<1>1. WalkInv => SpaceSpeaksTrue
  <2> SUFFICES ASSUME WalkInv PROVE SpaceSpeaksTrue OBVIOUS
  <2>1. SpaceValid(space) BY SpacesAssumption DEF WalkInv
  <2>2. Cardinality(Draws(space)) <= UpperBound(space) BY <2>1, DrawsBound
  <2>3. ASSUME ~RequireNonEmpty(space), NEW a \in Samples(space), Convolutional(a) PROVE FALSE
    <3>1. PICK raw \in Draws(space) : a = Repair(raw) /\ Issues(a, space) = {} BY DEF Samples
    <3>2. Settled(raw) BY <2>1, DrawIs DEF Draws, Member
    <3>3. a = raw BY <3>1, <3>2, RepairKeeps
    <3>4. Member(a, space) /\ InfersShapes(a)
      BY <3>1, <3>2, <3>3, SettledShapes DEF Member, Issues
    <3>5. ConstraintIssues(a, space) = {} BY <3>1, <3>4 DEF Issues
    <3> DEFINE cost == Cost(a).trainable
               limit == space.limits.max_parameters
    <3>6. ~Exceeds(cost, limit) BY <3>5, Zenon DEF ConstraintIssues
    <3>7. limit \in Nat
      <4>1. LimitsValid(space.limits) BY <2>1, Zenon DEF SpaceValid
      <4> QED BY <4>1 DEF LimitsValid
    <3>8. limit # NoLimit /\ ~(Floor(space) <= limit) BY <2>3 DEF RequireNonEmpty
    <3>9. cost \in Int /\ Floor(space) \in Int /\ cost >= Floor(space)
      BY <2>1, <2>3, <3>4, FloorHolds
    <3> HIDE DEF cost, limit
    <3> QED BY <3>6, <3>7, <3>8, <3>9 DEF Exceeds
  <2> QED BY <2>2, <2>3 DEF SpaceSpeaksTrue
<1> QED BY <1>1, WalkTheorem, PTL
=============================================================================
