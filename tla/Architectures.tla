--------------------------- MODULE Architectures ---------------------------
(***************************************************************************)
(* One candidate network, from genotype to module tree: the canonical form *)
(* of a specification (architectures/spec.py), shape inference (shapes.py),*)
(* repair (search_space/repair.py), the analytic cost (cost.py) and the    *)
(* network the builder constructs (models/).                               *)
(*                                                                         *)
(* An architecture is a record [channels, size, classes, stem, stages,     *)
(* head]; stages is a sequence of sequences of blocks.  Expansion ratios   *)
(* and dropouts, the floats of the genotype, are counted in grains, of     *)
(* which 1.0 has Unit: a step is the last decimal a genotype keeps, and    *)
(* Grain says how much finer the floats are that a space may offer.        *)
(* The 128-bit hash of the canonical JSON is the record itself: two        *)
(* architectures have one hash exactly when they are equal.                *)
(***************************************************************************)
EXTENDS Integers, Sequences, FiniteSets, SequencesExt

CONSTANTS
    Precision,   \* the steps in 1.0: 10 ^ FLOAT_PRECISION
    Grain        \* the grains in one step

\* The ends of the accepted ranges, 0.25 and 0.9, have no more decimals than
\* a genotype keeps.
ASSUME PrecisionAssumption ==
    /\ Precision \in Nat \ {0} /\ Precision % 20 = 0
    /\ Grain \in Nat \ {0}

-----------------------------------------------------------------------------
(***************************************************************************)
(* Operations and canonical form.                                          *)
(***************************************************************************)
Unit == Precision * Grain   \* the float 1.0

\* The nearest multiple of a step, the even one of two that are as near.
Quantise(v) ==
    LET below == v \div Grain
        rest == v % Grain
        up == 2 * rest > Grain \/ (2 * rest = Grain /\ below % 2 = 1)
    IN Grain * (IF up THEN below + 1 ELSE below)

OperationTypes == {"conv", "dw_sep_conv", "identity", "max_pool", "avg_pool"}
NormalizationTypes == {"batch", "group", "none"}
ActivationTypes == {"relu", "relu6", "silu", "gelu", "hardswish", "identity"}
PoolingTypes == {"avg", "max"}

\* The kernel sizes a specification accepts.
OddKernels == {1, 3, 5, 7}

Parametric(op) == op \in {"conv", "dw_sep_conv"}

UsesKernel(op) == op # "identity"

UsesExpansion(op) == op = "dw_sep_conv"

UsableFields == {"kernel", "expansion", "norm", "act"}

UsesField(op, f) ==
    CASE f = "kernel" -> UsesKernel(op)
      [] f = "expansion" -> UsesExpansion(op)
      [] f \in {"norm", "act"} -> Parametric(op)

\* Fields that mean nothing for the operation take one fixed value, so that
\* equal networks have equal genotypes.
Canonical(b) ==
    [op |-> b.op, out |-> b.out,
     kernel |-> IF UsesKernel(b.op) THEN b.kernel ELSE 1,
     expansion |-> IF UsesExpansion(b.op) THEN Quantise(b.expansion) ELSE Unit,
     stride |-> IF b.op = "identity" THEN 1 ELSE b.stride,
     residual |-> b.residual /\ b.op # "identity",
     norm |-> IF Parametric(b.op) THEN b.norm ELSE "none",
     act |-> IF Parametric(b.op) THEN b.act ELSE "identity"]

CanonicalHead(h) ==
    [h EXCEPT !.dropout = Quantise(@), !.act = IF h.hidden = 0 THEN "identity" ELSE @]

Blocks(a) == FlattenSeq(a.stages)

Positions(a) == UNION {{s} \X DOMAIN a.stages[s] : s \in DOMAIN a.stages}

BlockAt(a, p) == a.stages[p[1]][p[2]]

WithBlock(a, p, b) == [a EXCEPT !.stages[p[1]][p[2]] = Canonical(b)]

\* StageSpec.out_channels reads the last block.
StageWidth(stage) == Last(stage).out

StageWidths(a) == [s \in DOMAIN a.stages |-> StageWidth(a.stages[s])]

ProductOver(s, f(_)) == FoldLeft(LAMBDA acc, x : acc * f(x), 1, s)

TotalStride(a) == a.stem.stride * ProductOver(Blocks(a), LAMBDA b : b.stride)

MaxBlockWidth == 4096
MaxStemWidth == 1024
MaxHidden == 4096

\* A constructor raises ValidationError for a width out of its range, and a
\* call that builds such a part has no result.
SpecAccepts(a) ==
    /\ a.stem.out <= MaxStemWidth /\ a.head.hidden <= MaxHidden
    /\ \A p \in Positions(a) : BlockAt(a, p).out <= MaxBlockWidth

-----------------------------------------------------------------------------
(***************************************************************************)
(* Shape inference.                                                        *)
(***************************************************************************)
\* Same-padding: k \div 2 on both sides.
ConvSize(n, k, s) == (n + 2 * (k \div 2) - k) \div s + 1

StemShape(a) ==
    [channels |-> a.stem.out, size |-> ConvSize(a.size, a.stem.kernel, a.stem.stride)]

BlockShape(b, in) ==
    [channels |-> IF Parametric(b.op) THEN b.out ELSE in.channels,
     size |-> ConvSize(in.size, b.kernel, b.stride)]

\* What infer_shapes refuses in a block, given the shape that reaches it.
Fits(b, in) ==
    /\ Parametric(b.op) \/ b.out = in.channels
    /\ BlockShape(b, in).size >= 1
    /\ b.residual => BlockShape(b, in) = in

\* The shapes in one stage: trace[i] leaves its i-th block, trace[0] enters it.
StageTrace(stage, in) ==
    LET trace[i \in 0..Len(stage)] ==
            IF i = 0 THEN in ELSE BlockShape(stage[i], trace[i - 1])
    IN trace

\* ShapeTrace: shapes[s] leaves the s-th stage, shapes[0] the stem.
Shapes(a) ==
    LET shapes[s \in 0..Len(a.stages)] ==
            IF s = 0 THEN StemShape(a)
            ELSE StageTrace(a.stages[s], shapes[s - 1])[Len(a.stages[s])]
    IN shapes

\* What enters and what leaves the block at p.
ShapeBefore(a, p) == StageTrace(a.stages[p[1]], Shapes(a)[p[1] - 1])[p[2] - 1]

ShapeAfter(a, p) == BlockShape(BlockAt(a, p), ShapeBefore(a, p))

InfersShapes(a) ==
    /\ StemShape(a).size >= 1
    /\ \A p \in Positions(a) : Fits(BlockAt(a, p), ShapeBefore(a, p))

FeatureShape(a) == Shapes(a)[Len(a.stages)]

-----------------------------------------------------------------------------
(***************************************************************************)
(* repair_architecture: one pass from the stem to the head.                *)
(***************************************************************************)
\* The width of the first block that can set one, or what reaches the stage.
IntendedWidth(stage, incoming) ==
    LET setters == {i \in DOMAIN stage : Parametric(stage[i].op)}
    IN IF setters = {} THEN incoming
       ELSE stage[CHOOSE i \in setters : \A j \in setters : i <= j].out

\* A block is rebuilt, and so made canonical, only when something changed.
Evolved(b, changed) == IF changed = b THEN b ELSE Canonical(changed)

\* Variant: the shortcut of a block whose width changes is kept.
RepairBlockKeepsShortcut(b, width, in) ==
    LET out == IF Parametric(b.op) THEN width ELSE in.channels
        stride == IF ConvSize(in.size, b.kernel, b.stride) < 1 THEN 1 ELSE b.stride
    IN Evolved(b, [b EXCEPT !.out = out, !.stride = stride, !.residual = @ /\ stride = 1])

RepairBlock(b, width, in) ==
    LET out == IF Parametric(b.op) THEN width ELSE in.channels
        stride == IF ConvSize(in.size, b.kernel, b.stride) < 1 THEN 1 ELSE b.stride
    IN Evolved(b, [b EXCEPT !.out = out, !.stride = stride,
                            !.residual = @ /\ stride = 1 /\ out = in.channels])

\* The shapes in a stage while it is repaired.
RepairTrace(stage, width, in) ==
    LET trace[i \in 0..Len(stage)] ==
            IF i = 0 THEN in
            ELSE BlockShape(RepairBlock(stage[i], width, trace[i - 1]), trace[i - 1])
    IN trace

RepairStage(stage, width, in) ==
    LET trace == RepairTrace(stage, width, in)
    IN [i \in DOMAIN stage |-> RepairBlock(stage[i], width, trace[i - 1])]

NoTarget == <<>>

\* The width a stage is to have, given the shape that reaches it.
TargetWidth(a, widths, s, in) ==
    IF widths = NoTarget THEN IntendedWidth(a.stages[s], in.channels) ELSE widths[s]

\* The shapes between the stages while they are repaired.
RepairShapes(a, widths) ==
    LET shapes[s \in 0..Len(a.stages)] ==
            IF s = 0 THEN StemShape(a)
            ELSE RepairTrace(a.stages[s], TargetWidth(a, widths, s, shapes[s - 1]),
                             shapes[s - 1])[Len(a.stages[s])]
    IN shapes

RepairTo(a, widths) ==
    LET shapes == RepairShapes(a, widths)
    IN [a EXCEPT !.stages = [s \in DOMAIN a.stages |->
            RepairStage(a.stages[s], TargetWidth(a, widths, s, shapes[s - 1]), shapes[s - 1])]]

Repair(a) == RepairTo(a, NoTarget)

-----------------------------------------------------------------------------
(***************************************************************************)
(* compute_cost.  Every convolution of these networks is followed by its   *)
(* normalisation; a unit is the pair.                                      *)
(***************************************************************************)
\* A width in grains to the nearest multiple of 8, and not below nine tenths.
MakeDivisible(width) ==
    LET near == (((width + 4 * Unit) \div Unit) \div 8) * 8
        rounded == IF near < 8 THEN 8 ELSE near
    IN IF 10 * Unit * rounded < 9 * width THEN rounded + 8 ELSE rounded

\* The bottleneck width of a separable block.
Hidden(b, in) == IF b.expansion = Unit THEN in ELSE MakeDivisible(in * b.expansion)

NormTrainable(norm, c) == IF norm = "none" THEN 0 ELSE 2 * c

NormBuffers(norm, c) == IF norm = "batch" THEN 2 * c + 1 ELSE 0

ConvParameters(in, out, k, groups, bias) ==
    out * (in \div groups) * k * k + (IF bias THEN out ELSE 0)

UnitCost(in, out, k, groups, norm, size) ==
    [trainable |-> ConvParameters(in, out, k, groups, norm = "none") + NormTrainable(norm, out),
     buffers |-> NormBuffers(norm, out),
     macs |-> (in \div groups) * k * k * out * size * size]

\* Variant: the expansion is charged even where no width changes.
BlockCostAlwaysExpands(b, in, out) ==
    LET hidden == Hidden(b, in.channels)
    IN CASE b.op = "conv" ->
              <<UnitCost(in.channels, out.channels, b.kernel, 1, b.norm, out.size)>>
         [] b.op = "dw_sep_conv" ->
              << UnitCost(in.channels, hidden, 1, 1, b.norm, in.size),
                 UnitCost(hidden, hidden, b.kernel, hidden, b.norm, out.size),
                 UnitCost(hidden, out.channels, 1, 1, b.norm, out.size) >>
         [] OTHER -> <<>>

BlockCost(b, in, out) ==
    LET hidden == Hidden(b, in.channels)
        expand == IF hidden = in.channels THEN <<>>
                  ELSE <<UnitCost(in.channels, hidden, 1, 1, b.norm, in.size)>>
    IN CASE b.op = "conv" ->
              <<UnitCost(in.channels, out.channels, b.kernel, 1, b.norm, out.size)>>
         [] b.op = "dw_sep_conv" ->
              expand \o << UnitCost(hidden, hidden, b.kernel, hidden, b.norm, out.size),
                           UnitCost(hidden, out.channels, 1, 1, b.norm, out.size) >>
         [] OTHER -> <<>>

LinearCost(in, out) == [trainable |-> in * out + out, buffers |-> 0, macs |-> in * out]

HeadCost(a, pooled) ==
    IF a.head.hidden > 0
    THEN <<LinearCost(pooled, a.head.hidden), LinearCost(a.head.hidden, a.classes)>>
    ELSE <<LinearCost(pooled, a.classes)>>

\* A column of a sequence of records, added up.
Total(records, f) ==
    LET sum[i \in 0..Len(records)] == IF i = 0 THEN 0 ELSE sum[i - 1] + records[i][f]
    IN sum[Len(records)]

\* What each block contributes, in order.
BlockByBlock(a, part(_)) ==
    FlattenSeq([s \in DOMAIN a.stages |->
        FlattenSeq([i \in DOMAIN a.stages[s] |-> part(<<s, i>>)])])

Cost(a) ==
    LET stem == UnitCost(a.channels, a.stem.out, a.stem.kernel, 1, a.stem.norm, StemShape(a).size)
        of(p) == BlockCost(BlockAt(a, p), ShapeBefore(a, p), ShapeAfter(a, p))
        units == <<stem>> \o BlockByBlock(a, of) \o HeadCost(a, FeatureShape(a).channels)
        trainable == Total(units, "trainable")
        buffers == Total(units, "buffers")
    IN [trainable |-> trainable, buffers |-> buffers, macs |-> Total(units, "macs"),
        bytes |-> 4 * (trainable + buffers), depth |-> Len(Blocks(a))]

-----------------------------------------------------------------------------
(***************************************************************************)
(* models/: the leaf modules the builder creates, in order.  Widths are    *)
(* threaded from the declared out_channels of each block, not from the     *)
(* shape trace.                                                            *)
(***************************************************************************)
Module(kind, in, out, k, groups, bias) ==
    [kind |-> kind, in |-> in, out |-> out, kernel |-> k, groups |-> groups, bias |-> bias]

Plain(kind) == Module(kind, 1, 1, 1, 1, FALSE)

\* The largest divisor of the channel count that is at most 8.
GroupCount(c) == CHOOSE g \in 1..8 : c % g = 0 /\ \A h \in 1..8 : c % h = 0 => h <= g

Normalization(norm, c) ==
    CASE norm = "batch" -> Module("batch_norm", c, c, 1, 1, TRUE)
      [] norm = "group" -> Module("group_norm", c, c, 1, GroupCount(c), TRUE)
      [] norm = "none" -> Plain("identity")

ConvBnAct(in, out, k, groups, norm, act) ==
    << Module("conv", in, out, k, groups, norm = "none"), Normalization(norm, out), Plain(act) >>

SeparableConv(b, in) ==
    LET hidden == Hidden(b, in)
    IN (IF hidden # in THEN ConvBnAct(in, hidden, 1, 1, b.norm, b.act) ELSE <<>>)
         \o ConvBnAct(hidden, hidden, b.kernel, hidden, b.norm, b.act)
         \o << Module("conv", hidden, b.out, 1, 1, b.norm = "none"), Normalization(b.norm, b.out) >>

Operation(b, in) ==
    CASE b.op = "conv" -> ConvBnAct(in, b.out, b.kernel, 1, b.norm, b.act)
      [] b.op = "dw_sep_conv" -> SeparableConv(b, in)
      [] OTHER -> <<Plain(b.op)>>

\* NasBlock refuses a shortcut its own check calls illegal.
Constructible(b, in) == b.residual => (b.stride = 1 /\ b.out = in)

Classifier(a, in) ==
    LET hidden == a.head.hidden
    IN <<Plain(a.head.pooling), Plain("flatten")>>
         \o (IF hidden > 0
             THEN <<Module("linear", in, hidden, 1, 1, TRUE), Plain(a.head.act)>> ELSE <<>>)
         \o (IF a.head.dropout # 0 THEN <<Plain("dropout")>> ELSE <<>>)
         \o <<Module("linear", IF hidden > 0 THEN hidden ELSE in, a.classes, 1, 1, TRUE)>>

\* current_channels before the block at p.
WidthBefore(a, p) ==
    IF p[2] > 1 THEN a.stages[p[1]][p[2] - 1].out
    ELSE IF p[1] > 1 THEN StageWidth(a.stages[p[1] - 1]) ELSE a.stem.out

Builds(a) == \A p \in Positions(a) : Constructible(BlockAt(a, p), WidthBefore(a, p))

Network(a) ==
    LET of(p) == Operation(BlockAt(a, p), WidthBefore(a, p))
    IN ConvBnAct(a.channels, a.stem.out, a.stem.kernel, 1, a.stem.norm, a.stem.act)
         \o BlockByBlock(a, of) \o Classifier(a, StageWidth(Last(a.stages)))

\* PyTorch: the parameters and the buffers of one module.  The buffers of a
\* BatchNorm2d are two float32 vectors and one int64 counter.
Weights(m) ==
    CASE m.kind \in {"conv", "linear"} ->
           m.out * (m.in \div m.groups) * m.kernel * m.kernel + (IF m.bias THEN m.out ELSE 0)
      [] m.kind \in {"batch_norm", "group_norm"} -> 2 * m.out
      [] OTHER -> 0

Buffers(m) == IF m.kind = "batch_norm" THEN 2 * m.out + 1 ELSE 0

StoredBytes(m) == 4 * Weights(m) + (IF m.kind = "batch_norm" THEN 8 * m.out + 8 ELSE 0)

\* What one module adds to each number of the summary.
Footprint(m) ==
    [trainable |-> Weights(m), buffers |-> Buffers(m), bytes |-> StoredBytes(m),
     counters |-> IF m.kind = "batch_norm" THEN 1 ELSE 0]

\* summarize_model.
Summary(a) ==
    LET modules == Network(a)
        footprints == [i \in DOMAIN modules |-> Footprint(modules[i])]
    IN [f \in {"trainable", "buffers", "bytes", "counters"} |-> Total(footprints, f)]
=============================================================================
