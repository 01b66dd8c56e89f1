---------------------------- MODULE SearchSpaces ----------------------------
(***************************************************************************)
(* search_space/: what a space offers (space.py), what the sampler draws   *)
(* from it (sampler.py), what the twelve operators make of an architecture *)
(* (mutation.py), and the report on a candidate (validation.py).           *)
(*                                                                         *)
(* A space is a record.  Its parts block, stem and head map a field of the *)
(* same part of an architecture to the set of values offered for it.  A    *)
(* random choice is a member of the set of everything it may return.       *)
(***************************************************************************)
EXTENDS Architectures

NoLimit == 0   \* a constraint that is None

-----------------------------------------------------------------------------
(***************************************************************************)
(* SearchSpace and its validators.                                         *)
(***************************************************************************)
MaxClasses == 100000

Narrowest(widths) == CHOOSE w \in widths : \A v \in widths : w <= v

ChoicesOffered(choices) == \A f \in DOMAIN choices : choices[f] # {}

BlockChoicesValid(b) ==
    /\ \A f \in {"op", "kernel", "expansion", "norm", "act"} : b[f] # {}
    /\ b.op \subseteq OperationTypes /\ b.kernel \subseteq OddKernels
    /\ b.expansion \subseteq Nat \ {0} /\ IsFiniteSet(b.expansion) /\ b.residual \in BOOLEAN
    /\ b.norm \subseteq NormalizationTypes /\ b.act \subseteq ActivationTypes
    /\ \E op \in b.op : Parametric(op)

StemChoicesValid(s) ==
    /\ DOMAIN s = {"out", "kernel", "stride", "norm", "act"} /\ ChoicesOffered(s)
    /\ s.out \subseteq Nat \ {0} /\ IsFiniteSet(s.out)
    /\ s.kernel \subseteq OddKernels /\ s.stride \subseteq 1..4
    /\ s.norm \subseteq NormalizationTypes /\ s.act \subseteq ActivationTypes

HeadChoicesValid(h) ==
    /\ DOMAIN h = {"pooling", "hidden", "dropout", "act"} /\ ChoicesOffered(h)
    /\ h.pooling \subseteq PoolingTypes /\ h.hidden \subseteq Nat /\ IsFiniteSet(h.hidden)
    /\ \A d \in h.dropout : d \in Nat /\ 10 * d <= 9 * Unit
    /\ h.act \subseteq ActivationTypes

LimitsValid(l) ==
    /\ l.min_parameters \in Nat /\ l.max_parameters \in Nat
    /\ (l.min_parameters # NoLimit /\ l.max_parameters # NoLimit)
          => l.min_parameters <= l.max_parameters

\* Of the ratios and widths nothing but the sign is checked here, although
\* the constructors of a specification have ranges and round.
SpaceValid(sp) ==
    /\ sp.channels \in 1..16 /\ sp.size \in 4..1024 /\ sp.classes \in 2..MaxClasses
    /\ sp.monotonic \in BOOLEAN
    /\ sp.num_stages # {} /\ sp.num_stages \subseteq 1..8
    /\ sp.blocks_per_stage # {} /\ sp.blocks_per_stage \subseteq 1..16
    /\ sp.stage_channels # {} /\ sp.stage_channels \subseteq Nat \ {0}
    /\ IsFiniteSet(sp.stage_channels)
    /\ sp.stage_strides # {} /\ sp.stage_strides \subseteq 1..4
    /\ BlockChoicesValid(sp.block)
    /\ StemChoicesValid(sp.stem) /\ HeadChoicesValid(sp.head) /\ LimitsValid(sp.limits)

ParametricOps(sp) == {op \in sp.block.op : Parametric(op)}

\* The ratios a block accepts, before they are rounded; it is not built with
\* another, whatever its operation.
Ratios(sp) == {v \in sp.block.expansion : 4 * v >= Unit /\ v <= 8 * Unit}

\* What require_non_empty calls the smallest possible parameter count.
\* Variant: the classifier is counted twice.
FloorTwice(sp) ==
    LET stem == Narrowest(sp.stem.out)
        width == Narrowest(sp.stage_channels)
    IN stem * sp.channels + width * stem + 2 * (width * sp.classes + sp.classes)

Floor(sp) ==
    LET stem == Narrowest(sp.stem.out)
        width == Narrowest(sp.stage_channels)
    IN stem * sp.channels + width * stem + width * sp.classes + sp.classes

RequireNonEmpty(sp) ==
    sp.limits.max_parameters # NoLimit => Floor(sp) <= sp.limits.max_parameters

-----------------------------------------------------------------------------
(***************************************************************************)
(* cardinality_upper_bound.                                                *)
(***************************************************************************)
\* The sum of the values of a function.
SumOf(h) == MapThenSumSet(LAMBDA x : h[x], DOMAIN h)

Power(base, exponent) ==
    LET power[i \in 0..exponent] == IF i = 0 THEN 1 ELSE power[i - 1] * base
    IN power[exponent]

PerBlockChoices(sp) ==
    LET many(op, f) == IF UsesField(op, f) THEN Cardinality(sp.block[f]) ELSE 1
        residual(op) == IF sp.block.residual /\ op # "identity" THEN 2 ELSE 1
    IN SumOf([op \in sp.block.op |->
                 many(op, "kernel") * many(op, "expansion") * many(op, "norm") * many(op, "act")
                   * residual(op)])

PerStageChoices(sp) ==
    SumOf([depth \in sp.blocks_per_stage |->
              Cardinality(sp.stage_channels) * Cardinality(sp.stage_strides)
                * Power(PerBlockChoices(sp), depth)])

UpperBound(sp) ==
    LET stem == Cardinality(sp.stem.out) * Cardinality(sp.stem.kernel)
                  * Cardinality(sp.stem.stride) * Cardinality(sp.stem.norm)
                  * Cardinality(sp.stem.act)
        head == Cardinality(sp.head.pooling) * Cardinality(sp.head.hidden)
                  * Cardinality(sp.head.dropout) * Cardinality(sp.head.act)
    IN stem * head * SumOf([n \in sp.num_stages |-> Power(PerStageChoices(sp), n)])

-----------------------------------------------------------------------------
(***************************************************************************)
(* check_architecture.  An issue is the name of what is wrong.             *)
(***************************************************************************)
BlockIssues(b, first, sp) ==
    (IF b.op \notin sp.block.op THEN {"operation"} ELSE {})
      \cup {f \in UsableFields : UsesField(b.op, f) /\ b[f] \notin sp.block[f]}
      \cup (IF b.residual /\ ~sp.block.residual THEN {"residual"} ELSE {})
      \cup (IF b.op # "identity" /\ b.stride \notin (IF first THEN sp.stage_strides ELSE {1})
            THEN {"stride"} ELSE {})

StageIssues(a, s, sp) ==
    LET stage == a.stages[s]
    IN (IF Len(stage) \notin sp.blocks_per_stage THEN {"blocks"} ELSE {})
         \cup (IF StageWidth(stage) \notin sp.stage_channels THEN {"width"} ELSE {})
         \cup (IF sp.monotonic /\ s > 1 /\ StageWidth(stage) < StageWidth(a.stages[s - 1])
               THEN {"order"} ELSE {})
         \cup UNION {BlockIssues(stage[i], i = 1, sp) : i \in DOMAIN stage}

MembershipIssues(a, sp) ==
    {f \in {"channels", "size", "classes"} : a[f] # sp[f]}
      \cup (IF Len(a.stages) \notin sp.num_stages THEN {"stages"} ELSE {})
      \cup (IF \E f \in DOMAIN a.stem : a.stem[f] \notin sp.stem[f] THEN {"stem"} ELSE {})
      \cup (IF \E f \in DOMAIN a.head : /\ f = "act" => a.head.hidden > 0
                                       /\ a.head[f] \notin sp.head[f]
            THEN {"head"} ELSE {})
      \cup UNION {StageIssues(a, s, sp) : s \in DOMAIN a.stages}

Exceeds(value, limit) == limit # NoLimit /\ value > limit

ConstraintIssues(a, sp) ==
    LET cost == Cost(a)
        l == sp.limits
    IN (IF Exceeds(cost.trainable, l.max_parameters) THEN {"max_parameters"} ELSE {})
         \cup (IF cost.trainable < l.min_parameters THEN {"min_parameters"} ELSE {})
         \cup (IF Exceeds(cost.macs, l.max_macs) THEN {"max_macs"} ELSE {})
         \cup (IF Exceeds(TotalStride(a), l.max_stride) THEN {"max_stride"} ELSE {})
         \cup (IF FeatureShape(a).size < l.min_resolution THEN {"min_resolution"} ELSE {})
         \cup (IF Exceeds(cost.depth, l.max_depth) THEN {"max_depth"} ELSE {})

Issues(a, sp) ==
    IF InfersShapes(a) THEN MembershipIssues(a, sp) \cup ConstraintIssues(a, sp)
    ELSE {"shape"} \cup MembershipIssues(a, sp)

-----------------------------------------------------------------------------
(***************************************************************************)
(* ArchitectureSampler: everything _draw_architecture may return.          *)
(***************************************************************************)
DrawnBlocks(sp, in, width, stride) ==
    LET ops == {op \in sp.block.op : /\ in = width \/ Parametric(op)
                                     /\ ~(stride > 1 /\ op = "identity")}
        shortcut == IF sp.block.residual /\ stride = 1 /\ in = width THEN BOOLEAN ELSE {FALSE}
    IN {Canonical(b) : b \in [op : ops, kernel : sp.block.kernel,
                              expansion : Ratios(sp), out : {width},
                              stride : {stride}, residual : shortcut,
                              norm : sp.block.norm, act : sp.block.act]}

\* The first block takes the stride and the width change of the stage.
DrawnStages(sp, in, width) ==
    UNION {UNION {{<<draw[1]>> \o draw[2] :
                      draw \in DrawnBlocks(sp, in, width, stride)
                                 \X [1..depth - 1 -> DrawnBlocks(sp, width, width, 1)]} :
                  stride \in sp.stage_strides} :
           depth \in sp.blocks_per_stage}

DrawnWidths(sp, n) ==
    {w \in [1..n -> sp.stage_channels] :
        sp.monotonic => \A i \in 1..n - 1 : w[i] <= w[i + 1]}

DrawnBodies(sp, in, w) ==
    LET body[n \in 0..Len(w)] ==
            IF n = 0 THEN {<<>>}
            ELSE {Append(draw[1], draw[2]) :
                     draw \in body[n - 1] \X DrawnStages(sp, IF n = 1 THEN in ELSE w[n - 1], w[n])}
    IN body[Len(w)]

DrawnStems(sp) ==
    [out : sp.stem.out, kernel : sp.stem.kernel, stride : sp.stem.stride,
     norm : sp.stem.norm, act : sp.stem.act]

DrawnHeads(sp) ==
    {CanonicalHead(h) : h \in [pooling : sp.head.pooling, hidden : sp.head.hidden,
                               dropout : sp.head.dropout, act : sp.head.act]}

\* Any values of the space, whether or not the specification accepts them.
Drafts(sp) ==
    UNION {UNION {UNION {
        [channels : {sp.channels}, size : {sp.size}, classes : {sp.classes},
         stem : {stem}, stages : DrawnBodies(sp, stem.out, w), head : DrawnHeads(sp)] :
        w \in DrawnWidths(sp, n)} : n \in sp.num_stages} : stem \in DrawnStems(sp)}

Draws(sp) == {raw \in Drafts(sp) : SpecAccepts(raw)}

\* try_sample: repaired, then checked.
Samples(sp) == {a \in {Repair(raw) : raw \in Draws(sp)} : Issues(a, sp) = {}}

-----------------------------------------------------------------------------
(***************************************************************************)
(* The mutation operators: everything each may return for an architecture. *)
(* The set is empty where the operator declines.                           *)
(***************************************************************************)
\* _choose_other.
Others(options, present) == options \ {present}

\* _block_input_channels.
InChannels(a, p) == WidthBefore(a, p)

OperationChildren(a, sp) ==
    UNION {{WithBlock(a, p, [BlockAt(a, p) EXCEPT !.op = op]) :
                op \in {o \in Others(sp.block.op, BlockAt(a, p).op) :
                          /\ InChannels(a, p) = BlockAt(a, p).out \/ Parametric(o)
                          /\ ~(BlockAt(a, p).stride > 1 /\ o = "identity")}} :
           p \in Positions(a)}

FieldOptions(sp, f) == IF f = "expansion" THEN Ratios(sp) ELSE sp.block[f]

\* The operators on kernel, expansion, activation and normalisation.
FieldChildren(a, sp, f) ==
    UNION {{WithBlock(a, p, [BlockAt(a, p) EXCEPT ![f] = v]) :
                v \in Others(FieldOptions(sp, f), BlockAt(a, p)[f])} :
           p \in {q \in Positions(a) : UsesField(BlockAt(a, q).op, f)}}

ResidualChildren(a, sp) ==
    {WithBlock(a, p, [BlockAt(a, p) EXCEPT !.residual = ~@]) :
        p \in {q \in Positions(a) : /\ sp.block.residual
                                    /\ BlockAt(a, q).op # "identity"
                                    /\ BlockAt(a, q).stride = 1
                                    /\ InChannels(a, q) = BlockAt(a, q).out}}

StrideChildren(a, sp) ==
    UNION {{WithBlock(a, <<s, 1>>, [a.stages[s][1] EXCEPT !.stride = v]) :
                v \in Others(sp.stage_strides, a.stages[s][1].stride)} :
           s \in {t \in DOMAIN a.stages : /\ Cardinality(sp.stage_strides) >= 2
                                        /\ a.stages[t][1].op # "identity"}}

\* Variant: the widths of the neighbours do not matter.
WidthOptionsAny(a, sp, s) == Others(sp.stage_channels, StageWidths(a)[s])

WidthOptions(a, sp, s) ==
    {w \in Others(sp.stage_channels, StageWidths(a)[s]) :
        sp.monotonic => /\ s > 1 => w >= StageWidths(a)[s - 1]
                        /\ s < Len(a.stages) => w <= StageWidths(a)[s + 1]}

WidthChildren(a, sp) ==
    UNION {{RepairTo(a, [StageWidths(a) EXCEPT ![s] = w]) : w \in WidthOptions(a, sp, s)} :
           s \in DOMAIN a.stages}

\* A freshly drawn block of an operator that adds one.
NewBlocks(sp, width, strides, residual) ==
    {Canonical(b) : b \in [op : ParametricOps(sp), kernel : sp.block.kernel,
                           expansion : Ratios(sp), out : {width}, stride : strides,
                           residual : {residual}, norm : sp.block.norm, act : sp.block.act]}

DepthChildren(a, sp) ==
    LET Grown(s) == {Append(a.stages[s], b) :
                        b \in NewBlocks(sp, StageWidth(a.stages[s]), {1}, sp.block.residual)}
        Shrunk(s) == {RemoveAt(a.stages[s], i) : i \in 2..Len(a.stages[s])}
        Resized(s) ==
            (IF Len(a.stages[s]) + 1 \in sp.blocks_per_stage THEN Grown(s) ELSE {})
              \cup (IF Len(a.stages[s]) - 1 \in sp.blocks_per_stage THEN Shrunk(s) ELSE {})
    IN UNION {{Repair([a EXCEPT !.stages[s] = stage]) : stage \in Resized(s)} :
              s \in DOMAIN a.stages}

StagesChildren(a, sp) ==
    LET wider == {w \in sp.stage_channels : w >= StageWidth(Last(a.stages))}
        widths == IF wider = {} THEN {StageWidth(Last(a.stages))} ELSE wider
        appended ==
            UNION {{Append(a.stages, <<b>>) : b \in NewBlocks(sp, w, sp.stage_strides, FALSE)} :
                   w \in widths}
    IN {Repair([a EXCEPT !.stages = stages]) :
          stages \in (IF Len(a.stages) + 1 \in sp.num_stages THEN appended ELSE {})
                       \cup (IF Len(a.stages) - 1 \in sp.num_stages /\ Len(a.stages) > 1
                             THEN {Front(a.stages)} ELSE {})}

StemChildren(a, sp) ==
    UNION {{Repair([a EXCEPT !.stem[f] = v]) : v \in Others(sp.stem[f], a.stem[f])} :
           f \in DOMAIN a.stem}

HeadChildren(a, sp) ==
    UNION {{[a EXCEPT !.head = CanonicalHead([@ EXCEPT ![f] = v])] :
                v \in Others(sp.head[f], a.head[f])} :
           f \in {g \in DOMAIN a.head : g = "act" => a.head.hidden > 0}}

Operators ==
    {"operation", "kernel_size", "expansion_ratio", "activation", "normalization", "residual",
     "stride", "stage_width", "stage_depth", "num_stages", "stem", "head"}

Offspring(name, a, sp) ==
    CASE name = "operation" -> OperationChildren(a, sp)
      [] name = "kernel_size" -> FieldChildren(a, sp, "kernel")
      [] name = "expansion_ratio" -> FieldChildren(a, sp, "expansion")
      [] name = "activation" -> FieldChildren(a, sp, "act")
      [] name = "normalization" -> FieldChildren(a, sp, "norm")
      [] name = "residual" -> ResidualChildren(a, sp)
      [] name = "stride" -> StrideChildren(a, sp)
      [] name = "stage_width" -> WidthChildren(a, sp)
      [] name = "stage_depth" -> DepthChildren(a, sp)
      [] name = "num_stages" -> StagesChildren(a, sp)
      [] name = "stem" -> StemChildren(a, sp)
      [] name = "head" -> HeadChildren(a, sp)

Children(name, a, sp) == {raw \in Offspring(name, a, sp) : SpecAccepts(raw)}
=============================================================================
