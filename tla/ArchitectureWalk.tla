-------------------------- MODULE ArchitectureWalk --------------------------
(***************************************************************************)
(* A line of descent in one search space: the sampler finds an             *)
(* architecture, then MutationOperator.try_mutate replaces it by a child,  *)
(* again and again.  One action per operator; an attempt that try_mutate   *)
(* rejects leaves the parent as it is.                                     *)
(***************************************************************************)
EXTENDS SearchSpaces

CONSTANT Spaces   \* the search spaces to walk in

ASSUME SpacesAssumption == \A sp \in Spaces : SpaceValid(sp)

VARIABLES
    space,     \* the search space of the run
    current    \* the architecture at the end of the line, or Nothing

vars == <<space, current>>

Nothing == [none |-> TRUE]

Init ==
    /\ space \in Spaces
    /\ current = Nothing

\* ArchitectureSampler: its constructor refuses a space it calls empty.
Sample ==
    /\ current = Nothing
    /\ RequireNonEmpty(space)
    /\ current' \in Samples(space)
    /\ UNCHANGED space

\* try_mutate accepts an outcome: repaired, different, and without an issue.
\* Variant: the check of the space is left out.
AcceptedUnchecked(name) ==
    {c \in {Repair(raw) : raw \in Children(name, current, space)} :
        c # current /\ InfersShapes(c) /\ ConstraintIssues(c, space) = {}}

Accepted(name) ==
    {c \in {Repair(raw) : raw \in Children(name, current, space)} :
        c # current /\ Issues(c, space) = {}}

Mutate(name) ==
    /\ current # Nothing
    /\ current' \in Accepted(name)
    /\ UNCHANGED space

MutateOperation == Mutate("operation")
MutateKernelSize == Mutate("kernel_size")
MutateExpansionRatio == Mutate("expansion_ratio")
MutateActivation == Mutate("activation")
MutateNormalization == Mutate("normalization")
MutateResidual == Mutate("residual")
MutateStride == Mutate("stride")
MutateStageWidth == Mutate("stage_width")
MutateStageDepth == Mutate("stage_depth")
MutateNumStages == Mutate("num_stages")
MutateStem == Mutate("stem")
MutateHead == Mutate("head")

Next ==
    \/ Sample
    \/ MutateOperation \/ MutateKernelSize \/ MutateExpansionRatio
    \/ MutateActivation \/ MutateNormalization \/ MutateResidual
    \/ MutateStride \/ MutateStageWidth \/ MutateStageDepth
    \/ MutateNumStages \/ MutateStem \/ MutateHead

Spec == Init /\ [][Next]_vars

-----------------------------------------------------------------------------
Bred == current # Nothing

\* The children of the current architecture before any repair or check.
RawChildren == UNION {Children(name, current, space) : name \in Operators}

InNormalForm(a) ==
    /\ \A p \in Positions(a) : Canonical(BlockAt(a, p)) = BlockAt(a, p)
    /\ CanonicalHead(a.head) = a.head

\* The fields with a choice that rounding turns into a value the space does
\* not offer: 4/3 becomes 1.333333, and membership is exact.
LostByRounding(sp) ==
    {f \in {"expansion"} : \E v \in Ratios(sp) : Quantise(v) \notin sp.block.expansion}
      \cup {f \in {"head"} : \E d \in sp.head.dropout : Quantise(d) \notin sp.head.dropout}

\* The sampler draws inside the space: whatever it draws needs no repair, has
\* shapes and is offered by the space, so that only a constraint can reject
\* it, or a ratio or dropout that is no longer offered once it is rounded.
\* After any single mutation one pass of repair is enough: the shapes of the
\* child can be inferred, a second pass changes nothing, and whatever fields a
\* mutation replaced, the result is in the normal form that hashing relies on.
RepairSuffices ==
    /\ ~Bred => \A raw \in Draws(space) :
                  /\ Repair(raw) = raw /\ InfersShapes(raw)
                  /\ MembershipIssues(raw, space) \subseteq LostByRounding(space)
    /\ Bred => InNormalForm(current)
    /\ Bred => \A raw \in RawChildren :
                  /\ InfersShapes(Repair(raw))
                  /\ Repair(Repair(raw)) = Repair(raw)

\* A block whose operation now uses a field it did not use before.
Inherits(old, new) ==
    \/ UsesKernel(new.op) /\ ~UsesKernel(old.op)
    \/ UsesExpansion(new.op) /\ ~UsesExpansion(old.op)
    \/ Parametric(new.op) /\ ~Parametric(old.op)

\* The stages without a convolution.
PlainStages(a) == {s \in DOMAIN a.stages : \A b \in Range(a.stages[s]) : ~Parametric(b.op)}

\* Two choices that rounding makes one.
Coincide(choices) == \E v \in choices : Quantise(v) # v /\ Quantise(v) \in choices

\* A repaired child leaves the space in six ways only: a block whose
\* operation now uses a field it did not use before keeps the fixed value of
\* that field, which need not be offered; so does the activation of a head
\* that had no hidden layer; a first stage without convolution takes over a
\* new stem width; a first stage that loses its last convolution takes over
\* the stem width it has; the stage that is appended has one block, whether
\* or not the space offers stages of one; and a ratio or dropout that the
\* operator draws is rounded to one that is not offered, which puts nothing
\* else at fault.  Nor does an operator that does not decline hand back the
\* architecture itself, but for two cases: the new width of a stage without
\* convolution reaches no block, and a choice is rounded to the present one.
LeavesOnlyByInheritance ==
    Bred =>
        \A name \in Operators : \A raw \in Children(name, current, space) :
            LET child == Repair(raw)
            IN /\ raw = current =>
                    \/ name = "stage_width" /\ PlainStages(current) # {}
                    \/ name = "expansion_ratio" /\ Coincide(Ratios(space))
                    \/ name = "head" /\ Coincide(space.head.dropout)
               /\ MembershipIssues(child, space) # {} =>
                    \/ /\ name = "operation"
                       /\ \E p \in Positions(current) :
                             Inherits(BlockAt(current, p), BlockAt(child, p))
                    \/ name = "head" /\ current.head.hidden = 0 /\ child.head.hidden > 0
                    \/ name = "stem" /\ 1 \in PlainStages(current)
                    \/ name = "stage_depth" /\ 1 \in PlainStages(child) \ PlainStages(current)
                    \/ /\ name = "num_stages" /\ Len(child.stages) > Len(current.stages)
                       /\ 1 \notin space.blocks_per_stage
                    \/ /\ name \in {"expansion_ratio", "stage_depth", "num_stages", "head"}
                       /\ MembershipIssues(child, space) \subseteq LostByRounding(space)

-----------------------------------------------------------------------------
(***************************************************************************)
(* Cost and construction.                                                  *)
(***************************************************************************)
\* A shortcut around a stride, which changes no shape where there is one pixel.
StridedShortcut(a, p) ==
    BlockAt(a, p).residual /\ BlockAt(a, p).stride > 1 /\ ShapeBefore(a, p).size = 1

\* The cost model and the network are written apart and agree on what is
\* trained and on what is kept (matches_analytic_estimate); the stored bytes
\* exceed the estimate by four for each batch counter, a 64-bit integer.  The
\* widths the builder threads are those of the shape trace, so that it never
\* refuses an architecture of the search, and of those that shape inference
\* accepts only a child, not yet repaired, with a shortcut around a stride.
EstimateMatchesNetwork ==
    Bred =>
        LET cost == Cost(current)
            built == Summary(current)
        IN /\ cost.trainable = built.trainable
           /\ cost.buffers = built.buffers
           /\ built.bytes = cost.bytes + 4 * built.counters
           /\ Builds(current)
           /\ \A raw \in RawChildren :
                InfersShapes(raw) =>
                    /\ \A p \in Positions(raw) :
                          WidthBefore(raw, p) = ShapeBefore(raw, p).channels
                    /\ Builds(raw) \/ \E p \in Positions(raw) : StridedShortcut(raw, p)

-----------------------------------------------------------------------------
(***************************************************************************)
(* The space.                                                              *)
(***************************************************************************)
Convolutional(a) ==
    /\ a.head.hidden = 0
    /\ \A s \in DOMAIN a.stages : \E b \in Range(a.stages[s]) : Parametric(b.op)
    /\ \A p \in Positions(a) : UsesExpansion(BlockAt(a, p).op) =>
          Hidden(BlockAt(a, p), ShapeBefore(a, p).channels) >= ShapeBefore(a, p).channels

\* What the space says of itself holds of what the sampler draws from it:
\* cardinality_upper_bound bounds the draws, and a space refused as empty by
\* require_non_empty has no feasible network made of convolutions and a plain
\* head, unless a bottleneck narrows (it may have one of pools).  A bottleneck
\* may narrow although its ratio is above one: its width is rounded to eights.
SpaceSpeaksTrue ==
    ~Bred =>
        /\ Cardinality(Draws(space)) <= UpperBound(space)
        /\ ~RequireNonEmpty(space) => \A a \in Samples(space) : ~Convolutional(a)

-----------------------------------------------------------------------------
(***************************************************************************)
(* The way down.                                                           *)
(***************************************************************************)
Rank(op) == CASE Parametric(op) -> 2
              [] op \in {"max_pool", "avg_pool"} -> 1
              [] op = "identity" -> 0

\* The fixed values of unused fields are not offered.
Strict(sp) ==
    /\ "none" \notin sp.block.norm \/ "identity" \notin sp.block.act
    /\ 1 \notin sp.block.kernel
    /\ "identity" \notin sp.head.act

SameLayout(a, b) ==
    /\ DOMAIN a.stages = DOMAIN b.stages
    /\ \A s \in DOMAIN a.stages : Len(a.stages[s]) = Len(b.stages[s])

\* Where the space does not offer those values, a mutation turns a
\* convolution into a pool and a pool into an identity but never back, and
\* never gives a hidden layer to a head without one.  Growing a stage or
\* the body is the only way back up.
OperationsOnlyDescend ==
    [][(Bred /\ Strict(space)) =>
          /\ SameLayout(current, current') =>
                \A p \in Positions(current) :
                    Rank(BlockAt(current', p).op) <= Rank(BlockAt(current, p).op)
          /\ current.head.hidden = 0 => current'.head.hidden = 0]_vars
=============================================================================
