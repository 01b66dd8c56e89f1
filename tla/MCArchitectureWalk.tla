------------------------- MODULE MCArchitectureWalk -------------------------
(***************************************************************************)
(* The search spaces TLC walks in.                                         *)
(***************************************************************************)
EXTENDS ArchitectureWalk

NoLimits ==
    [max_parameters |-> NoLimit, min_parameters |-> NoLimit, max_macs |-> NoLimit,
     max_stride |-> NoLimit, min_resolution |-> 1, max_depth |-> NoLimit]

\* The preset tiny_cnn, with a depth limit of 3 instead of 4 and no hidden
\* layer.
Tiny ==
    [channels |-> 3, size |-> 16, classes |-> 4,
     num_stages |-> {1, 2}, blocks_per_stage |-> {1, 2},
     stage_channels |-> {8, 16}, stage_strides |-> {1, 2}, monotonic |-> TRUE,
     block |-> [op |-> {"conv", "dw_sep_conv", "max_pool", "identity"}, kernel |-> {3},
                expansion |-> {Unit, 2 * Unit}, norm |-> {"batch"}, act |-> {"relu"},
                residual |-> TRUE],
     stem |-> [out |-> {8}, kernel |-> {3}, stride |-> {1}, norm |-> {"batch"},
               act |-> {"relu"}],
     head |-> [pooling |-> {"avg"}, hidden |-> {0}, dropout |-> {0}, act |-> {"relu"}],
     limits |-> [NoLimits EXCEPT !.max_parameters = 200000, !.max_depth = 3]]

\* Stems, heads, normalisations and widths in any order; a bare convolution
\* is on offer, so that a pool can become one.
Varied ==
    [Tiny EXCEPT !.size = 8, !.stage_strides = {1}, !.stage_channels = {4, 12}, !.monotonic = FALSE,
        !.block = [@ EXCEPT !.op = {"dw_sep_conv", "avg_pool"}, !.kernel = {3, 5},
                            !.expansion = {Unit, (3 * Unit) \div 2},
                            !.norm = {"none", "group"}, !.act = {"relu", "identity"},
                            !.residual = FALSE],
        !.stem = [@ EXCEPT !.out = {4, 12}, !.kernel = {1, 3}, !.stride = {1, 4}],
        !.head = [@ EXCEPT !.hidden = {0, 4}, !.dropout = {0, Unit \div 10}],
        !.num_stages = {1}, !.blocks_per_stage = {1, 2},
        !.limits = [NoLimits EXCEPT !.max_depth = 1, !.max_stride = 4, !.min_resolution = 2,
                                    !.min_parameters = 100, !.max_macs = 40000]]

\* One stage of one block with kernels of size 1.  The code's floor is 124
\* parameters; a pool needs 76 and a convolution 156.
Bare(limit) ==
    [Tiny EXCEPT !.num_stages = {1}, !.blocks_per_stage = {1}, !.stage_channels = {8},
        !.block = [@ EXCEPT !.op = {"conv", "max_pool"}, !.kernel = {1}],
        !.stem = [@ EXCEPT !.kernel = {1}],
        !.limits = [NoLimits EXCEPT !.max_parameters = limit]]

\* A bottleneck narrower than the block it is in.  The code's floor is 4548
\* parameters, the one network of this space has 2836.
Narrow ==
    [Bare(3000) EXCEPT !.stage_channels = {64}, !.stem.out = {64},
        !.block = [@ EXCEPT !.op = {"dw_sep_conv"}, !.expansion = {Unit \div 4}]]

\* One block on a map of one pixel.
Pixel ==
    [Bare(NoLimit) EXCEPT !.size = 4, !.stem.stride = {4}, !.block.op = {"conv"}]

\* A stage may be a pool of the stem's width and a convolution of its own.
Leading ==
    [Bare(NoLimit) EXCEPT !.blocks_per_stage = {1, 2}, !.stage_channels = {4, 12},
        !.stem.out = {4, 20}, !.block.residual = FALSE]

\* No stage of one block.
Paired ==
    [Bare(NoLimit) EXCEPT !.num_stages = {1, 2}, !.blocks_per_stage = {2}, !.block.op = {"conv"}]

\* Choices the validators let through and a specification rounds or refuses:
\* of the ratios, one is rounded to another; 4/3 (106 grains, a tie) is rounded
\* to 104, which is not offered; and 9 is no ratio of a block.  Of the
\* dropouts, one is rounded to another and 1/3 (26 grains) to 24.
Rough ==
    [Bare(NoLimit) EXCEPT !.num_stages = {1, 2}, !.blocks_per_stage = {1, 2},
        !.stage_channels = {8, 5000}, !.block.op = {"dw_sep_conv", "max_pool"},
        !.block.expansion = {Unit, Unit + 1, (4 * Unit) \div 3, 9 * Unit},
        !.stem.out = {8, 2000},
        !.head = [@ EXCEPT !.hidden = {0, 5000}, !.dropout = {0, 1, Unit \div 3}]]

MCSpaces == {Tiny, Varied, Bare(100), Bare(156), Narrow, Pixel, Leading, Paired, Rough}
=============================================================================
