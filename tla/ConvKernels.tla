---------------------------- MODULE ConvKernels ----------------------------
(***************************************************************************)
(* The convolution kernels (conv2d.c).  A layer k has the fields ch_in,     *)
(* ch_out, in_x, in_y (padding included), kx, ky, sx, sy, out_x, out_y,     *)
(* accumulate (not flag_y_accumulate_start), bn and relu; core id of num    *)
(* computes its share of the output channels, eight output rows at a time   *)
(* and the remaining rows in a clean-up with a smaller unrolling.           *)
(***************************************************************************)
EXTENDS StreamKernel

max_unroll == 8

Cleanup(k) == k.out_y % max_unroll

\* first, first + step, ... below limit: the channels of a core.
Share(first, step, limit) ==
    [i \in 1 .. IF first < limit THEN (limit - first - 1) \div step + 1 ELSE 0
        |-> first + (i - 1) * step]

\* Rows h0 * 8 .. of column w, one address per accumulator.
OutRows(k, ch, h0, w, u) ==
    [i \in 0 .. u - 1 |->
        (h0 * max_unroll + i) * k.ch_out * k.out_x + w * k.ch_out + ch]

FromRows(out, load) == [i \in DOMAIN out |-> IF load THEN {out[i]} ELSE {}]

\* The set-up is left as the clean-up of the previous channel made it.
ReinitForgotten(k, cfg, full) == cfg

\* Before the rows of a channel: the clean-up of the previous channel has
\* changed the innermost loop, so it is set up again.
Reinit(k, cfg, full) == IF Cleanup(k) # 0 THEN full ELSE cfg

FullBlocks(k) == 0 .. k.out_y \div max_unroll - 1

\* The loop nest around the tiles.  full and small are the configurations of
\* both data movers for eight rows and for the clean-up, rows[cfg, ch, h0]
\* computes eight output rows of ch and cleanup[ch] the remaining ones.
Conv(k, full, small, channels, rows, cleanup) ==
    LET cleaned == IF Cleanup(k) # 0 THEN small ELSE full
        main(i) == Reinit(k, IF i = 1 THEN full ELSE cleaned, full)
        channel(i) ==
            FlattenSeq([h \in 1 .. k.out_y \div max_unroll |->
                            rows[main(i), channels[i], h - 1]])
              \o (IF Cleanup(k) = 0 THEN << >> ELSE cleanup[channels[i]])
    IN  [cfg |-> IF channels = << >> THEN full ELSE cleaned,
         tiles |-> FlattenSeq([i \in DOMAIN channels |-> channel(i)])]

----------------------------------------------------------------------------
(* HWC layout, all input channels of a pixel innermost: w = 1 for fp64,     *)
(* w = 2 for fp32.  Both streams are armed for every output column.         *)

HwcStreams(k, w, cfg, u) ==
    << Loop(cfg[1], <<u, k.ch_in \div w, k.kx, k.ky>>,
            <<k.ch_in * k.in_x * k.sy, w, k.ch_in, k.ch_in * k.in_x>>),
       Repeat(Loop(cfg[2], <<k.ch_in \div w, k.kx, k.ky>>,
                   <<w, k.ch_in, k.ch_in * k.kx>>), u) >>

HwcRows(k, w, cfg, co, h0, u) ==
    FlattenSeq([x1 \in 1 .. k.out_x |->
        LET x == x1 - 1
            out == OutRows(k, co, h0, x, u)
        IN  << ArmTile(<< <<Job(cfg[1], 4, h0 * max_unroll * k.sy * k.ch_in * k.in_x
                                            + x * k.sx * k.ch_in)>>,
                          <<Job(cfg[2], 3, co * k.ch_in * k.kx * k.ky)>> >>),
               Mac(Frep((k.ky * k.kx * k.ch_in) \div w - 1), u, w, FALSE,
                   out, FromRows(out, k.accumulate)) >>])

\* The clean-up rows: one hardware loop per number of rows, 1 to 7.
Fp64Cleanup(k, cfg, co) == HwcRows(k, 1, cfg, co, k.out_y \div max_unroll, Cleanup(k))

occamy_conv_opt_fp64(k, id, num, cfg) ==
    LET channels == Share(id, num, k.ch_out)
        full == HwcStreams(k, 1, cfg, max_unroll)
        small == HwcStreams(k, 1, full, Cleanup(k))
    IN  Conv(k, full, small, channels,
             [c \in {full, small}, co \in Range(channels), h0 \in FullBlocks(k) |->
                 HwcRows(k, 1, c, co, h0, max_unroll)],
             [co \in Range(channels) |-> Fp64Cleanup(k, small, co)])

Fp32Cleanup(k, cfg, co) == HwcRows(k, 2, cfg, co, k.out_y \div max_unroll, Cleanup(k))

occamy_conv_opt_fp32(k, id, num, cfg) ==
    LET channels == Share(id, num, k.ch_out)
        full == HwcStreams(k, 2, cfg, max_unroll)
        small == HwcStreams(k, 2, full, Cleanup(k))
    IN  Conv(k, full, small, channels,
             [c \in {full, small}, co \in Range(channels), h0 \in FullBlocks(k) |->
                 HwcRows(k, 2, c, co, h0, max_unroll)],
             [co \in Range(channels) |-> Fp32Cleanup(k, small, co)])

----------------------------------------------------------------------------
(* Depthwise: the two lanes are two channels; the streams are armed once    *)
(* for a whole row of output columns.                                       *)

DwStreams(k, cfg, u) ==
    << Loop(cfg[1], <<u, k.kx, k.ky, k.out_x>>,
            <<k.ch_in * k.in_x * k.sy, k.ch_in, k.ch_in * k.in_x, k.ch_in * k.sx>>),
       Repeat(Loop(cfg[2], <<k.kx, k.ky, k.out_x>>, <<k.ch_in, k.ch_in * k.kx, 0>>), u) >>

DwRows(k, cfg, co, h0, u) ==
    <<ArmTile(<< <<Job(cfg[1], 4, h0 * max_unroll * k.sy * k.ch_in * k.in_x + co)>>,
                 <<Job(cfg[2], 3, co)>> >>)>>
      \o [x \in 1 .. k.out_x |->
             LET out == OutRows(k, co, h0, x - 1, u)
             IN  Mac(Frep(k.ky * k.kx - 1), u, 2, TRUE, out, FromRows(out, k.accumulate))]

DwCleanup(k, cfg, co) == DwRows(k, cfg, co, k.out_y \div max_unroll, Cleanup(k))

occamy_conv_dw_opt_fp32(k, id, num, cfg) ==
    LET channels == Share(id * 2, num * 2, k.ch_out)
        full == DwStreams(k, cfg, max_unroll)
        small == DwStreams(k, full, Cleanup(k))
    IN  Conv(k, full, small, channels,
             [c \in {full, small}, co \in Range(channels), h0 \in FullBlocks(k) |->
                 DwRows(k, c, co, h0, max_unroll)],
             [co \in Range(channels) |-> DwCleanup(k, small, co)])

----------------------------------------------------------------------------
(* CHW layout of the first layer: the input channels are an outer loop that *)
(* accumulates in memory; the lanes are neighbouring pixels.                *)

ChwStreams(k, cfg, u) ==
    << Loop(cfg[1], <<u, k.kx \div 2, k.ky, k.out_x>>, <<k.in_x * k.sy, 2, k.in_x, k.sx>>),
       Repeat(Loop(cfg[2], <<k.kx \div 2, k.ky, k.out_x>>, <<2, k.kx, 0>>), u) >>

\* Only the first input channel may start from zero.
ChwLoads(k, ci) == k.accumulate \/ ci # 0

ChwRows(k, cfg, ch, h0, u) ==
    LET co == ch \div k.ch_in
        ci == ch % k.ch_in
    IN  <<ArmTile(<< <<Job(cfg[1], 4, h0 * max_unroll * k.sy * k.in_x + ci * k.in_x * k.in_y)>>,
                     <<Job(cfg[2], 3, ci * k.kx * k.ky + co * k.kx * k.ky * k.ch_in)>> >>)>>
          \o [x \in 1 .. k.out_x |->
                 LET out == OutRows(k, co, h0, x - 1, u)
                 IN  Mac(Frep((k.kx \div 2) * k.ky - 1), u, 2, FALSE,
                         out, FromRows(out, ChwLoads(k, ci)))]

ChwCleanup(k, cfg, ch) == ChwRows(k, cfg, ch, k.out_y \div max_unroll, Cleanup(k))

\* The loop nest runs over pairs co * ch_in + ci.
occamy_conv_chw_opt_fp32(k, id, num, cfg) ==
    LET co == Share(id, num, k.ch_out)
        pairs == [i \in 1 .. Len(co) * k.ch_in |->
                    co[(i - 1) \div k.ch_in + 1] * k.ch_in + ((i - 1) % k.ch_in)]
        full == ChwStreams(k, cfg, max_unroll)
        small == ChwStreams(k, full, Cleanup(k))
    IN  Conv(k, full, small, pairs,
             [c \in {full, small}, ch \in Range(pairs), h0 \in FullBlocks(k) |->
                 ChwRows(k, c, ch, h0, max_unroll)],
             [ch \in Range(pairs) |-> ChwCleanup(k, small, ch)])

----------------------------------------------------------------------------
(* Batch normalisation and ReLU in place: data mover 0 reads, 1 writes.     *)

PostOps(k, ch) ==
    (IF k.bn THEN << <<"bn", ch>> >> ELSE << >>)
      \o (IF k.relu THEN << <<"relu", 0>> >> ELSE << >>)

\* After the double precision convolution, one channel per step.  The
\* streams step to the neighbouring channel, the loop over the channels by
\* num; without ReLU the result is never written to the stream.
BnReluFp64(k, id, num, cfg) ==
    LET b == <<k.out_x * k.out_y, k.ch_out \div num>>
        s == <<k.ch_out, 1>>
        new == <<Loop(cfg[1], b, s), Repeat(Loop(cfg[2], b, s), 1)>>
        co == Share(id, num, k.ch_out)
    IN  [cfg |-> new,
         tiles |-> <<ArmTile(<< <<Job(new[1], 2, id)>>, <<Job(new[2], 2, id)>> >>)>>
                     \o [i \in DOMAIN co |->
                           IF k.relu
                           THEN Map(Frep(k.out_x * k.out_y - 1), [l \in {0} |-> PostOps(k, co[i])])
                           ELSE Discard(Frep(k.out_x * k.out_y - 1))]]

n_unroll == 4

BnBounds(k, num, u, rounds) ==
    <<u, k.out_x, rounds, ((k.ch_out + num - 1) \div num) \div 2>>
BnStrides(k, num, u) ==
    <<k.ch_out * k.out_x, k.ch_out, u * k.ch_out * k.out_x, 2 * num>>

\* The repetition of the weights is still set on the stream that writes.
BnSetupStaleRepeat(k, num, cfg, u, rounds) ==
    <<Loop(cfg[1], BnBounds(k, num, u, rounds), BnStrides(k, num, u)),
      Loop(cfg[2], BnBounds(k, num, u, rounds), BnStrides(k, num, u))>>

BnSetup(k, num, cfg, u, rounds) ==
    <<Loop(cfg[1], BnBounds(k, num, u, rounds), BnStrides(k, num, u)),
      Repeat(Loop(cfg[2], BnBounds(k, num, u, rounds), BnStrides(k, num, u)), 1)>>

\* One hardware loop of n pops per pair of channels.
BnPairs(k, id, num, n) ==
    LET co == Share(id, num, k.ch_out \div 2)
    IN  [i \in DOMAIN co |-> Map(n, [l \in 0 .. 1 |-> PostOps(k, 2 * co[i] + l)])]

BnArm(cfg, ptr) == <<ArmTile(<< <<Job(cfg[1], 4, ptr)>>, <<Job(cfg[2], 4, ptr)>> >>)>>

\* The rows beyond a multiple of four, with streams of their own.
BnCleanup(k, id, num, cfg) ==
    LET cu == k.out_y % n_unroll
    IN  BnArm(BnSetup(k, num, cfg, cu, 1), (k.out_y - cu) * k.ch_out * k.out_x + id * 2)
          \o BnPairs(k, id, num, cu * Frep(k.out_x - 1))

\* The streams of the regular path are armed whether or not it is taken.
bn_relu(k, id, num, cfg) ==
    LET cu == k.out_y % n_unroll
        rounds == k.out_y \div n_unroll
        full == BnSetup(k, num, cfg, n_unroll, rounds)
    IN  [cfg |-> IF cu # 0 THEN BnSetup(k, num, full, cu, 1) ELSE full,
         tiles |->
             BnArm(full, id * 2)
               \o (IF k.out_y >= n_unroll
                   THEN BnPairs(k, id, num, n_unroll * Frep(k.out_x * rounds - 1))
                   ELSE << >>)
               \o (IF cu # 0 THEN BnCleanup(k, id, num, full) ELSE << >>)]
=============================================================================
