---------------------------- MODULE GemmKernels ----------------------------
(***************************************************************************)
(* The matrix multiplication kernels (gemm.c, and their copy in the BLAS    *)
(* gemm.h): C := alpha * C + A * B on the rows of one core.  A call g has   *)
(* the fields M, N, K, A, ldA, ta, B, ldB, tb, C, ldC, alpha of the C       *)
(* signature, addresses counting elements; cfg holds the configurations of  *)
(* data movers 0 and 1 when the call starts.  A kernel is the pair of       *)
(* configurations it leaves and the tiles it runs.                          *)
(***************************************************************************)
EXTENDS StreamKernel

unroll == 8

\* snrt_ssr_read on both data movers, once per call.
ArmBoth(cfg, A, B) ==
    <<ArmTile(<< <<Job(cfg[1], 4, A)>>, <<Job(cfg[2], 4, B)>> >>)>>

Loaded(g, S) == IF g.alpha THEN S ELSE {}

\* C[m * ldC + n + u] for the accumulators of a tile, each starting from
\* its own element.
TileOut(g, m, n) == [u \in 0 .. unroll - 1 |-> g.C + m * g.ldC + n + u]
FromOwn(g) ==
    [m \in 0 .. g.M - 1, n0 \in 0 .. g.N \div unroll - 1 |->
        [u \in 0 .. unroll - 1 |-> Loaded(g, {g.C + m * g.ldC + n0 * unroll + u})]]

\* "Clean up of leftover columns": scalar, from column n on.
Leftover(g, m, n) ==
    [j \in 1 .. IF n < g.N THEN g.N - n ELSE 0 |->
        LET c == n + j - 1
        IN  Dot(g.C + m * g.ldC + c, Loaded(g, {g.C + m * g.ldC + c}),
                [k \in 1 .. g.K |-> <<g.A + k - 1 + m * g.ldA,
                                      g.B + k - 1 + c * g.ldB>>])]

\* Row by row: the unrolled tiles with f pops per accumulator, of which w
\* elements are summed, then the leftover columns from "rest" on.  from[m, n0] is what the
\* accumulators of a tile start with.
Rows(g, f, w, from, rest) ==
    FlattenSeq([m \in 1 .. g.M |->
        [n0 \in 1 .. g.N \div unroll |->
            Mac(f, unroll, w, FALSE, TileOut(g, m - 1, (n0 - 1) * unroll),
                from[m - 1, n0 - 1])]
          \o Leftover(g, m - 1, rest)])

----------------------------------------------------------------------------
gemm_fp64_baseline(g, cfg) ==
    LET a(m, k) == g.A + IF g.ta THEN k * g.M * g.ldA + m * g.ldA
                                 ELSE k + m * g.ldA
        b(n, k) == g.B + IF g.tb THEN k + n * g.ldB ELSE k * g.ldB + n
    IN  [cfg |-> cfg,
         tiles |-> [i \in 1 .. g.M * g.N |->
             LET m == (i - 1) \div g.N
                 n == (i - 1) % g.N
             IN  Dot(g.C + m * g.ldC + n, Loaded(g, {g.C + m * g.ldC + n}),
                     [k \in 1 .. g.K |-> <<a(m, k - 1), b(n, k - 1)>>])]]

\* Strides and bounds of the double precision kernel (setup_SSR).
SetupFp64(g, cfg) ==
    << Repeat(Loop(cfg[1], <<g.K, g.N \div unroll, g.M>>,
                   IF g.ta THEN <<g.ldA, 0, 8>> ELSE <<1, 0, g.ldA>>), unroll),
       Loop(cfg[2], <<unroll, g.K, g.N \div unroll, g.M>>,
            IF g.tb THEN <<g.ldB, 1, g.ldB * unroll, 0>>
                    ELSE <<1, g.ldB, unroll, 0>>) >>

gemm_fp64_opt(g, cfg0) ==
    LET cfg == IF g.setup THEN SetupFp64(g, cfg0) ELSE cfg0
    IN  [cfg |-> cfg,
         tiles |-> ArmBoth(cfg, g.A, g.B)
                    \o Rows(g, Frep(g.K - 1), 1, FromOwn(g), unroll * (g.N \div unroll))]

----------------------------------------------------------------------------
\* The SIMD kernels share the set-up: w elements per pop, B transposed.
SetupSimd(g, cfg, w) ==
    << Repeat(Loop(cfg[1], <<g.K \div w, g.N \div unroll, g.M>>, <<w, 0, g.ldA>>),
              unroll),
       Loop(cfg[2], <<unroll, g.K \div w, g.N \div unroll, g.M>>,
            <<g.ldB, w, unroll * g.ldB, 0>>) >>

\* Of the w elements of a pop the reduction at the end sums the first s.
SimdKernel(g, cfg0, w, s, f, from, rest) ==
    LET cfg == IF g.setup THEN SetupSimd(g, cfg0, w) ELSE cfg0
    IN  [cfg |-> cfg,
         tiles |-> ArmBoth(cfg, g.A, g.B) \o Rows(g, f, s, from, rest)]

\* One vfmul and n_frep = K / 2 - 1 vfmac; n runs twice as fast as the
\* columns, so that the clean-up starts at column 16 * (N / 8).
gemm_fp32_opt(g, cfg) ==
    SimdKernel(g, cfg, 2, 2, 1 + Frep(g.K \div 2 - 2), FromOwn(g),
               2 * unroll * (g.N \div unroll))

\* flw reads four bytes at 4u: two neighbouring half-precision elements.
FromPairs(g) ==
    [m \in 0 .. g.M - 1, n0 \in 0 .. g.N \div unroll - 1 |->
        [u \in 0 .. unroll - 1 |->
            LET first == g.C + m * g.ldC + n0 * unroll + 2 * u
            IN  Loaded(g, {first, first + 1})]]

\* The leftover columns are commented out in the half-precision kernels.
gemm_fp16_opt(g, cfg) ==
    SimdKernel(g, cfg, 4, 4, Frep(g.K \div 4 - 1), FromPairs(g), g.N)

gemm_fp16_ex_opt(g, cfg) ==
    SimdKernel(g, cfg, 4, 4, Frep(g.K \div 4 - 1), FromPairs(g), g.N)

\* vfdotpex.h.b leaves four sums of two products, vfsumex.s.h two of four,
\* and the pack takes the lower one: there is no vfsum.s as in gemm_fp16_opt.
gemm_fp8_ex_opt(g, cfg) ==
    IF g.alpha THEN [cfg |-> cfg, tiles |-> << >>]
    ELSE SimdKernel(g, cfg, 8, 4, Frep(g.K \div 8 - 1), FromOwn(g), g.N)
=============================================================================
