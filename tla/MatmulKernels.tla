--------------------------- MODULE MatmulKernels ---------------------------
(***************************************************************************)
(* The matrix multiplications of the benchmark (matmul.c): C += A * B on N  *)
(* rows of M columns, with the fields N, M, K, A, ldA, B, ldB, C, ldC.      *)
(***************************************************************************)
EXTENDS StreamKernel

tf == 2

\* Steps of tf that a loop to x takes: one too many for an odd x.
Steps(x) == (x + tf - 1) \div tf

\* 2 x 2 x 2 register tiles; the accumulators are loaded and stored once per
\* step of k1.  Tile index i runs over n1, m1, k1 and the four accumulators.
gemm_seq_baseline(g, cfg) ==
    LET mk == Steps(g.M) * Steps(g.K)
    IN  [cfg |-> cfg,
         tiles |-> [i \in 1 .. Steps(g.N) * mk * 4 |->
             LET t == (i - 1) \div 4
                 n == tf * (t \div mk) + ((i - 1) % 4) \div 2
                 m == tf * ((t % mk) \div Steps(g.K)) + ((i - 1) % 2)
                 k1 == tf * (t % Steps(g.K))
                 at == g.C + n * g.ldC + m
             IN  Dot(at, {at}, [k2 \in 1 .. tf |->
                     <<g.A + n * g.ldA + k1 + k2 - 1, g.B + (k1 + k2 - 1) * g.ldB + m>>])]]

\* Four columns per step: data mover 0 repeats an element of A, data mover 1
\* walks four elements of a row of B.
SeqStreams(g, cfg) ==
    << Repeat(Loop(cfg[1], <<g.K, g.M \div 4, g.N>>, <<1, 0, g.ldA>>), 4),
       Loop(cfg[2], <<4, g.K, g.M \div 4, g.N>>, <<1, g.ldB, 4, 0>>) >>

SeqKernel(g, cfg0, f) ==
    LET cfg == SeqStreams(g, cfg0)
    IN  [cfg |-> cfg,
         tiles |-> <<ArmTile(<< <<Job(cfg[1], 3, g.A)>>, <<Job(cfg[2], 4, g.B)>> >>)>>
             \o [i \in 1 .. g.N * (g.M \div 4) |->
                   LET n == (i - 1) \div (g.M \div 4)
                       m == 4 * ((i - 1) % (g.M \div 4))
                       out == [u \in 0 .. 3 |-> g.C + n * g.ldC + m + u]
                   IN  Mac(f, 4, 1, FALSE, out, [u \in 0 .. 3 |-> {out[u]}])]]

gemm_seq_ssr(g, cfg) == SeqKernel(g, cfg, g.K)

gemm_seq_ssr_frep(g, cfg) == SeqKernel(g, cfg, Frep(g.K - 1))
=============================================================================
