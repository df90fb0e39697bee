---------------------------- MODULE MCKernelApps ----------------------------
EXTENDS KernelApps

Gemm(main, kernel, num, M, N, K, tb, alpha) ==
    [main |-> main, kernel |-> kernel, num |-> num, M |-> M, N |-> N, K |-> K,
     tb |-> tb, alpha |-> alpha]

Layer(ch_in, ch_out, in, kx, s, ox, oy, acc, bn, relu) ==
    [ch_in |-> ch_in, ch_out |-> ch_out, in_x |-> in[1], in_y |-> in[2],
     kx |-> kx, ky |-> 2, sx |-> s[1], sy |-> s[2], out_x |-> ox, out_y |-> oy,
     accumulate |-> acc, bn |-> bn, relu |-> relu]

Fused(kernel, num, k) == [main |-> "fusedconv", kernel |-> kernel, num |-> num, k |-> k]

Matmul(num, size, impls) ==
    [main |-> "matmul", num |-> num, M |-> size, N |-> size, K |-> size,
     tb |-> FALSE, alpha |-> TRUE, impls |-> impls]

\* Two compute cores (three or four for the benchmark), two rows per core,
\* two unrolled column blocks, leftover columns, 64 to 16 bits, both
\* layouts of B, with and without accumulation.
GemmApps ==
    {Gemm("blas", "fp64", 2, 4, 16, 3, TRUE, TRUE),
     Gemm("blas", "fp64", 2, 4, 16, 3, FALSE, TRUE),
     Gemm("blas", "fp64_baseline", 2, 2, 3, 2, FALSE, TRUE),
     Gemm("blas", "fp32", 2, 4, 16, 6, TRUE, TRUE),
     Gemm("blas", "fp16", 2, 2, 8, 8, TRUE, FALSE),
     Gemm("blas", "fp16_ex", 2, 2, 16, 4, TRUE, FALSE),
     Gemm("net_gemm", "fp64", 2, 2, 10, 2, TRUE, FALSE),
     Gemm("net_gemm", "fp64_baseline", 2, 2, 3, 2, TRUE, TRUE),
     Gemm("net_gemm", "fp32", 2, 2, 8, 4, TRUE, FALSE),
     Gemm("net_gemm", "fp16", 2, 4, 8, 8, TRUE, FALSE),
     Gemm("net_gemm", "fp16_ex", 2, 2, 16, 8, TRUE, FALSE)}

\* The eight-bit kernels of both copies.
Fp8Apps ==
    {Gemm("blas", "fp8_ex", 2, 4, 8, 8, TRUE, FALSE),
     Gemm("net_gemm", "fp8_ex", 2, 2, 16, 16, TRUE, FALSE)}

MatmulApps == {Matmul(3, 6, <<"seq_baseline">>),
               Matmul(4, 4, <<"seq_ssr", "seq_ssr_frep">>),
               Matmul(4, 8, <<"seq_ssr_frep">>)}

\* Nine output rows make a full unrolling and a clean-up of one row; two
\* channels per core make the set-up change twice, but for double precision,
\* which has one.
ConvApps ==
    {Fused("conv", 2, Layer(2, 4, <<3, 10>>, 2, <<1, 1>>, 2, 9, TRUE, TRUE, TRUE)),
     Fused("conv", 2, Layer(4, 4, <<4, 8>>, 2, <<2, 1>>, 2, 7, FALSE, FALSE, FALSE)),
     Fused("conv_fp64", 2, Layer(1, 2, <<3, 10>>, 2, <<1, 1>>, 2, 9, FALSE, FALSE, TRUE)),
     Fused("conv_dw", 2, Layer(8, 8, <<3, 11>>, 2, <<1, 1>>, 2, 10, FALSE, TRUE, FALSE)),
     Fused("conv_chw", 2, Layer(2, 4, <<3, 18>>, 2, <<1, 2>>, 2, 9, FALSE, FALSE, TRUE))}

\* Three output rows, as in the shipped fusedconv parameters: fewer than the
\* unrolling of batch normalisation.
FewRowsApps ==
    {Fused("conv", 2, Layer(2, 4, <<3, 4>>, 2, <<1, 1>>, 2, 3, TRUE, TRUE, TRUE))}

\* Two channels per core in double precision, with ReLU.
Fp64Apps ==
    {Fused("conv_fp64", 2, Layer(1, 4, <<3, 10>>, 2, <<1, 1>>, 2, 9, FALSE, FALSE, TRUE))}

\* Three compute cores that allocate.
ThreeCoreApps ==
    {Fused("conv", 3, Layer(2, 6, <<3, 10>>, 2, <<1, 1>>, 2, 9, TRUE, TRUE, TRUE))}

PassApps == GemmApps \cup MatmulApps \cup ConvApps
=============================================================================
