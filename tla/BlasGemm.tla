------------------------------ MODULE BlasGemm ------------------------------
(***************************************************************************)
(* The BLAS library's own copy of the gemm kernels (blas/gemm/src/gemm.h).  *)
(* Statement by statement it is the code of applications/src/kernels/gemm.c,*)
(* so each kernel is that of GemmKernels.                                   *)
(***************************************************************************)
LOCAL INSTANCE GemmKernels

blas_gemm_fp64_baseline(g, cfg) == gemm_fp64_baseline(g, cfg)
blas_gemm_fp64_opt(g, cfg) == gemm_fp64_opt(g, cfg)
blas_gemm_fp32_opt(g, cfg) == gemm_fp32_opt(g, cfg)
blas_gemm_fp16_opt(g, cfg) == gemm_fp16_opt(g, cfg)
blas_gemm_fp16_ex_opt(g, cfg) == gemm_fp16_ex_opt(g, cfg)
blas_gemm_fp8_ex_opt(g, cfg) == gemm_fp8_ex_opt(g, cfg)
=============================================================================
