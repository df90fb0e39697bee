----------------------------- MODULE KernelApps -----------------------------
(***************************************************************************)
(* The programs around the streaming kernels on one cluster: the BLAS gemm  *)
(* test (blas/gemm/src/main.c), net_gemm, net_fusedconv and the matmul      *)
(* benchmark.  Cores 0 .. num - 1 compute, core num is the DM core.         *)
(*                                                                         *)
(* A kernel call is one step: the cores write disjoint outputs (OneWriter)  *)
(* and only read what the barriers before the call have made stable.        *)
(***************************************************************************)
EXTENDS GemmKernels, BlasGemm, ConvKernels, MatmulKernels

CONSTANT Apps       \* the program instances to run

VARIABLES
    app,            \* the instance under way
    pc,             \* core -> index of its next operation
    waiting,        \* cores in the cluster barrier
    flying,         \* arrays the DMA engine is still copying
    present,        \* arrays complete in the TCDM
    mem,            \* the output array, symbolically
    cfg, queue,     \* core -> configuration and job queue of its data movers
    wrote,          \* core -> output addresses written since the last barrier
    alloc,          \* the l1 allocator: next, and what each core read of it
    share_ptr,
    verdict         \* results of the checks done so far

vars == <<app, pc, waiting, flying, present, mem, cfg, queue, wrote, alloc,
          share_ptr, verdict>>

Cores(a) == 0 .. a.num
Dm(a) == a.num
Arrays(a) == IF a.main = "fusedconv" THEN {"in", "weights", "out", "kappa", "lambda"}
             ELSE {"A", "B", "C"}
OutSize(a) == IF a.main = "fusedconv" THEN a.k.out_x * a.k.out_y * a.k.ch_out
              ELSE a.M * a.N

----------------------------------------------------------------------------
(* The programs: for each core the operations of main in order.             *)

Op(o) == <<o, "">>
Allocate == <<Op("load_next"), Op("store_next"), Op("share")>>
Load == <<Op("dma_start"), Op("dma_wait")>>
Barrier == <<Op("barrier")>>
When(b, s) == IF b THEN s ELSE << >>

BlasMain(a, c) ==
    When(c = Dm(a), Allocate \o Load) \o Barrier
      \o When(c # Dm(a), << <<"kernel", a.kernel>> >>) \o Barrier
      \o When(c = 0, <<Op("check")>>)

NetGemm(a, c) ==
    When(c = 0, Allocate) \o Barrier \o Barrier
      \o When(c = Dm(a), Load) \o Barrier
      \o When(c # Dm(a), << <<"kernel", a.kernel>> >>) \o Barrier \o Barrier
      \o When(c = 0, <<Op("check")>>)

\* Every compute core allocates; the last one to store share_ptr wins.  The
\* kernel holds one barrier, which the DM core matches.
NetFusedconv(a, c) ==
    When(c # Dm(a), Allocate) \o Barrier
      \o When(c = Dm(a), Load) \o Barrier
      \o When(c # Dm(a), << <<"kernel", a.kernel>> >>) \o Barrier
      \o When(c # Dm(a), << <<"post", a.kernel>> >>) \o Barrier
      \o When(c = Dm(a), <<Op("check")>>)

\* Without the barrier at its start, which keeps the next benchmark from
\* repopulating C while core 0 still checks it.
gemm_bench_no_entry(a, c, impl) ==
    When(c # Dm(a), <<Op("populate")>>) \o Barrier
      \o When(c # Dm(a), << <<"kernel", impl>> >>) \o Barrier
      \o When(c = 0, <<Op("check")>>)

gemm_bench(a, c, impl) ==
    Barrier \o When(c # Dm(a), <<Op("populate")>>) \o Barrier
      \o When(c # Dm(a), << <<"kernel", impl>> >>) \o Barrier
      \o When(c = 0, <<Op("check")>>)

\* main_all.c: the implementations one after the other.
MatmulMain(a, c) == FlattenSeq([i \in DOMAIN a.impls |-> gemm_bench(a, c, a.impls[i])])

Program(a, c) ==
    CASE a.main = "blas" -> BlasMain(a, c)
      [] a.main = "net_gemm" -> NetGemm(a, c)
      [] a.main = "fusedconv" -> NetFusedconv(a, c)
      [] a.main = "matmul" -> MatmulMain(a, c)

----------------------------------------------------------------------------
(* The kernel calls, with the arguments the programs pass.                  *)

\* Blocks of rows, but with the leading dimensions of interleaved rows.
GemmArgsBlocked(a, c) ==
    [M |-> a.M \div a.num, N |-> a.N, K |-> a.K, A |-> c * a.K, ldA |-> a.num * a.K,
     ta |-> FALSE, B |-> 0, ldB |-> IF a.tb THEN a.K ELSE a.N, tb |-> a.tb,
     C |-> c * a.N * (a.M \div a.num), ldC |-> a.N * a.num, alpha |-> a.alpha,
     setup |-> TRUE]

\* Core c of num works on rows c, c + num, ...
GemmArgs(a, c) ==
    [M |-> a.M \div a.num, N |-> a.N, K |-> a.K, A |-> c * a.K, ldA |-> a.num * a.K,
     ta |-> FALSE, B |-> 0, ldB |-> IF a.tb THEN a.K ELSE a.N, tb |-> a.tb,
     C |-> c * a.N, ldC |-> a.N * a.num, alpha |-> a.alpha, setup |-> TRUE]

MatmulArgs(a, c) ==
    [N |-> a.M \div a.num, M |-> a.M, K |-> a.M, A |-> c * a.M, ldA |-> a.M * a.num,
     B |-> 0, ldB |-> a.M, C |-> c * a.M, ldC |-> a.M * a.num]

\* The switch over dtype_size (and expand) of blas/gemm and of net_gemm; a
\* B that is not transposed always takes the double precision kernel.
BlasSwitch(kernel, g, old) ==
    CASE kernel = "fp64" \/ ~g.tb -> blas_gemm_fp64_opt(g, old)
      [] kernel = "fp32" -> blas_gemm_fp32_opt(g, old)
      [] kernel = "fp16" -> blas_gemm_fp16_opt(g, old)
      [] kernel = "fp16_ex" -> blas_gemm_fp16_ex_opt(g, old)
      [] kernel = "fp8_ex" -> blas_gemm_fp8_ex_opt(g, old)

NetSwitch(kernel, g, old) ==
    CASE kernel = "fp64" \/ ~g.tb -> gemm_fp64_opt(g, old)
      [] kernel = "fp32" -> gemm_fp32_opt(g, old)
      [] kernel = "fp16" -> gemm_fp16_opt(g, old)
      [] kernel = "fp16_ex" -> gemm_fp16_ex_opt(g, old)
      [] kernel = "fp8_ex" -> gemm_fp8_ex_opt(g, old)

\* The reference kernels of both copies, which no program of the repository
\* calls, are run in the place of the streaming ones.
Dispatch(a, c, o, old) ==
    CASE o = <<"kernel", "fp64_baseline">> ->
            IF a.main = "blas" THEN blas_gemm_fp64_baseline(GemmArgs(a, c), old)
                               ELSE gemm_fp64_baseline(GemmArgs(a, c), old)
      [] a.main = "blas" -> BlasSwitch(o[2], GemmArgs(a, c), old)
      [] a.main = "net_gemm" -> NetSwitch(o[2], GemmArgs(a, c), old)
      [] o = <<"kernel", "seq_baseline">> -> gemm_seq_baseline(MatmulArgs(a, c), old)
      [] o = <<"kernel", "seq_ssr">> -> gemm_seq_ssr(MatmulArgs(a, c), old)
      [] o = <<"kernel", "seq_ssr_frep">> -> gemm_seq_ssr_frep(MatmulArgs(a, c), old)
      [] o = <<"kernel", "conv_fp64">> -> occamy_conv_opt_fp64(a.k, c, a.num, old)
      [] o = <<"kernel", "conv">> -> occamy_conv_opt_fp32(a.k, c, a.num, old)
      [] o = <<"kernel", "conv_dw">> -> occamy_conv_dw_opt_fp32(a.k, c, a.num, old)
      [] o = <<"kernel", "conv_chw">> -> occamy_conv_chw_opt_fp32(a.k, c, a.num, old)
      [] o[1] = "post" /\ ~a.k.bn /\ ~a.k.relu -> [cfg |-> old, tiles |-> << >>]
      [] o = <<"post", "conv_fp64">> -> BnReluFp64(a.k, c, a.num, old)
      [] OTHER -> bn_relu(a.k, c, a.num, old)

----------------------------------------------------------------------------
Init ==
    /\ app \in Apps
    /\ pc = [c \in Cores(app) |-> 1]
    /\ waiting = {} /\ flying = {} /\ present = {}
    /\ mem = [a \in 0 .. OutSize(app) - 1 |-> Junk]
    /\ cfg = [c \in Cores(app) |-> <<Reset, Reset>>]
    /\ queue = [c \in Cores(app) |-> <<Idle, Idle>>]
    /\ wrote = [c \in Cores(app) |-> {}]
    /\ alloc = [next |-> 0, read |-> [c \in Cores(app) |-> 0]]
    /\ share_ptr = 0
    /\ verdict = << >>

Done(c) == pc[c] > Len(Program(app, c))
At(c, o) == ~Done(c) /\ c \notin waiting /\ Program(app, c)[pc[c]][1] = o
Step(c) == pc' = [pc EXCEPT ![c] = @ + 1]

Originals == [a \in DOMAIN mem |-> Original(a)]

\* snrt_l1alloc is a load and a store of next; chunks have unit size here.
LoadNext(c) ==
    /\ At(c, "load_next") /\ Step(c)
    /\ alloc' = [alloc EXCEPT !.read[c] = alloc.next]
    /\ UNCHANGED <<app, waiting, flying, present, mem, cfg, queue, wrote, share_ptr, verdict>>

StoreNext(c) ==
    /\ At(c, "store_next") /\ Step(c)
    /\ alloc' = [alloc EXCEPT !.next = alloc.read[c] + 1]
    /\ UNCHANGED <<app, waiting, flying, present, mem, cfg, queue, wrote, share_ptr, verdict>>

Share_ptr(c) ==
    /\ At(c, "share") /\ Step(c)
    /\ share_ptr' = alloc.read[c]
    /\ UNCHANGED <<app, waiting, flying, present, mem, cfg, queue, wrote, alloc, verdict>>

\* The loads of all arrays, and the engine completing them in any order.
DmaStart(c) ==
    /\ At(c, "dma_start") /\ Step(c)
    /\ flying' = Arrays(app)
    /\ UNCHANGED <<app, waiting, present, mem, cfg, queue, wrote, alloc, share_ptr, verdict>>

DmaDone ==
    \E x \in flying :
        /\ flying' = flying \ {x}
        /\ present' = present \cup {x}
        /\ mem' = IF x \in {"C", "out"} THEN Originals ELSE mem
        /\ UNCHANGED <<app, pc, waiting, cfg, queue, wrote, alloc, share_ptr, verdict>>

DmaWait(c) ==
    /\ At(c, "dma_wait") /\ flying = {} /\ Step(c)
    /\ UNCHANGED <<app, waiting, flying, present, mem, cfg, queue, wrote, alloc, share_ptr, verdict>>

\* Cores 0, 1 and 2 fill A, B and C.
Populate(c) ==
    /\ At(c, "populate") /\ Step(c)
    /\ present' = present \cup {x \in Arrays(app) :
                      x = (CASE c = 0 -> "A" [] c = 1 -> "B" [] c = 2 -> "C" [] OTHER -> "none")}
    /\ mem' = IF c = 2 THEN Originals ELSE mem
    /\ UNCHANGED <<app, waiting, flying, cfg, queue, wrote, alloc, share_ptr, verdict>>

\* snrt_cluster_hw_barrier: the last core to arrive releases all of them.
EnterBarrier(c) ==
    /\ At(c, "barrier")
    /\ IF waiting \cup {c} = Cores(app)
       THEN /\ waiting' = {}
            /\ pc' = [d \in Cores(app) |-> pc[d] + 1]
            /\ wrote' = [d \in Cores(app) |-> {}]
       ELSE /\ waiting' = waiting \cup {c}
            /\ UNCHANGED <<pc, wrote>>
    /\ UNCHANGED <<app, flying, present, mem, cfg, queue, alloc, share_ptr, verdict>>

Call(c) == Dispatch(app, c, Program(app, c)[pc[c]], cfg[c])
Outcome(c) == Run(mem, queue[c], Call(c).tiles)

\* A kernel that pops more than it armed never returns; one that starts
\* before its operands are there computes junk.
Kernel(c) ==
    /\ At(c, "kernel") \/ At(c, "post")
    /\ LET k == Call(c)
           r == Outcome(c)
       IN  /\ ~r.stalled
           /\ mem' = IF present = Arrays(app) THEN r.mem
                     ELSE [a \in DOMAIN mem |-> IF a \in r.written THEN Junk ELSE mem[a]]
           /\ cfg' = [cfg EXCEPT ![c] = k.cfg]
           /\ queue' = [queue EXCEPT ![c] = r.q]
           /\ wrote' = [wrote EXCEPT ![c] = @ \cup r.written]
    /\ Step(c)
    /\ UNCHANGED <<app, waiting, flying, present, alloc, share_ptr, verdict>>

----------------------------------------------------------------------------
(* The reference results.                                                   *)

GemmReference(a) ==
    [x \in 0 .. a.M * a.N - 1 |->
        LET i == x \div a.N
            j == x % a.N
        IN  [base |-> IF a.alpha THEN {x} ELSE {},
             macs |-> {<<k + i * a.K, IF a.tb THEN k + j * a.K ELSE k * a.N + j>> :
                         k \in 0 .. a.K - 1},
             n |-> a.K, post |-> << >>]]

ConvReference(a) ==
    LET k == a.k
        taps == (0 .. k.ky - 1) \X (0 .. k.kx - 1)
        hwc(y, x, ch, ci, t) ==
            <<((y * k.sy + t[1]) * k.in_x + x * k.sx + t[2]) * k.ch_in + ci,
              ((ch * k.ky + t[1]) * k.kx + t[2]) * k.ch_in + ci>>
        dw(y, x, ch, t) ==
            <<((y * k.sy + t[1]) * k.in_x + x * k.sx + t[2]) * k.ch_in + ch,
              (t[1] * k.kx + t[2]) * k.ch_in + ch>>
        chw(y, x, ch, ci, t) ==
            <<(ci * k.in_y + y * k.sy + t[1]) * k.in_x + x * k.sx + t[2],
              ((ch * k.ch_in + ci) * k.ky + t[1]) * k.kx + t[2]>>
        all(y, x, ch) ==
            CASE a.kernel \in {"conv", "conv_fp64"} ->
                   {hwc(y, x, ch, ci, t) : ci \in 0 .. k.ch_in - 1, t \in taps}
              [] a.kernel = "conv_dw" -> {dw(y, x, ch, t) : t \in taps}
              [] a.kernel = "conv_chw" ->
                   {chw(y, x, ch, ci, t) : ci \in 0 .. k.ch_in - 1, t \in taps}
    IN  [o \in 0 .. OutSize(a) - 1 |->
            LET ch == o % k.ch_out
                x == (o \div k.ch_out) % k.out_x
                y == o \div (k.ch_out * k.out_x)
            IN  [base |-> IF k.accumulate THEN {o} ELSE {}, macs |-> all(y, x, ch),
                 n |-> Cardinality(all(y, x, ch)), post |-> PostOps(k, ch)]]

Reference(a) == IF a.main = "fusedconv" THEN ConvReference(a) ELSE GemmReference(a)

\* The comparison with the golden result.  The eight-bit programs have none
\* yet and only say so; they are compared with the reference all the same.
Check(c) ==
    /\ At(c, "check") /\ Step(c)
    /\ verdict' = Append(verdict, mem = Reference(app))
    /\ UNCHANGED <<app, waiting, flying, present, mem, cfg, queue, wrote, alloc, share_ptr>>

Terminated == (\A c \in Cores(app) : Done(c)) /\ UNCHANGED vars

CoreStep(c) ==
    \/ LoadNext(c) \/ StoreNext(c) \/ Share_ptr(c) \/ DmaStart(c) \/ DmaWait(c)
    \/ Populate(c) \/ EnterBarrier(c) \/ Kernel(c) \/ Check(c)

Next == (\E c \in Cores(app) : CoreStep(c)) \/ DmaDone \/ Terminated

Spec == Init /\ [][Next]_vars

----------------------------------------------------------------------------
(* Properties.                                                              *)

\* Every comparison of a program with its golden result succeeds: each
\* output element is the sum of exactly its products, each once, on top of
\* the right starting value and followed by its own channel's batch
\* normalisation and ReLU, whatever the cores' and the DMA's timing.  The
\* eight-bit kernels, and layers of fewer rows than bn_relu unrolls, fail it.
ResultRight == \A i \in DOMAIN verdict : verdict[i]

\* Between kernels no data mover holds an unfinished job: every element a
\* kernel armed was popped.  A leftover would be popped by the next kernel.
StreamsDrained == \A c \in DOMAIN queue, i \in 1 .. 2 : queue[c][i] = Idle

\* Between two barriers no output element is written by two cores, and no
\* core writes outside the output.  The double precision batch normalisation
\* fails it with two channels per core.
OneWriter ==
    /\ \A c, d \in DOMAIN wrote : c # d => wrote[c] \cap wrote[d] = {}
    /\ \A c \in DOMAIN wrote : wrote[c] \subseteq 0 .. OutSize(app) - 1

\* "Allocate a chunk of memory in the L1 memory" (alloc.h:23): once some core
\* computes, the buffer every core works in (share_ptr) is allocated, and the
\* next allocation would not return it again.  Does not hold with three or
\* more compute cores, as snrt_l1alloc is a load and a store of next.
BufferReserved ==
    (\E c \in DOMAIN pc : At(c, "kernel")) /\ app.main # "matmul" => share_ptr < alloc.next

\* No core is stuck for good: no kernel asks an exhausted stream for more
\* than was armed, and nobody waits in a barrier that a core which has
\* already ended would have to enter.  As no operation repeats, every
\* program ends.
NobodyStuck ==
    /\ \A c \in DOMAIN pc : At(c, "kernel") \/ At(c, "post") => ~Outcome(c).stalled
    /\ \A c \in DOMAIN pc : Done(c) => waiting = {}
=============================================================================
