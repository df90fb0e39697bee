# Snitch: a TLA+ model of the runtime, its kernels and its offload protocols

Snitch is a cluster of small in-order RISC-V cores that share a scratchpad
memory (TCDM, L1) without caches.  One core of each cluster, the *DM core*, has
a DMA engine and moves data; the others compute.  The clusters share an L3
memory and, in the Occamy system, a 64-bit host core (CVA6).  Nothing in such a
system is kept consistent by an operating system: harts meet on words in
memory, on one hardware barrier per cluster, and on interrupts that end `wfi`.
Data reaches the floating-point unit through *stream semantic registers* (SSR),
address generators that are configured once and then feed `ft0` and `ft1` element
by element, so that a kernel is right only if what it arms and what it pops agree.

This project models those meeting points: in the runtime (`src/sw/snRuntime`),
in the hardware barrier (`src/hw/ip/snitch_cluster/src/snitch_barrier.sv`), in
the streaming kernels and the programs around them (`src/sw/blas`,
`src/sw/applications`, `src/sw/benchmark`), in the tiled network layers, and in
the host runtime and the offload application of Occamy
(`src/hw/system/occamy/sw`).

Paths below are relative to the root of the repository.  `PROJECT.json` gives
the source lines of every definition that models code.

## 1. Inventory

| Part | State it keeps | Operations | Meets others through |
|---|---|---|---|
| Mutex, `sync.h` | one word | acquire, ttas acquire, release | atomic swap |
| Software barrier, `sync.h` | `cnt`, `iteration` | `snrt_partial_barrier` | atomic add, polling |
| Global barrier, `sync.h` | `_snrt_barrier` in L3 | `snrt_global_barrier` | software barrier of DM cores, then hardware barrier |
| Hardware barrier, `snitch_barrier.sv` | one state register per port | a load from one address | request channel of each core |
| Data mover, `dm.h` | ring of tasks, `queue_fill`, `stat_q`, `stat_pvalid`, `dm_wfi`, mutex | `dm_init`, `dm_main`, `dm_memcpy_async`, `dm_memcpy2d_async`, `dm_start`, `dm_wait`, `dm_wait_ready`, `dm_exit` | TCDM words, cluster interrupt, DMA engine |
| Event unit, `omp/eu.h` | the event, `fini_count`, `workers_in_loop`, `workers_wfi`, `exit_flag` | `eu_init`, `eu_event_loop`, `eu_dispatch_push`, `eu_run_empty`, `eu_exit` | TCDM words, cluster interrupts |
| OpenMP entry points, `omp/kmp.c`, `omp.c`, `omp.h` | `kmpc_args`, `omp_t` | fork, microtask wrapper, static loop schedule, barrier | event unit, software barrier |
| Start-up, `start.c`, `alloc.h` | `.bss`, CLS, the L1 and L3 allocators | `snrt_main`, `snrt_init_*`, `snrt_l1alloc`, `snrt_l3alloc` | L3 and TCDM words |
| Offload, `occamy/sw` | communication buffer, job structures, L1 next pointer | host: wake, wait, post; device: `run_job`, `return_to_cva6` | interrupts both ways, DMA, hardware barrier |
| Interrupts, `cluster_interrupts.h`, `global_interrupts.h` | pending bits; the shared CLINT and its mutex | set, clear, wait | CLINT and cluster registers |
| Host runtime, `host/runtime/host.c`, and `occamy_device.h` | CLINT words, `comm_buffer.lock`, `mtimecmp`, the election counter | `wakeup_snitches*`, `wait_snitches_done`, `delay_ns`, `elect_director` | read-modify-write of shared registers, `wfi` |
| SSR library, `ssr.h`, and address generator `snitch_ssr_addr_gen.sv` | bounds, strides, repetition, shadow registers and job queue of each data mover | loop, repeat, read, write; pop | configuration registers, `ft0` and `ft1` |
| Kernels: `gemm.c`, `gemm.h`, `conv2d.c`, `matmul.c` | none but the streams, which outlive a call | six gemms, four convolutions, batch normalisation, three matmuls | streams, TCDM |
| Programs around kernels: `blas/gemm`, `net_gemm`, `net_fusedconv`, `matmul` | operands in TCDM, L1 allocator | allocate, load, call, check | DMA, hardware barrier |
| Tiled layers: `conv2d_layer.c`, `batchnorm_layer.c`, `maxpool_layer.c`, `nnlinear_backend_baseline.c` | double buffers, `read_buf`/`write_buf` of each core, `synch_flag` | load, compute and store tiles; `check_layer` | DMA, cluster barrier, flags in another cluster's TCDM |
| Memory side, RTL | reservations, arbitration, caches | loads, stores, atomics | request/response channels |

What is hard here, and where the `hazards` of `PROJECT.json` come from:

* a barrier is *reused*: a fast hart is in the next round while a slow one has
  not yet noticed the end of this one;
* a core tests a condition and then goes to sleep, or is woken while it is on
  its way into or out of `wfi`;
* a word is read before a lock is taken and used after;
* several words make up a message and are written one by one;
* two barriers of different reach are put in a row;
* one hart initialises memory for everybody;
* the configuration of a stream outlives the kernel that made it, and a pop too
  many or too few shows only in a later kernel, or as a core that stops;
* producer and consumer of a double buffer keep their own copies of which half
  is whose, and only barriers that match one by one keep them apart;
* the pending bits of many harts share a register that is changed by a load and
  a store;
* `wfi` ends on any interrupt, not only on the one that is waited for;
* fixed blocks, rings and words are used up to their limits.

Correct means, part by part: the lock excludes and is not lost; a barrier lets
nobody out before everybody is in, and lets everybody out; queued copies are
started once, in order, and are complete when `dm_wait` says so; every thread
runs an event once and the join waits for all; a loop's shares are a partition
of it; a job is found, run once and finished before the host goes on; every
output element of a kernel or a layer is made of exactly the products of the
reference, at every relative speed of the cores, and no stream is left half
used; no interrupt bit is lost or made up; and nobody sleeps through a wake-up.

## 2. The modules

All modules take the same view of the machine: harts are interleaved, and each
access to memory other harts can see is one atomic step.  That is what in-order
cores on uncached memory with the `volatile` and `__atomic` accesses of the
sources give.  Work between two such accesses is part of the step of one of
them.  `wfi` ends if the interrupt is, or already was, pending.

| Module | Models | Extends or uses |
|---|---|---|
| `AbstractBarrier` | what a barrier promises: rounds entered and left per party | |
| `PartialBarrier` | `snrt_partial_barrier` | refines `AbstractBarrier` |
| `GlobalBarrier` | `snrt_global_barrier` | instance of `PartialBarrier` for the DM cores; hardware barrier at the level of `AbstractBarrier` |
| `HwBarrier` | `snitch_barrier.sv`, one step per clock edge | refines `AbstractBarrier` |
| `Mutex` | `snrt_mutex_acquire`, `_ttas_acquire`, `_release` | |
| `DataMover` | `dm.h`: the DM core's loop and its clients | |
| `EventUnit` | `eu.h`, with the bootstrap in `omp.c` | |
| `Kmp` | `kmp.c`: fork, wrapper, static loop schedule | |
| `Offload` | host and clusters of the Occamy offload application, `snrt_main`'s start-up as far as it shares memory | |
| `Ssr` | `ssr.h` and `snitch_ssr_addr_gen.sv`: configuration, jobs and the addresses they pop | |
| `StreamKernel` | what the kernels are made of: arming, hardware loops, scalar loops | `Ssr` |
| `GemmKernels`, `BlasGemm`, `ConvKernels`, `MatmulKernels` | the kernels, as sequences of tiles | `StreamKernel` |
| `KernelApps` | the programs: allocation, DMA, barriers, calls, checks | composes the kernel modules |
| `Layers` | the tiled layers, one or more clusters | |
| `HostRuntime` | interrupts, wake-ups, election and timer of Occamy | the lock of `Mutex`, taken in one step |
| `*Proofs` | the theorems of section 5 | their module and `TLAPS` |
| `MC*` | instances for TLC, with the call sequences and loops that are run | |

Modules contain *plausible mistakes*: forms of a definition with a dropped
guard, a missing reset or a swapped order.  No specification uses them.
Put in place of the right action, each makes one of the properties fail, which
is how we know that the property looks at the code.

**PartialBarrier.**  A hart remembers `iteration` (`RememberIteration`), adds
itself to `cnt` (`AddFetchCnt`), and either is the last and resets `cnt`
(`ResetCnt`) and bumps `iteration` (`BumpIteration`), or spins until
`iteration` differs (`LeaveSpin`).  Words have `W` values.  `entered`, `left`
and `released` count rounds and are history: no guard reads them except for the
bound `MaxRounds`.

**HwBarrier.**  Per port the register `state` (Idle, Wait, Take) and the
request the core holds.  `TakeBarrier`, `HeldBack` and `NextState` are the
combinational logic, `Clock` the edge, at which the interconnect accepts any
set of the requests it is shown.  Cores raise a barrier load or another request
at any time and hold it until it is accepted, as the protocol demands.

**GlobalBarrier.**  DM cores take the steps of `PartialBarrier` over the
clusters, then load from the hardware barrier; the other cores load from it
straight away.

**DataMover.**  The DM core runs `dm_init` and `dm_main` load by load,
including the two loads before it sleeps and the three steps of `wfi_dm`.
A client runs a sequence of calls.  `Lock`, `SeeAsleep` and `SetInterrupt` are
shared by the calls that make these steps.  The DMA engine is external: it holds
`DmaDepth` transfers, completes them in order, and reports busy and would-block.
The struct starts with arbitrary contents, since `dm_init` takes it from an
allocator that does not clear.

**EventUnit.**  The master and the workers, load by load; the event is written
in three stores.  A task is a step that begins it and a step that ends it.

**Kmp.**  The words of `kmpc_args` and, right behind them, the first word of
`omp_t`, because that is where the bump allocator puts it.  `StaticChunked` and
`Static` compute with words (`Int32`, `Uint32`, and C's division).  `Mine` is
the loop the compiler puts around the call, and external.

**Offload.**  The host's loop, the boot of the clusters, and a job on the DM core
and the compute cores.  A slot stands for the L1 memory of a job; `l1_next` is
the allocator's next pointer through which the compute cores find the job.
Operands are present or not, a compute core's copies of the operand pointers
(`good`) are those the DM core has set or whatever was in the slot before, and a
result is the set of cores whose share is in it.  Two races of the code can put
everything after them in doubt: a cluster counted before cluster 0 has cleared `.bss`,
and an operand pointer copied before it was set.  The model has both; the
history variable `spoilt` records that one of them has done harm, and no guard reads it.

**Ssr.**  A data mover's configuration has bounds (minus one; a loop of 0
iterations wraps and never ends), strides relative to where the inner loops stop,
as the library computes them, and a repetition.  `Job` is what arming puts into the queue: a sequence of
addresses, one per pop.  A write stream with a repetition left over from a
read would store every element several times, as in the hardware.

**StreamKernel.**  A kernel is the configuration it leaves and a sequence of
*tiles*; a tile arms streams, runs a hardware loop that pops (`Mac`, `Map`), or
computes one element by ordinary loads (`Dot`).  Data is symbolic: the value of
an element is the set of elements it started from, the bag of products added to
it, as pairs of addresses with their number, and the operations applied after
(batch normalisation with the parameters of which channel, ReLU).  Rounding and
the order of additions are left out.  Popping from an empty stream stops the
core, which is a state of the model.  An accumulator of a SIMD kernel has lanes, and
a reduction sums those the instructions sum: `gemm_fp8_ex_opt` keeps half of them.

**GemmKernels, BlasGemm, ConvKernels, MatmulKernels.**  One operator per kernel,
with its loop nest, strides, bounds and addresses.  Unrolled copies of a statement are one
tile with several accumulators.  `blas/gemm/src/gemm.h` is a second copy of
`gemm.c` that differs in its header and one clobber list; `BlasGemm` says so by
definition.  The half-precision kernels skip leftover columns and read pairs of
C elements, as the code does.  Of the fp64 batch normalisation, the outer
stride of one channel and the variant without ReLU, whose results go to a register
and never to the write stream (`Discard`), are those of the code.

**KernelApps.**  Each core has the operations of its `main` in order: allocate
(a load and a store of the L1 pointer, two steps), start and await DMA, enter
the hardware barrier, call a kernel, check.  A kernel call is one step, which
`OneWriter` justifies: between two barriers no two cores write the same element.
The check compares with a reference written from the mathematical definition;
the programs themselves compare with a golden model in the higher precisions
only.  `snrt_cluster_compute_core_idx` is called and nowhere defined in the
repository; it is taken for the core number.

**Layers.**  `Program` is, for every core, the list of steps of its layer
function: the loops are unrolled into operations, so that barriers that do not
match are found as a core that never ends.  The TCDM of a cluster holds both
halves of each double buffer, by element.  The wait for a transfer is part of
the step that starts it, except where the code starts one and goes on
(`StartWeights`).  `snrt_global_barrier` is the DM cores' meeting and then the
cluster barrier (`Global`).  All compute cores train: adding to the same gradient
is a load and a store, after which a sum may be there twice or once (`Added`), and
activations that one core is still computing may be read by another (`Mixed`).  With `cluster2cluster` the flags are words in another
cluster's TCDM, and every core's clearing of them is a step of its own.

**HostRuntime.**  A register holds `FIELDS` pending bits.  Every change is
`Acquire`, then `Load` and `Store` per register (a full mask is stored without
the load), then `Release`; `StridedUpdates` computes the masks
of `set_sw_interrupts_unsafe`.  `want` is history: the bits that should be set
if each change were atomic.  The timer counts periods of the real-time clock, to which
`Periods` converts nanoseconds by the code's division, rounding down; the host
reads `mtime` and writes `mtimecmp` in two steps between which the clock ticks.

## 3. The runs

| Run | Instance | Checks | States |
|---|---|---|---|
| `partial_barrier` | 3 harts, 5 rounds, words of 4 values | `NoEarlyExit`, `NoMissedRelease`, `ImplementsBarrier` | 311 |
| `global_barrier` | 2 clusters of 3 cores, 4 rounds | `ClustersSynced`, `AtMostOneBehind`, `EventuallyAllReturn` | 11,715 |
| `hw_barrier` | 3 ports, 4 rounds | `NoEarlyExit`, `ImplementsBarrier`, `OthersPass` | 466 |
| `mutex` | 3 harts, 3 acquisitions each, either variant | `MutualExclusion`, `EventuallyAllServed` | 1,900 |
| `data_mover` | 1 client with any paced sequence of up to 5 calls and two of the repository's tests; 2 clients with 9 pairs of sequences; ring of 2 | `QueueBounded`, `IssuedInOrder`, `WaitMeansComplete`, `OneOwner`, `SoleClientServed` | 513,301 |
| `event_unit` | 3 cores, up to 3 regions of 1 to 3 threads, then exit | `NoReexecution`, `JoinMeansDone`, `AllLeave` | 21,258 |
| `kmp` | teams of 1 to 4, 2 forks with 0, 7, 8 or 11 arguments, 110 loops | `ArgsDelivered`, `SharesPartition`, `LastFlagRight` | 200,200 |
| `offload` | 2 clusters with a DM and a compute core, start-up and 2 jobs | `JobLocallyAvailable`, `JobRunOnce`, `ResultsBeforeReturn`, `HostFinishes` | 377,451 |
| `kernels` | 19 programs: 11 gemms, 3 matmul benchmarks, 5 fused convolutions, on 2 to 4 compute cores | `ResultRight`, `StreamsDrained`, `OneWriter`, `NobodyStuck` | 7,041 |
| `layers` | 8 layers on 1 or 2 clusters of 2 compute cores and the DM core; 4 training loops with 1 or 2 compute cores | `LayerRight`, `HalvesApart`, `TrainingInputs`, `LayerEnds` | 90,092 |
| `host_runtime` | 4 harts beside the host, registers of 2 bits, 2 rounds, delays of 1 and 3 ns with a clock period of 2 ns | `InterruptsKept`, `DelayHonoured`, `AllTookPart`, `HostReturns` | 780,794 |
| `layers_hand_over` | `cluster2cluster`, 2 clusters with one compute core, 3 rows | `LayerRight`, violated (section 6) | |

Run one with `tlc -config PartialBarrier.cfg MCPartialBarrier`, and so on.

**Why the bounds are enough.**  The barrier errors we look for mix up two
neighbouring rounds, or a round with the one that has the same iteration
number.  Four values per word and five rounds let the number come round again,
and three harts let one be last, one be slow and one be a round ahead.  The
hardware barrier has no numbers; a fast port, a slow port and a third to wait
for are three.  The ring of the data mover has two slots so that it is full,
empty and wraps within a few calls, and `DmaDepth` is 1 so that the DM core has
to wait for the engine.  Two of the sequences are those of
`src/sw/tests/data_mover.c` and `src/sw/tests/openmp_double_buffering.c`.
Three regions in a row let a worker be late by one region at either side of a
third; the run also passes with four cores (186,987 states for the regions).
Loops of up to 11 iterations on teams of up to four have fewer iterations than
threads, exact multiples, left-overs and cut last chunks; words of 64 values
are wide enough for all products, as 32 bits are in practice.  Two jobs
let the second start while a compute core has not yet gone back to sleep from
the first, as the first can after the start-up.
The kernels are deterministic between barriers; what matters is that each of
their loops and stream dimensions runs more than once.  So the matrices have two rows per
core, two blocks of columns and, in double precision, columns left over; the
convolutions have full blocks of rows and clean-ups of 1, 2 and 7, and two channels
per core, since the set-up changes between channels; in double precision they have one,
as a second goes wrong (`kernels_channels`).  A layer has tiles that touch
one border, both or none, a partial last tile, two passes over output channels,
and two clusters whose relative speed is free.  Two compute cores stand for the
eight of a cluster, and the tile of output channels shrinks with them.  Registers of two bits for
five harts make a wake-up touch one, two or three registers, skip one and fill one,
as 32 bits do for the harts of Occamy; the second round meets what the first left.
Of the two delays one is cut to nothing by the division and one loses a part.

**Deadlock** is switched off where the model stops when the calls are used up;
in each of these runs a liveness property, or that the last call was made, tells
this stop from a hang.  `kernels` needs no liveness property: no operation of
its programs repeats, so that `NobodyStuck`, an invariant about the states in
which nothing can move, says the same.

**Fairness.**  Every hart, the host, the hardware barrier and the DMA engine
are weakly fair: a hart that can take a step takes one, since cores are not
scheduled and nothing preempts them, transfers complete, and tasks end.  In
`Layers` no operation can be taken twice and it is enough that the system as a
whole moves on.  In `HostRuntime` each hart is weakly fair and the
real-time clock ticks.  In `HwBarrier` the clock runs and the interconnect accepts a request that stays up.
A hart in a spin loop is not served in turn: nothing is strongly fair, the lock has no queue, and the liveness of `mutex` is stated for finite
demand only, where the competitors run out.  Harts make all the calls they are
given, up to the bound.

## 4. What the runs show

* `snrt_partial_barrier` is a barrier, also when `iteration` wraps around.
  The order reset, then bump, is what matters: the next round's arrivals cannot
  begin before the bump.
* `snitch_barrier.sv` is a barrier, with liveness, and holds back only loads
  from its own address.
* Both lock variants exclude, in any mixture.
* `snrt_global_barrier` does not deadlock and synchronises each cluster and all
  DM cores; other compute cores can be late, but by one call at the most.
* The data mover starts each task once and in order, and `dm_wait` means what
  it says, also with two clients; with one client no wake-up is lost in any of
  the gaps around `wfi`.  A *request* can be lost, with one client too: a
  `dm_wait_ready` that follows an answer before the DM core has cleared `stat_q`
  (`ReadyLost`).  `SoleClientServed` says that this is the only thing that keeps a
  call from returning.
* The event unit never tears an event, never runs it twice or on a core that
  has no part in it, and joins all workers, although `fini_count` also counts workers that have no part in the
  event.
* For loops as the compiler emits them the static schedules are exact, and the
  flag for the last iteration is right.
* A job on Occamy is found by the compute cores through the moving L1 pointer,
  run once per wake-up, and complete in every cluster before the host goes on,
  unless one of the two races of start-up and operand pointers happens; nothing
  else goes wrong.
* In the sizes the kernels are written for, every stream is popped exactly as
  often as armed, and every output element is the reference's: also when the
  configuration is inherited from the kernel before, and when the cores, the
  DMA engine and the checking core run at any relative speed.
* The double buffers of the layers are never read and written at the same half,
  although nothing but matching barriers keeps the cores' copies of the buffer
  index in step; a stale tile that is stored to new channels is always
  overwritten by the right one.
* In the training loop the cores work on the image, label and weights that belong together,
  although the DM core loads the next image and the weights while they run, and a batch is applied
  with the gradients of all its images.  What several cores then make of them is
  another matter (section 6).
* Setting and clearing of bits of one CLINT register by host and harts loses
  none, strided wake-ups included; the election is won by the last hart of the
  round, and a delay is not cut short by a hart that is done early: all it loses is
  what the division cuts off.

## 5. What is proved

`tlapm` checks the theorems of eight modules.  They hold for any number of
harts, ports, clusters, cores, rounds, jobs, loops, tiles and calls.  Each proof has
an inductive invariant, a theorem or lemma that it always holds, and
the properties of the runs as consequences.  The invariant is `IInv` in the
component's own module, except for `Kmp` and `Layers`, where it speaks of things only
the proof needs (divisions, positions in programs) and is in the proof module.

* `PartialBarrierProofs`: `Invariance` (`IInv`), and from it `TypeCorrect`,
  `Safety` (`NoEarlyExit`), `ReleaseSeen` (`NoMissedRelease`) and `Refinement`
  (the safety part of `AbstractBarrier`).  `NoEarlyExit` is far from inductive.
  `IInv` adds: *Progress*, that every hart has entered `released` or one more
  round, that its place in the code says which, and that a spinning hart
  remembers the present `iteration` exactly if its round has not been released;
  *LastIsAlone*, that between the last arrival
  and the bump no other hart is anywhere but spinning; and *CntCounts*, that
  `cnt` is the number of harts that have arrived in this round, or 0 once it
  is reset.  The key step is `AddFetchCnt`: `cnt` reaches `n` only if the set
  of arrived harts is the set of all, which is a fact about cardinalities.
  Assumptions: `Harts` is finite and not empty, `W` is larger than the number
  of harts, `MaxRounds` is a natural number.  That two rounds `W` apart share
  a number does no harm, since no hart is ever more than one round behind.
* `SyncProofs`, about the three other primitives:
  - `HwBarrier`: `HwInvariance`, `HwSafety` (`NoEarlyExit`) and `HwRefinement` (the
    safety part of `AbstractBarrier`).  `PortIInv` relates each port's register and
    request to the number of rounds taken (`taken`): a port in Take has been let go in
    the last round and not yet passed; a port in Wait or Idle has not been let go in
    the present one.  A whole set of ports may pass at one clock edge, which is why
    `AbstractBarrier` lets a set leave.
  - `Mutex`: `Exclusion` (`MutualExclusion`) and `WordTellsHolder` (`HeldIffSet`), from
    the conjunction of the two with `LockTypeOK`, which is inductive (`LockIInv`).
  - `GlobalBarrier`: `Invariance`, `Synced` (`ClustersSynced`), `OneBehind`
    (`AtMostOneBehind`) and `DmRefinement`: to the DM cores the two barriers in a
    row implement the safety part of `AbstractBarrier`.  The software barrier is an
    instance of `PartialBarrier`, whose invariant is carried over by its own
    lemma; `IInv` adds how often each core has been in and out of the hardware
    barrier (*HwSynced*) and that a DM core is in one barrier at a time
    (*DmInTurn*).  From these two follow both bounds, that of compute cores of other
    clusters included.  Assumptions: finitely many clusters, fewer than a word
    has values; every cluster has a DM core.
* `HostRuntimeProofs`: `NoInterruptLost` (`InterruptsKept`), `NoEarlyReturn`
  (`DelayHonoured`) and `LastElected` (`AllTookPart`).  A change of pending bits
  is a sequence of updates of registers, so *UpdatesRight* says at every point of
  it what the updates that are left will do; *LockRight* lets one call at a time
  be at that.  That the masks of `set_sw_interrupts_unsafe` are the bits of the
  harts asked for is proved for its loop (`StridedUpdatesRight`), by
  induction on the passes through a lemma on sets of numbers (`SetInduction`):
  an induction rule with an operator parameter is not available.  The
  election goes through five phases; in each `mutex` and the set of harts that
  still have to vote add up (*Working*).  The key step is that no target gets
  past the lock while the host sets the bits (*TargetsParked*): a hart woken by
  the first store cannot be elected before the last.  `NoEarlyReturn` bounds what a delay
  falls short of its nanoseconds by one period, for every period of the clock.
  Assumptions: registers have at least one bit, the period is positive, and only Snitch
  harts are selected.
* `EventUnitProofs`: `EventRunOnce` (`NoReexecution`) and `JoinWaitsForAll`
  (`JoinMeansDone`), for every program of pushes, runs and an exit.  `fini_count`,
  `workers_in_loop` and `workers_wfi` are the cardinalities of the sets of workers
  they stand for (*CountsRight*, *FiniRight*), from which a worker's place follows
  from the master's (*WorkerRight*): outside of a region every worker
  sleeps with no interrupt pending, which is why the three stores of a push are never
  seen half done (*EventRight*), and why the team a worker has compared itself with is
  that of the event it calls.
* `DataMoverProofs`: `MutexOwned` (`OneOwner`), `RingNeverOverflows`
  (`QueueBounded`), `TasksInOrder` (`IssuedInOrder`) and `WaitCompletes`
  (`WaitMeansComplete`), for rings and DMA queues of any size.  `IInv` needs no
  assumption on the clients: `queue_fill` counts (*CountRight*) even in a ring
  that overflows.  What the slots hold does: the poll of `queue_fill` comes
  before the lock (section 6), so that two clients can pass it for one slot.
  `QueueBounded` says that this does not happen, a client between poll and bump
  included.  It is proved for programs in which one client queues tasks and the
  others wait, start and exit (`OneQueuer`); for the others it is a hypothesis,
  `[]QueueBounded`, under which `RingInvariance` shows that the ring is the part of the
  submitted tasks not yet started (*RingRight*), across every wrap-around.
  `TasksInOrder` and `WaitCompletes` are stated under either.  The two-client programs of the
  run satisfy the hypothesis, which TLC checks.
* `OffloadProofs`: `JobFound` (`JobLocallyAvailable`), `JobOnce` (`JobRunOnce`),
  `ResultsComplete` (`ResultsBeforeReturn`).  A round is the start-up or a job.
  It is *Counting* until the last DM core has counted itself, then one cluster is
  *Elected*, then the host has *Returned*; a cluster is asleep, starting, at work
  or ending, and at work it is between two of the three barriers (*Fetching*,
  *Loading*, *Computing*, *CopyingOut*).  Each of these says where the cores can be,
  whose interrupts are pending, which transfers are under way and what has arrived in
  the slot.  The proof shows first what each step of a core, the barrier or the DMA
  engine does to its own cluster, and that it leaves what is said of the
  others alone (`ClusterFrame`); then one phase at a time that its cluster stays in it or
  goes to the next; and that `cnt` is the number of clusters that are through,
  by the cardinalities of sets.  There is no assumption about timing: `IInv` holds until
  one of the two races has done harm (`~spoilt => IInv`), each step that can do it
  sets `spoilt`, and the properties say what they say while it is not set.

* `KmpProofs`: `LoopShared` (`SharesPartition`) and `LastFlag` (`LastFlagRight`)
  and `ArgsArrive` (`ArgsDelivered`).  The first two
  say that the shares of the threads are disjoint, cover the loop and nothing else, and
  that exactly the thread with the last iteration is told so, for the words
  of C and its division.  *SharesInv* says of every thread what its bounds, stride and
  flag are once it has been served; that these make a partition is
  arithmetic (lemmas on quotients and remainders).  Hypothesis `LoopsFit`: loops from 0 in
  steps of 1, as compilers make them, with bounds below half of a word, chunks of
  at least 1, at most half a word of threads, and `chunk * threads` below half of a word; without it the code
  wraps (section 6).  `ArgsArrive` is about every call a thread makes, the repeated ones
  of 8 to 11 arguments included: each begins with the arguments of its own fork.  Hypothesis
  `ArgsFit`: a case of the switch exists, and the arguments fit the block behind the
  function; for the last one they do not (`kmp_last_argument`).
* `LayersProofs`: `HalvesKept` and `HalvesKeptHandOver` (`HalvesApart`, without and with
  `cluster2cluster`) and `NoBarrierHangs` (*BarriersMatch*: when every core has ended or waits in a
  barrier, all have ended).  A position in a program is known by two numbers: its
  *phase*, the barriers before it, and its *turn*, the toggles of the buffer index
  before it.  *Aligned* says of the programs of a compute core and of the DM core that
  they have as many cluster barriers, and what the turns in one phase have to be.
  Parts that are aligned stay so when they are put one after the other, and a loop of
  aligned bodies is aligned (`FlattenSteps` and `SetInduction`); so are the programs of
  the four layers, loop by loop, whatever their sizes (`ProgramFits`).  *LayersInv* says that every unit is at
  a position of its program (*Placement*), that the units of a cluster are in the same
  phase and the DM cores as far in their meetings (*InPhase*), and that who waits stands at a barrier at which somebody is missing
  (*Waits*).  Hypothesis `InstancesFit`: sizes are numbers, and clusters, compute cores
  and tiles at least 1.

The inductive invariants, the type invariants and `HeldIffSet` are checked by the proofs for every
instance, and are therefore not among the properties of the runs; to see them hold on an
instance, add them to the INVARIANTS of the `.cfg`.

Model-checked only:

* everything under fairness (`EventuallyAllReturn`, `SoleClientServed`, `AllLeave`,
  `HostFinishes`, `HostReturns`, `OthersPass` and so on), since that needs `ENABLED`;
* what kernels and tiled layers compute (`ResultRight`, `StreamsDrained`, `LayerRight`),
  which is induction over data: bags of products, streams of addresses, rows put together
  from tiles;
* what training works on (`TrainingInputs`);
* `OneWriter` and `NobodyStuck` of `KernelApps`, which speak of the
  addresses and streams of every kernel.

## 6. Where the code does not do what it says

The run `layers_hand_over` ends in a counterexample, and its finding in `PROJECT.json`
quotes the text that is contradicted.  The others were met on the way and limit what the
passing runs are given.  Where a name is given in brackets, TLC shows it with the change of
a `.cfg` that the table at the end of this section lists.

*Synchronisation and runtime*

* `snrt_global_barrier` returns before compute cores of other clusters have
  called it (`sync.h:70`), on which `src/sw/tests/multi_cluster.c:19` relies
  (`global_sync`).
* The DM core clears `stat_q` after it has given the answer (`dm.h:212-213`): a
  request stored in between is wiped out.  `dm_wait_ready` after `dm_wait` then
  never returns, with a single client (`data_mover_ready`), and a DM core told to exit
  does not (`data_mover_exit`).  Of two clients in `dm_wait`, one can wait for ever.
* `dm_memcpy_async` looks at `queue_fill` before it takes the lock
  (`dm.h:270`): with two cores that both see the last free slot the ring
  overflows (`data_mover_overfill`).  A single core that fills the ring while the DM
  core sleeps waits for ever; the programs call `dm_start` or `dm_wait` in time, as
  documented.
* `dm_exit` itself hangs in `wake_dm` if the DM core sees the request and leaves
  without sleeping (`dm.h:248`).  `SoleClient` leaves `dm_exit` out.
* `eu_exit` would run a pending event only if there is none (`eu.h:185`,
  `event_unit_exit`).
* With 8 to 11 arguments a microtask runs up to five times per thread, because
  `break` is missing (`kmp.c:71`, `kmp_fall_through`); a twelfth overlaps the team size
  (`kmp.c:184`, `kmp_last_argument`).
* `Static` adds `leftOver` without the increment (`kmp.c:277`).  Compilers
  normalise the increment to 1, and so do the loops of the run.  For huge chunks
  `span * nbThreads` wraps and the stride may be 0 (`kmp.c:259`).  For unsigned loops
  with bounds of half a word and more the proofs claim nothing (`LoopsFit`).
* A nested fork calls `snrt_exit`, which returns on all cores but one
  (`kmp.c:194`).

*Start-up, allocators, offload*

* Clusters do not wait for cluster 0 to clear `.bss` (`start.c:49`): the start-up can
  lose a cluster's count, and the host then waits for ever (`offload_startup`).
* In the offload application compute cores copy operand pointers between the
  same two barriers between which the DM core sets them (`offload.c:105`): a core
  may compute with pointers that were never set (`offload_pointers`).
* The allocators advance `next` with a load and a store (`alloc.h:46`); with
  three compute cores `net_fusedconv`, in which all of them allocate, can end up
  with its buffer not reserved (`kernels_alloc`).  The DM core of every cluster
  initialises the one L3 allocator (`alloc.h:90`).
* `return_to_cva6` and `snrt_global_barrier` count in the same word
  (`occamy_device.h:45`); no program mixes them.
* `snrt_int_sw_get` shifts and does not mask (`global_interrupts.h:37`).
* A delay below one period of the real-time clock becomes 0, where the comment at
  `host.c:530` says that the minimum is one period (`host_delay`).

*Kernels and layers*

* The eight-bit gemm lacks the last step of its sum: half of the products are
  dropped (`gemm.c:727`, and the same lines of `blas/gemm/src/gemm.h`; `kernels_fp8`).
* The streams of the fp64 batch normalisation and ReLU step one channel where the next channel of
  the core is `compute_num` further (`conv2d.c:313`, `kernels_channels`).
  Without ReLU its loop writes a register and not `ft1`, so that the armed write
  stream gets nothing; the text of that instruction, `$[tmp]` and a missing
  comma (`conv2d.c:346`), would not assemble either.
* `bn_relu` arms its regular streams also with fewer rows than its unrolling,
  with a bound of 0 that wraps (`conv2d.c:1569`); the shipped parameters of
  `net_fusedconv` have three output rows (`kernels_few_rows`).
* Leftover columns are computed in double precision only: the fp32 kernel
  advances `n` by 16 per 8 columns (`gemm.c:318`), the half-precision ones have
  the clean-up commented out.  The half-precision kernels load pairs of elements
  of C for one (`gemm.c:385`), so that only a zero `alpha` gives the product.
* With `cluster2cluster` on, all cores of a cluster clear the two words of
  `synch_flag` (`conv2d_layer.c:118`) and no barrier separates that from the DM core
  setting one.  A compute core that is late clears a flag that is already set; a row is
  then overwritten before the next cluster has copied it (`layers_hand_over`).
* For all but the first tile of input channels `conv2d_layer` passes an `alpha`
  of 0, which drops the partial sums (`conv2d_layer.c:346`, `layers_channels`).
* A cluster without a row stores its last tile where uninitialised variables
  say (`batchnorm_layer.c:118`, `maxpool_layer.c:105`; `layers_idle_cluster`).
* All compute cores run the training kernels, which are written for one, on the same gradients
  and weights (`nnlinear_backend_baseline.c:183`, `nnlinear_baseline.h:128`): with two or more, as
  in the repository's own test with eight, training does not end with the weights one core computes
  (`layers_training`).
* `batchnorm_fp64` arms `CI / compute_num` channels per core and loops over the
  rounded-up number (`batchnorm.c:12`, `24`): with channels left over a core
  stops for good.  The model stops there too; the instances have none.
* `conv2d_layer` loads the weights of eight output channels into a buffer for
  `compute_num` (`conv2d_layer.c:86`); `dma_memset` works in units of 64 bytes
  (`utils.c:150`); `epoch_loss` is not initialised but only printed
  (`nnlinear_backend_baseline.c:113`).

To see one of these, change the constants of the `.cfg` as follows and check only the
property named.

| Name | `.cfg` | Change | Violated |
|---|---|---|---|
| `global_sync` | `GlobalBarrier` | none | `GlobalSync` |
| `data_mover_ready` | `DataMover` | `Programs <- WaitThenReady` | `EveryCallReturns` |
| `data_mover_exit` | `DataMover` | `Programs <- WaitThenExit` | `DmExits` |
| `data_mover_overfill` | `DataMover` | `Programs <- TwoQueuers` | `QueueBounded` |
| `event_unit_exit` | `EventUnit` | none | `QueueEmptied` |
| `kmp_fall_through` | `Kmp` | none | `MicrotaskOnce` |
| `kmp_last_argument` | `Kmp` | `Argcs = {12}` | `ArgsDelivered` |
| `offload_pointers` | `Offload` | `N_CLUSTERS = 1`, `N_JOBS = 1` | `ResultsInL3` |
| `offload_startup` | `Offload` | `N_JOBS = 1` | `HostReturns` |
| `host_delay` | `HostRuntime` | `ROUNDS = 1` | `MinimumDelay` |
| `kernels_fp8` | `Kernels` | `Apps <- Fp8Apps` | `ResultRight` |
| `kernels_channels` | `Kernels` | `Apps <- Fp64Apps` | `OneWriter` |
| `kernels_alloc` | `Kernels` | `Apps <- ThreeCoreApps` | `BufferReserved` |
| `kernels_few_rows` | `Kernels` | `Apps <- FewRowsApps` | `ResultRight` |
| `layers_channels` | `Layers` | `Instances <- TiledChannels` | `LayerRight` |
| `layers_idle_cluster` | `Layers` | `Instances <- IdleCluster` | `LayerRight` |
| `layers_training` | `Layers` | `Instances <- TwoTrain` | `TrainedOnBatches` |

## 7. What is not modelled

* The alternatives behind `DM_USE_GLOBAL_CLINT`, `EU_USE_GLOBAL_CLINT` and
  `OMPSTATIC_NUMTHREADS`, which the sources switch off.
* Addresses, sizes and strides of transfers, cycle counters, printing, traces.
* Nested parallel regions, which the code rejects.
* The cores, FPU, FREP sequencer, caches and interconnect RTL: a processor's
  correctness is about its instruction set and needs other tools.  Blocks with
  a protocol of their own are in the plan.  Of the SSR hardware, indirection and
  the intersector are left out: no kernel uses them.
* Rounding, the order of additions, and overflow of floating point.
* Of the host: clocks and FLLs, reset and isolation of quadrants, HBM interleaving and
  the UART: writes of configuration registers and polls of external devices.
* `blas/axpy`, whose compute is that of the offload application; cycle counters
  of the network programs.
* Data (`data_fp32_nnlinear.h` and the other generated headers), `bitfield.h`,
  Banshee (a binary translator), generators and vendored code.

## 8. Plan

1. *Proofs*: that no pixel is written by two cores (`OneWriter`) and the
   barrier half of `NobodyStuck`, along the lines of `LayersProofs`; what a
   row of a layer holds after each tile (`LayerRight`).
2. *Memory side of the locks*: `snitch_amo_shim.sv`, the LR/SC reservation and
   the read-modify-write under back-pressure; abstract specification: an atomic
   memory.  `Mutex` and `PartialBarrier` rest on it.
3. *OpenMP barrier and `omp_init`*: `__kmpc_barrier` as an instance of
   `PartialBarrier` under `EventUnit`; publication of the team pointer; the L3
   allocator that every cluster initialises.
4. *Hardware with a protocol*: the DMA front end's queue and status, the
   request/response multiplexer and the order of its responses, the refill
   logic of the instruction cache.
