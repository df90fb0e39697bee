--------------------------------- MODULE Kmp ---------------------------------
(***************************************************************************)
(* The OpenMP entry points of sw/snRuntime/src/omp/kmp.c, as a parallel    *)
(* for uses them.  The master stores the function and the arguments of the *)
(* region in kmpc_args, a block that omp_init (omp.c) takes from the bump  *)
(* allocator just before omp_t (__kmpc_fork_call), sets the size of the    *)
(* team in omp_t (parallelRegion, omp.h) and lets the event unit run       *)
(* __microtask_wrapper once on every core; EventUnit shows that it does.   *)
(* The microtask, outlined by the compiler, asks for its share of the loop *)
(* with __kmpc_for_static_init_4 or _4u: it passes the bounds of the whole *)
(* loop and gets back those of its own.  Integers are words of W values.   *)
(***************************************************************************)
EXTENDS Integers, Sequences, FiniteSets

CONSTANTS
    Teams,                  \* the numbers of compute cores a cluster may have
    KMP_FORK_MAX_NARGS,     \* words of kmpc_args (12 in the code)
    Argcs,                  \* the numbers of arguments a region is forked with
    MaxForks,               \* how many regions are forked
    Loops,                  \* the loops: records with sched, lower, upper, incr,
                            \* chunk and whether the loop variable is unsigned
    W                       \* number of values of a word (2^32 on the target)

VARIABLES
    numThreads, \* omp_p->numThreads, which parallelRegion copies to nbThreads
    mem,        \* the words from kmpc_args[0] on; omp_t begins right after them
    fork,       \* number of the current fork
    argc,       \* its number of arguments
    pc,         \* where the master is in the fork
    calls,      \* per thread: the argument lists it has called the microtask with
    loop,       \* the loop of the region
    share       \* per thread: what static_init has returned; <<>> before

vars == <<numThreads, mem, fork, argc, pc, calls, loop, share>>

\* omp_get_thread_num is the core's index in the cluster, and all compute
\* cores are in the team.
Threads == 0 .. numThreads - 1
MaxArgc == 12               \* the largest case of the switch
Words   == 0 .. MaxArgc + 1

\* The contents of a word: what fork f stored as its i-th argument (the 0-th
\* is the function), something older, or a mixture of both.
Arg(f, i) == [fork |-> f, arg |-> i]
Other     == [fork |-> 0, arg |-> 0]
Mixed     == [fork |-> 0, arg |-> 1]

\* omp_t begins with plainTeam.nbThreads, a char.
NbThreads == KMP_FORK_MAX_NARGS

\* A value stored to a kmp_int32, and one taken as unsigned.
Int32(x) == ((x + W \div 2) % W) - W \div 2
Uint32(x) == x % W

\* / and % of C for a positive divisor: they round towards 0.
Quot(x, y) == IF x >= 0 THEN x \div y ELSE -((-x) \div y)
Rem(x, y)  == x - y * Quot(x, y)

Init ==
    /\ numThreads \in Teams
    /\ mem = [w \in Words |-> Other]
    /\ fork = 0
    /\ argc = 0
    /\ pc = "idle"
    /\ calls = [t \in Threads |-> <<>>]
    /\ loop \in Loops
    /\ share = [t \in Threads |-> <<>>]

-----------------------------------------------------------------------------
\* Plausible mistakes in the code, to show that the properties notice them.

\* The loop over the arguments stops one too early.
StoreArgsShort(a) ==
    [w \in Words |-> IF w < a \/ w = 0 THEN Arg(fork + 1, w) ELSE mem[w]]

\* The leftOver iterations are forgotten.
StaticNoLeftOver(l, threadNum) ==
    LET loopSize == Uint32(Quot(l.upper - l.lower, l.incr) + 1)
        chunk    == loopSize \div numThreads
        plower   == Int32(l.lower + threadNum * chunk * l.incr)
        pupper   == Int32(plower + chunk * l.incr - l.incr)
    IN  [lower |-> plower, upper |-> pupper, stride |-> loopSize,
         last |-> pupper = l.upper /\ plower <= l.upper]

\* The last chunk is taken to begin at the upper bound.
ChunkedLastAtUpper(l, threadNum) ==
    LET span    == Int32(l.incr * l.chunk)
        pstride == Int32(span * numThreads)
        plower  == Int32(l.lower + span * threadNum)
    IN  [lower |-> plower, upper |-> Int32(plower + span - l.incr),
         stride |-> pstride, last |-> Rem(l.upper - plower, pstride) = 0]

-----------------------------------------------------------------------------
(***************************************************************************)
(* __kmpc_fork_call, parallelRegion and __microtask_wrapper.               *)
(***************************************************************************)
\* kmpc_args[0] = microtask; kmpc_args[i] = va_arg for i = 1..argc
StoreArgs(a) == [w \in Words |-> IF w <= a THEN Arg(fork + 1, w) ELSE mem[w]]

ForkCall(a) ==
    /\ pc = "idle"
    /\ fork < MaxForks
    /\ mem' = StoreArgs(a)
    /\ fork' = fork + 1
    /\ argc' = a
    /\ pc' = "team"
    /\ loop' \in Loops
    /\ share' = [t \in Threads |-> <<>>]
    /\ UNCHANGED <<numThreads, calls>>

\* omp_p->plainTeam.nbThreads = num_threads, one byte of its word; then the
\* event is dispatched.
SetTeam ==
    /\ pc = "team"
    /\ mem' = [mem EXCEPT ![NbThreads] = IF @ = Other THEN @ ELSE Mixed]
    /\ calls' = [t \in Threads |-> <<>>]
    /\ pc' = "run"
    /\ UNCHANGED <<numThreads, fork, argc, loop, share>>

\* The calls made by the switch of __microtask_wrapper, by their numbers of
\* arguments: cases 8 to 11 run on into the next case, and the default case
\* into case 0.
CallsWithArity(a) ==
    CASE a > MaxArgc -> <<0>>
      [] a <= 7 \/ a = MaxArgc -> <<a>>
      [] OTHER -> [i \in 1..(MaxArgc - a + 1) |-> a + i - 1]

\* fn(&gtid, id_addr, p_argv[0], ...), where p_argv = &args[1]
Wrapper(t) ==
    /\ pc = "run"
    /\ calls[t] = <<>>
    /\ LET arities == CallsWithArity(argc)
       IN  calls' = [calls EXCEPT ![t] =
                        [k \in 1..Len(arities) |-> [i \in 1..arities[k] |-> mem[i]]]]
    /\ UNCHANGED <<numThreads, mem, fork, argc, pc, loop, share>>

\* eu_run_empty returns to the master when all threads have ended.
Join ==
    /\ pc = "run"
    /\ \A t \in Threads : share[t] # <<>>
    /\ pc' = "idle"
    /\ UNCHANGED <<numThreads, mem, fork, argc, calls, loop, share>>

(***************************************************************************)
(* __kmpc_for_static_init_4, called by the microtask.                      *)
(***************************************************************************)
\* sched == kmp_sch_static_chunked
StaticChunked(l, threadNum) ==
    LET span    == Int32(l.incr * l.chunk)
        pstride == Int32(span * numThreads)
        plower  == Int32(l.lower + span * threadNum)
        beginLastChunk == l.upper - Rem(l.upper, span)
    IN  [lower |-> plower, upper |-> Int32(plower + span - l.incr),
         stride |-> pstride, last |-> Rem(beginLastChunk - plower, pstride) = 0]

\* sched == kmp_sch_static: leftOver threads get one iteration more.
Static(l, threadNum) ==
    LET loopSize == Uint32(Quot(l.upper - l.lower, l.incr) + 1)
        each     == loopSize \div numThreads
        leftOver == loopSize - each * numThreads
        chunk    == IF threadNum < leftOver THEN each + 1 ELSE each
        plower   == Int32(IF threadNum < leftOver
                            THEN l.lower + threadNum * chunk * l.incr
                            ELSE l.lower + threadNum * chunk * l.incr + leftOver)
        pupper   == Int32(plower + chunk * l.incr - l.incr)
    IN  [lower |-> plower, upper |-> pupper, stride |-> loopSize,
         last |-> pupper = l.upper /\ plower <= l.upper]

StaticInit(l, t) ==
    IF l.sched = "static_chunked" THEN StaticChunked(l, t) ELSE Static(l, t)

\* Thread t is in the microtask and its loop has not begun.
InMicrotask(t) == pc = "run" /\ calls[t] # <<>> /\ share[t] = <<>>

StaticInit4(t) ==
    /\ InMicrotask(t)
    /\ ~loop.unsigned
    /\ share' = [share EXCEPT ![t] = StaticInit(loop, t)]
    /\ UNCHANGED <<numThreads, mem, fork, argc, pc, calls, loop>>

\* The unsigned variant goes through the signed one.
StaticInit4u(t) ==
    /\ InMicrotask(t)
    /\ loop.unsigned
    /\ LET l == [loop EXCEPT !.lower = Int32(@), !.upper = Int32(@)]
           s == StaticInit(l, t)
       IN  share' = [share EXCEPT ![t] = [s EXCEPT !.lower = Uint32(@),
                                                   !.upper = Uint32(@)]]
    /\ UNCHANGED <<numThreads, mem, fork, argc, pc, calls, loop>>

Next ==
    \/ \E a \in Argcs : ForkCall(a)
    \/ SetTeam
    \/ \E t \in Threads : Wrapper(t) \/ StaticInit4(t) \/ StaticInit4u(t)
    \/ Join

Spec == Init /\ [][Next]_vars

-----------------------------------------------------------------------------
\* "call the microtask in the relevant number of threads" (kmp.c:163): each
\* thread of the team calls it once per fork.  Of 8 to 11 arguments, whose
\* cases have no break, it is false.
MicrotaskOnce == \A t \in Threads : Len(calls[t]) <= 1

\* "copy remaining varargs" (kmp.c:181): every call of the microtask, those the
\* switch makes by running on into the next case included, gets all arguments
\* of this fork in their places, none of them left over from an earlier fork
\* or overwritten with the size of the team.
ArgsDelivered ==
    pc = "run" =>
        \A t \in Threads : \A k \in 1..Len(calls[t]) :
            /\ argc <= Len(calls[t][k])
            /\ \A i \in 1..argc : calls[t][k][i] = Arg(fork, i)

\* The iterations of the whole loop.
Iterations == {i \in loop.lower .. loop.upper : (i - loop.lower) % loop.incr = 0}

\* The iterations thread t carries out: the compiler's loop runs from lower to
\* the smaller of upper and the loop's own bound, and in a chunked loop goes
\* on with both bounds moved up by stride.
Mine(t) ==
    LET s == share[t]
        Walk(lo, hi) == {i \in lo..hi : i <= loop.upper /\ (i - lo) % loop.incr = 0}
        Steps == IF loop.sched = "static_chunked" THEN 0..(loop.upper \div s.stride)
                 ELSE {0}
    IN  IF s = <<>> THEN {}
        ELSE UNION {Walk(s.lower + k * s.stride, s.upper + k * s.stride) : k \in Steps}

AllShared == \A t \in Threads : share[t] # <<>>

\* The shares are "the set of iterations to be executed by the current thread
\* from the statically scheduled loop" (kmp.c:226): no iteration is carried
\* out twice, none that is not of the loop, and in the end none is missing.
SharesPartition ==
    /\ \A t \in Threads : Mine(t) \subseteq Iterations
    /\ \A t, u \in Threads : t # u => Mine(t) \cap Mine(u) = {}
    /\ AllShared => UNION {Mine(t) : t \in Threads} = Iterations

\* The "last iteration" flag goes to the thread that carries out the last
\* iteration and to no other, so that lastprivate variables get its values.
LastFlagRight ==
    \A t \in Threads : share[t] # <<>> =>
        (share[t].last <=> \E i \in Mine(t) : i + loop.incr > loop.upper)

=============================================================================
