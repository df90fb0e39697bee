-------------------------------- MODULE Ssr --------------------------------
(***************************************************************************)
(* The stream semantic registers as software sees them: the configuration  *)
(* functions of snRuntime (ssr.h) and the address generator and job queue  *)
(* they program.  A data mover holds a configuration that outlives every   *)
(* kernel, and a queue of armed jobs; reading its register pops the next   *)
(* element of the oldest unfinished job.  Addresses count elements.        *)
(***************************************************************************)
EXTENDS Integers, Sequences

\* A bound of 0 iterations underflows to the largest value the register
\* holds: a stream longer than any loop of the kernels.
Endless == 1048576

Reset == [bounds |-> <<0, 0, 0, 0>>, strides |-> <<0, 0, 0, 0>>, repeat |-> 0]

\* snrt_ssr_loop_1d .. 4d, by the length of b: only the first Len(b) loops
\* are written, each stride relative to where the loops inside it left the
\* pointer.
Loop(cfg, b, s) ==
    LET walked[d \in 0 .. Len(b)] ==
            IF d = 0 THEN 0 ELSE walked[d - 1] + s[d] * (b[d] - 1)
    IN  [cfg EXCEPT
           !.bounds = [d \in 1 .. Len(b) |-> b[d] - 1] \o SubSeq(@, Len(b) + 1, 4),
           !.strides = [d \in 1 .. Len(b) |-> s[d] - walked[d - 1]]
                         \o SubSeq(@, Len(b) + 1, 4)]

Repeat(cfg, count) == [cfg EXCEPT !.repeat = count - 1]

----------------------------------------------------------------------------
\* Elements produced by a round of loop d, from those of the loop inside.
Round(inner, bound) ==
    IF inner = Endless \/ bound < 0 THEN Endless ELSE inner * (bound + 1)

\* A job: the configuration at the moment the pointer register is written,
\* the number of loops in use and the start address.  span[d] elements make
\* one step of loop d, span[dims + 1] make the whole job.
Job(cfg, dims, ptr) ==
    LET r1 == Round(1, cfg.bounds[1])
        r2 == Round(r1, cfg.bounds[2])
        r3 == Round(r2, cfg.bounds[3])
    IN  [strides |-> cfg.strides, repeat |-> cfg.repeat, dims |-> dims, ptr |-> ptr,
         span |-> <<1, r1, r2, r3, Round(r3, cfg.bounds[4])>>]

\* How often the register can be popped before the job is done.
Pops(job) ==
    LET n == job.span[job.dims + 1]
    IN  IF n = Endless THEN Endless ELSE n * (job.repeat + 1)

\* The address of pop i: loop d has stepped once for each full round of the
\* loops inside it that did not also end a round of d itself.
Address(job, i) ==
    LET j == i \div (job.repeat + 1)
        term(d) ==
            IF d > job.dims THEN 0
            ELSE job.strides[d]
                   * ((j \div job.span[d])
                        - (IF d < job.dims THEN j \div job.span[d + 1] ELSE 0))
    IN  job.ptr + term(1) + term(2) + term(3) + term(4)

----------------------------------------------------------------------------
\* The queue of a data mover: the jobs not yet exhausted, oldest first, and
\* how many pops the oldest has served.
Idle == [jobs |-> << >>, used |-> 0]

Ends(jobs) ==
    LET ends[n \in 0 .. Len(jobs)] ==
            IF n = 0 THEN 0 ELSE ends[n - 1] + Pops(jobs[n])
    IN  ends

\* snrt_ssr_read and snrt_ssr_write arm a job; while another is unfinished
\* it waits behind it in the shadow registers.
Arm(q, jobs) == [q EXCEPT !.jobs = q.jobs \o jobs]

\* The address of the i-th pop from now on.
Element(q, i) ==
    LET ends == Ends(q.jobs)
        at == q.used + i
        n == CHOOSE n \in DOMAIN q.jobs : ends[n - 1] <= at /\ at < ends[n]
    IN  Address(q.jobs[n], at - ends[n - 1])

\* The pops the queue can serve; a read beyond them stalls the core.
Available(q) == Ends(q.jobs)[Len(q.jobs)] - q.used

\* The queue after n pops: exhausted jobs are gone.
Take(q, n) ==
    LET ends == Ends(q.jobs)
        at == q.used + n
        gone == CHOOSE k \in 0 .. Len(q.jobs) :
                    /\ ends[k] <= at
                    /\ k = Len(q.jobs) \/ ends[k + 1] > at
    IN  [jobs |-> SubSeq(q.jobs, gone + 1, Len(q.jobs)), used |-> at - ends[gone]]
=============================================================================
