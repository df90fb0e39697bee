-------------------------------- MODULE MCKmp --------------------------------
(***************************************************************************)
(* Kmp for TLC, and the loops its regions share out.                       *)
(***************************************************************************)
EXTENDS Kmp

CONSTANT MaxUpper       \* the largest upper bound of a loop

Loop(sched, upper, chunk, unsigned) ==
    [sched |-> sched, lower |-> 0, upper |-> upper, incr |-> 1,
     chunk |-> chunk, unsigned |-> unsigned]

\* The loops the compiler hands to the runtime: it counts every loop from 0 in
\* steps of 1, and calls only if there is an iteration.
NormalisedLoops ==
    {Loop("static", u, 1, b) : u \in 0..MaxUpper, b \in BOOLEAN}
    \cup {Loop("static_chunked", u, c, b) :
              u \in 0..MaxUpper, c \in 1..4, b \in BOOLEAN}

=============================================================================
