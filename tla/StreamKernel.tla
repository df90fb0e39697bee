---------------------------- MODULE StreamKernel ----------------------------
(***************************************************************************)
(* What the inner loops of the streaming kernels do to memory.  A kernel is *)
(* a sequence of tiles.  A tile first arms the jobs the code arms at that   *)
(* point, then runs one hardware loop: f iterations over u accumulators,    *)
(* each multiplying a pop of data mover 0 with a pop of data mover 1.       *)
(*                                                                         *)
(* The data is symbolic: a value is the sum of the original contents of the *)
(* addresses in "base" and of n products, "macs" being the set of operand   *)
(* address pairs, followed by the operations in "post".                     *)
(***************************************************************************)
EXTENDS Ssr, SequencesExt

Zero == [base |-> {}, macs |-> {}, n |-> 0, post |-> << >>]
Original(a) == [Zero EXCEPT !.base = {a}]
Junk == [Zero EXCEPT !.post = << <<"uninitialised", 0>> >>]

Plus(v, w) ==
    [base |-> v.base \cup w.base, macs |-> v.macs \cup w.macs,
     n |-> v.n + w.n, post |-> v.post \o w.post]

\* A read outside the array the kernel owns finds anything.
Read(mem, a) == IF a \in DOMAIN mem THEN mem[a] ELSE Junk

\* The sum of the values stored at the addresses in S.
SumOf(mem, S) ==
    [base |-> UNION {Read(mem, a).base : a \in S},
     macs |-> UNION {Read(mem, a).macs : a \in S},
     n |-> MapThenSumSet(LAMBDA a : Read(mem, a).n, S),
     post |-> IF S = {} THEN << >> ELSE Read(mem, CHOOSE a \in S : TRUE).post]

----------------------------------------------------------------------------
(* Tiles.                                                                   *)

\* frep.o repeats its body one time more than its register says.
Frep(reg) == IF reg < 0 THEN Endless ELSE reg + 1

\* A multiply-accumulate tile.  w elements travel in each pop.  Accumulator i
\* starts from the sum of the addresses from[i]; its lanes are summed into
\* address out[i], or, "packed", lane l goes to out[i] + l.
Mac(f, u, w, packed, out, from) ==
    [kind |-> "mac", arm |-> << << >>, << >> >>, f |-> f, u |-> u, w |-> w,
     packed |-> packed, out |-> out, from |-> from]

\* A scalar dot product of the core itself, without streams.
Dot(out, from, pairs) ==
    [kind |-> "dot", arm |-> << << >>, << >> >>, f |-> 0, u |-> 0,
     out |-> out, from |-> from, pairs |-> pairs]

\* n pops of data mover 0, lane l of each going through the operations
\* post[l], pushed to data mover 1.
Map(n, post) ==
    [kind |-> "map", arm |-> << << >>, << >> >>, f |-> n, u |-> 1, post |-> post]

\* n pops of data mover 0 whose results go to a register only.
Discard(n) == [Map(n, << >>) EXCEPT !.kind = "discard"]

\* Jobs armed outside the loop that pops them.
ArmTile(arm) == [Map(0, << >>) EXCEPT !.arm = arm]

\* The products of lanes L of accumulator i over the whole hardware loop.
Lanes(q, t, i, L) ==
    {<<Element(q[1], k * t.u + i) + l, Element(q[2], k * t.u + i) + l>> :
        k \in 0 .. t.f - 1, l \in L}

\* What a tile writes, as a function from addresses to values.
Writes(mem, q, t) ==
    CASE t.kind = "mac" /\ ~t.packed ->
           LET i(a) == CHOOSE j \in DOMAIN t.out : t.out[j] = a
           IN  [a \in {t.out[j] : j \in DOMAIN t.out} |->
                  Plus(SumOf(mem, t.from[i(a)]),
                       [Zero EXCEPT !.macs = Lanes(q, t, i(a), 0 .. t.w - 1),
                                    !.n = t.f * t.w])]
      [] t.kind = "mac" /\ t.packed ->
           LET targets == (DOMAIN t.out) \X (0 .. t.w - 1)
               at(a) == CHOOSE p \in targets : t.out[p[1]] + p[2] = a
           IN  [a \in {t.out[p[1]] + p[2] : p \in targets} |->
                  Plus(SumOf(mem, {b + at(a)[2] : b \in t.from[at(a)[1]]}),
                       [Zero EXCEPT !.macs = Lanes(q, t, at(a)[1], {at(a)[2]}),
                                    !.n = t.f])]
      [] t.kind = "dot" ->
           [a \in {t.out} |->
               Plus(SumOf(mem, t.from),
                    [Zero EXCEPT !.macs = {t.pairs[k] : k \in DOMAIN t.pairs},
                                 !.n = Len(t.pairs)])]
      [] t.kind = "map" ->
           LET targets == (0 .. t.f - 1) \X (DOMAIN t.post)
               to(p) == Element(q[2], p[1]) + p[2]
               at(a) == CHOOSE p \in targets : to(p) = a
           IN  [a \in {to(p) : p \in targets} |->
                  LET v == Read(mem, Element(q[1], at(a)[1]) + at(a)[2])
                  IN  [v EXCEPT !.post = @ \o t.post[at(a)[2]]]]
      [] t.kind = "discard" -> << >>

\* One tile: arm, run, retire what was popped.  A tile that pops more than
\* is armed never ends.
Tile(st, t) ==
    LET q == <<Arm(st.q[1], t.arm[1]), Arm(st.q[2], t.arm[2])>>
        pops == [i \in 1 .. 2 |-> IF t.kind = "discard" /\ i = 2 THEN 0 ELSE t.f * t.u]
    IN  IF st.stalled \/ \E i \in 1 .. 2 : Available(q[i]) < pops[i]
        THEN [st EXCEPT !.stalled = TRUE, !.q = q]
        ELSE [mem |-> Writes(st.mem, q, t) @@ st.mem,
              q |-> <<Take(q[1], pops[1]), Take(q[2], pops[2])>>,
              written |-> st.written \cup DOMAIN Writes(st.mem, q, t),
              stalled |-> FALSE]

\* A whole kernel, from the memory and the queues it finds.
Run(mem, q, tiles) ==
    LET run[n \in 0 .. Len(tiles)] ==
            IF n = 0
            THEN [mem |-> mem, q |-> q, written |-> {}, stalled |-> FALSE]
            ELSE CHOOSE st \in {Tile(before, tiles[n]) : before \in {run[n - 1]}} : TRUE
    IN  run[Len(tiles)]
=============================================================================
