------------------------------- MODULE Layers -------------------------------
(***************************************************************************)
(* The tiled network layers of sw/applications: conv2d_layer,               *)
(* batchnorm_layer, maxpool_layer and the training loop                     *)
(* nnlinear_backend_baseline, with the checking code of utils.c.            *)
(*                                                                         *)
(* In every cluster the DM core moves tiles between main memory and the     *)
(* halves of double buffers while the compute cores work on the other       *)
(* halves; the only synchronisation is the cluster barrier, which every     *)
(* core has to enter the same number of times.  Unit <<c, k>> is core k of  *)
(* cluster c; core num is the DM core.                                      *)
(*                                                                         *)
(* Data is symbolic: an element of a feature map is named by its address.   *)
(* A row of batchnorm counts as one pixel (OW = 1).                         *)
(***************************************************************************)
EXTENDS Integers, Sequences, FiniteSets, SequencesExt

CONSTANT Instances      \* a sequence of layer descriptions

VARIABLES
    layer,              \* index of the instance under way
    todo,               \* unit -> the operations it has still to do
    waiting,            \* units in a barrier
    buf,                \* unit -> read_buf and write_buf, which are toggled together
    prev,               \* cluster -> the tile to store next, or NoTile
    l1,                 \* cluster -> contents of its TCDM
    flying,             \* cluster -> transfers started and not waited for
    ofmap,              \* the output in main memory, by address
    wrong               \* pixels check_layer counted as errors

vars == <<layer, todo, waiting, buf, prev, l1, flying, ofmap, wrong>>

L == Instances[layer]
NoTile == [oh |-> -1, ow |-> -1, ci |-> -1]
Junk == {<< >>}         \* the value of an element nobody has computed
Padding == -1           \* the address standing for a zero
Unset == -2             \* and for what was in the TCDM before

Least(a, b) == IF a < b THEN a ELSE b
\* for (x = from; x < to; x += by)
For(from, to, by) ==
    [i \in 1 .. (IF from < to THEN (to - from + by - 1) \div by ELSE 0) |-> from + (i - 1) * by]
\* The concatenation of body(x) for the elements x of s.
Each(s, body(_)) == FlattenSeq([i \in DOMAIN s |-> body(s[i])])
When(b, s) == IF b THEN s ELSE << >>

Dm(l) == l.num
Units(l) == (0 .. l.clusters - 1) \X (0 .. l.num)
Quadrant(l) == Least(4, l.clusters)

----------------------------------------------------------------------------
(* The programs: per core the operations in order, each with its tile.      *)

Op(o, it) == <<[op |-> o, it |-> it]>>
Barrier == Op("barrier", NoTile)

\* snrt_global_barrier: the DM cores of all clusters, then each cluster.
Global(l, k) == When(k = Dm(l), Op("global", NoTile)) \o Barrier

\* The tiles of cluster c: rows of batchnorm, pixels of maxpool.
Tiles(l, c) ==
    Each(For(c, l.OH * l.OW, l.clusters),
         LAMBDA t : Each(For(0, l.CI, l.TILE_CI),
             LAMBDA ci : <<[oh |-> t \div l.OW, ow |-> t % l.OW, ci |-> ci]>>))

\* batchnorm_layer and maxpool_layer.
PoolProgram(l, c, k) ==
    LET first == Tiles(l, c)[1]
        dm(it) == When(l.kind = "batchnorm" /\ it = first, Op("load_params", it))
                    \o Op("load", it) \o Barrier \o Op("store_prev", it)
        compute(it) == Barrier \o Op(l.kind, it)
    IN  Each(Tiles(l, c), LAMBDA it : IF k = Dm(l) THEN dm(it) ELSE compute(it))
          \o Barrier \o When(k = Dm(l), Op("store_last", NoTile))

\* The core skips the barrier together with the pixel it does not have.
ConvTileUnbalanced(l, c, k, it) ==
    IF k = Dm(l)
    THEN Op("load_ofmap", it) \o Op("load_ifmap", it) \o Op("im2col", it)
           \o Barrier \o Op("store_prev", it)
    ELSE When(it.ow + k < l.OW, Barrier \o Op("gemm", it))

\* One iteration of conv2d_layer.  With cluster2cluster, rows are handed from
\* cluster to cluster of a quadrant behind synch_flag.
ConvTile(l, c, k, it) ==
    LET place == c % Quadrant(l)
        ifmap == IF ~l.cluster2cluster \/ it.first \/ place = 0
                 THEN Op("load_ifmap", it)
                 ELSE Op("await_source", it) \o Op("copy_ifmap", it) \o Op("release_source", it)
    IN  IF k = Dm(l)
        THEN Op("load_ofmap", it)
               \o When(l.cluster2cluster /\ place # Quadrant(l) - 1, Op("await_consumed", it))
               \o ifmap \o When(l.cluster2cluster, Op("set_flag", it))
               \o Op("im2col", it) \o Barrier \o Op("store_prev", it)
        ELSE Barrier \o Op("gemm", it)

ConvProgram(l, c, k) ==
    LET row(n) == ((Quadrant(l) - 1) - (c % Quadrant(l)) + n) % l.OH
        tile(co, ci, ow, n) == [co |-> co, ci |-> ci, ow |-> ow, oh |-> row(n), first |-> n = 0]
        column(co, ci, ow) ==
            When(l.cluster2cluster, Op("clear_flags", NoTile))
              \o Each(For(0, l.OH, 1), LAMBDA n : ConvTile(l, c, k, tile(co, ci, ow, n)))
        pass(co, ci) ==
            When(k = Dm(l), Op("load_weights", tile(co, ci, 0, 0)))
              \o Each(For(0, l.OW, l.num), LAMBDA ow : column(co, ci, ow))
              \o Barrier \o When(k = Dm(l), Op("store_last", tile(co, ci, 0, 0)))
    IN  Each(For(c * l.num, l.CO, l.clusters * l.num),
             LAMBDA co : Each(For(0, l.CI, l.TILE_CI), LAMBDA ci : pass(co, ci)))

\* check_layer: cluster 0 fetches and compares pixel after pixel.
CheckLayer(l, c, k) ==
    When(c = 0, Each(For(0, l.OH * l.OW, 1), LAMBDA p :
        When(k = Dm(l), Op("fetch", p)) \o Barrier
          \o When(k = 0, Op("compare", p)) \o Barrier))

\* The DM core forgets the barrier after the accuracy.
NnImageThreeBarriers(l, k, i) ==
    When(k = Dm(l), Op("load_image", i) \o Op("load_target", i)) \o Barrier
      \o IF k = Dm(l) THEN Barrier \o Barrier \o Barrier
         ELSE Op("feedforward", i) \o Barrier \o Op("gradient", i) \o Barrier
                \o Barrier \o Op("accuracy", i) \o Barrier

\* One image: two barriers in GradientUpdate_baseline, two after it.
NnImage(l, k, i) ==
    When(k = Dm(l), Op("load_image", i) \o Op("load_target", i)) \o Barrier
      \o IF k = Dm(l) THEN Barrier \o Barrier \o Barrier \o Barrier
         ELSE Op("feedforward", i) \o Barrier \o Op("gradient", i) \o Barrier
                \o Barrier \o Op("accuracy", i) \o Barrier

NnLinear(l, k) ==
    Barrier \o When(k = Dm(l), Op("load_biases", 0) \o Op("start_weights", 0)) \o Barrier
      \o Each(For(0, l.batches, 1), LAMBDA b :
            When(k # Dm(l), Op("zero_grads", b)) \o Barrier
              \o Each(For(b * l.BATCH_SIZE, (b + 1) * l.BATCH_SIZE, 1), LAMBDA i : NnImage(l, k, i))
              \o Barrier \o When(k # Dm(l), Op("training_step", b)) \o Barrier \o Barrier)
      \o Global(l, k)

\* main of net_conv2d, net_batchnorm, net_maxpool and net_nnlinear_baseline.
Program(l, c, k) ==
    CASE l.kind = "nnlinear" -> NnLinear(l, k) \o Global(l, k)
      [] l.kind = "conv2d" ->
             ConvProgram(l, c, k) \o Global(l, k) \o CheckLayer(l, c, k) \o Global(l, k)
      [] OTHER ->
             PoolProgram(l, c, k) \o Global(l, k) \o CheckLayer(l, c, k) \o Global(l, k)

Done(u) == todo[u] = << >>
Current(u) == Head(todo[u])
At(u, o) == u \notin waiting /\ ~Done(u) /\ Current(u).op = o
Step(u) == todo' = [todo EXCEPT ![u] = Tail(@)]

----------------------------------------------------------------------------
(* The contents of the TCDM and of the output.                              *)

ConvL1(l) ==
    [weights |-> [j \in 0 .. l.lanes - 1 |-> Unset],
     ifmap |-> [b \in 0 .. 1 |-> [x \in 0 .. l.FH * (l.num + l.FW - 1) - 1 |-> Unset]],
     im2col |-> [b \in 0 .. 1 |-> [n \in 0 .. l.num - 1 |-> << >>]],
     ofmap |-> [b \in 0 .. 1 |-> [n \in 0 .. l.num - 1 |-> [j \in 0 .. l.lanes - 1 |-> Junk]]],
     synch_flag |-> [b \in 0 .. 1 |-> 0], result |-> << >>]

PoolL1(l) ==
    [params |-> [ch \in 0 .. l.CI - 1 |-> Unset],
     ifmap |-> [b \in 0 .. 1 |-> [ch \in 0 .. l.TILE_CI - 1 |-> {Unset}]],
     ofmap |-> [b \in 0 .. 1 |-> [n \in {0} |-> [ch \in 0 .. l.TILE_CI - 1 |-> Junk]]],
     result |-> << >>]

\* Before its transfer a parameter is not the initial one.
NotLoaded == << << >> >>

\* weights and biases are the list of gradients applied to the initial ones.
NnL1 == [biases |-> NotLoaded, weights |-> NotLoaded, image |-> Unset, target |-> Unset,
         activations |-> << >>, grads |-> << >>]

Init ==
    /\ layer \in DOMAIN Instances
    /\ todo = [u \in Units(L) |-> Program(L, u[1], u[2])]
    /\ waiting = {}
    /\ buf = [u \in Units(L) |-> 0]
    /\ prev = [c \in 0 .. L.clusters - 1 |-> NoTile]
    /\ l1 = [c \in 0 .. L.clusters - 1 |->
                CASE L.kind = "conv2d" -> ConvL1(L)
                  [] L.kind = "nnlinear" -> NnL1
                  [] OTHER -> PoolL1(L)]
    /\ flying = [c \in 0 .. L.clusters - 1 |-> {}]
    /\ ofmap = IF L.kind = "nnlinear" THEN << >>
               ELSE [a \in 0 .. L.OH * L.OW * L.CO - 1 |-> Junk]
    /\ wrong = {}

\* snrt_dma_start_2d and the wait for it: n rows of width elements of tile,
\* to mem from base on with a stride of CO.
Transfer2d(mem, base, n, width, tile) ==
    [a \in DOMAIN mem |->
        LET d == a - base
        IN  IF d >= 0 /\ d \div L.CO < n /\ d % L.CO < width
            THEN tile[d \div L.CO][d % L.CO] ELSE mem[a]]

----------------------------------------------------------------------------
(* Barriers: snrt_cluster_sw_barrier and snrt_cluster_hw_barrier over the   *)
(* cores of a cluster, and the software barrier of snrt_global_barrier over *)
(* the DM cores.  The last core to come lets all of them go on.             *)

Enter(u, o, members) ==
    /\ At(u, o)
    /\ IF \A v \in members \ {u} : v \in waiting /\ Current(v).op = o
       THEN /\ waiting' = waiting \ members
            /\ todo' = [v \in DOMAIN todo |-> IF v \in members THEN Tail(todo[v]) ELSE todo[v]]
       ELSE /\ waiting' = waiting \cup {u}
            /\ UNCHANGED todo
    /\ UNCHANGED <<layer, buf, prev, l1, flying, ofmap, wrong>>

EnterBarrier(u) == Enter(u, "barrier", {v \in Units(L) : v[1] = u[1]})
EnterGlobal(u) == Enter(u, "global", {v \in Units(L) : v[2] = Dm(L)})

----------------------------------------------------------------------------
(* The DM core's side of the double buffering.                              *)

Toggle(u) == buf' = [buf EXCEPT ![u] = 1 - @]

\* Where the previous tile goes, and the output with it stored there.
Base(c, it) ==
    (prev[c].oh * L.OW + prev[c].ow) * L.CO + (IF L.kind = "conv2d" THEN it.co ELSE prev[c].ci)

Stored(c, base, half) ==
    LET n == IF L.kind = "conv2d" THEN Least(L.num, L.OW - prev[c].ow) ELSE 1
        width == IF L.kind = "conv2d" THEN L.lanes ELSE L.TILE_CI
    IN  Transfer2d(ofmap, base, n, width, l1[c].ofmap[half])

\* Store the tile of the previous iteration from the half the compute cores
\* have left, then toggle; nothing is stored in the first iteration.
StorePrev(u) ==
    LET c == u[1]
        it == Current(u).it
    IN  /\ At(u, "store_prev") /\ Step(u) /\ Toggle(u)
        /\ ofmap' = IF prev[c] = NoTile THEN ofmap ELSE Stored(c, Base(c, it), 1 - buf[u])
        /\ prev' = [prev EXCEPT ![c] = [oh |-> it.oh, ow |-> it.ow, ci |-> it.ci]]
        /\ UNCHANGED <<layer, waiting, l1, flying, wrong>>

\* The last tile.  A cluster of batchnorm or maxpool without a tile of its
\* own stores to wherever the uninitialised prev_oh, prev_ow and prev_ci say.
StoreLast(u) ==
    /\ At(u, "store_last") /\ Step(u)
    /\ \E base \in IF prev[u[1]] = NoTile THEN DOMAIN ofmap ELSE {Base(u[1], Current(u).it)} :
           ofmap' = Stored(u[1], base, 1 - buf[u])
    /\ UNCHANGED <<layer, waiting, buf, prev, l1, flying, wrong>>

----------------------------------------------------------------------------
(* batchnorm_layer and maxpool_layer.                                       *)

\* A step of u that only changes the TCDM of its cluster.
Update(u, o, new) ==
    /\ At(u, o) /\ Step(u)
    /\ l1' = [l1 EXCEPT ![u[1]] = new]
    /\ UNCHANGED <<layer, waiting, prev, flying, ofmap, wrong>>

LoadParams(u) ==
    /\ Update(u, "load_params", [l1[u[1]] EXCEPT !.params = [ch \in 0 .. L.CI - 1 |-> ch]])
    /\ UNCHANGED buf

\* The inputs of one channel of a tile: a row (one pixel here), or a window.
Inputs(l, it, ch) ==
    IF l.kind = "batchnorm" THEN {it.oh * l.IW * l.CI + it.ci + ch}
    ELSE {((it.oh * l.FH + fh) * l.IW + it.ow * l.FW + fw) * l.CI + it.ci + ch :
            fh \in 0 .. l.FH - 1, fw \in 0 .. l.FW - 1}

LoadTile(u) ==
    LET it == Current(u).it
    IN  /\ Update(u, "load", [l1[u[1]] EXCEPT
               !.ifmap[buf[u]] = [ch \in 0 .. L.TILE_CI - 1 |-> Inputs(L, it, ch)]])
        /\ UNCHANGED buf

\* Core k of num works on channels k, k + num, ... of the tile.
Kernel(u, val) ==
    LET t == l1[u[1]]
    IN  /\ Update(u, L.kind, [t EXCEPT !.ofmap[buf[u]][0] =
               [ch \in DOMAIN @ |-> IF ch % L.num = u[2] THEN val[ch] ELSE @[ch]]])
        /\ Toggle(u)

\* batchnorm_fp64: each channel scaled by its own gamma and beta.  The streams
\* hold CI / compute_num channels and the loop pops the rounded-up number: a
\* core does not get past a tile whose channels the cores do not share evenly.
Batchnorm(u) ==
    /\ L.kind = "batchnorm"
    /\ L.TILE_CI % L.num = 0
    /\ LET in == l1[u[1]].ifmap[buf[u]]
       IN  Kernel(u, [ch \in DOMAIN in |->
               {<<a, l1[u[1]].params[Current(u).it.ci + ch]>> : a \in in[ch]}])

\* maxpool_fp64: the inputs the maximum is taken of.
Maxpool(u) ==
    /\ L.kind = "maxpool"
    /\ LET in == l1[u[1]].ifmap[buf[u]]
       IN  Kernel(u, [ch \in DOMAIN in |-> {<<a, 0>> : a \in in[ch]}])

----------------------------------------------------------------------------
(* conv2d_layer.                                                            *)

LoadWeights(u) ==
    LET it == Current(u).it
    IN  /\ Update(u, "load_weights", [l1[u[1]] EXCEPT !.weights =
               [j \in DOMAIN @ |-> (it.co + j) * L.FH * L.FW * L.CI + it.ci]])
        /\ UNCHANGED buf

\* The partial sums of the earlier input channels, or zeros.
LoadOfmap(u) ==
    LET it == Current(u).it
        partial(i, j) == IF it.ci = 0 THEN {}
                         ELSE ofmap[(it.oh * L.OW + it.ow + i) * L.CO + it.co + j]
        new == [i \in 0 .. Least(L.num, L.OW - it.ow) - 1 |->
                  [j \in 0 .. L.lanes - 1 |-> partial(i, j)]]
    IN  /\ Update(u, "load_ofmap", [l1[u[1]] EXCEPT !.ofmap[buf[u]] =
               [i \in DOMAIN @ |-> IF i \in DOMAIN new THEN new[i] ELSE @[i]]])
        /\ UNCHANGED buf

\* Pixels per row of the ifmap buffer, and those a tile needs.
RowPixels(l) == l.num + l.FW - 1
PixelsRead(l, it) == Least(RowPixels(l), l.IW - it.ow + 2 * l.pad)

\* The right border is forgotten.
PaddedPixelOneSided(l, it, fh, col, old) ==
    LET left == IF it.ow < l.pad THEN l.pad - it.ow ELSE 0
    IN  CASE it.oh + fh < l.pad \/ it.oh + fh >= l.IH + (l.FH - 1) \div 2 ->
                IF col < PixelsRead(l, it) THEN Padding ELSE old
          [] OTHER ->
                IF col \in left .. PixelsRead(l, it) - 1
                THEN ((it.oh + fh - l.pad) * l.IW + it.ow - l.pad + col) * l.CI + it.ci
                ELSE IF left # 0 THEN Padding ELSE old

\* Column col of row fh: zeros above, below, left and right of the image.
PaddedPixel(l, it, fh, col, old) ==
    LET left == IF it.ow < l.pad THEN l.pad - it.ow ELSE 0
        right == IF it.ow + l.num + l.pad <= l.OW THEN 0
                 ELSE PixelsRead(l, it) - (l.FW - 1) \div 2 - (l.IW - it.ow)
    IN  CASE it.oh + fh < l.pad \/ it.oh + fh >= l.IH + (l.FH - 1) \div 2 ->
                IF col < PixelsRead(l, it) THEN Padding ELSE old
          [] OTHER ->
                IF col \in left .. PixelsRead(l, it) - right - 1
                THEN ((it.oh + fh - l.pad) * l.IW + it.ow - l.pad + col) * l.CI + it.ci
                ELSE IF left # 0 \/ right # 0 THEN Padding ELSE old

LoadIfmap(u) ==
    LET it == Current(u).it
        w == RowPixels(L)
    IN  /\ Update(u, "load_ifmap", [l1[u[1]] EXCEPT !.ifmap[buf[u]] =
               [x \in DOMAIN @ |-> PaddedPixel(L, it, x \div w, x % w, @[x])]])
        /\ UNCHANGED buf

\* Each pixel's window as one row of the matrix the kernel multiplies.
Im2col(u) ==
    LET it == Current(u).it
        ifmap == l1[u[1]].ifmap[buf[u]]
        window(n) == [t \in 1 .. L.FH * L.FW |->
            ifmap[((t - 1) \div L.FW) * RowPixels(L) + n + ((t - 1) % L.FW)]]
    IN  /\ Update(u, "im2col", [l1[u[1]] EXCEPT !.im2col[buf[u]] =
               [n \in DOMAIN @ |-> IF it.ow + n < L.OW THEN window(n) ELSE @[n]]])
        /\ UNCHANGED buf

\* gemm_fp64_opt(1, 8, ...): alpha is 0, and the loaded sums are not used,
\* for all but the first tile of input channels.
Gemm(u) ==
    LET it == Current(u).it
        t == l1[u[1]]
        alpha == IF it.ci # 0 /\ L.TILE_CI # L.CI THEN 0 ELSE 1
        sum(j, old) == (IF alpha = 0 THEN {} ELSE old)
                         \cup {<<t.weights[j], t.im2col[buf[u]][u[2]]>>}
        mine == it.ow + u[2] < L.OW
    IN  /\ Update(u, "gemm", [t EXCEPT !.ofmap[buf[u]] =
               [n \in DOMAIN @ |-> IF n = u[2] /\ mine
                                   THEN [j \in DOMAIN @[n] |-> sum(j, @[n][j])] ELSE @[n]]])
        /\ Toggle(u)

\* Handing rows from cluster to cluster.
SetFlags(u, o, c, new) ==
    /\ At(u, o) /\ Step(u)
    /\ l1' = [l1 EXCEPT ![c].synch_flag = new]
    /\ UNCHANGED <<layer, waiting, buf, prev, flying, ofmap, wrong>>

ClearFlags(u) == SetFlags(u, "clear_flags", u[1], [b \in 0 .. 1 |-> 0])
SetFlag(u) == SetFlags(u, "set_flag", u[1], [l1[u[1]].synch_flag EXCEPT ![buf[u]] = 1])
ReleaseSource(u) ==
    /\ At(u, "release_source")
    /\ SetFlags(u, "release_source", u[1] - 1,
                [l1[u[1] - 1].synch_flag EXCEPT ![1 - buf[u]] = 0])

AwaitConsumed(u) ==
    /\ At(u, "await_consumed") /\ l1[u[1]].synch_flag[buf[u]] = 0 /\ Step(u)
    /\ UNCHANGED <<layer, waiting, buf, prev, l1, flying, ofmap, wrong>>

AwaitSource(u) ==
    /\ At(u, "await_source") /\ l1[u[1] - 1].synch_flag[1 - buf[u]] # 0 /\ Step(u)
    /\ UNCHANGED <<layer, waiting, buf, prev, l1, flying, ofmap, wrong>>

\* One contiguous transfer of FH times the pixels needed.
CopyIfmap(u) ==
    /\ At(u, "copy_ifmap")
    /\ Update(u, "copy_ifmap", [l1[u[1]] EXCEPT !.ifmap[buf[u]] =
           [x \in DOMAIN @ |-> IF x < PixelsRead(L, Current(u).it) * L.FH
                               THEN l1[u[1] - 1].ifmap[1 - buf[u]][x] ELSE @[x]]])
    /\ UNCHANGED buf

----------------------------------------------------------------------------
(* check_layer.                                                             *)

\* What element a of the output has to be.
Reference(l, a) ==
    LET ch == a % l.CO
        ow == (a \div l.CO) % l.OW
        oh == a \div (l.CO * l.OW)
        pixel(y, x, ci) == IF y \in 0 .. l.IH - 1 /\ x \in 0 .. l.IW - 1
                           THEN (y * l.IW + x) * l.CI + ci ELSE Padding
        taps(ci) == [t \in 1 .. l.FH * l.FW |->
            pixel(oh + (t - 1) \div l.FW - l.pad, ow + ((t - 1) % l.FW) - l.pad, ci)]
    IN  CASE l.kind = "batchnorm" -> {<<oh * l.CI + ch, ch>>}
          [] l.kind = "maxpool" ->
               {<<((oh * l.FH + fh) * l.IW + ow * l.FW + fw) * l.CI + ch, 0>> :
                  fh \in 0 .. l.FH - 1, fw \in 0 .. l.FW - 1}
          [] l.kind = "conv2d" ->
               {<<ch * l.FH * l.FW * l.CI + ci, taps(ci)>> :
                  ci \in {x \in 0 .. l.CI - 1 : x % l.TILE_CI = 0}}

Fetch(u) ==
    LET p == Current(u).it
    IN  /\ Update(u, "fetch", [l1[u[1]] EXCEPT !.result =
               [ch \in 1 .. L.CO |-> ofmap[p * L.CO + ch - 1]]])
        /\ UNCHANGED buf

Compare(u) ==
    LET p == Current(u).it
        right == \A ch \in 1 .. L.CO : l1[u[1]].result[ch] = Reference(L, p * L.CO + ch - 1)
    IN  /\ At(u, "compare") /\ Step(u)
        /\ wrong' = IF right THEN wrong ELSE wrong \cup {p}
        /\ UNCHANGED <<layer, waiting, buf, prev, l1, flying, ofmap>>

----------------------------------------------------------------------------
(* nnlinear_backend_baseline.                                               *)

LoadBiases(u) ==
    /\ Update(u, "load_biases", [l1[u[1]] EXCEPT !.biases = << >>])
    /\ UNCHANGED buf

\* The weights are started and not waited for; the engine ends in its time.
StartWeights(u) ==
    /\ At(u, "start_weights") /\ Step(u)
    /\ flying' = [flying EXCEPT ![u[1]] = {"weights"}]
    /\ UNCHANGED <<layer, waiting, buf, prev, l1, ofmap, wrong>>

WeightsArrive(c) ==
    /\ flying[c] # {}
    /\ flying' = [flying EXCEPT ![c] = {}]
    /\ l1' = [l1 EXCEPT ![c].weights = << >>]
    /\ UNCHANGED <<layer, todo, waiting, buf, prev, ofmap, wrong>>

ZeroGrads(u) ==
    /\ Update(u, "zero_grads", [l1[u[1]] EXCEPT !.grads = << >>])
    /\ UNCHANGED buf

\* Waits for the image's own transfer only.
LoadImageAlone(u) ==
    /\ Update(u, "load_image", [l1[u[1]] EXCEPT !.image = Current(u).it])
    /\ UNCHANGED buf

\* snrt_dma_wait_all: also waits for the weights.
LoadImage(u) ==
    /\ flying[u[1]] = {}
    /\ Update(u, "load_image", [l1[u[1]] EXCEPT !.image = Current(u).it])
    /\ UNCHANGED buf

LoadTarget(u) ==
    /\ Update(u, "load_target", [l1[u[1]] EXCEPT !.target = Current(u).it])
    /\ UNCHANGED buf

\* Every compute core runs the kernels on the same arrays.  Adding to one is a
\* load and a store per element: what another core has just added may be
\* overwritten with the same sum.
Added(list, x) ==
    {Append(list, x)} \cup {s \in {list} : s # << >> /\ Last(s) = x}

\* Activations that several cores have worked on at once.
Mixed(image) == <<image>>

\* FeedForward_baseline and SoftMax_baseline, in place.
FeedForward(u) ==
    LET t == l1[u[1]]
        alone == <<t.weights, t.biases, t.image>>
    IN  /\ At(u, "feedforward")
        /\ \E a \in {alone} \cup {x \in {Mixed(t.image)} : t.activations \in {alone, x}} :
               Update(u, "feedforward", [t EXCEPT !.activations = a])
        /\ UNCHANGED buf

GradientUpdate(u) ==
    LET t == l1[u[1]]
    IN  /\ At(u, "gradient")
        /\ \E g \in Added(t.grads, <<t.activations, t.image, t.target>>) :
               Update(u, "gradient", [t EXCEPT !.grads = g])
        /\ UNCHANGED buf

\* Compares the prediction with the target, for the log only.
Accuracy(u) == Update(u, "accuracy", l1[u[1]]) /\ UNCHANGED buf

TrainingStep(u) ==
    LET t == l1[u[1]]
    IN  /\ At(u, "training_step")
        /\ \E w \in Added(t.weights, t.grads), b \in Added(t.biases, t.grads) :
               Update(u, "training_step", [t EXCEPT !.weights = w, !.biases = b])
        /\ UNCHANGED buf

\* Weights and biases after the first n batches.
Trained(l, n) ==
    LET after[b \in 0 .. n] ==
            IF b = 0 THEN << >>
            ELSE Append(after[b - 1],
                        [i \in 1 .. l.BATCH_SIZE |->
                            LET image == (b - 1) * l.BATCH_SIZE + i - 1
                            IN  <<<<after[b - 1], after[b - 1], image>>, image, image>>])
    IN  after[n]

----------------------------------------------------------------------------
Finished == \A u \in DOMAIN todo : Done(u)

UnitStep(u) ==
    \/ EnterBarrier(u) \/ EnterGlobal(u) \/ StorePrev(u) \/ StoreLast(u)
    \/ LoadParams(u) \/ LoadTile(u) \/ Batchnorm(u) \/ Maxpool(u)
    \/ LoadWeights(u) \/ LoadOfmap(u) \/ LoadIfmap(u) \/ Im2col(u) \/ Gemm(u)
    \/ Fetch(u) \/ Compare(u)
    \/ LoadBiases(u) \/ StartWeights(u) \/ ZeroGrads(u) \/ LoadImage(u)
    \/ LoadTarget(u) \/ FeedForward(u) \/ GradientUpdate(u) \/ Accuracy(u)
    \/ TrainingStep(u)

Next ==
    \/ \E u \in Units(L) : UnitStep(u)
    \/ \E c \in DOMAIN flying : WeightsArrive(c)

\* Some core, or the DMA engine, goes on whenever one can.
Spec == Init /\ [][Next]_vars /\ WF_vars(Next)

\* With the operations of cluster2cluster mode, which net_conv2d leaves off.
HandOver(u) ==
    \/ ClearFlags(u) \/ SetFlag(u) \/ ReleaseSource(u) \/ AwaitConsumed(u)
    \/ AwaitSource(u) \/ CopyIfmap(u)

HandOverNext == Next \/ \E u \in Units(L) : HandOver(u)
HandOverSpec == Init /\ [][HandOverNext]_vars /\ WF_vars(HandOverNext)

----------------------------------------------------------------------------
(* Properties.                                                              *)

\* check_layer finds no error: every output element was computed from its
\* own inputs and parameters, padded at the border, and stored once all of it
\* was there, whatever the relative speed of the DM core, the compute cores
\* and the clusters.
LayerRight == wrong = {}

\* The half of a double buffer that a compute core is about to work on is
\* not one the DM core is about to fill or to store.
HalvesApart ==
    \A u \in DOMAIN todo : \A v \in DOMAIN todo :
        /\ u[1] = v[1] /\ v[2] = Dm(L)
        /\ \E o \in {"batchnorm", "maxpool", "gemm"} : At(u, o)
        => /\ \A o \in {"load", "load_ofmap", "im2col"} : At(v, o) => buf[v] # buf[u]
           /\ \A o \in {"store_prev", "store_last"} : At(v, o) => 1 - buf[v] # buf[u]

\* A core that works on an image finds that image and its own label, not
\* those the DM core loads for the next one, and weights that have arrived,
\* although nobody waits for them where their transfer is started.  When a
\* batch is applied, every core has added to the gradients and they hold the
\* images of this batch, all of them and no other, each with its own label.
TrainingInputs ==
    L.kind = "nnlinear" => \A u \in DOMAIN todo :
        LET t == l1[u[1]]
            i == Current(u).it
            images == i * L.BATCH_SIZE .. (i + 1) * L.BATCH_SIZE - 1
        IN  /\ (\E o \in {"feedforward", "gradient", "accuracy"} : At(u, o)) =>
                   t.image = i /\ t.target = i /\ flying[u[1]] = {}
            /\ At(u, "training_step") =>
                   {<<g[2], g[3]>> : g \in ToSet(t.grads)} = {<<n, n>> : n \in images}

\* Training uses every image of a batch once, with its own label and with the
\* weights that all earlier batches have produced ("After one epoch we update
\* the weights", with kernels "for a single core execution").
TrainedOnBatches ==
    L.kind = "nnlinear" /\ Finished =>
        \A c \in DOMAIN l1 : /\ l1[c].weights = Trained(L, L.batches)
                             /\ l1[c].biases = Trained(L, L.batches)

\* Every program ends: the barriers of the cores match, cluster by cluster
\* and of the DM cores among each other, inside the called functions too, and
\* no core waits for a transfer for good.
LayerEnds == <>Finished
=============================================================================
