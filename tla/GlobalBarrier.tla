---------------------------- MODULE GlobalBarrier ----------------------------
(***************************************************************************)
(* snrt_global_barrier of sw/snRuntime/src/sync.h.  The DM core of each    *)
(* cluster first synchronises with the DM cores of the other clusters on   *)
(* the shared _snrt_barrier, with the algorithm of PartialBarrier; then    *)
(* all cores of a cluster load from the cluster's hardware barrier, which  *)
(* is taken here at the level of AbstractBarrier (HwBarrier implements     *)
(* it).  A compute core goes to the hardware barrier straight away.        *)
(***************************************************************************)
EXTENDS Naturals, FiniteSets

CONSTANTS
    Clusters,       \* the clusters
    Cores,          \* the cores of each cluster
    DM,             \* the data-mover core among them
    W,              \* number of values of a word
    MaxRounds       \* how many times each core calls the barrier

ASSUME CoresAssumption    == DM \in Cores
ASSUME ClustersAssumption == IsFiniteSet(Clusters) /\ Clusters # {}
ASSUME WordAssumption     == W \in Nat /\ Cardinality(Clusters) < W
ASSUME RoundsAssumption   == MaxRounds \in Nat

VARIABLES
    cnt, iteration,                         \* _snrt_barrier
    dm_pc, prev_it, sw_entered, sw_left,    \* the DM cores in the software barrier
    released,                               \* history: software rounds released
    hw_in, hw_out   \* per core: hardware barrier loads issued and answered

sw_vars == <<cnt, iteration, dm_pc, prev_it, sw_entered, sw_left, released>>
vars == <<sw_vars, hw_in, hw_out>>

\* The DM cores' part: cnt == snrt_cluster_num() releases the round.
Sw == INSTANCE PartialBarrier
        WITH Harts <- Clusters, pc <- dm_pc, entered <- sw_entered, left <- sw_left

AllCores == Clusters \X Cores
IsDM(x) == x[2] = DM
SameCluster(x, y) == x[1] = y[1]

\* Calls of snrt_global_barrier that core x has started.  They have returned
\* when the hardware barrier has answered.
Calls(x) == IF IsDM(x) THEN sw_entered[x[1]] ELSE hw_in[x]

Init ==
    /\ Sw!Init
    /\ hw_in  = [x \in AllCores |-> 0]
    /\ hw_out = [x \in AllCores |-> 0]

-----------------------------------------------------------------------------
\* Plausible mistakes in the code, to show that the properties notice them.

\* The DM core does not wait for the other clusters.
HwArriveUnsynced(x) ==
    /\ hw_in[x] = hw_out[x]
    /\ hw_in[x] < Calls(x) \/ (~IsDM(x) /\ hw_in[x] < MaxRounds)
    /\ hw_in' = [hw_in EXCEPT ![x] = @ + 1]
    /\ UNCHANGED <<sw_vars, hw_out>>

\* The cluster barrier after the software barrier is forgotten for compute
\* cores, which run on by themselves.
HwReturnAlone(x) ==
    /\ hw_out[x] < hw_in[x]
    /\ IsDM(x) => \A y \in AllCores : SameCluster(x, y) => hw_in[x] <= hw_in[y]
    /\ hw_out' = [hw_out EXCEPT ![x] = @ + 1]
    /\ UNCHANGED <<sw_vars, hw_in>>

\* The DM core joins the software barrier only if it is not in the first cluster.
SwStepSkipped(c) ==
    /\ dm_pc[c] = "call" => hw_out[<<c, DM>>] = sw_entered[c]
    /\ c # CHOOSE d \in Clusters : TRUE
    /\ Sw!Step(c)
    /\ UNCHANGED <<hw_in, hw_out>>
-----------------------------------------------------------------------------

\* A step of cluster c's DM core in the software barrier; it starts the next
\* call when the hardware barrier has ended the previous one.
SwStep(c) ==
    /\ dm_pc[c] = "call" => hw_out[<<c, DM>>] = sw_entered[c]
    /\ Sw!Step(c)
    /\ UNCHANGED <<hw_in, hw_out>>

\* snrt_cluster_hw_barrier: the load is issued ...
HwArrive(x) ==
    /\ hw_in[x] = hw_out[x]
    /\ hw_in[x] < IF IsDM(x) THEN sw_left[x[1]] ELSE MaxRounds
    /\ hw_in' = [hw_in EXCEPT ![x] = @ + 1]
    /\ UNCHANGED <<sw_vars, hw_out>>

\* ... and answered once every core of the cluster has issued its own.
HwReturn(x) ==
    /\ hw_out[x] < hw_in[x]
    /\ \A y \in AllCores : SameCluster(x, y) => hw_in[x] <= hw_in[y]
    /\ hw_out' = [hw_out EXCEPT ![x] = @ + 1]
    /\ UNCHANGED <<sw_vars, hw_in>>

Next ==
    \/ \E c \in Clusters : SwStep(c)
    \/ \E x \in AllCores : HwArrive(x) \/ HwReturn(x)

\* Every core keeps executing, and the hardware barrier answers.
Spec ==
    /\ Init /\ [][Next]_vars
    /\ \A c \in Clusters : WF_vars(SwStep(c))
    /\ \A x \in AllCores : WF_vars(HwArrive(x)) /\ WF_vars(HwReturn(x))

-----------------------------------------------------------------------------
\* What the call does guarantee: when it returns to a core, every core of the
\* same cluster and the DM core of every cluster has made the call too.
ClustersSynced ==
    \A x, y \in AllCores :
        (SameCluster(x, y) \/ IsDM(y)) => hw_out[x] <= Calls(y)

\* A core of another cluster can be late, but by no more than one call: its
\* own DM core cannot reach the next software barrier without it.
AtMostOneBehind == \A x, y \in AllCores : hw_out[x] <= Calls(y) + 1

\* The two barriers in a row do not deadlock.
EventuallyAllReturn == <>(\A x \in AllCores : hw_out[x] = MaxRounds)

-----------------------------------------------------------------------------
\* The inductive invariant: that of the software barrier, and how far each
\* core can be in the hardware barrier.

HwTypeOK == hw_in \in [AllCores -> Nat] /\ hw_out \in [AllCores -> Nat]

\* A load from the hardware barrier is answered before the next one is
\* issued, and not before every core of the cluster has issued as many.
HwSynced ==
    \A x, y \in AllCores :
        /\ hw_out[x] <= hw_in[x] /\ hw_in[x] <= hw_out[x] + 1
        /\ SameCluster(x, y) => hw_out[x] <= hw_in[y]

\* A DM core goes from one barrier to the other and back.
DmInTurn ==
    \A c \in Clusters :
        /\ hw_in[<<c, DM>>] <= sw_left[c]
        /\ sw_entered[c] <= hw_out[<<c, DM>>] + 1

IInv == Sw!IInv /\ HwTypeOK /\ HwSynced /\ DmInTurn

\* To the DM cores alone the two barriers in a row are one barrier.
DmBarrier ==
    INSTANCE AbstractBarrier
        WITH Parties <- Clusters, entered <- sw_entered,
             left <- [c \in Clusters |-> hw_out[<<c, DM>>]]

=============================================================================
