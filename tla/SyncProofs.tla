----------------------------- MODULE SyncProofs -----------------------------
(***************************************************************************)
(* Proofs about the primitives of the cluster: the spin lock, the hardware *)
(* barrier and snrt_global_barrier, for every number of harts, ports,      *)
(* clusters and cores.  What the software barrier of the DM cores does is  *)
(* taken from PartialBarrierProofs.                                        *)
(***************************************************************************)
EXTENDS GlobalBarrier, Mutex, HwBarrier, TLAPS

-----------------------------------------------------------------------------
(* The spin lock.                                                          *)

\* The free lock satisfies the inductive invariant.
LEMMA LockInitIInv == LockInit => LockIInv
BY AcquiresAssumption DEF LockInit, LockIInv, LockTypeOK, Locations,
    MutualExclusion, HeldIffSet

\* Every access of a hart to the lock word preserves it.
LEMMA LockNextIInv == LockIInv /\ [LockNext]_lock_vars => LockIInv'
<1> SUFFICES ASSUME LockIInv, [LockNext]_lock_vars PROVE LockIInv'
    OBVIOUS
<1> USE AcquiresAssumption DEF LockIInv, LockTypeOK, Locations, Goto
<1>1. ASSUME NEW h \in Harts, Acquire(h) \/ TtasAcquire(h) PROVE LockIInv'
    BY <1>1 DEF Acquire, TtasAcquire, MutualExclusion, HeldIffSet
<1>2. ASSUME NEW h \in Harts, TestFree(h) PROVE LockIInv'
    BY <1>2 DEF TestFree, MutualExclusion, HeldIffSet
<1>3. ASSUME NEW h \in Harts, Swap(h) PROVE LockIInv'
    <2>1. CASE mtx = 0
        BY <1>3, <2>1 DEF Swap, MutualExclusion, HeldIffSet
    <2>2. CASE mtx = 1
        BY <1>3, <2>2 DEF Swap, MutualExclusion, HeldIffSet
    <2> QED
        BY <2>1, <2>2
<1>4. ASSUME NEW h \in Harts, Release(h) PROVE LockIInv'
    BY <1>4 DEF Release, MutualExclusion, HeldIffSet
<1>5. CASE UNCHANGED lock_vars
    BY <1>5 DEF lock_vars, MutualExclusion, HeldIffSet
<1> QED
    BY <1>1, <1>2, <1>3, <1>4, <1>5 DEF LockNext

\* Only one hart at a time is between snrt_mutex_acquire or
\* snrt_mutex_ttas_acquire and snrt_mutex_release, however many harts there are.
THEOREM Exclusion == LockSpec => []MutualExclusion
<1>1. LockIInv => MutualExclusion
    BY DEF LockIInv
<1> QED
    BY <1>1, LockInitIInv, LockNextIInv, PTL DEF LockSpec

\* The lock word is 1 exactly while the lock is held, so no release is lost.
THEOREM WordTellsHolder == LockSpec => []HeldIffSet
<1>1. LockIInv => HeldIffSet
    BY DEF LockIInv
<1> QED
    BY <1>1, LockInitIInv, LockNextIInv, PTL DEF LockSpec

-----------------------------------------------------------------------------
(* The hardware barrier.                                                   *)

\* After reset all ports are idle and nothing has been requested.
LEMMA PortInitIInv == PortInit => PortIInv
BY DEF PortInit, PortIInv, PortTypeOK, States, Requests, PortProgress

\* A load of the barrier register is left only in state Take.
LEMMA AcceptedInTake ==
    ASSUME NEW i \in Ports, PortIInv, req[i] = "barrier", ~HeldBack(i)
    PROVE  state[i] = "Take"
BY DEF PortIInv, PortTypeOK, States, HeldBack

\* A core raising a request and an edge of the clock preserve the invariant.
LEMMA PortNextIInv == PortIInv /\ [PortNext]_port_vars => PortIInv'
<1> SUFFICES ASSUME PortIInv, [PortNext]_port_vars PROVE PortIInv'
    OBVIOUS
<1> USE DEF PortIInv
<1>1. ASSUME NEW i \in Ports, RaiseBarrier(i) PROVE PortIInv'
    <2>1. PortTypeOK'
        BY <1>1 DEF RaiseBarrier, PortTypeOK, Requests
    <2>2. PortProgress'
        BY <1>1 DEF RaiseBarrier, PortTypeOK, PortProgress
    <2> QED
        BY <2>1, <2>2
<1>2. ASSUME NEW i \in Ports, RaiseOther(i) PROVE PortIInv'
    <2>1. PortTypeOK'
        BY <1>2 DEF RaiseOther, PortTypeOK, Requests
    <2>2. PortProgress'
        BY <1>2 DEF RaiseOther, PortTypeOK, PortProgress
    <2> QED
        BY <2>1, <2>2
<1>3. ASSUME NEW R \in SUBSET Ports, Clock(R) PROVE PortIInv'
    <2> DEFINE Passes(i) == i \in R /\ req[i] # "none" /\ ~HeldBack(i)
    <2>1. /\ state' = [i \in Ports |-> NextState(i, Passes(i))]
          /\ req' = [i \in Ports |-> IF Passes(i) THEN "none" ELSE req[i]]
          /\ left' = [i \in Ports |-> IF Passes(i) /\ req[i] = "barrier"
                                        THEN left[i] + 1 ELSE left[i]]
          /\ taken' = IF TakeBarrier THEN taken + 1 ELSE taken
          /\ entered' = entered
        BY <1>3 DEF Clock
    <2>2. \A i \in Ports : NextState(i, Passes(i)) \in States
        BY DEF NextState, PortTypeOK, States
    <2>3. PortTypeOK'
        BY <2>1, <2>2 DEF PortTypeOK, Requests
    <2>4. CASE TakeBarrier
        <3>1. \A i \in Ports : ~Passes(i) /\ state'[i] = "Take"
            BY <2>1, <2>4 DEF TakeBarrier, HeldBack, NextState
        <3>2. PortProgress'
            BY <2>1, <2>4, <3>1 DEF TakeBarrier, PortTypeOK, PortProgress
        <3> QED
            BY <2>3, <3>2
    <2>5. CASE ~TakeBarrier
        <3> SUFFICES ASSUME NEW i \in Ports
                     PROVE  /\ state'[i] = "Idle" =>
                                /\ left'[i] = taken
                                /\ entered[i] = IF req'[i] = "barrier"
                                                  THEN taken + 1 ELSE taken
                            /\ state'[i] = "Wait" =>
                                /\ req'[i] = "barrier"
                                /\ left'[i] = taken /\ entered[i] = taken + 1
                            /\ state'[i] = "Take" =>
                                /\ req'[i] = "barrier"
                                /\ left'[i] + 1 = taken /\ entered[i] = taken
            BY <2>1, <2>3, <2>5 DEF PortProgress
        <3>1. CASE state[i] = "Idle"
            BY <2>1, <3>1 DEF NextState, HeldBack, PortProgress, PortTypeOK, Requests
        <3>2. CASE state[i] = "Wait"
            BY <2>1, <2>5, <3>2 DEF NextState, HeldBack, PortProgress, PortTypeOK
        <3>3. CASE state[i] = "Take"
            BY <2>1, <3>3 DEF NextState, HeldBack, PortProgress, PortTypeOK
        <3> QED
            BY <3>1, <3>2, <3>3 DEF PortTypeOK, States
    <2> QED
        BY <2>4, <2>5
<1>4. CASE UNCHANGED port_vars
    BY <1>4 DEF port_vars, PortTypeOK, PortProgress
<1> QED
    BY <1>1, <1>2, <1>3, <1>4 DEF PortNext

-----------------------------------------------------------------------------
\* The port registers of snitch_barrier.sv always agree with the number of
\* rounds taken, however the ports' loads and the interconnect interleave.
THEOREM HwInvariance == PortSpec => []PortIInv
BY PortInitIInv, PortNextIInv, PTL DEF PortSpec

\* No core passes the hardware barrier before all cores have reached it.
THEOREM HwSafety == PortSpec => []NoEarlyExit
<1>1. PortIInv => NoEarlyExit
    BY DEF PortIInv, PortTypeOK, States, PortProgress, NoEarlyExit
<1> QED
    BY <1>1, HwInvariance, PTL

\* The hardware barrier implements the abstract barrier: a core that raises a
\* barrier load enters it, and the loads left at a clock edge leave it.
THEOREM HwRefinement == PortSpec => Abstract!SafetySpec
<1>1. PortInit => Abstract!Init
    BY DEF PortInit, Abstract!Init
<1>2. ASSUME PortIInv, [PortNext]_port_vars PROVE [Abstract!Next]_(Abstract!vars)
    <2>1. ASSUME NEW i \in Ports, RaiseBarrier(i) PROVE Abstract!Enter(i)
        BY <1>2, <2>1 DEF PortIInv, PortTypeOK, States, PortProgress, RaiseBarrier,
                          Abstract!Enter
    <2>2. ASSUME NEW i \in Ports, RaiseOther(i) PROVE UNCHANGED Abstract!vars
        BY <2>2 DEF RaiseOther, Abstract!vars
    <2>3. ASSUME NEW R \in SUBSET Ports, Clock(R)
          PROVE  \E S \in SUBSET Ports : Abstract!Leave(S)
        <3> DEFINE S == {i \in R : req[i] = "barrier" /\ ~HeldBack(i)}
        <3>1. left' = [i \in Ports |-> IF i \in S THEN left[i] + 1 ELSE left[i]]
            BY <2>3 DEF Clock
        <3>2. \A i \in S : i \in Ports /\ state[i] = "Take"
            BY <1>2, AcceptedInTake
        <3>3. \A i \in S : Abstract!MayLeave(i)
            BY <1>2, <3>2 DEF PortIInv, PortTypeOK, States, PortProgress, Abstract!MayLeave
        <3>4. S \in SUBSET Ports /\ UNCHANGED entered
            BY <2>3 DEF Clock
        <3>5. Abstract!Leave(S)
            BY <3>1, <3>3, <3>4 DEF Abstract!Leave
        <3> QED
            BY <3>4, <3>5
    <2>4. CASE UNCHANGED port_vars
        BY <2>4 DEF port_vars, Abstract!vars
    <2> QED
        BY <1>2, <2>1, <2>2, <2>3, <2>4 DEF PortNext, Abstract!Next
<1> QED
    BY <1>1, <1>2, HwInvariance, PTL DEF PortSpec, Abstract!SafetySpec

-----------------------------------------------------------------------------
(* The global barrier.                                                     *)

SwProofs ==
    INSTANCE PartialBarrierProofs
        WITH Harts <- Clusters, pc <- dm_pc, entered <- sw_entered, left <- sw_left

USE DEF AllCores, IsDM, SameCluster

\* The instance of PartialBarrier that is proved about is the one that is
\* used.
LEMMA SameBarrier ==
    /\ Sw!Init <=> SwProofs!Init
    /\ Sw!IInv <=> SwProofs!IInv
    /\ \A c \in Clusters : Sw!Step(c) <=> SwProofs!Step(c)
<1>1. \A S : Sw!Cardinality(S) = SwProofs!Cardinality(S)
    BY DEF Sw!Cardinality, SwProofs!Cardinality
<1>2. Sw!n = SwProofs!n /\ Sw!Arrived = SwProofs!Arrived
    BY <1>1 DEF Sw!n, SwProofs!n, Sw!Arrived, SwProofs!Arrived
<1>3. Sw!Init <=> SwProofs!Init
    BY DEF Sw!Init, SwProofs!Init
<1>4. Sw!TypeOK <=> SwProofs!TypeOK
    BY DEF Sw!TypeOK, SwProofs!TypeOK, Sw!Locations, SwProofs!Locations
<1>5. /\ Sw!Progress <=> SwProofs!Progress
      /\ Sw!LastIsAlone <=> SwProofs!LastIsAlone
    BY DEF Sw!Progress, SwProofs!Progress, Sw!LastIsAlone, SwProofs!LastIsAlone
<1>6. Sw!CntCounts <=> SwProofs!CntCounts
    BY <1>1, <1>2 DEF Sw!CntCounts, SwProofs!CntCounts
<1>7. ASSUME NEW c \in Clusters PROVE Sw!Step(c) <=> SwProofs!Step(c)
    BY <1>2 DEF Sw!Step, SwProofs!Step, Sw!RememberIteration,
        SwProofs!RememberIteration, Sw!AddFetchCnt, SwProofs!AddFetchCnt,
        Sw!ResetCnt, SwProofs!ResetCnt, Sw!BumpIteration, SwProofs!BumpIteration,
        Sw!LeaveSpin, SwProofs!LeaveSpin, Sw!Goto, SwProofs!Goto, Sw!Return,
        SwProofs!Return
<1> QED
    BY <1>3, <1>4, <1>5, <1>6, <1>7 DEF Sw!IInv, SwProofs!IInv

\* The DM cores' software barrier keeps its inductive invariant: there are
\* clusters, and a word can hold their number.
LEMMA SwInductive ==
    /\ Init => Sw!IInv
    /\ \A c \in Clusters : Sw!IInv /\ Sw!Step(c) => Sw!IInv'
<1>1. /\ SwProofs!IsFiniteSet(Clusters) <=> IsFiniteSet(Clusters)
      /\ SwProofs!n = Cardinality(Clusters)
    BY DEF SwProofs!IsFiniteSet, IsFiniteSet, SwProofs!n, SwProofs!Cardinality,
        Cardinality
<1>2. /\ SwProofs!IsFiniteSet(Clusters) /\ Clusters # {}
      /\ W \in Nat /\ SwProofs!n < W
      /\ MaxRounds \in Nat
    BY <1>1, ClustersAssumption, WordAssumption, RoundsAssumption
<1>3. SwProofs!Init => SwProofs!IInv
    BY <1>2, SwProofs!InitIInv
<1>4. SwProofs!IInv /\ [SwProofs!Next]_(SwProofs!vars) => SwProofs!IInv'
    BY <1>2, SwProofs!NextIInv
<1>5. Sw!IInv' <=> SwProofs!IInv'
    BY SameBarrier, PTL
<1> QED
    BY <1>3, <1>4, <1>5, SameBarrier DEF Init, SwProofs!Next

\* What the rest of the proof needs to know of the software barrier: the
\* counts of calls are numbers, and no DM core leaves it early.
LEMMA SwFacts ==
    Sw!IInv =>
        /\ sw_entered \in [Clusters -> Nat] /\ sw_left \in [Clusters -> Nat]
        /\ \A c, d \in Clusters : sw_left[c] <= sw_entered[d]
BY DEF Sw!IInv, Sw!TypeOK, Sw!Locations, Sw!Progress

\* A step of a DM core in the software barrier starts a call or leaves the
\* number of calls started alone; the number of calls left only grows.
LEMMA SwStepFacts ==
    ASSUME Sw!IInv, NEW c \in Clusters, Sw!Step(c)
    PROVE  /\ \/ Sw!RememberIteration(c)
              \/ sw_entered' = sw_entered
           /\ \/ sw_left' = sw_left
              \/ sw_left' = [sw_left EXCEPT ![c] = @ + 1]
BY DEF Sw!Step, Sw!RememberIteration, Sw!AddFetchCnt, Sw!ResetCnt,
    Sw!BumpIteration, Sw!LeaveSpin, Sw!Return

-----------------------------------------------------------------------------
\* Nobody has called the barrier yet.
LEMMA InitIInv == Init => IInv
<1> SUFFICES ASSUME Init PROVE IInv
    OBVIOUS
<1>1. Sw!IInv
    BY SwInductive
<1>2. HwTypeOK /\ HwSynced
    BY DEF Init, HwTypeOK, HwSynced
<1>3. DmInTurn
    BY CoresAssumption DEF Init, DmInTurn, Sw!Init
<1> QED
    BY <1>1, <1>2, <1>3 DEF IInv

\* Every step of a core in either barrier preserves the invariant.
LEMMA NextIInv == IInv /\ [Next]_vars => IInv'
<1> SUFFICES ASSUME IInv, [Next]_vars PROVE IInv'
    OBVIOUS
<1> USE DEF IInv
<1>1. ASSUME NEW c \in Clusters, SwStep(c) PROVE IInv'
    <2>1. Sw!IInv'
        BY <1>1, SwInductive DEF SwStep
    <2>2. HwTypeOK' /\ HwSynced'
        BY <1>1 DEF SwStep, HwTypeOK, HwSynced
    <2>3. DmInTurn'
        <3>1. CASE Sw!RememberIteration(c)
            <4>1. /\ sw_entered[c] = hw_out[<<c, DM>>] /\ sw_left' = sw_left
                  /\ sw_entered' = [sw_entered EXCEPT ![c] = @ + 1]
                  /\ hw_in' = hw_in /\ hw_out' = hw_out
                BY <1>1, <3>1 DEF SwStep, Sw!RememberIteration
            <4>2. \A d \in Clusters :
                      /\ sw_entered[d] \in Nat /\ hw_out[<<d, DM>>] \in Nat
                      /\ sw_entered'[d] = IF d = c THEN hw_out[<<d, DM>>] + 1
                                                  ELSE sw_entered[d]
                BY <4>1, SwFacts, CoresAssumption DEF HwTypeOK
            <4> QED
                BY <4>1, <4>2 DEF DmInTurn
        <3>2. CASE sw_entered' = sw_entered
            BY <3>2, <1>1, SwFacts, SwStepFacts, CoresAssumption
                DEF SwStep, DmInTurn, HwTypeOK
        <3> QED
            BY <3>1, <3>2, <1>1, SwStepFacts DEF SwStep
    <2> QED
        BY <2>1, <2>2, <2>3
<1>2. ASSUME NEW x \in AllCores, HwArrive(x) PROVE IInv'
    <2> USE <1>2 DEF HwArrive
    <2>1. Sw!IInv'
        BY DEF sw_vars, Sw!IInv, Sw!TypeOK, Sw!Progress, Sw!LastIsAlone,
            Sw!CntCounts, Sw!Arrived
    <2>2. HwTypeOK' /\ HwSynced'
        BY DEF HwTypeOK, HwSynced
    <2>3. DmInTurn'
        BY SwFacts, CoresAssumption DEF sw_vars, DmInTurn, HwTypeOK
    <2> QED
        BY <2>1, <2>2, <2>3
<1>3. ASSUME NEW x \in AllCores, HwReturn(x) PROVE IInv'
    <2> USE <1>3 DEF HwReturn
    <2>1. Sw!IInv'
        BY DEF sw_vars, Sw!IInv, Sw!TypeOK, Sw!Progress, Sw!LastIsAlone,
            Sw!CntCounts, Sw!Arrived
    <2>2. HwTypeOK' /\ HwSynced'
        BY DEF HwTypeOK, HwSynced
    <2>3. DmInTurn'
        BY SwFacts, CoresAssumption DEF sw_vars, DmInTurn, HwTypeOK
    <2> QED
        BY <2>1, <2>2, <2>3
<1>4. CASE UNCHANGED vars
    BY <1>4 DEF vars, sw_vars, HwTypeOK, HwSynced, DmInTurn, Sw!IInv, Sw!TypeOK,
        Sw!Progress, Sw!LastIsAlone, Sw!CntCounts, Sw!Arrived
<1> QED
    BY <1>1, <1>2, <1>3, <1>4 DEF Next

-----------------------------------------------------------------------------
\* The two barriers of snrt_global_barrier stay in step with each other
\* (sync.h:60-83).
THEOREM Invariance == Spec => []IInv
BY InitIInv, NextIInv, PTL DEF Spec

\* When snrt_global_barrier returns to a core, every core of its cluster and
\* the DM core of every cluster has called it, for every number of clusters
\* and cores.
THEOREM Synced == Spec => []ClustersSynced
<1>1. ASSUME IInv PROVE ClustersSynced
    <2> SUFFICES ASSUME NEW x \in AllCores, NEW y \in AllCores,
                        SameCluster(x, y) \/ IsDM(y)
                 PROVE  hw_out[x] <= Calls(y)
        BY DEF ClustersSynced
    <2>1. CASE IsDM(y)
        <3> DEFINE m == <<x[1], DM>>
        <3>1. m \in AllCores /\ x[1] \in Clusters /\ y[1] \in Clusters
            BY CoresAssumption
        <3>2. hw_out[x] <= hw_in[m] /\ hw_in[m] <= sw_left[x[1]]
            BY <1>1, <3>1 DEF IInv, HwSynced, DmInTurn
        <3>3. sw_left[x[1]] <= sw_entered[y[1]]
            BY <1>1, <3>1, SwFacts DEF IInv
        <3> QED
            BY <1>1, <2>1, <3>1, <3>2, <3>3, SwFacts DEF IInv, HwTypeOK, Calls
    <2>2. CASE ~IsDM(y)
        BY <1>1, <2>2 DEF IInv, HwSynced, Calls
    <2> QED
        BY <2>1, <2>2
<1> QED
    BY <1>1, Invariance, PTL

\* No core is more than one call of snrt_global_barrier behind another.
THEOREM OneBehind == Spec => []AtMostOneBehind
<1>1. ASSUME IInv PROVE AtMostOneBehind
    <2> SUFFICES ASSUME NEW x \in AllCores, NEW y \in AllCores
                 PROVE  hw_out[x] <= Calls(y) + 1
        BY DEF AtMostOneBehind
    <2> DEFINE m == <<x[1], DM>>  k == <<y[1], DM>>
    <2>1. m \in AllCores /\ k \in AllCores /\ x[1] \in Clusters /\ y[1] \in Clusters
        BY CoresAssumption
    <2>2. hw_out[x] <= hw_in[m] /\ hw_in[m] <= sw_left[x[1]]
        BY <1>1, <2>1 DEF IInv, HwSynced, DmInTurn
    <2>3. sw_left[x[1]] <= sw_entered[y[1]]
        BY <1>1, <2>1, SwFacts DEF IInv
    <2>4. sw_entered[y[1]] <= hw_out[k] + 1 /\ hw_out[k] <= hw_in[y]
        BY <1>1, <2>1 DEF IInv, HwSynced, DmInTurn
    <2>5. /\ hw_out[x] \in Nat /\ hw_in[m] \in Nat /\ hw_out[k] \in Nat
          /\ hw_in[y] \in Nat /\ sw_left[x[1]] \in Nat /\ sw_entered[y[1]] \in Nat
        BY <1>1, <2>1, SwFacts DEF IInv, HwTypeOK
    <2> HIDE DEF m, k
    <2> QED
        BY <2>2, <2>3, <2>4, <2>5 DEF Calls
<1> QED
    BY <1>1, Invariance, PTL

\* To the DM cores, snrt_global_barrier as a whole is a barrier: each step of
\* any core starts or ends a call of one of them or is none of their business.
THEOREM DmRefinement == Spec => DmBarrier!SafetySpec
<1> DEFINE out == [c \in Clusters |-> hw_out[<<c, DM>>]]
<1>1. Init => DmBarrier!Init
    BY CoresAssumption DEF Init, Sw!Init, DmBarrier!Init
<1>2. ASSUME IInv, [Next]_vars PROVE [DmBarrier!Next]_(DmBarrier!vars)
    <2> USE <1>2 DEF IInv
    <2>0. /\ out \in [Clusters -> Nat]
          /\ \A c \in Clusters : <<c, DM>> \in AllCores
        BY CoresAssumption DEF HwTypeOK
    <2>1. ASSUME NEW c \in Clusters, SwStep(c)
          PROVE  DmBarrier!Enter(c) \/ UNCHANGED DmBarrier!vars
        <3>1. out' = out
            BY <2>1 DEF SwStep
        <3>2. CASE Sw!RememberIteration(c)
            BY <2>1, <3>1, <3>2 DEF SwStep, Sw!RememberIteration, DmBarrier!Enter
        <3>3. CASE sw_entered' = sw_entered
            BY <3>1, <3>3 DEF DmBarrier!vars
        <3> QED
            BY <2>1, <3>2, <3>3, SwStepFacts DEF SwStep
    <2>2. ASSUME NEW x \in AllCores, HwArrive(x) PROVE UNCHANGED DmBarrier!vars
        BY <2>2 DEF HwArrive, sw_vars, DmBarrier!vars
    <2>3. ASSUME NEW x \in AllCores, HwReturn(x), ~IsDM(x)
          PROVE  UNCHANGED DmBarrier!vars
        BY <2>3, <2>0 DEF HwReturn, HwTypeOK, sw_vars, DmBarrier!vars
    <2>4. ASSUME NEW x \in AllCores, HwReturn(x), IsDM(x)
          PROVE  DmBarrier!Leave({x[1]})
        <3> DEFINE c == x[1]
        <3>1. c \in Clusters /\ x = <<c, DM>>
            BY <2>4
        <3>2. /\ out[c] < hw_in[x] /\ hw_in[x] <= sw_left[c]
              /\ sw_entered[c] <= out[c] + 1
              /\ \A q \in Clusters : sw_left[c] <= sw_entered[q]
            BY <2>4, <3>1, SwFacts DEF HwReturn, DmInTurn
        <3>3. hw_in[x] \in Nat /\ out[c] \in Nat /\ sw_left[c] \in Nat
              /\ \A q \in Clusters : sw_entered[q] \in Nat
            BY <2>0, <3>1, SwFacts DEF HwTypeOK
        <3>4. DmBarrier!MayLeave(c)
            <4> HIDE DEF out, c
            <4>1. out[c] < sw_entered[c] /\ \A q \in Clusters : sw_entered[c] <= sw_entered[q]
                BY <3>1, <3>2, <3>3
            <4> QED
                BY <4>1 DEF DmBarrier!MayLeave, out
        <3>5. out' = [p \in Clusters |-> IF p \in {c} THEN out[p] + 1 ELSE out[p]]
            BY <2>0, <2>4, <3>1 DEF HwReturn, HwTypeOK
        <3> QED
            BY <2>4, <3>4, <3>5 DEF HwReturn, sw_vars, DmBarrier!Leave
    <2>5. CASE UNCHANGED vars
        BY <2>5 DEF vars, sw_vars, DmBarrier!vars
    <2>6. \A x \in AllCores : {x[1]} \in SUBSET Clusters
        OBVIOUS
    <2> QED
        BY <2>1, <2>2, <2>3, <2>4, <2>5, <2>6 DEF Next, DmBarrier!Next
<1> QED
    BY <1>1, <1>2, Invariance, PTL DEF Spec, DmBarrier!SafetySpec

=============================================================================
