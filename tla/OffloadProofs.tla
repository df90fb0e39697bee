--------------------------- MODULE OffloadProofs ---------------------------
(***************************************************************************)
(* Proofs about the offload application, for every number of clusters,     *)
(* every set of compute cores and every number of jobs.                    *)
(***************************************************************************)
EXTENDS Offload, FiniteSetTheorems, TLAPS

\* Clusters and harts are numbered.
LEMMA Numbers ==
    /\ N_JOBS \in Nat /\ N_JOBS > 0 /\ N_CLUSTERS \in Nat /\ N_CLUSTERS > 0
    /\ 0 \in Clusters /\ N_CLUSTERS - 1 \in Clusters /\ Clusters \subseteq Nat
    /\ \A c \in Clusters : c < N_CLUSTERS
    /\ DM \in Cores /\ Compute \subseteq Cores /\ \A k \in Cores : k # DM <=> k \in Compute
    /\ \A c \in Clusters, k \in Cores : <<c, k>> \in Harts /\ (IsDM(<<c, k>>) <=> k = DM)
    /\ \A h \in Harts : \E c \in Clusters, k \in Cores : h = <<c, k>>
BY JobsAssumption, ComputeAssumption DEF Clusters, Cores, Harts, IsDM

\* The types of the variables, one cluster and one hart at a time.
LEMMA TypeFacts ==
    ASSUME TypeOK, NEW c \in Clusters, NEW k \in Cores
    PROVE  /\ DOMAIN pc = Harts /\ DOMAIN mcip = Harts /\ DOMAIN slot = Harts
           /\ DOMAIN l1_next = Clusters /\ DOMAIN l1 = Clusters /\ DOMAIN dma = Clusters
           /\ DOMAIN job_remote = Clusters
           /\ mcip[<<c, k>>] \in BOOLEAN /\ slot[<<c, k>>] \in 0 .. N_JOBS + 1
           /\ l1_next[c] \in 0 .. N_JOBS + 1 /\ l1[c] \in [Slots -> SlotType]
           /\ dma[c] \in SUBSET {"job", "x", "y", "z"}
           /\ host.job \in Nat /\ host.job <= N_JOBS /\ host.cluster \in Clusters
           /\ usr_data_ptr = host.job
BY Numbers DEF TypeOK, SlotType

-----------------------------------------------------------------------------
\* Nothing changes in cluster d; in cluster c but for core k.
SameCluster(d) ==
    /\ \A i \in Cores : UNCHANGED <<pc[<<d, i>>], mcip[<<d, i>>], slot[<<d, i>>]>>
    /\ UNCHANGED <<l1_next[d], l1[d], dma[d], job_remote[d]>>
    /\ \A j \in Jobs : result'[j][d] = result[j][d]
\* The DM core's pointer to the posted job changes when it is read.
Remote(c, k) ==
    job_remote'[c] = IF pc[<<c, k>>] = "fetch" THEN usr_data_ptr ELSE job_remote[c]
OtherCores(c, k) ==
    \A i \in Cores : i # k => UNCHANGED <<pc[<<c, i>>], mcip[<<c, i>>], slot[<<c, i>>]>>

\* What is said of a cluster stays true while nothing changes in it.
LEMMA ClusterFrame ==
    ASSUME NEW d \in Clusters, SameCluster(d), UNCHANGED host.job, host.job \in 0 .. N_JOBS
    PROVE  /\ \A n : Asleep(d, n)' <=> Asleep(d, n)
           /\ \A L : Ending(d, L)' <=> Ending(d, L)
           /\ Starting(d)' <=> Starting(d)
           /\ Working(d)' <=> Working(d)
           /\ JobsInPlace(d)' <=> JobsInPlace(d)
           /\ \A k \in Cores : \A L : (At(d, k, L)' <=> At(d, k, L)) /\ (Cleared(d, k, L)' <=> Cleared(d, k, L))
<1>1. \A k \in Cores : \A L :
          /\ At(d, k, L)' <=> At(d, k, L)
          /\ Pending(d, k, L)' <=> Pending(d, k, L)
          /\ Cleared(d, k, L)' <=> Cleared(d, k, L)
    BY DEF SameCluster, At, Pending, Cleared
<1>2. (\A n : ResultsUpTo(d, n)' <=> ResultsUpTo(d, n)) /\ (JobsInPlace(d)' <=> JobsInPlace(d))
    BY DEF SameCluster, ResultsUpTo, JobsInPlace
<1>3. \A i \in Cores : slot'[<<d, i>>] = slot[<<d, i>>]
    BY DEF SameCluster
<1>4. l1_next'[d] = l1_next[d] /\ l1'[d] = l1[d] /\ dma'[d] = dma[d] /\ job_remote'[d] = job_remote[d]
    BY DEF SameCluster
<1>5. \A j \in Jobs : result'[j][d] = result[j][d]
    BY DEF SameCluster
<1>6. DM \in Cores /\ Compute \subseteq Cores
    BY Numbers
<1>7. \A n : Asleep(d, n)' <=> Asleep(d, n)
    BY <1>1, <1>2, <1>4 DEF Asleep
<1>8. \A L : Ending(d, L)' <=> Ending(d, L)
    BY <1>1, <1>2, <1>4, <1>6 DEF Ending
<1>9. Starting(d)' <=> Starting(d)
    BY <1>1, <1>4, <1>6 DEF Starting, StartingUp, ReadyForJobs
<1>10. \A j \in Jobs : Fetching(d, j)' <=> Fetching(d, j)
    BY <1>1, <1>3, <1>4, <1>6 DEF Fetching, Arrived
<1>11. \A j \in Jobs : Loading(d, j)' <=> Loading(d, j)
    BY <1>1, <1>3, <1>4, <1>6 DEF Loading, Arrived
<1>12. \A j \in Jobs : Computing(d, j)' <=> Computing(d, j)
    BY <1>1, <1>3, <1>4, <1>6 DEF Computing
<1>13. \A j \in Jobs : CopyingOut(d, j)' <=> CopyingOut(d, j)
    BY <1>1, <1>3, <1>4, <1>5, <1>6 DEF CopyingOut, Arrived
<1>14. Working(d)' <=> Working(d)
    <2>1. host.job > 0 => host.job \in Jobs
        BY DEF Jobs
    <2> QED
        BY <1>2, <1>10, <1>11, <1>12, <1>13, <2>1 DEF Working
<1> QED
    BY <1>1, <1>2, <1>7, <1>8, <1>9, <1>14

-----------------------------------------------------------------------------
\* What each step of core k of cluster c changes in its cluster.
Goes(c, k, l, m) == pc[<<c, k>>] = l /\ pc'[<<c, k>>] = m

HartEffects(c, k) ==
    \/ /\ UNCHANGED <<l1_next[c], l1[c], dma[c], slot[<<c, k>>], cnt, msip>>
       /\ \/ /\ mcip[<<c, k>>] /\ UNCHANGED mcip[<<c, k>>]
             /\ \/ Goes(c, k, "parked", "bss") /\ k = DM
                \/ Goes(c, k, "parked", "pre") /\ k # DM
                \/ Goes(c, k, "wfi", "clear")
          \/ /\ ~mcip'[<<c, k>>]
             /\ \/ Goes(c, k, "clear_first", "sync_all")
                \/ Goes(c, k, "clear", "fetch") /\ k = DM
                \/ Goes(c, k, "clear", "l1_next") /\ k # DM
    \/ /\ UNCHANGED <<l1_next[c], l1[c], dma[c], slot[<<c, k>>], mcip[<<c, k>>]>>
       /\ \/ /\ Goes(c, k, "add", "reset") /\ msip' = msip
             /\ cnt' = cnt + 1 /\ cnt' = N_CLUSTERS
             /\ pc[<<0, DM>>] \notin {"parked", "bss"}
          \/ /\ Goes(c, k, "add", "wfi") /\ msip' = msip
             /\ cnt' = cnt + 1 /\ cnt' # N_CLUSTERS
             /\ pc[<<0, DM>>] \notin {"parked", "bss"}
          \/ Goes(c, k, "reset", "int") /\ cnt' = 0 /\ msip' = msip
          \/ Goes(c, k, "int", "wfi") /\ cnt' = cnt /\ msip'
          \/ Goes(c, k, "bss", "libs") /\ cnt' = (IF c = 0 THEN 0 ELSE cnt) /\ msip' = msip
    \/ /\ UNCHANGED <<mcip[<<c, k>>], cnt, msip>>
       /\ \/ /\ Goes(c, k, "libs", "pre") /\ l1_next'[c] = 1
             /\ UNCHANGED <<l1[c], dma[c], slot[<<c, k>>]>>
          \/ /\ Goes(c, k, "fetch", "wait_job") /\ slot'[<<c, k>>] = l1_next[c]
             /\ dma'[c] = dma[c] \cup {"job"} /\ UNCHANGED <<l1_next[c], l1[c]>>
          \/ /\ Goes(c, k, "start_x", "barrier_1") /\ dma'[c] = dma[c] \cup {"x"}
             /\ UNCHANGED <<l1_next[c], l1[c], slot[<<c, k>>]>>
          \/ /\ Goes(c, k, "start_y", "pointers") /\ dma'[c] = dma[c] \cup {"y"}
             /\ UNCHANGED <<l1_next[c], l1[c], slot[<<c, k>>]>>
          \/ /\ Goes(c, k, "start_z", "wait_z") /\ dma'[c] = dma[c] \cup {"z"}
             /\ UNCHANGED <<l1_next[c], l1[c], slot[<<c, k>>]>>
          \/ /\ Goes(c, k, "pointers", "update_next")
             /\ \A s \in Slots : UNCHANGED <<l1[c][s].job, l1[c][s].x, l1[c][s].y, l1[c][s].z>>
             /\ UNCHANGED <<l1_next[c], dma[c], slot[<<c, k>>]>>
          \/ /\ Goes(c, k, "update_next", "wait_operands") /\ l1_next'[c] = slot[<<c, k>>] + 1
             /\ UNCHANGED <<l1[c], dma[c], slot[<<c, k>>]>>
          \/ /\ \/ Goes(c, k, "wait_job", "start_x") \/ Goes(c, k, "wait_operands", "barrier_2")
                \/ Goes(c, k, "wait_z", "add")
             /\ dma[c] = {} /\ UNCHANGED <<l1_next[c], l1[c], dma[c], slot[<<c, k>>]>>
          \/ /\ Goes(c, k, "l1_next", "barrier_1") /\ slot'[<<c, k>>] = l1_next[c]
             /\ UNCHANGED <<l1_next[c], l1[c], dma[c]>>
          \/ Goes(c, k, "args", "barrier_2") /\ UNCHANGED <<l1_next[c], l1[c], dma[c], slot[<<c, k>>]>>
          \/ /\ Goes(c, k, "axpy", "barrier_3")
             /\ \A s \in Slots : /\ UNCHANGED <<l1[c][s].job, l1[c][s].x, l1[c][s].y>>
                                 /\ l1[c][s].z \subseteq l1'[c][s].z
             /\ slot[<<c, k>>] \in Slots /\ l1[c][slot[<<c, k>>]].x /\ l1[c][slot[<<c, k>>]].y =>
                    k \in l1'[c][slot[<<c, k>>]].z
             /\ UNCHANGED <<l1_next[c], dma[c], slot[<<c, k>>]>>

\* A step of a core leaves the host, the other cores, the other clusters and
\* the results alone.
LEMMA HartFrame ==
    ASSUME TypeOK, NEW c \in Clusters, NEW k \in Cores, Hart(<<c, k>>)
    PROVE  /\ UNCHANGED <<host, usr_data_ptr, result>>
           /\ OtherCores(c, k) /\ Remote(c, k)
           /\ \A d \in Clusters : d # c => SameCluster(d)
<1>0. <<c, k>> \in Harts /\ <<c, k>>[1] = c /\ <<c, k>>[2] = k
      /\ \A d \in Clusters, i \in Cores : <<d, i>> \in Harts /\ (<<d, i>> = <<c, k>> <=> d = c /\ i = k)
    BY Numbers
<1> DEFINE h == <<c, k>>
<1>1. UNCHANGED <<host, usr_data_ptr, result>>
    BY DEF Hart, Wake, Clear, Add, Reset, Interrupt, InitBss, InitLibs, FetchJob, StartX, StartY,
        StartZ, StartDma, outside, SetPointers, UpdateNext, WaitDma, ReadNext, CopyArgs, Axpy, Local, Shared,
        memory
<1>2. \E m : pc' = [pc EXCEPT ![h] = m]
    BY DEF Hart, Wake, Clear, Add, Reset, Interrupt, InitBss, InitLibs, FetchJob, StartX, StartY,
        StartZ, StartDma, outside, SetPointers, UpdateNext, WaitDma, ReadNext, CopyArgs, Axpy, Goto
<1>3. mcip' = mcip \/ mcip' = [mcip EXCEPT ![h] = FALSE]
    BY DEF Hart, Wake, Clear, Add, Reset, Interrupt, InitBss, InitLibs, FetchJob, StartX, StartY,
        StartZ, StartDma, outside, SetPointers, UpdateNext, WaitDma, ReadNext, CopyArgs, Axpy, Local
<1>4. \E m : slot' = [slot EXCEPT ![h] = m] \/ slot' = slot
    BY DEF Hart, Wake, Clear, Add, Reset, Interrupt, InitBss, InitLibs, FetchJob, StartX, StartY,
        StartZ, StartDma, outside, SetPointers, UpdateNext, WaitDma, ReadNext, CopyArgs, Axpy, Shared, memory
<1>5. \E m : l1_next' = [l1_next EXCEPT ![c] = m] \/ l1_next' = l1_next
    BY <1>0 DEF Hart, Wake, Clear, Add, Reset, Interrupt, InitBss, InitLibs, FetchJob, StartX, StartY,
        StartZ, StartDma, outside, SetPointers, UpdateNext, WaitDma, ReadNext, CopyArgs, Axpy, Shared, memory
<1>6. \E m : dma' = [dma EXCEPT ![c] = m] \/ dma' = dma
    BY <1>0 DEF Hart, Wake, Clear, Add, Reset, Interrupt, InitBss, InitLibs, FetchJob, StartX, StartY,
        StartZ, StartDma, outside, SetPointers, UpdateNext, WaitDma, ReadNext, CopyArgs, Axpy, Shared, memory
<1>7. \E m : l1' = [l1 EXCEPT ![c] = m] \/ l1' = l1
    BY <1>0 DEF Hart, Wake, Clear, Add, Reset, Interrupt, InitBss, InitLibs, FetchJob, StartX, StartY,
        StartZ, StartDma, outside, SetPointers, UpdateNext, WaitDma, ReadNext, CopyArgs, Axpy, Shared, memory
<1>r. \/ pc[h] = "fetch" /\ job_remote' = [job_remote EXCEPT ![c] = usr_data_ptr]
      \/ pc[h] # "fetch" /\ job_remote' = job_remote
    BY <1>0 DEF Hart, Wake, Clear, Add, Reset, Interrupt, InitBss, InitLibs, FetchJob, StartX, StartY,
        StartZ, StartDma, outside, SetPointers, UpdateNext, WaitDma, ReadNext, CopyArgs, Axpy, Local,
        Shared, memory, Goto
<1>8. OtherCores(c, k)
    BY <1>0, <1>2, <1>3, <1>4, TypeFacts DEF OtherCores
<1>9. ASSUME NEW d \in Clusters, d # c
      PROVE  SameCluster(d)
    <2>1. \A i \in Cores : UNCHANGED <<pc[<<d, i>>], mcip[<<d, i>>], slot[<<d, i>>]>>
        BY <1>0, <1>2, <1>3, <1>4, <1>9, TypeFacts
    <2>2. UNCHANGED <<l1_next[d], l1[d], dma[d], job_remote[d]>>
        BY <1>5, <1>6, <1>7, <1>9, <1>r, TypeFacts
    <2> QED
        BY <1>1, <2>1, <2>2 DEF SameCluster
<1>10. Remote(c, k)
    BY <1>r, TypeFacts DEF Remote
<1> QED
    BY <1>1, <1>8, <1>9, <1>10

\* Every step of a core is one of these, unless it is one of the two races.
LEMMA HartEffect ==
    ASSUME TypeOK, NEW c \in Clusters, NEW k \in Cores, Hart(<<c, k>>), ~spoilt'
    PROVE  HartEffects(c, k)
<1>0. <<c, k>> \in Harts /\ <<c, k>>[1] = c /\ <<c, k>>[2] = k /\ (IsDM(<<c, k>>) <=> k = DM)
    BY Numbers
<1>t. /\ DOMAIN pc = Harts /\ DOMAIN mcip = Harts /\ DOMAIN slot = Harts
      /\ DOMAIN l1_next = Clusters /\ DOMAIN l1 = Clusters /\ DOMAIN dma = Clusters
      /\ l1[c] \in [Slots -> SlotType]
    BY TypeFacts
<1>g. \A l, m : Goto(<<c, k>>, l, m) => Goes(c, k, l, m)
    BY <1>0, <1>t DEF Goto, Goes
<1>s. Shared => UNCHANGED <<l1_next[c], l1[c], dma[c], slot[<<c, k>>]>>
    BY DEF Shared, memory
<1>l. Local => UNCHANGED <<mcip[<<c, k>>], cnt, msip>>
    BY DEF Local, outside
<1>1. CASE Wake(<<c, k>>)
    BY <1>0, <1>1, <1>g, <1>s DEF Wake, HartEffects
<1>2. CASE Clear(<<c, k>>)
    <2>1. ~mcip'[<<c, k>>]
        BY <1>0, <1>2, <1>t DEF Clear
    <2> QED
        BY <1>0, <1>2, <1>g, <1>s, <2>1 DEF Clear, HartEffects
<1>3. CASE Add(<<c, k>>)
    BY <1>0, <1>3, <1>g DEF Add, HartEffects, memory
<1>4. CASE Reset(<<c, k>>)
    BY <1>0, <1>4, <1>g, <1>s DEF Reset, HartEffects
<1>5. CASE Interrupt(<<c, k>>)
    BY <1>0, <1>5, <1>g, <1>s DEF Interrupt, HartEffects
<1>6. CASE InitBss(<<c, k>>)
    BY <1>0, <1>6, <1>g, <1>s DEF InitBss, HartEffects
<1>7. CASE InitLibs(<<c, k>>)
    BY <1>0, <1>7, <1>g, <1>l, <1>t DEF InitLibs, HartEffects
<1>d. ASSUME NEW l, NEW t, NEW m, StartDma(<<c, k>>, l, t, m)
      PROVE  /\ Goes(c, k, l, m) /\ dma'[c] = dma[c] \cup {t} /\ UNCHANGED <<l1_next[c], l1[c]>>
             /\ UNCHANGED <<mcip[<<c, k>>], cnt, msip>>
    BY <1>0, <1>d, <1>g, <1>t DEF StartDma, outside
<1>8. CASE FetchJob(<<c, k>>)
    <2>1. slot'[<<c, k>>] = l1_next[c]
        BY <1>0, <1>8, <1>t DEF FetchJob
    <2> QED
        BY <1>8, <1>d, <2>1 DEF FetchJob, HartEffects
<1>9. CASE StartX(<<c, k>>)
    BY <1>9, <1>d DEF StartX, HartEffects
<1>10. CASE StartY(<<c, k>>)
    BY <1>10, <1>d DEF StartY, HartEffects
<1>11. CASE StartZ(<<c, k>>)
    BY <1>11, <1>d DEF StartZ, HartEffects
<1>12. CASE SetPointers(<<c, k>>)
    <2>1. l1'[c] = [l1[c] EXCEPT ![slot[<<c, k>>]].pointers = TRUE]
        BY <1>0, <1>12, <1>t DEF SetPointers
    <2>2. \A s \in Slots : UNCHANGED <<l1[c][s].job, l1[c][s].x, l1[c][s].y, l1[c][s].z>>
        BY <1>t, <2>1 DEF SlotType
    <2> QED
        BY <1>12, <1>g, <1>l, <2>2 DEF SetPointers, HartEffects
<1>13. CASE UpdateNext(<<c, k>>)
    BY <1>0, <1>13, <1>g, <1>l, <1>t DEF UpdateNext, HartEffects
<1>14. CASE WaitDma(<<c, k>>)
    BY <1>0, <1>14, <1>g, <1>l DEF WaitDma, HartEffects
<1>15. CASE ReadNext(<<c, k>>)
    BY <1>0, <1>15, <1>g, <1>l, <1>t DEF ReadNext, HartEffects
<1>16. CASE CopyArgs(<<c, k>>)
    BY <1>0, <1>16, <1>g, <1>l DEF CopyArgs, HartEffects
<1>17. CASE Axpy(<<c, k>>)
    <2> DEFINE v == l1[c][slot[<<c, k>>]]
    <2>0. good[<<c, k>>]
        BY <1>17 DEF Axpy
    <2>1. l1'[c] = [l1[c] EXCEPT ![slot[<<c, k>>]].z = IF v.x /\ v.y THEN @ \cup {k} ELSE @]
        BY <1>0, <1>17, <1>t, <2>0 DEF Axpy
    <2>2. \A s \in Slots : /\ UNCHANGED <<l1[c][s].job, l1[c][s].x, l1[c][s].y>>
                           /\ l1[c][s].z \subseteq l1'[c][s].z
        BY <1>t, <2>1 DEF SlotType
    <2>3. slot[<<c, k>>] \in Slots /\ v.x /\ v.y => k \in l1'[c][slot[<<c, k>>]].z
        BY <1>t, <2>1 DEF SlotType
    <2> QED
        BY <1>17, <1>g, <2>2, <2>3 DEF Axpy, outside, HartEffects
<1> QED
    BY <1>1, <1>2, <1>3, <1>4, <1>5, <1>6, <1>7, <1>8, <1>9, <1>10, <1>11, <1>12, <1>13, <1>14,
        <1>15, <1>16, <1>17 DEF Hart

-----------------------------------------------------------------------------
\* A core in snrt_main.
LEMMA StartingStep ==
    ASSUME TypeOK, NEW c \in Clusters, NEW k \in Cores, HartEffects(c, k), OtherCores(c, k),
           host' = host, Starting(c)
    PROVE  Starting(c)'
<1>0. DM \in Cores /\ Compute \subseteq Cores /\ \A i \in Cores : i # DM <=> i \in Compute
    BY Numbers
<1>1. host.job = 0 /\ dma[c] = {}
    BY DEF Starting
<1>2. CASE StartingUp(c)
    <2>1. /\ \A i \in Compute : pc[<<c, i>>] \in {"parked", "pre"} /\ mcip[<<c, i>>]
          /\ pc[<<c, DM>>] \in {"parked", "bss", "libs", "pre"} /\ mcip[<<c, DM>>]
          /\ pc[<<c, DM>>] = "pre" => l1_next[c] = 1
        BY <1>2 DEF StartingUp, Pending, At
    <2>2. pc[<<c, k>>] \in {"parked", "bss", "libs", "pre"} /\ mcip[<<c, k>>]
        BY <1>0, <2>1
    <2>3. /\ dma'[c] = dma[c] /\ mcip'[<<c, k>>] = mcip[<<c, k>>]
          /\ \/ /\ l1_next'[c] = l1_next[c]
                /\ \/ k = DM /\ Goes(c, k, "parked", "bss")
                   \/ k # DM /\ Goes(c, k, "parked", "pre")
                   \/ Goes(c, k, "bss", "libs")
             \/ Goes(c, k, "libs", "pre") /\ l1_next'[c] = 1
        BY <2>2 DEF HartEffects, Goes
    <2>4. \A i \in Compute : pc'[<<c, i>>] \in {"parked", "pre"} /\ mcip'[<<c, i>>]
        BY <1>0, <2>1, <2>3 DEF OtherCores, Goes
    <2>5. /\ pc'[<<c, DM>>] \in {"parked", "bss", "libs", "pre"} /\ mcip'[<<c, DM>>]
          /\ pc'[<<c, DM>>] = "pre" => l1_next'[c] = 1
        BY <1>0, <2>1, <2>3 DEF OtherCores, Goes
    <2> QED
        BY <1>1, <2>3, <2>4, <2>5 DEF Starting, StartingUp, Pending, At
<1>3. CASE ReadyForJobs(c)
    <2>1. /\ \A i \in Cores : (pc[<<c, i>>] = "clear_first" /\ mcip[<<c, i>>])
                              \/ (pc[<<c, i>>] = "sync_all" /\ ~mcip[<<c, i>>])
          /\ l1_next[c] = 1
        BY <1>3 DEF ReadyForJobs, Pending, Cleared, At
    <2>2. dma'[c] = dma[c] /\ l1_next'[c] = l1_next[c] /\ pc'[<<c, k>>] = "sync_all"
          /\ ~mcip'[<<c, k>>]
        BY <2>1 DEF HartEffects, Goes
    <2>3. \A i \in Cores : (pc'[<<c, i>>] = "clear_first" /\ mcip'[<<c, i>>])
                           \/ (pc'[<<c, i>>] = "sync_all" /\ ~mcip'[<<c, i>>])
        BY <2>1, <2>2 DEF OtherCores
    <2> QED
        BY <1>1, <2>1, <2>2, <2>3 DEF Starting, ReadyForJobs, Pending, Cleared, At
<1> QED
    BY <1>2, <1>3 DEF Starting

\* A core on its way to the first barrier of a job.
LEMMA FetchingStep ==
    ASSUME TypeOK, NEW c \in Clusters, NEW k \in Cores, HartEffects(c, k), OtherCores(c, k),
           Remote(c, k), NEW j \in Jobs, j = host.job, Fetching(c, j)
    PROVE  Fetching(c, j)' /\ \A s \in Slots : l1'[c][s].job = l1[c][s].job
<1>0. DM \in Cores /\ Compute \subseteq Cores /\ \A i \in Cores : i # DM <=> i \in Compute
    BY Numbers
<1>t. usr_data_ptr = j
    BY <1>0, TypeFacts
<1>1. /\ \A i \in Compute :
            \/ pc[<<c, i>>] \in {"wfi", "clear"} /\ mcip[<<c, i>>]
            \/ pc[<<c, i>>] = "l1_next" /\ ~mcip[<<c, i>>]
            \/ pc[<<c, i>>] = "barrier_1" /\ ~mcip[<<c, i>>] /\ slot[<<c, i>>] = j
      /\ \/ pc[<<c, DM>>] \in {"wfi", "clear"} /\ mcip[<<c, DM>>] /\ dma[c] = {}
         \/ pc[<<c, DM>>] = "fetch" /\ ~mcip[<<c, DM>>] /\ dma[c] = {}
         \/ /\ pc[<<c, DM>>] = "wait_job" /\ ~mcip[<<c, DM>>] /\ slot[<<c, DM>>] = j
            /\ dma[c] \subseteq {"job"} /\ ("job" \notin dma[c] => l1[c][j].job = j)
            /\ job_remote[c] = j
         \/ /\ pc[<<c, DM>>] = "start_x" /\ ~mcip[<<c, DM>>] /\ slot[<<c, DM>>] = j
            /\ dma[c] = {} /\ l1[c][j].job = j
         \/ /\ pc[<<c, DM>>] = "barrier_1" /\ ~mcip[<<c, DM>>] /\ slot[<<c, DM>>] = j
            /\ dma[c] \subseteq {"x"} /\ l1[c][j].job = j /\ ("x" \notin dma[c] => l1[c][j].x)
      /\ l1_next[c] = j
    BY DEF Fetching, Pending, Cleared, At, Arrived
<1>2. CASE k # DM
    <2>1. UNCHANGED <<l1_next[c], l1[c], dma[c]>>
        BY <1>0, <1>1, <1>2 DEF HartEffects, Goes
    <2>r. job_remote'[c] = job_remote[c]
        BY <1>0, <1>1, <1>2 DEF Remote
    <2>2. \/ pc'[<<c, k>>] \in {"wfi", "clear"} /\ mcip'[<<c, k>>]
          \/ pc'[<<c, k>>] = "l1_next" /\ ~mcip'[<<c, k>>]
          \/ pc'[<<c, k>>] = "barrier_1" /\ ~mcip'[<<c, k>>] /\ slot'[<<c, k>>] = j
        BY <1>0, <1>1, <1>2 DEF HartEffects, Goes
    <2>3. UNCHANGED <<pc[<<c, DM>>], mcip[<<c, DM>>], slot[<<c, DM>>]>>
        BY <1>0, <1>2 DEF OtherCores
    <2>4. \A i \in Compute :
              \/ pc'[<<c, i>>] \in {"wfi", "clear"} /\ mcip'[<<c, i>>]
              \/ pc'[<<c, i>>] = "l1_next" /\ ~mcip'[<<c, i>>]
              \/ pc'[<<c, i>>] = "barrier_1" /\ ~mcip'[<<c, i>>] /\ slot'[<<c, i>>] = j
        BY <1>0, <1>1, <2>2 DEF OtherCores
    <2> QED
        BY <1>1, <2>1, <2>3, <2>4, <2>r DEF Fetching, Pending, Cleared, At, Arrived
<1>3. CASE k = DM
    <2>1. \A i \in Compute : UNCHANGED <<pc[<<c, i>>], mcip[<<c, i>>], slot[<<c, i>>]>>
        BY <1>0, <1>3 DEF OtherCores
    <2>2. l1_next'[c] = l1_next[c] /\ l1'[c] = l1[c]
        BY <1>1, <1>3 DEF HartEffects, Goes
    <2>3. \/ pc'[<<c, DM>>] \in {"wfi", "clear"} /\ mcip'[<<c, DM>>] /\ dma'[c] = {}
          \/ pc'[<<c, DM>>] = "fetch" /\ ~mcip'[<<c, DM>>] /\ dma'[c] = {}
          \/ /\ pc'[<<c, DM>>] = "wait_job" /\ ~mcip'[<<c, DM>>] /\ slot'[<<c, DM>>] = j
             /\ dma'[c] = {"job"} /\ pc[<<c, DM>>] = "fetch"
          \/ /\ pc'[<<c, DM>>] = "start_x" /\ ~mcip'[<<c, DM>>] /\ slot'[<<c, DM>>] = j
             /\ dma'[c] = {} /\ l1[c][j].job = j
          \/ /\ pc'[<<c, DM>>] = "barrier_1" /\ ~mcip'[<<c, DM>>] /\ slot'[<<c, DM>>] = j
             /\ dma'[c] = {"x"} /\ l1[c][j].job = j
        BY <1>1, <1>3 DEF HartEffects, Goes
    <2>4. pc[<<c, DM>>] = "fetch" => job_remote'[c] = j
        BY <1>3, <1>t DEF Remote
    <2> QED
        BY <1>1, <2>1, <2>2, <2>3, <2>4 DEF Fetching, Pending, Cleared, At, Arrived
<1> QED
    BY <1>2, <1>3

\* A core on its way to the second barrier.
LEMMA LoadingStep ==
    ASSUME TypeOK, NEW c \in Clusters, NEW k \in Cores, HartEffects(c, k), OtherCores(c, k),
           NEW j \in Jobs, Loading(c, j)
    PROVE  Loading(c, j)' /\ \A s \in Slots : l1'[c][s].job = l1[c][s].job
<1>0. DM \in Cores /\ Compute \subseteq Cores /\ (\A i \in Cores : i # DM <=> i \in Compute)
      /\ j \in Slots
    BY Numbers DEF Jobs, Slots
<1>1. /\ \A i \in Compute : pc[<<c, i>>] \in {"args", "barrier_2"} /\ ~mcip[<<c, i>>] /\ slot[<<c, i>>] = j
      /\ pc[<<c, DM>>] \in {"start_y", "pointers", "update_next", "wait_operands", "barrier_2"}
      /\ ~mcip[<<c, DM>>] /\ slot[<<c, DM>>] = j /\ l1[c][j].job = j
      /\ dma[c] \subseteq {"x", "y"}
      /\ pc[<<c, DM>>] = "start_y" => dma[c] \subseteq {"x"}
      /\ pc[<<c, DM>>] = "barrier_2" => dma[c] = {}
      /\ "x" \notin dma[c] => l1[c][j].x
      /\ pc[<<c, DM>>] # "start_y" /\ "y" \notin dma[c] => l1[c][j].y
      /\ l1_next[c] = IF pc[<<c, DM>>] \in {"wait_operands", "barrier_2"} THEN j + 1 ELSE j
    BY DEF Loading, Cleared, At, Arrived
<1>2. CASE k # DM
    <2>1. UNCHANGED <<l1_next[c], l1[c], dma[c], mcip[<<c, k>>], slot[<<c, k>>]>>
          /\ pc'[<<c, k>>] = "barrier_2"
        BY <1>0, <1>1, <1>2 DEF HartEffects, Goes
    <2>2. UNCHANGED <<pc[<<c, DM>>], mcip[<<c, DM>>], slot[<<c, DM>>]>>
        BY <1>0, <1>2 DEF OtherCores
    <2>3. \A i \in Compute : pc'[<<c, i>>] \in {"args", "barrier_2"} /\ ~mcip'[<<c, i>>] /\ slot'[<<c, i>>] = j
        BY <1>0, <1>1, <2>1 DEF OtherCores
    <2> QED
        BY <1>1, <2>1, <2>2, <2>3 DEF Loading, Cleared, At, Arrived
<1>3. CASE k = DM
    <2>1. \A i \in Compute : UNCHANGED <<pc[<<c, i>>], mcip[<<c, i>>], slot[<<c, i>>]>>
        BY <1>0, <1>3 DEF OtherCores
    <2>2. /\ \A s \in Slots : UNCHANGED <<l1[c][s].job, l1[c][s].x, l1[c][s].y, l1[c][s].z>>
          /\ UNCHANGED <<mcip[<<c, DM>>], slot[<<c, DM>>]>>
        BY <1>1, <1>3 DEF HartEffects, Goes
    <2>3. \/ Goes(c, DM, "start_y", "pointers") /\ dma'[c] = dma[c] \cup {"y"} /\ l1_next'[c] = l1_next[c]
          \/ Goes(c, DM, "pointers", "update_next") /\ dma'[c] = dma[c] /\ l1_next'[c] = l1_next[c]
          \/ Goes(c, DM, "update_next", "wait_operands") /\ dma'[c] = dma[c] /\ l1_next'[c] = j + 1
          \/ /\ Goes(c, DM, "wait_operands", "barrier_2") /\ dma[c] = {} /\ dma'[c] = dma[c]
             /\ l1_next'[c] = l1_next[c]
        BY <1>1, <1>3 DEF HartEffects, Goes
    <2>4. /\ pc'[<<c, DM>>] \in {"start_y", "pointers", "update_next", "wait_operands", "barrier_2"}
          /\ ~mcip'[<<c, DM>>] /\ slot'[<<c, DM>>] = j /\ l1'[c][j].job = j
          /\ dma'[c] \subseteq {"x", "y"}
          /\ pc'[<<c, DM>>] = "start_y" => dma'[c] \subseteq {"x"}
          /\ pc'[<<c, DM>>] = "barrier_2" => dma'[c] = {}
          /\ "x" \notin dma'[c] => l1'[c][j].x
          /\ pc'[<<c, DM>>] # "start_y" /\ "y" \notin dma'[c] => l1'[c][j].y
          /\ l1_next'[c] = IF pc'[<<c, DM>>] \in {"wait_operands", "barrier_2"} THEN j + 1 ELSE j
        BY <1>0, <1>1, <2>2, <2>3 DEF Goes
    <2> QED
        BY <1>1, <2>1, <2>2, <2>4 DEF Loading, Cleared, At, Arrived
<1> QED
    BY <1>2, <1>3

\* A compute core at work; the DM core waits in the third barrier.
LEMMA ComputingStep ==
    ASSUME TypeOK, NEW c \in Clusters, NEW k \in Cores, HartEffects(c, k), OtherCores(c, k),
           NEW j \in Jobs, Computing(c, j)
    PROVE  Computing(c, j)' /\ \A s \in Slots : l1'[c][s].job = l1[c][s].job
<1>0. DM \in Cores /\ Compute \subseteq Cores /\ (\A i \in Cores : i # DM <=> i \in Compute)
      /\ j \in Slots
    BY Numbers DEF Jobs, Slots
<1>1. /\ \A i \in Compute : /\ pc[<<c, i>>] \in {"axpy", "barrier_3"} /\ ~mcip[<<c, i>>] /\ slot[<<c, i>>] = j
                            /\ pc[<<c, i>>] = "barrier_3" => i \in l1[c][j].z
      /\ pc[<<c, DM>>] = "barrier_3" /\ ~mcip[<<c, DM>>]
      /\ slot[<<c, DM>>] = j /\ l1[c][j].job = j /\ l1[c][j].x /\ l1[c][j].y
      /\ dma[c] = {} /\ l1_next[c] = j + 1
    BY DEF Computing, Cleared, At
<1>2. k # DM
    BY <1>1 DEF HartEffects, Goes
<1>3. /\ Goes(c, k, "axpy", "barrier_3")
      /\ \A s \in Slots : /\ UNCHANGED <<l1[c][s].job, l1[c][s].x, l1[c][s].y>>
                          /\ l1[c][s].z \subseteq l1'[c][s].z
      /\ k \in l1'[c][j].z
      /\ UNCHANGED <<mcip[<<c, k>>], l1_next[c], dma[c], slot[<<c, k>>]>>
    BY <1>0, <1>1, <1>2 DEF HartEffects, Goes
<1>4. \A i \in Compute : /\ pc'[<<c, i>>] \in {"axpy", "barrier_3"} /\ ~mcip'[<<c, i>>] /\ slot'[<<c, i>>] = j
                         /\ pc'[<<c, i>>] = "barrier_3" => i \in l1'[c][j].z
    <2> TAKE i \in Compute
    <2>1. CASE i = k
        BY <1>1, <1>3, <2>1 DEF Goes
    <2>2. CASE i # k
        <3>1. UNCHANGED <<pc[<<c, i>>], mcip[<<c, i>>], slot[<<c, i>>]>>
            BY <1>0, <2>2 DEF OtherCores
        <3> QED
            BY <1>0, <1>1, <1>3, <3>1
    <2> QED
        BY <2>1, <2>2
<1>5. UNCHANGED <<pc[<<c, DM>>], mcip[<<c, DM>>], slot[<<c, DM>>]>>
    BY <1>0, <1>2 DEF OtherCores
<1>6. l1'[c][j].job = j /\ l1'[c][j].x /\ l1'[c][j].y
    BY <1>0, <1>1, <1>3
<1> QED
    BY <1>1, <1>3, <1>4, <1>5, <1>6 DEF Computing, Cleared, At

\* The DM core copies the result out.
LEMMA CopyingOutStep ==
    ASSUME TypeOK, NEW c \in Clusters, NEW k \in Cores, HartEffects(c, k), OtherCores(c, k),
           result' = result, NEW j \in Jobs, CopyingOut(c, j)
    PROVE  /\ \/ CopyingOut(c, j)'
              \/ /\ \A i \in Compute : Cleared(c, i, {"wfi"})'
                 /\ Cleared(c, DM, {"add"})' /\ dma'[c] = {} /\ l1_next'[c] = j + 1
                 /\ result'[j][c] = Compute
           /\ \A s \in Slots : l1'[c][s].job = l1[c][s].job
<1>0. DM \in Cores /\ Compute \subseteq Cores /\ (\A i \in Cores : i # DM <=> i \in Compute)
    BY Numbers
<1>1. /\ \A i \in Compute : pc[<<c, i>>] = "wfi" /\ ~mcip[<<c, i>>]
      /\ pc[<<c, DM>>] \in {"start_z", "wait_z"} /\ ~mcip[<<c, DM>>]
      /\ slot[<<c, DM>>] = j /\ l1[c][j].job = j /\ l1[c][j].z = Compute
      /\ dma[c] \subseteq {"z"} /\ (pc[<<c, DM>>] = "start_z" => dma[c] = {})
      /\ pc[<<c, DM>>] = "wait_z" /\ "z" \notin dma[c] => result[j][c] = Compute
      /\ l1_next[c] = j + 1
    BY DEF CopyingOut, Cleared, At, Arrived
<1>2. k = DM
    BY <1>0, <1>1 DEF HartEffects, Goes
<1>3. /\ UNCHANGED <<l1_next[c], l1[c], slot[<<c, DM>>], mcip[<<c, DM>>]>>
      /\ \/ Goes(c, DM, "start_z", "wait_z") /\ dma'[c] = dma[c] \cup {"z"}
         \/ Goes(c, DM, "wait_z", "add") /\ dma[c] = {} /\ dma'[c] = dma[c]
    BY <1>1, <1>2 DEF HartEffects, Goes
<1>4. \A i \in Compute : UNCHANGED <<pc[<<c, i>>], mcip[<<c, i>>], slot[<<c, i>>]>>
    BY <1>0, <1>2 DEF OtherCores
<1>5. CASE Goes(c, DM, "start_z", "wait_z") /\ dma'[c] = dma[c] \cup {"z"}
    <2>1. dma'[c] = {"z"} /\ pc'[<<c, DM>>] = "wait_z"
        BY <1>1, <1>5 DEF Goes
    <2> QED
        BY <1>1, <1>3, <1>4, <2>1 DEF CopyingOut, Cleared, At, Arrived
<1>6. CASE Goes(c, DM, "wait_z", "add") /\ dma[c] = {} /\ dma'[c] = dma[c]
    BY <1>1, <1>3, <1>4, <1>6 DEF Cleared, At, Goes
<1> QED
    BY <1>3, <1>5, <1>6

\* A cluster at work goes on with its job until it is through.
LEMMA WorkingStep ==
    ASSUME TypeOK, NEW c \in Clusters, NEW k \in Cores, HartEffects(c, k), OtherCores(c, k),
           Remote(c, k), result' = result, host' = host, Working(c)
    PROVE  /\ Working(c)' \/ Ending(c, {"add"})'
           /\ \A s \in Slots : l1'[c][s].job = l1[c][s].job
<1>1. PICK j \in Jobs : j = host.job
    <2>1. host.job \in Nat /\ host.job <= N_JOBS /\ N_JOBS \in Nat
        BY TypeFacts, Numbers
    <2> QED
        BY <2>1 DEF Working, Jobs
<1>2. /\ j > 0 /\ ResultsUpTo(c, j)
      /\ Fetching(c, j) \/ Loading(c, j) \/ Computing(c, j) \/ CopyingOut(c, j)
    BY <1>1 DEF Working
<1>3. ResultsUpTo(c, j)'
    BY <1>2 DEF ResultsUpTo
<1>4. /\ \/ Fetching(c, j)' \/ Loading(c, j)' \/ Computing(c, j)' \/ CopyingOut(c, j)'
         \/ /\ \A i \in Compute : Cleared(c, i, {"wfi"})'
            /\ Cleared(c, DM, {"add"})' /\ dma'[c] = {} /\ l1_next'[c] = j + 1
            /\ result'[j][c] = Compute
      /\ \A s \in Slots : l1'[c][s].job = l1[c][s].job
    BY <1>1, <1>2, FetchingStep, LoadingStep, ComputingStep, CopyingOutStep
<1>5. CASE Fetching(c, j)' \/ Loading(c, j)' \/ Computing(c, j)' \/ CopyingOut(c, j)'
    <2>1. Working(c)'
        BY <1>1, <1>2, <1>3, <1>5 DEF Working
    <2> QED
        BY <1>4, <2>1
<1>6. CASE /\ \A i \in Compute : Cleared(c, i, {"wfi"})'
           /\ Cleared(c, DM, {"add"})' /\ dma'[c] = {} /\ l1_next'[c] = j + 1
           /\ result'[j][c] = Compute
    <2>1. ResultsUpTo(c, j + 1)'
        BY <1>3, <1>6 DEF ResultsUpTo, Jobs
    <2>2. Ending(c, {"add"})'
        BY <1>1, <1>6, <2>1 DEF Ending
    <2> QED
        BY <1>4, <2>2
<1> QED
    BY <1>4, <1>5, <1>6

\* A DM core that is through returns to the host.
LEMMA EndingStep ==
    ASSUME TypeOK, NEW c \in Clusters, NEW k \in Cores, HartEffects(c, k), OtherCores(c, k),
           result' = result, host' = host, Ending(c, {"add", "reset", "int", "wfi"})
    PROVE  /\ k = DM /\ At(c, DM, {"add", "reset", "int"})
           /\ At(c, DM, {"add"}) =>
                 /\ cnt' = cnt + 1 /\ msip' = msip
                 /\ ~At(0, DM, {"parked", "bss"})
                 /\ \/ cnt' = N_CLUSTERS /\ Ending(c, {"reset"})'
                    \/ cnt' # N_CLUSTERS /\ Ending(c, {"wfi"})'
           /\ At(c, DM, {"reset"}) => cnt' = 0 /\ msip' = msip /\ Ending(c, {"int"})'
           /\ At(c, DM, {"int"}) => cnt' = cnt /\ msip' /\ Ending(c, {"wfi"})'
           /\ \A s \in Slots : l1'[c][s].job = l1[c][s].job
<1>0. DM \in Cores /\ Compute \subseteq Cores /\ (\A i \in Cores : i # DM <=> i \in Compute)
    BY Numbers
<1>1. /\ \A i \in Compute : pc[<<c, i>>] = "wfi" /\ ~mcip[<<c, i>>]
      /\ pc[<<c, DM>>] \in {"add", "reset", "int", "wfi"} /\ ~mcip[<<c, DM>>]
      /\ dma[c] = {} /\ l1_next[c] = host.job + 1
    BY DEF Ending, Cleared, At
<1>2. k = DM
    BY <1>0, <1>1 DEF HartEffects, Goes
<1>3. /\ UNCHANGED <<l1_next[c], l1[c], dma[c], mcip[<<c, DM>>]>>
      /\ \/ /\ Goes(c, DM, "add", "reset") /\ msip' = msip /\ cnt' = cnt + 1 /\ cnt' = N_CLUSTERS
            /\ pc[<<0, DM>>] \notin {"parked", "bss"}
         \/ /\ Goes(c, DM, "add", "wfi") /\ msip' = msip /\ cnt' = cnt + 1 /\ cnt' # N_CLUSTERS
            /\ pc[<<0, DM>>] \notin {"parked", "bss"}
         \/ Goes(c, DM, "reset", "int") /\ cnt' = 0 /\ msip' = msip
         \/ Goes(c, DM, "int", "wfi") /\ cnt' = cnt /\ msip'
    BY <1>1, <1>2 DEF HartEffects, Goes
<1>4. \A i \in Compute : Cleared(c, i, {"wfi"})'
    BY <1>0, <1>1, <1>2 DEF OtherCores, Cleared, At
<1>5. ResultsUpTo(c, host.job + 1)'
    BY DEF Ending, ResultsUpTo
<1>6. \A L : pc'[<<c, DM>>] \in L => Ending(c, L)'
    BY <1>1, <1>3, <1>4, <1>5 DEF Ending, Cleared, At
<1> QED
    BY <1>2, <1>3, <1>6 DEF Goes, At

\* Nobody moves in a cluster that sleeps.
LEMMA AsleepStep ==
    ASSUME TypeOK, NEW c \in Clusters, NEW k \in Cores, HartEffects(c, k), NEW n, Asleep(c, n)
    PROVE  FALSE
<1>1. pc[<<c, k>>] \in {"parked", "wfi"} /\ ~mcip[<<c, k>>]
    BY DEF Asleep, Cleared, At
<1> QED
    BY <1>1 DEF HartEffects, Goes

-----------------------------------------------------------------------------
\* The barrier moves all cores of its cluster, and nothing else.
LEMMA BarrierFrame ==
    ASSUME TypeOK, NEW c \in Clusters, HwBarrier(c)
    PROVE  /\ UNCHANGED <<host, usr_data_ptr, msip, mcip, cnt, l1_next, l1, slot, good, job_remote, dma, result>>
           /\ DOMAIN pc' = Harts
           /\ \A d \in Clusters : d # c => SameCluster(d)
           /\ \A i \in Cores : pc[<<c, i>>] \in Barriers /\ pc'[<<c, i>>] = After(<<c, i>>)
<1>0. \A d \in Clusters, i \in Cores : <<d, i>> \in Harts /\ <<d, i>>[1] = d
    BY Numbers
<1>1. UNCHANGED <<host, usr_data_ptr, msip, mcip, cnt, l1_next, l1, slot, good, job_remote, dma, result>>
    BY DEF HwBarrier, Shared, memory
<1>2. pc' = [h \in Harts |-> IF h[1] = c THEN After(h) ELSE pc[h]]
    BY DEF HwBarrier
<1>3. \A i \in Cores : pc[<<c, i>>] \in Barriers /\ pc'[<<c, i>>] = After(<<c, i>>)
    BY <1>0, <1>2 DEF HwBarrier
<1>4. \A d \in Clusters, i \in Cores : d # c => pc'[<<d, i>>] = pc[<<d, i>>]
    BY <1>0, <1>2
<1> QED
    BY <1>1, <1>2, <1>3, <1>4 DEF SameCluster

\* The cores of a cluster meet at the same barrier, whichever it is.
LEMMA BarrierStep ==
    ASSUME TypeOK, NEW c \in Clusters, HwBarrier(c)
    PROVE  /\ Starting(c) => Starting(c)' \/ Ending(c, {"add"})'
           /\ Working(c) => Working(c)'
           /\ ~Ending(c, {"add", "reset", "int", "wfi"})
           /\ \A n : ~Asleep(c, n)
<1>0. DM \in Cores /\ Compute \subseteq Cores /\ (\A i \in Cores : i # DM <=> i \in Compute)
      /\ \A i \in Cores : IsDM(<<c, i>>) <=> i = DM
    BY Numbers
<1>f. UNCHANGED <<host, mcip, l1_next, l1, slot, dma, result>>
    BY BarrierFrame
<1>b. \A i \in Cores : pc[<<c, i>>] \in Barriers /\ pc'[<<c, i>>] = After(<<c, i>>)
    BY BarrierFrame
<1>a. \A i \in Cores :
          /\ pc[<<c, i>>] = "pre" => pc'[<<c, i>>] = "clear_first"
          /\ pc[<<c, i>>] = "sync_all" => pc'[<<c, i>>] = IF i = DM THEN "add" ELSE "wfi"
          /\ pc[<<c, i>>] = "barrier_1" => pc'[<<c, i>>] = IF i = DM THEN "start_y" ELSE "args"
          /\ pc[<<c, i>>] = "barrier_2" => pc'[<<c, i>>] = IF i = DM THEN "barrier_3" ELSE "axpy"
          /\ pc[<<c, i>>] = "barrier_3" => pc'[<<c, i>>] = IF i = DM THEN "start_z" ELSE "wfi"
    <2> TAKE i \in Cores
    <2>1. pc'[<<c, i>>] = After(<<c, i>>) /\ (IsDM(<<c, i>>) <=> i = DM)
        BY <1>0, <1>b
    <2> QED
        BY <2>1 DEF After
<1>1. ASSUME Starting(c)
      PROVE  Starting(c)' \/ Ending(c, {"add"})'
    <2>1. CASE StartingUp(c)
        <3>1. \A i \in Cores : pc[<<c, i>>] = "pre" /\ mcip[<<c, i>>]
            BY <1>0, <1>b, <2>1 DEF StartingUp, Pending, At, Barriers
        <3>2. l1_next[c] = 1
            BY <1>0, <2>1, <3>1 DEF StartingUp, At
        <3>3. \A i \in Cores : Pending(c, i, {"clear_first"})'
            BY <1>a, <1>f, <3>1 DEF Pending, At
        <3> QED
            BY <1>1, <1>f, <3>2, <3>3 DEF Starting, ReadyForJobs
    <2>2. CASE ReadyForJobs(c)
        <3>1. \A i \in Cores : pc[<<c, i>>] = "sync_all" /\ ~mcip[<<c, i>>]
            BY <1>b, <2>2 DEF ReadyForJobs, Pending, Cleared, At, Barriers
        <3>2. /\ \A i \in Compute : Cleared(c, i, {"wfi"})'
              /\ Cleared(c, DM, {"add"})'
            BY <1>0, <1>a, <1>f, <3>1 DEF Cleared, At
        <3>3. l1_next[c] = 1 /\ host.job = 0 /\ dma[c] = {}
            BY <1>1, <2>2 DEF ReadyForJobs, Starting
        <3>4. ResultsUpTo(c, 1)'
            BY DEF ResultsUpTo, Jobs
        <3> QED
            BY <1>f, <3>2, <3>3, <3>4 DEF Ending
    <2> QED
        BY <1>1, <2>1, <2>2 DEF Starting
<1>2. ASSUME Working(c)
      PROVE  Working(c)'
    <2>1. PICK j \in Jobs : j = host.job
        <3>1. host.job \in Nat /\ host.job <= N_JOBS /\ N_JOBS \in Nat
            BY TypeFacts, Numbers
        <3> QED
            BY <1>2, <3>1 DEF Working, Jobs
    <2>2. /\ j > 0 /\ ResultsUpTo(c, j)
          /\ Fetching(c, j) \/ Loading(c, j) \/ Computing(c, j) \/ CopyingOut(c, j)
        BY <1>2, <2>1 DEF Working
    <2>3. ResultsUpTo(c, j)'
        BY <1>f, <2>2 DEF ResultsUpTo
    <2>4. CASE Fetching(c, j)
        <3>1. \A i \in Cores : pc[<<c, i>>] = "barrier_1" /\ ~mcip[<<c, i>>] /\ slot[<<c, i>>] = j
            BY <1>0, <1>b, <2>4 DEF Fetching, Pending, Cleared, At, Barriers
        <3>2. /\ dma[c] \subseteq {"x"} /\ l1[c][j].job = j /\ l1_next[c] = j
              /\ "x" \notin dma[c] => l1[c][j].x
            BY <1>0, <2>4, <3>1 DEF Fetching, Pending, Cleared, At, Arrived
        <3>3. /\ \A i \in Compute : Cleared(c, i, {"args"})' /\ slot'[<<c, i>>] = j
              /\ pc'[<<c, DM>>] = "start_y" /\ ~mcip'[<<c, DM>>] /\ slot'[<<c, DM>>] = j
            BY <1>0, <1>a, <1>f, <3>1 DEF Cleared, At
        <3>4. Loading(c, j)'
            BY <1>f, <3>2, <3>3 DEF Loading, Cleared, At, Arrived
        <3> QED
            BY <1>f, <2>1, <2>2, <2>3, <3>4 DEF Working
    <2>5. CASE Loading(c, j)
        <3>1. \A i \in Cores : pc[<<c, i>>] = "barrier_2" /\ ~mcip[<<c, i>>] /\ slot[<<c, i>>] = j
            BY <1>0, <1>b, <2>5 DEF Loading, Cleared, At, Barriers
        <3>2. dma[c] = {} /\ l1[c][j].job = j /\ l1_next[c] = j + 1 /\ l1[c][j].x /\ l1[c][j].y
            BY <1>0, <2>5, <3>1 DEF Loading, Cleared, At, Arrived
        <3>3. /\ \A i \in Compute : pc'[<<c, i>>] = "axpy" /\ ~mcip'[<<c, i>>] /\ slot'[<<c, i>>] = j
              /\ pc'[<<c, DM>>] = "barrier_3" /\ ~mcip'[<<c, DM>>] /\ slot'[<<c, DM>>] = j
            BY <1>0, <1>a, <1>f, <3>1
        <3>4. Computing(c, j)'
            BY <1>f, <3>2, <3>3 DEF Computing, Cleared, At
        <3> QED
            BY <1>f, <2>1, <2>2, <2>3, <3>4 DEF Working
    <2>6. CASE Computing(c, j)
        <3>1. \A i \in Cores : pc[<<c, i>>] = "barrier_3" /\ ~mcip[<<c, i>>] /\ slot[<<c, i>>] = j
            BY <1>0, <1>b, <2>6 DEF Computing, Cleared, At, Barriers
        <3>2. dma[c] = {} /\ l1[c][j].job = j /\ l1_next[c] = j + 1 /\ Compute \subseteq l1[c][j].z
            BY <1>0, <2>6, <3>1 DEF Computing, Cleared, At
        <3>3. l1[c][j].z = Compute
            <4>0. j \in Slots
                BY Numbers DEF Jobs, Slots
            <4>1. l1[c] \in [Slots -> SlotType] /\ j \in Slots
                BY <1>0, <4>0, TypeFacts
            <4>2. l1[c][j].z \subseteq Compute
                BY <4>1 DEF SlotType
            <4> QED
                BY <3>2, <4>2
        <3>4. /\ \A i \in Compute : Cleared(c, i, {"wfi"})'
              /\ pc'[<<c, DM>>] = "start_z" /\ ~mcip'[<<c, DM>>] /\ slot'[<<c, DM>>] = j
            BY <1>0, <1>a, <1>f, <3>1 DEF Cleared, At
        <3>5. CopyingOut(c, j)'
            BY <1>f, <3>2, <3>3, <3>4 DEF CopyingOut, Cleared, At, Arrived
        <3> QED
            BY <1>f, <2>1, <2>2, <2>3, <3>5 DEF Working
    <2>7. CASE CopyingOut(c, j)
        BY <1>0, <1>b, <2>7 DEF CopyingOut, Cleared, At, Barriers
    <2> QED
        BY <2>2, <2>4, <2>5, <2>6, <2>7
<1>3. ~Ending(c, {"add", "reset", "int", "wfi"})
    BY <1>0, <1>b DEF Ending, Cleared, At, Barriers
<1>4. \A n : ~Asleep(c, n)
    BY <1>0, <1>b DEF Asleep, Cleared, At, Barriers
<1> QED
    BY <1>1, <1>2, <1>3, <1>4

-----------------------------------------------------------------------------
\* A transfer of a cluster changes the memory of that cluster, and its result.
LEMMA DmaFrame ==
    ASSUME TypeOK, NEW c \in Clusters, NEW t, DmaDone(c, t)
    PROVE  /\ UNCHANGED <<host, usr_data_ptr, msip, mcip, cnt, pc, l1_next, slot, good, job_remote>>
           /\ t \in dma[c] /\ dma'[c] = dma[c] \ {t}
           /\ \A d \in Clusters : d # c => SameCluster(d)
<1>1. /\ UNCHANGED <<host, usr_data_ptr, msip, mcip, cnt, pc, l1_next, slot, good, job_remote>>
      /\ t \in dma[c] /\ dma' = [dma EXCEPT ![c] = @ \ {t}]
    BY DEF DmaDone
<1>2. t \in {"job", "x", "y", "z"}
    BY <1>1, Numbers, TypeFacts
<1>3. \E m : l1' = [l1 EXCEPT ![c] = m] \/ l1' = l1
    BY <1>2 DEF DmaDone
<1>4. \A d \in Clusters : d # c => l1'[d] = l1[d] /\ dma'[d] = dma[d]
    BY <1>1, <1>3, Numbers, TypeFacts
<1>5. ASSUME NEW d \in Clusters, d # c, NEW j \in Jobs
      PROVE  result'[j][d] = result[j][d]
    <2>1. result \in [Jobs -> [Clusters -> SUBSET Compute]]
        BY DEF TypeOK
    <2>2. \E i, m : result' = [result EXCEPT ![i][c] = m] \/ result' = result
        BY DEF DmaDone
    <2> QED
        BY <1>5, <2>1, <2>2
<1>6. dma'[c] = dma[c] \ {t}
    BY <1>1, Numbers, TypeFacts
<1> QED
    BY <1>1, <1>4, <1>5, <1>6 DEF SameCluster

\* A transfer completes where a job waits for it.
LEMMA DmaStep ==
    ASSUME TypeOK, NEW c \in Clusters, NEW t, DmaDone(c, t), JobsInPlace(c)
    PROVE  /\ ~Starting(c)
           /\ Working(c) => Working(c)' /\ JobsInPlace(c)'
           /\ ~Ending(c, {"add", "reset", "int", "wfi"})
           /\ \A n : ~Asleep(c, n)
<1>f. UNCHANGED <<host, usr_data_ptr, mcip, pc, l1_next, slot, job_remote>>
      /\ t \in dma[c] /\ dma'[c] = dma[c] \ {t}
    BY DmaFrame
<1>1. ~Starting(c) /\ ~Ending(c, {"add", "reset", "int", "wfi"}) /\ \A n : ~Asleep(c, n)
    BY <1>f DEF Starting, Ending, Asleep
<1>2. ASSUME Working(c)
      PROVE  Working(c)' /\ JobsInPlace(c)'
    <2>1. PICK j \in Jobs : j = host.job
        <3>1. host.job \in Nat /\ host.job <= N_JOBS /\ N_JOBS \in Nat
            BY TypeFacts, Numbers
        <3> QED
            BY <1>2, <3>1 DEF Working, Jobs
    <2>2. /\ j > 0 /\ ResultsUpTo(c, j)
          /\ Fetching(c, j) \/ Loading(c, j) \/ Computing(c, j) \/ CopyingOut(c, j)
        BY <1>2, <2>1 DEF Working
    <2>s. j \in Slots /\ DM \in Cores
        BY Numbers DEF Jobs, Slots
    <2>r. result \in [Jobs -> [Clusters -> SUBSET Compute]]
        BY DEF TypeOK
    <2>t. /\ l1[c] \in [Slots -> SlotType] /\ DOMAIN l1 = Clusters /\ usr_data_ptr = j /\ j \in Slots
          /\ result \in [Jobs -> [Clusters -> SUBSET Compute]]
        BY <2>1, <2>s, <2>r, TypeFacts
    <2>3. slot[<<c, DM>>] = j
        BY <1>f, <2>2 DEF Fetching, Loading, Computing, CopyingOut
    <2>4. CASE t \in {"job", "x", "y"}
        <3>1. /\ \A s \in Slots : s # j => l1'[c][s] = l1[c][s]
              /\ result' = result
              /\ l1'[c][j].z = l1[c][j].z
              /\ l1'[c][j].job = IF t = "job" THEN j ELSE l1[c][j].job
              /\ l1'[c][j].x <=> (t = "x" \/ l1[c][j].x)
              /\ l1'[c][j].y <=> (t = "y" \/ l1[c][j].y)
            <4>1. CASE t = "job"
                <5>0. job_remote[c] = j
                    BY <1>f, <2>2, <4>1 DEF Fetching, Loading, Computing, CopyingOut, Cleared, At
                <5>1. l1'[c] = [l1[c] EXCEPT ![j].job = j] /\ result' = result
                    BY <2>3, <2>t, <4>1, <5>0 DEF DmaDone
                <5> QED
                    BY <2>t, <4>1, <5>1 DEF SlotType
            <4>2. CASE t = "x"
                <5>1. l1'[c] = [l1[c] EXCEPT ![j].x = TRUE] /\ result' = result
                    BY <2>3, <2>t, <4>2 DEF DmaDone
                <5> QED
                    BY <2>t, <4>2, <5>1 DEF SlotType
            <4>3. CASE t = "y"
                <5>1. l1'[c] = [l1[c] EXCEPT ![j].y = TRUE] /\ result' = result
                    BY <2>3, <2>t, <4>3 DEF DmaDone
                <5> QED
                    BY <2>t, <4>3, <5>1 DEF SlotType
            <4> QED
                BY <2>4, <4>1, <4>2, <4>3
        <3>2. JobsInPlace(c)'
            BY <3>1 DEF JobsInPlace
        <3>3. ResultsUpTo(c, j)'
            BY <2>2, <3>1 DEF ResultsUpTo
        <3>4. Fetching(c, j) => Fetching(c, j)'
            BY <1>f, <2>4, <3>1 DEF Fetching, Arrived, Pending, Cleared, At
        <3>5. Loading(c, j) => Loading(c, j)'
            BY <1>f, <2>4, <3>1 DEF Loading, Arrived, Cleared, At
        <3>6. ~Computing(c, j) /\ ~CopyingOut(c, j)
            BY <1>f, <2>4 DEF Computing, CopyingOut
        <3> QED
            BY <1>f, <2>1, <2>2, <3>2, <3>3, <3>4, <3>5, <3>6 DEF Working
    <2>5. CASE t = "z"
        <3>1. CopyingOut(c, j)
            BY <1>f, <2>2, <2>5 DEF Fetching, Loading, Computing
        <3>2. l1[c][j].job = j /\ l1[c][j].z = Compute
            BY <3>1 DEF CopyingOut
        <3>3. l1' = l1 /\ result' = [result EXCEPT ![j][c] = Compute]
            BY <2>3, <2>5, <3>2 DEF DmaDone
        <3>4. \A i \in Jobs : result'[i][c] = IF i = j THEN Compute ELSE result[i][c]
            BY <2>t, <3>3
        <3>5. ResultsUpTo(c, j)' /\ JobsInPlace(c)'
            BY <2>2, <3>3, <3>4 DEF ResultsUpTo, JobsInPlace
        <3>6. CopyingOut(c, j)'
            BY <1>f, <2>5, <3>1, <3>3, <3>4 DEF CopyingOut, Arrived, Cleared, At
        <3> QED
            BY <1>f, <2>1, <2>2, <3>5, <3>6 DEF Working
    <2> QED
        BY <1>f, <2>4, <2>5, TypeFacts, Numbers
<1> QED
    BY <1>1, <1>2

-----------------------------------------------------------------------------
\* Where a core writes, if it is one that works on a slot.
Placed(c, k) ==
    /\ pc[<<c, k>>] = "axpy" => k \in Compute
    /\ pc[<<c, k>>] \in {"args", "axpy", "pointers", "update_next"} => slot[<<c, k>>] \in Jobs

\* A core's step keeps the types.
LEMMA HartType ==
    ASSUME TypeOK, NEW c \in Clusters, NEW k \in Cores, Hart(<<c, k>>), Placed(c, k)
    PROVE  TypeOK'
<1>0. <<c, k>> \in Harts /\ <<c, k>>[1] = c /\ <<c, k>>[2] = k
    BY Numbers
<1>n. N_JOBS \in Nat
    BY Numbers
<1>j. Jobs \subseteq Slots
    BY <1>n DEF Jobs, Slots
<1>t. /\ DOMAIN pc = Harts /\ cnt \in Nat /\ msip \in BOOLEAN
      /\ mcip \in [Harts -> BOOLEAN] /\ l1_next \in [Clusters -> 0 .. N_JOBS + 1]
      /\ l1 \in [Clusters -> [Slots -> SlotType]] /\ slot \in [Harts -> 0 .. N_JOBS + 1]
      /\ job_remote \in [Clusters -> 0 .. N_JOBS] /\ usr_data_ptr \in 0 .. N_JOBS
      /\ good \in [Harts -> BOOLEAN] /\ dma \in [Clusters -> SUBSET {"job", "x", "y", "z"}]
    BY DEF TypeOK, SlotType
<1>1. UNCHANGED <<host, usr_data_ptr, result>>
    BY HartFrame
<1>2. DOMAIN pc' = Harts
    <2>1. \E m : pc' = [pc EXCEPT ![<<c, k>>] = m]
        BY DEF Hart, Wake, Clear, Add, Reset, Interrupt, InitBss, InitLibs, FetchJob, StartX, StartY,
            StartZ, StartDma, outside, SetPointers, UpdateNext, WaitDma, ReadNext, CopyArgs, Axpy, Goto
    <2> QED
        BY <1>t, <2>1
<1>3. cnt' \in Nat /\ msip' \in BOOLEAN /\ mcip' \in [Harts -> BOOLEAN]
    <2>1. /\ cnt' \in {0, cnt, cnt + 1} /\ msip' \in {TRUE, msip}
          /\ mcip' \in {mcip, [mcip EXCEPT ![<<c, k>>] = FALSE]}
        BY DEF Hart, Wake, Clear, Add, Reset, Interrupt, InitBss, InitLibs, FetchJob, StartX, StartY,
            StartZ, StartDma, outside, SetPointers, UpdateNext, WaitDma, ReadNext, CopyArgs, Axpy, Local
    <2>2. cnt' \in Nat
        BY <1>t, <2>1
    <2>3. msip' \in BOOLEAN
        BY <1>t, <2>1
    <2>4. mcip' \in [Harts -> BOOLEAN]
        BY <1>t, <2>1
    <2> QED
        BY <2>2, <2>3, <2>4
<1>4. l1_next' \in [Clusters -> 0 .. N_JOBS + 1]
    <2>1. CASE InitLibs(<<c, k>>)
        BY <1>0, <1>n, <1>t, <2>1 DEF InitLibs
    <2>2. CASE UpdateNext(<<c, k>>)
        <3>1. slot[<<c, k>>] + 1 \in 0 .. N_JOBS + 1
            BY <1>n, <2>2 DEF UpdateNext, Goto, Placed, Jobs
        <3> QED
            BY <1>0, <1>t, <2>2, <3>1 DEF UpdateNext
    <2>3. CASE l1_next' = l1_next
        BY <1>t, <2>3
    <2> QED
        BY <2>1, <2>2, <2>3 DEF Hart, Wake, Clear, Add, Reset, Interrupt, InitBss, FetchJob, StartX,
            StartY, StartZ, StartDma, outside, SetPointers, WaitDma, ReadNext, CopyArgs, Axpy, Shared, memory
<1>5. l1' \in [Clusters -> [Slots -> SlotType]]
    <2>1. CASE SetPointers(<<c, k>>)
        <3> DEFINE s == slot[<<c, k>>]
                   v == [l1[c][s] EXCEPT !.pointers = TRUE]
        <3>1. s \in Slots
            BY <1>j, <2>1 DEF SetPointers, Goto, Placed
        <3>2. v \in SlotType
            <4>1. l1[c][s] \in SlotType
                BY <1>t, <3>1
            <4> QED
                BY <4>1 DEF SlotType
        <3>3. l1' = [l1 EXCEPT ![c] = [l1[c] EXCEPT ![s] = v]]
            BY <1>0, <1>t, <2>1 DEF SetPointers
        <3> HIDE DEF v, s
        <3> QED
            BY <1>t, <3>1, <3>2, <3>3
    <2>2. CASE Axpy(<<c, k>>)
        <3> DEFINE s == slot[<<c, k>>]
                   u == l1[c][s]
                   v == [u EXCEPT !.z = IF good[<<c, k>>] /\ u.x /\ u.y THEN @ \cup {k} ELSE @]
        <3>1. k \in Compute /\ s \in Slots
            BY <1>j, <2>2 DEF Axpy, Goto, Placed
        <3>2. v \in SlotType
            <4>1. l1[c][s] \in SlotType
                BY <1>t, <3>1
            <4>2. \A w \in SlotType : [w EXCEPT !.z = IF good[<<c, k>>] /\ w.x /\ w.y THEN w.z \cup {k} ELSE w.z] \in SlotType
                BY <3>1 DEF SlotType
            <4> QED
                BY <4>1, <4>2
        <3>3. l1' = [l1 EXCEPT ![c] = [l1[c] EXCEPT ![s] = v]]
            BY <1>0, <1>t, <2>2 DEF Axpy
        <3> HIDE DEF v, s
        <3> QED
            BY <1>t, <3>1, <3>2, <3>3
    <2>3. CASE l1' = l1
        BY <1>t, <2>3
    <2> QED
        BY <2>1, <2>2, <2>3 DEF Hart, Wake, Clear, Add, Reset, Interrupt, InitBss, InitLibs, FetchJob,
            StartX, StartY, StartZ, StartDma, outside, UpdateNext, WaitDma, ReadNext, CopyArgs, Shared, memory
<1>6. slot' \in [Harts -> 0 .. N_JOBS + 1]
    <2>1. slot' = slot \/ slot' = [slot EXCEPT ![<<c, k>>] = l1_next[c]]
        BY <1>0 DEF Hart, Wake, Clear, Add, Reset, Interrupt, InitBss, InitLibs, FetchJob, StartX,
            StartY, StartZ, StartDma, outside, SetPointers, UpdateNext, WaitDma, ReadNext, CopyArgs, Axpy,
            Shared, memory
    <2> QED
        BY <1>t, <2>1
<1>7. dma' \in [Clusters -> SUBSET {"job", "x", "y", "z"}]
    <2>1. \/ dma' = dma
          \/ \E t \in {"job", "x", "y", "z"} : dma' = [dma EXCEPT ![c] = @ \cup {t}]
        BY <1>0 DEF Hart, Wake, Clear, Add, Reset, Interrupt, InitBss, InitLibs, FetchJob, StartX,
            StartY, StartZ, StartDma, outside, SetPointers, UpdateNext, WaitDma, ReadNext, CopyArgs, Axpy,
            Shared, memory
    <2> QED
        BY <1>t, <2>1
<1>8. good' \in [Harts -> BOOLEAN]
    <2>1. CASE CopyArgs(<<c, k>>)
        <3>1. slot[<<c, k>>] \in Slots
            BY <1>j, <2>1 DEF CopyArgs, Goto, Placed
        <3>2. l1[c][slot[<<c, k>>]].pointers \in BOOLEAN
            BY <1>t, <3>1 DEF SlotType
        <3> QED
            BY <1>0, <1>t, <2>1, <3>2 DEF CopyArgs
    <2>2. CASE good' = good
        BY <1>t, <2>2
    <2> QED
        BY <2>1, <2>2 DEF Hart, Wake, Clear, Add, Reset, Interrupt, InitBss, InitLibs, FetchJob,
            StartX, StartY, StartZ, StartDma, outside, SetPointers, UpdateNext, WaitDma, ReadNext, Axpy,
            Shared, memory
<1>9. job_remote' \in [Clusters -> 0 .. N_JOBS]
    <2>1. job_remote' = job_remote \/ job_remote' = [job_remote EXCEPT ![c] = usr_data_ptr]
        BY <1>0 DEF Hart, Wake, Clear, Add, Reset, Interrupt, InitBss, InitLibs, FetchJob, StartX,
            StartY, StartZ, StartDma, outside, SetPointers, UpdateNext, WaitDma, ReadNext, CopyArgs,
            Axpy, Local, Shared, memory
    <2> QED
        BY <1>t, <2>1
<1> QED
    BY <1>1, <1>2, <1>3, <1>4, <1>5, <1>6, <1>7, <1>8, <1>9 DEF TypeOK, SlotType

\* Whatever a cluster does, its cores write to the slot of the job.
LEMMA AllPlaced ==
    ASSUME TypeOK, NEW c \in Clusters, NEW k \in Cores,
           \/ Starting(c) \/ Working(c) \/ Ending(c, {"add", "reset", "int", "wfi"})
           \/ \E n : Asleep(c, n)
    PROVE  Placed(c, k)
<1>0. k = DM \/ k \in Compute
    BY Numbers
<1>1. CASE Starting(c)
    BY <1>0, <1>1 DEF Starting, StartingUp, ReadyForJobs, Pending, Cleared, At, Placed
<1>2. CASE Working(c)
    <2>1. PICK j \in Jobs : j = host.job
        <3>1. host.job \in Nat /\ host.job <= N_JOBS /\ N_JOBS \in Nat
            BY TypeFacts, Numbers
        <3> QED
            BY <1>2, <3>1 DEF Working, Jobs
    <2>2. Fetching(c, j) \/ Loading(c, j) \/ Computing(c, j) \/ CopyingOut(c, j)
        BY <1>2, <2>1 DEF Working
    <2>3. CASE Fetching(c, j)
        BY <1>0, <2>3 DEF Fetching, Pending, Cleared, At, Placed
    <2>4. CASE Loading(c, j)
        BY <1>0, <2>4 DEF Loading, Cleared, At, Placed
    <2>5. CASE Computing(c, j)
        BY <1>0, <2>5 DEF Computing, Cleared, At, Placed
    <2>6. CASE CopyingOut(c, j)
        BY <1>0, <2>6 DEF CopyingOut, Cleared, At, Placed
    <2> QED
        BY <2>2, <2>3, <2>4, <2>5, <2>6
<1>3. CASE Ending(c, {"add", "reset", "int", "wfi"})
    BY <1>0, <1>3 DEF Ending, Cleared, At, Placed
<1>4. CASE \E n : Asleep(c, n)
    BY <1>4 DEF Asleep, Cleared, At, Placed
<1> QED
    BY <1>1, <1>2, <1>3, <1>4

\* A transfer keeps the types.
LEMMA DmaType ==
    ASSUME TypeOK, NEW c \in Clusters, NEW t, DmaDone(c, t), Working(c)
    PROVE  TypeOK'
<1>0. DM \in Cores /\ <<c, DM>> \in Harts
    BY Numbers
<1>1. PICK j \in Jobs : j = host.job
    <2>1. host.job \in Nat /\ host.job <= N_JOBS /\ N_JOBS \in Nat
        BY TypeFacts, Numbers
    <2> QED
        BY <2>1 DEF Working, Jobs
<1>2. Fetching(c, j) \/ Loading(c, j) \/ Computing(c, j) \/ CopyingOut(c, j)
    BY <1>1 DEF Working
<1>3. t \in dma[c] /\ dma' = [dma EXCEPT ![c] = @ \ {t}]
    BY DEF DmaDone
<1>4. slot[<<c, DM>>] = j /\ j \in Slots /\ usr_data_ptr = j /\ j \in 0 .. N_JOBS
    <2>1. slot[<<c, DM>>] = j
        BY <1>2, <1>3 DEF Fetching, Loading, Computing, CopyingOut
    <2>2. j \in Slots /\ j \in 0 .. N_JOBS
        BY Numbers DEF Jobs, Slots
    <2> QED
        BY <1>0, <1>1, <2>1, <2>2, TypeFacts
<1>t. /\ l1 \in [Clusters -> [Slots -> SlotType]] /\ result \in [Jobs -> [Clusters -> SUBSET Compute]]
      /\ dma \in [Clusters -> SUBSET {"job", "x", "y", "z"}]
    BY DEF TypeOK, SlotType
<1>5. l1[c][j] \in SlotType
    BY <1>4, <1>t
<1>6. t \in {"job", "x", "y", "z"} /\ dma' \in [Clusters -> SUBSET {"job", "x", "y", "z"}]
    BY <1>3, <1>t
<1>7. l1' \in [Clusters -> [Slots -> SlotType]]
    <2>0. job_remote[c] \in 0 .. N_JOBS
        BY DEF TypeOK
    <2>1. /\ [l1[c][j] EXCEPT !.job = job_remote[c]] \in SlotType
          /\ [l1[c][j] EXCEPT !.x = TRUE] \in SlotType
          /\ [l1[c][j] EXCEPT !.y = TRUE] \in SlotType
        BY <1>4, <1>5, <2>0 DEF SlotType
    <2>2. l1' = l1 \/ \E v \in SlotType : l1' = [l1 EXCEPT ![c] = [l1[c] EXCEPT ![j] = v]]
        <3>1. CASE t = "job"
            <4>1. l1' = [l1 EXCEPT ![c][j].job = job_remote[c]]
                BY <1>4, <3>1 DEF DmaDone
            <4> QED
                BY <1>t, <2>1, <4>1
        <3>2. CASE t = "x"
            <4>1. l1' = [l1 EXCEPT ![c][j].x = TRUE]
                BY <1>4, <3>2 DEF DmaDone
            <4> QED
                BY <1>t, <2>1, <4>1
        <3>3. CASE t = "y"
            <4>1. l1' = [l1 EXCEPT ![c][j].y = TRUE]
                BY <1>4, <3>3 DEF DmaDone
            <4> QED
                BY <1>t, <2>1, <4>1
        <3>4. CASE t = "z"
            BY <3>4 DEF DmaDone
        <3> QED
            BY <1>6, <3>1, <3>2, <3>3, <3>4
    <2>3. CASE l1' = l1
        BY <1>t, <2>3
    <2>4. ASSUME NEW v \in SlotType, l1' = [l1 EXCEPT ![c] = [l1[c] EXCEPT ![j] = v]]
          PROVE  l1' \in [Clusters -> [Slots -> SlotType]]
        <3>1. [l1[c] EXCEPT ![j] = v] \in [Slots -> SlotType]
            BY <1>t
        <3> QED
            BY <1>t, <2>4, <3>1
    <2> QED
        BY <2>2, <2>3, <2>4
<1>8. result' \in [Jobs -> [Clusters -> SUBSET Compute]]
    <2>1. l1[c][j].z \in SUBSET Compute
        BY <1>5 DEF SlotType
    <2>2. result' = result \/ result' = [result EXCEPT ![l1[c][j].job][c] = l1[c][j].z]
        BY <1>4 DEF DmaDone
    <2>3. ASSUME NEW i, result' = [result EXCEPT ![i][c] = l1[c][j].z]
          PROVE  result' \in [Jobs -> [Clusters -> SUBSET Compute]]
        <3>1. CASE i \in Jobs
            <4>1. [result[i] EXCEPT ![c] = l1[c][j].z] \in [Clusters -> SUBSET Compute]
                BY <1>t, <2>1, <3>1
            <4> QED
                BY <1>t, <2>3, <3>1, <4>1
        <3>2. CASE i \notin Jobs
            <4>1. result' = result
                BY <1>t, <2>3, <3>2
            <4> QED
                BY <1>t, <4>1
        <3> QED
            BY <3>1, <3>2
    <2> QED
        BY <1>t, <2>2, <2>3
<1> QED
    BY <1>6, <1>7, <1>8 DEF TypeOK, SlotType, DmaDone

-----------------------------------------------------------------------------
\* The counter stays right in a step of a core that does not return to the host.
LEMMA CountKept ==
    ASSUME TypeOK, NEW c \in Clusters, NEW k \in Cores, HartEffects(c, k), OtherCores(c, k),
           \A d \in Clusters : d # c => SameCluster(d),
           pc[<<c, k>>] \notin {"add", "reset", "int"}, pc[<<c, k>>] = "bss" => k = DM,
           Passed' = Passed, CountRight
    PROVE  CountRight' /\ msip' = msip
<1>0. DM \in Cores /\ 0 \in Clusters
    BY Numbers
<1>1. /\ msip' = msip
      /\ cnt' = cnt \/ (Goes(c, k, "bss", "libs") /\ cnt' = IF c = 0 THEN 0 ELSE cnt)
      /\ pc'[<<c, k>>] \in {"parked", "bss"} => pc[<<c, k>>] \in {"parked", "bss"}
      /\ pc[<<c, k>>] = "parked" => pc'[<<c, k>>] = "bss" \/ k # DM
      /\ pc[<<c, k>>] = "bss" => cnt' = IF c = 0 THEN 0 ELSE cnt
    BY DEF HartEffects, Goes
<1>2. pc'[<<0, DM>>] = pc[<<0, DM>>] \/ (c = 0 /\ k = DM)
    BY <1>0 DEF SameCluster, OtherCores
<1>3. CASE At(0, DM, {"parked", "bss"})
    <2>1. Passed' = {}
        BY <1>3 DEF CountRight
    <2>2. CASE At(0, DM, {"parked", "bss"})'
        BY <1>1, <2>1, <2>2 DEF CountRight
    <2>3. CASE ~At(0, DM, {"parked", "bss"})'
        <3>1. cnt' = 0
            BY <1>1, <1>2, <1>3, <2>3 DEF At
        <3> QED
            BY <1>1, <2>1, <2>3, <3>1, FS_EmptySet DEF CountRight
    <2> QED
        BY <1>1, <2>2, <2>3
<1>4. CASE ~At(0, DM, {"parked", "bss"})
    <2>1. ~At(0, DM, {"parked", "bss"})'
        BY <1>1, <1>2, <1>4 DEF At
    <2>2. cnt' = cnt
        BY <1>1, <1>4 DEF At, Goes
    <2> QED
        BY <1>1, <1>4, <2>1, <2>2 DEF CountRight
<1> QED
    BY <1>3, <1>4

\* A cluster that is not through has not been counted, before a step or after it.
LEMMA NotCounted ==
    ASSUME NEW c \in Clusters
    PROVE  /\ Starting(c) \/ Working(c) \/ Ending(c, {"add"}) => ~Cleared(c, DM, {"wfi"})
           /\ Starting(c)' \/ Working(c)' \/ Ending(c, {"add"})' => ~Cleared(c, DM, {"wfi"})'
<1>0. DM \in Cores
    BY Numbers
<1>1. Starting(c) => ~Cleared(c, DM, {"wfi"})
    BY <1>0 DEF Starting, StartingUp, ReadyForJobs, Pending, Cleared, At
<1>2. Working(c) => ~Cleared(c, DM, {"wfi"})
    BY DEF Working, Fetching, Loading, Computing, CopyingOut, Pending, Cleared, At
<1>3. Ending(c, {"add"}) => ~Cleared(c, DM, {"wfi"})
    BY DEF Ending, Cleared, At
<1>4. Starting(c)' => ~Cleared(c, DM, {"wfi"})'
    BY <1>0 DEF Starting, StartingUp, ReadyForJobs, Pending, Cleared, At
<1>5. Working(c)' => ~Cleared(c, DM, {"wfi"})'
    BY DEF Working, Fetching, Loading, Computing, CopyingOut, Pending, Cleared, At
<1>6. Ending(c, {"add"})' => ~Cleared(c, DM, {"wfi"})'
    BY DEF Ending, Cleared, At
<1> QED
    BY <1>1, <1>2, <1>3, <1>4, <1>5, <1>6

\* The clusters, and those counted, are finitely many.
LEMMA PassedFinite ==
    /\ IsFiniteSet(Clusters) /\ Cardinality(Clusters) = N_CLUSTERS
    /\ IsFiniteSet(Passed) /\ Passed \subseteq Clusters /\ Cardinality(Passed) \in Nat
<1>1. IsFiniteSet(Clusters) /\ Cardinality(Clusters) = N_CLUSTERS
    BY Numbers, FS_Interval DEF Clusters
<1>2. Passed \subseteq Clusters
    BY DEF Passed
<1>3. IsFiniteSet(Passed) /\ Cardinality(Passed) \in Nat
    BY <1>1, <1>2, FS_Subset, FS_CardinalityType
<1> QED
    BY <1>1, <1>2, <1>3

\* While nothing but one cluster moves, the others stay as they are.
LEMMA OthersKept ==
    ASSUME TypeOK, NEW c \in Clusters, host' = host, \A d \in Clusters : d # c => SameCluster(d)
    PROVE  \A d \in Clusters : d # c =>
              /\ Position(d)' <=> Position(d)
              /\ d \in Passed' <=> d \in Passed
              /\ JobsInPlace(d)' <=> JobsInPlace(d)
              /\ \A n : Asleep(d, n)' <=> Asleep(d, n)
<1> TAKE d \in Clusters
<1> HAVE d # c
<1>0. DM \in Cores /\ host.job \in 0 .. N_JOBS
    BY Numbers DEF TypeOK
<1>1. SameCluster(d) /\ UNCHANGED host.job
    OBVIOUS
<1>2. Woken(d)' <=> Woken(d)
    BY DEF Woken
<1>3. /\ \A n : Asleep(d, n)' <=> Asleep(d, n)
      /\ \A L : Ending(d, L)' <=> Ending(d, L)
      /\ Starting(d)' <=> Starting(d)
      /\ Working(d)' <=> Working(d)
      /\ JobsInPlace(d)' <=> JobsInPlace(d)
      /\ \A k \in Cores : \A L : (At(d, k, L)' <=> At(d, k, L)) /\ (Cleared(d, k, L)' <=> Cleared(d, k, L))
    BY <1>0, <1>1, ClusterFrame
<1>4. Position(d)' <=> Position(d)
    BY <1>2, <1>3 DEF Position, Busy
<1>5. d \in Passed' <=> d \in Passed
    BY <1>0, <1>2, <1>3 DEF Passed
<1> QED
    BY <1>3, <1>4, <1>5

\* A cluster that has been counted sleeps.
LEMMA CountedSleeps ==
    ASSUME TypeOK, NEW c \in Clusters, Busy(c), Cleared(c, DM, {"wfi"})
    PROVE  Ending(c, {"wfi"}) /\ Asleep(c, host.job + 1)
<1>0. (\A k \in Cores : k = DM \/ k \in Compute) /\ DM \in Cores
    BY Numbers
<1>1. Ending(c, {"add", "wfi"})
    BY NotCounted DEF Busy
<1>2. Ending(c, {"wfi"})
    BY <1>1 DEF Ending
<1>3. host.job + 1 # 0
    <2>1. host.job \in Nat
        BY Numbers, TypeFacts
    <2> QED
        BY <2>1
<1>4. \A k \in Cores : Cleared(c, k, {"wfi"})
    BY <1>0, <1>2 DEF Ending
<1> QED
    BY <1>2, <1>3, <1>4 DEF Ending, Asleep

-----------------------------------------------------------------------------
\* A core moves while clusters are still at work.
LEMMA HartCounting ==
    ASSUME TypeOK, Counting, NEW c \in Clusters, NEW k \in Cores, Hart(<<c, k>>), ~spoilt'
    PROVE  /\ Counting' \/ Elected(c)'
           /\ \A s \in Slots : l1'[c][s].job = l1[c][s].job
           /\ Placed(c, k)
<1>e. HartEffects(c, k)
    BY HartEffect
<1>f. host' = host /\ result' = result /\ OtherCores(c, k) /\ Remote(c, k) /\ \A d \in Clusters : d # c => SameCluster(d)
    BY HartFrame
<1>0. DM \in Cores /\ 0 \in Clusters /\ (\A i \in Cores : i # DM <=> i \in Compute)
    BY Numbers
<1>o. \A d \in Clusters : d # c =>
         (Position(d)' <=> Position(d)) /\ (d \in Passed' <=> d \in Passed)
         /\ (\A n : Asleep(d, n)' <=> Asleep(d, n))
    BY <1>f, OthersKept
<1>w. Woken(c) /\ (Woken(c)' <=> Woken(c))
    <2>1. ~\E n : Asleep(c, n)
        BY <1>e, AsleepStep
    <2> QED
        BY <1>f, <2>1 DEF Counting, Position, Woken
<1>1. Busy(c)
    BY <1>w DEF Counting, Position
<1>p. Placed(c, k)
    <2>1. Ending(c, {"add", "wfi"}) => Ending(c, {"add", "reset", "int", "wfi"})
        BY DEF Ending, Cleared, At
    <2> QED
        BY <1>1, <2>1, AllPlaced DEF Busy
<1>2. CASE Starting(c) \/ Working(c)
    <2>1. Starting(c)' \/ Working(c)' \/ Ending(c, {"add"})'
        BY <1>2, <1>e, <1>f, StartingStep, WorkingStep
    <2>2. c \notin Passed /\ c \notin Passed'
        BY <1>2, <2>1, NotCounted DEF Passed
    <2>3. Passed' = Passed
        BY <1>o, <2>2 DEF Passed
    <2>4. pc[<<c, k>>] \notin {"add", "reset", "int"} /\ (pc[<<c, k>>] = "bss" => k = DM)
        <3>1. Starting(c) => pc[<<c, k>>] \notin {"add", "reset", "int"} /\ (pc[<<c, k>>] = "bss" => k = DM)
            BY <1>0 DEF Starting, StartingUp, ReadyForJobs, Pending, Cleared, At
        <3>2. Working(c) => pc[<<c, k>>] \notin {"add", "reset", "int", "bss"}
            BY <1>0 DEF Working, Fetching, Loading, Computing, CopyingOut, Pending, Cleared, At
        <3> QED
            BY <1>2, <3>1, <3>2
    <2>5. CountRight' /\ msip' = msip
        BY <1>e, <1>f, <2>3, <2>4, CountKept DEF Counting
    <2>6. Position(c)'
        <3>1. Ending(c, {"add"})' => Ending(c, {"add", "wfi"})'
            BY DEF Ending, Cleared, At
        <3> QED
            BY <1>w, <2>1, <3>1 DEF Position, Busy
    <2>7. Counting'
        BY <1>f, <1>o, <2>3, <2>5, <2>6 DEF Counting
    <2>8. \A s \in Slots : l1'[c][s].job = l1[c][s].job
        <3>1. CASE Working(c)
            BY <1>e, <1>f, <3>1, WorkingStep
        <3>2. CASE Starting(c)
            <4>1. pc[<<c, k>>] \notin {"pointers", "axpy"}
                BY <1>0, <3>2 DEF Starting, StartingUp, ReadyForJobs, Pending, Cleared, At
            <4> QED
                BY <1>e, <4>1 DEF HartEffects, Goes
        <3> QED
            BY <1>2, <3>1, <3>2
    <2> QED
        BY <1>p, <2>7, <2>8
<1>3. CASE Ending(c, {"add", "wfi"})
    <2>1. Ending(c, {"add", "reset", "int", "wfi"})
        BY <1>3 DEF Ending, Cleared, At
    <2>2. /\ k = DM /\ At(c, DM, {"add", "reset", "int"})
          /\ At(c, DM, {"add"}) =>
                /\ cnt' = cnt + 1 /\ msip' = msip
                /\ ~At(0, DM, {"parked", "bss"})
                /\ \/ cnt' = N_CLUSTERS /\ Ending(c, {"reset"})'
                   \/ cnt' # N_CLUSTERS /\ Ending(c, {"wfi"})'
          /\ \A s \in Slots : l1'[c][s].job = l1[c][s].job
        BY <1>e, <1>f, <2>1, EndingStep
    <2>3. At(c, DM, {"add"})
        BY <1>3, <2>2 DEF Ending, Cleared, At
    <2>4. /\ cnt' = cnt + 1 /\ msip' = msip /\ ~At(0, DM, {"parked", "bss"})
          /\ \/ cnt' = N_CLUSTERS /\ Ending(c, {"reset"})'
             \/ cnt' # N_CLUSTERS /\ Ending(c, {"wfi"})'
        BY <2>2, <2>3
    <2>5. cnt = Cardinality(Passed)
        BY <2>4 DEF Counting, CountRight
    <2>6. c \notin Passed
        BY <2>3 DEF Passed, Cleared, At
    <2>7. Cardinality(Passed \cup {c}) = cnt + 1 /\ Passed \cup {c} \subseteq Clusters
        BY <2>5, <2>6, PassedFinite, FS_AddElement
    <2>8. CASE cnt' = N_CLUSTERS /\ Ending(c, {"reset"})'
        <3>1. Passed \cup {c} = Clusters
            BY <2>4, <2>7, <2>8, PassedFinite, FS_Subset
        <3>2. \A d \in Clusters : Woken(d)
            BY <1>w, <3>1 DEF Passed
        <3>3. host.at = "wait"
            <4>1. N_CLUSTERS - 1 \in Clusters /\ N_CLUSTERS \in Nat /\ host.cluster \in Clusters
                BY <1>0, Numbers, TypeFacts
            <4> QED
                BY <3>2, <4>1 DEF Woken, Clusters
        <3>4. ASSUME NEW d \in Clusters \ {c}
              PROVE  Asleep(d, host.job + 1)'
            <4>1. Cleared(d, DM, {"wfi"}) /\ Busy(d)
                BY <3>1, <3>2 DEF Passed, Counting, Position
            <4>2. Asleep(d, host.job + 1)
                BY <4>1, CountedSleeps
            <4>3. \A n : Asleep(d, n)' <=> Asleep(d, n)
                BY <1>o
            <4>4. PICK n : n = host.job + 1
                OBVIOUS
            <4>5. Asleep(d, n)'
                BY <4>2, <4>3, <4>4
            <4> QED
                BY <1>f, <4>4, <4>5
        <3>5. Ending(c, {"reset", "int"})' /\ ~At(c, DM, {"int"})'
            BY <2>8 DEF Ending, Cleared, At
        <3>6. Elected(c)'
            BY <1>f, <2>4, <3>3, <3>4, <3>5 DEF Elected, Counting
        <3> QED
            BY <1>p, <2>2, <3>6
    <2>9. CASE cnt' # N_CLUSTERS /\ Ending(c, {"wfi"})'
        <3>1. c \in Passed' /\ Position(c)'
            <4>1. Ending(c, {"add", "wfi"})' /\ Cleared(c, DM, {"wfi"})'
                BY <2>9 DEF Ending, Cleared, At
            <4> QED
                BY <1>w, <4>1 DEF Passed, Position, Busy
        <3>2. Passed' = Passed \cup {c}
            BY <1>o, <3>1 DEF Passed
        <3>3. Passed' # Clusters
            BY <2>4, <2>7, <2>9, <3>2, PassedFinite
        <3>4. ~At(0, DM, {"parked", "bss"})'
            <4>1. pc'[<<c, DM>>] = "wfi"
                BY <2>9 DEF Ending, Cleared, At
            <4>2. c # 0 => pc'[<<0, DM>>] = pc[<<0, DM>>]
                BY <1>0, <1>f DEF SameCluster
            <4> QED
                BY <2>4, <4>1, <4>2 DEF At
        <3>5. CountRight'
            BY <2>4, <2>7, <3>2, <3>4 DEF CountRight
        <3>6. Counting'
            BY <1>f, <1>o, <2>4, <3>1, <3>3, <3>5 DEF Counting
        <3> QED
            BY <1>p, <2>2, <3>6
    <2> QED
        BY <2>4, <2>8, <2>9
<1> QED
    BY <1>1, <1>2, <1>3 DEF Busy

\* The last DM core moves: it resets the counter, then interrupts the host.
LEMMA HartElected ==
    ASSUME TypeOK, NEW e \in Clusters, Elected(e), NEW c \in Clusters, NEW k \in Cores,
           Hart(<<c, k>>), ~spoilt'
    PROVE  /\ Elected(c)' \/ Returned'
           /\ \A s \in Slots : l1'[c][s].job = l1[c][s].job
           /\ Placed(c, k)
<1>e. HartEffects(c, k)
    BY HartEffect
<1>f. host' = host /\ result' = result /\ OtherCores(c, k) /\ Remote(c, k) /\ \A d \in Clusters : d # c => SameCluster(d)
    BY HartFrame
<1>0. DM \in Cores /\ (\A i \in Cores : i = DM \/ i \in Compute)
    BY Numbers
<1>1. c = e
    <2>1. ~\E n : Asleep(c, n)
        BY <1>e, AsleepStep
    <2> QED
        BY <2>1 DEF Elected
<1>2. Ending(c, {"reset", "int"}) /\ Ending(c, {"add", "reset", "int", "wfi"})
    BY <1>1 DEF Elected, Ending, Cleared, At
<1>p. Placed(c, k)
    BY <1>2, AllPlaced
<1>3. /\ At(c, DM, {"reset"}) => cnt' = 0 /\ msip' = msip /\ Ending(c, {"int"})'
      /\ At(c, DM, {"int"}) => cnt' = cnt /\ msip' /\ Ending(c, {"wfi"})'
      /\ \A s \in Slots : l1'[c][s].job = l1[c][s].job
    BY <1>2, <1>e, <1>f, EndingStep
<1>4. PICK n : n = host.job + 1 /\ n # 0
    <2>1. host.job \in Nat
        BY <1>0, TypeFacts
    <2> QED
        BY <2>1
<1>5. \A d \in Clusters \ {c} : Asleep(d, n)'
    <2>1. \A d \in Clusters \ {c} : Asleep(d, n)
        BY <1>1, <1>4 DEF Elected
    <2>2. \A d \in Clusters \ {c} : \A m : Asleep(d, m)' <=> Asleep(d, m)
        BY <1>f, OthersKept
    <2> QED
        BY <2>1, <2>2
<1>6. CASE At(c, DM, {"reset"})
    <2>1. Ending(c, {"reset", "int"})' /\ cnt' = 0 /\ ~msip'
        BY <1>1, <1>3, <1>6 DEF Ending, Cleared, At, Elected
    <2>2. Elected(c)'
        BY <1>1, <1>4, <1>5, <1>f, <2>1 DEF Elected
    <2> QED
        BY <1>3, <1>p, <2>2
<1>7. CASE At(c, DM, {"int"})
    <2>1. cnt' = 0 /\ msip' /\ Ending(c, {"wfi"})'
        BY <1>1, <1>3, <1>7 DEF Elected
    <2>2. Asleep(c, n)'
        <3>1. \A i \in Cores : Cleared(c, i, {"wfi"})'
            BY <1>0, <2>1 DEF Ending
        <3> QED
            BY <1>4, <1>f, <2>1, <3>1 DEF Ending, Asleep
    <2>3. \A d \in Clusters : Asleep(d, n)'
        BY <1>5, <2>2
    <2>4. Returned'
        BY <1>1, <1>4, <1>f, <2>1, <2>3 DEF Returned, Elected
    <2> QED
        BY <1>3, <1>p, <2>4
<1> QED
    BY <1>2, <1>6, <1>7 DEF Ending, Cleared, At

\* Every step of a core keeps the invariant, unless it is one of the two races.
LEMMA HartInv ==
    ASSUME IInv, NEW c \in Clusters, NEW k \in Cores, Hart(<<c, k>>), ~spoilt'
    PROVE  IInv'
<1>0. TypeOK
    BY DEF IInv
<1>1. HartEffects(c, k) /\ host' = host /\ \A d \in Clusters : d # c => SameCluster(d)
    BY <1>0, HartEffect, HartFrame
<1>2. ~Returned
    <2>1. ~\E n : Asleep(c, n)
        BY <1>0, <1>1, AsleepStep
    <2> QED
        BY <2>1 DEF Returned
<1>3. /\ Counting' \/ Elected(c)' \/ Returned'
      /\ \A s \in Slots : l1'[c][s].job = l1[c][s].job
      /\ Placed(c, k)
    <2>1. CASE Counting
        BY <1>0, <2>1, HartCounting
    <2>2. CASE \E e \in Clusters : Elected(e)
        BY <1>0, <2>2, HartElected
    <2> QED
        BY <1>2, <2>1, <2>2 DEF IInv
<1>4. TypeOK'
    BY <1>0, <1>3, HartType
<1>5. \A d \in Clusters : JobsInPlace(d)'
    <2>1. \A d \in Clusters : d # c => (JobsInPlace(d)' <=> JobsInPlace(d))
        BY <1>0, <1>1, OthersKept
    <2>2. JobsInPlace(c)'
        BY <1>3 DEF IInv, JobsInPlace
    <2> QED
        BY <2>1, <2>2 DEF IInv
<1> QED
    BY <1>1, <1>3, <1>4, <1>5 DEF IInv

\* The barrier keeps it, ...
LEMMA BarrierInv ==
    ASSUME IInv, NEW c \in Clusters, HwBarrier(c)
    PROVE  IInv'
<1>0. TypeOK /\ DM \in Cores /\ 0 \in Clusters
    BY Numbers DEF IInv
<1>f. /\ UNCHANGED <<host, usr_data_ptr, msip, mcip, cnt, l1_next, l1, slot, good, job_remote, dma, result>>
      /\ DOMAIN pc' = Harts
      /\ \A d \in Clusters : d # c => SameCluster(d)
      /\ \A i \in Cores : pc[<<c, i>>] \in Barriers /\ pc'[<<c, i>>] = After(<<c, i>>)
    BY <1>0, BarrierFrame
<1>b. /\ Starting(c) => Starting(c)' \/ Ending(c, {"add"})'
      /\ Working(c) => Working(c)'
      /\ ~Ending(c, {"add", "reset", "int", "wfi"})
      /\ \A n : ~Asleep(c, n)
    BY <1>0, BarrierStep
<1>n. \A L \in SUBSET {"add", "reset", "int", "wfi"} : ~Ending(c, L)
    BY <1>b DEF Ending, Cleared, At
<1>1. TypeOK'
    BY <1>0, <1>f DEF TypeOK
<1>2. \A d \in Clusters : JobsInPlace(d)'
    BY <1>f DEF IInv, JobsInPlace
<1>3. Counting
    <2>1. ~Returned
        BY <1>b DEF Returned
    <2>2. ASSUME NEW e \in Clusters, Elected(e)
          PROVE  FALSE
        BY <1>b, <1>n, <2>2 DEF Elected
    <2> QED
        BY <2>1, <2>2 DEF IInv
<1>4. Woken(c) /\ Woken(c)' /\ (Starting(c) \/ Working(c))
    BY <1>3, <1>b, <1>f, <1>n DEF Counting, Position, Busy, Woken
<1>5. Starting(c)' \/ Working(c)' \/ Ending(c, {"add"})'
    BY <1>4, <1>b
<1>6. \A d \in Clusters : d # c => (Position(d)' <=> Position(d)) /\ (d \in Passed' <=> d \in Passed)
    BY <1>0, <1>f, OthersKept
<1>7. Passed' = Passed
    <2>1. c \notin Passed /\ c \notin Passed'
        BY <1>4, <1>5, NotCounted DEF Passed
    <2> QED
        BY <1>6, <2>1 DEF Passed
<1>8. At(0, DM, {"parked", "bss"})' <=> At(0, DM, {"parked", "bss"})
    <2>1. c # 0 => pc'[<<0, DM>>] = pc[<<0, DM>>]
        BY <1>0, <1>f DEF SameCluster
    <2>2. pc[<<c, DM>>] \in Barriers /\ pc'[<<c, DM>>] = After(<<c, DM>>)
        BY <1>0, <1>f
    <2>3. pc'[<<c, DM>>] \notin {"parked", "bss"} /\ pc[<<c, DM>>] \notin {"parked", "bss"}
        BY <2>2 DEF Barriers, After
    <2> QED
        BY <2>1, <2>3 DEF At
<1>9. CountRight'
    BY <1>3, <1>7, <1>8, <1>f DEF Counting, CountRight
<1>10. Position(c)'
    <2>1. Ending(c, {"add"})' => Ending(c, {"add", "wfi"})'
        BY DEF Ending, Cleared, At
    <2> QED
        BY <1>4, <1>5, <2>1 DEF Position, Busy
<1>11. Counting'
    BY <1>3, <1>6, <1>7, <1>9, <1>10, <1>f DEF Counting
<1> QED
    BY <1>1, <1>2, <1>11, <1>f DEF IInv

\* ... a transfer that completes, ...
LEMMA DmaInv ==
    ASSUME IInv, NEW c \in Clusters, NEW t, DmaDone(c, t)
    PROVE  IInv'
<1>0. TypeOK /\ DM \in Cores /\ 0 \in Clusters /\ JobsInPlace(c)
    BY Numbers DEF IInv
<1>f. /\ UNCHANGED <<host, usr_data_ptr, msip, mcip, cnt, pc, l1_next, slot, good, job_remote>>
      /\ \A d \in Clusters : d # c => SameCluster(d)
    BY <1>0, DmaFrame
<1>b. /\ ~Starting(c)
      /\ Working(c) => Working(c)' /\ JobsInPlace(c)'
      /\ ~Ending(c, {"add", "reset", "int", "wfi"})
      /\ \A n : ~Asleep(c, n)
    BY <1>0, DmaStep
<1>n. \A L \in SUBSET {"add", "reset", "int", "wfi"} : ~Ending(c, L)
    BY <1>b DEF Ending, Cleared, At
<1>3. Counting
    <2>1. ~Returned
        BY <1>b DEF Returned
    <2>2. ASSUME NEW e \in Clusters, Elected(e)
          PROVE  FALSE
        BY <1>b, <1>n, <2>2 DEF Elected
    <2> QED
        BY <2>1, <2>2 DEF IInv
<1>4. Woken(c) /\ Woken(c)' /\ Working(c)
    BY <1>3, <1>b, <1>f, <1>n DEF Counting, Position, Busy, Woken
<1>5. Working(c)' /\ JobsInPlace(c)'
    BY <1>4, <1>b
<1>6. \A d \in Clusters : d # c => /\ Position(d)' <=> Position(d)
                                   /\ JobsInPlace(d)' <=> JobsInPlace(d)
    BY <1>0, <1>f, OthersKept
<1>7. Passed' = Passed
    BY <1>f DEF Passed, Cleared, At, Woken
<1>8. CountRight'
    BY <1>3, <1>7, <1>f DEF Counting, CountRight, At
<1>9. Counting'
    BY <1>3, <1>4, <1>5, <1>6, <1>7, <1>8, <1>f DEF Counting, Position, Busy
<1>10. TypeOK'
    BY <1>0, <1>4, DmaType
<1> QED
    BY <1>5, <1>6, <1>9, <1>10, <1>f DEF IInv

\* ... a wake-up of the next cluster, ...
LEMMA HostWakeInv ==
    ASSUME IInv, HostWake
    PROVE  IInv'
<1>0. /\ TypeOK /\ DM \in Cores /\ 0 \in Clusters /\ N_CLUSTERS \in Nat /\ N_JOBS \in Nat
      /\ \A d \in Clusters : d \in Nat /\ d < N_CLUSTERS
      /\ \A d \in Clusters, k \in Cores : <<d, k>> \in Harts /\ <<d, k>>[1] = d
      /\ \A k \in Cores : k = DM \/ k \in Compute
      /\ Compute \subseteq Cores
    BY Numbers DEF IInv
<1>1. PICK c \in Clusters : c = host.cluster
    BY <1>0, TypeFacts
<1>2. PICK j \in 0 .. N_JOBS : j = host.job
    BY <1>0 DEF TypeOK
<1>h. host \in [at : {"wake", "wait", "clear", "post", "done"}, job : 0 .. N_JOBS, cluster : Clusters]
    BY <1>0 DEF TypeOK
<1>3. /\ host.at = "wake" /\ host'.job = j
      /\ host' \in [at : {"wake", "wait", "clear", "post", "done"}, job : 0 .. N_JOBS, cluster : Clusters]
      /\ \/ c = N_CLUSTERS - 1 /\ host'.at = "wait" /\ host'.cluster = 0
         \/ c # N_CLUSTERS - 1 /\ host'.at = "wake" /\ host'.cluster = c + 1
    <2>1. CASE c = N_CLUSTERS - 1
        BY <1>0, <1>1, <1>2, <1>h, <2>1 DEF HostWake
    <2>2. CASE c # N_CLUSTERS - 1
        <3>1. c + 1 \in Clusters
            BY <1>0, <2>2 DEF Clusters
        <3> QED
            BY <1>1, <1>2, <1>h, <2>2, <3>1 DEF HostWake
    <2> QED
        BY <2>1, <2>2
<1>4. UNCHANGED <<usr_data_ptr, msip, cnt, pc, l1_next, l1, slot, good, job_remote, dma, result>>
    BY DEF HostWake, memory
<1>5. Counting
    BY <1>3 DEF IInv, Elected, Returned
<1>6. \A d \in Clusters, k \in Cores : mcip'[<<d, k>>] = (mcip[<<d, k>>] \/ d = c)
    BY <1>0, <1>1 DEF HostWake
<1>7. mcip' \in [Harts -> BOOLEAN]
    BY DEF HostWake
<1>8. ASSUME NEW d \in Clusters
      PROVE  Woken(d)' <=> Woken(d) \/ d = c
    BY <1>0, <1>1, <1>3 DEF Woken
<1>9. ~Woken(c)
    BY <1>0, <1>1, <1>3 DEF Woken
<1>10. ASSUME NEW d \in Clusters, d # c
       PROVE  (Position(d)' <=> Position(d)) /\ (d \in Passed' <=> d \in Passed)
    <2>1. SameCluster(d)
        <3>1. ASSUME NEW k \in Cores
              PROVE  mcip'[<<d, k>>] = mcip[<<d, k>>]
            <4>1. mcip[<<d, k>>] \in BOOLEAN
                BY <1>0, TypeFacts
            <4> QED
                BY <1>6, <1>10, <4>1
        <3> QED
            BY <1>4, <3>1 DEF SameCluster
    <2>2. UNCHANGED host.job /\ host.job \in 0 .. N_JOBS
        BY <1>2, <1>3
    <2>3. /\ \A n : Asleep(d, n)' <=> Asleep(d, n)
          /\ \A L : Ending(d, L)' <=> Ending(d, L)
          /\ Starting(d)' <=> Starting(d)
          /\ Working(d)' <=> Working(d)
          /\ \A k \in Cores : \A L : (At(d, k, L)' <=> At(d, k, L)) /\ (Cleared(d, k, L)' <=> Cleared(d, k, L))
        BY <2>1, <2>2, ClusterFrame
    <2>4. Position(d)' <=> Position(d)
        BY <1>2, <1>3, <1>8, <1>10, <2>3 DEF Position, Busy
    <2>5. d \in Passed' <=> d \in Passed
        BY <1>0, <1>8, <1>10, <2>3 DEF Passed
    <2> QED
        BY <2>4, <2>5
<1>11. Asleep(c, j)
    BY <1>2, <1>5, <1>9 DEF Counting, Position
<1>12. /\ \A k \in Cores : pc'[<<c, k>>] = (IF j = 0 THEN "parked" ELSE "wfi") /\ mcip'[<<c, k>>]
       /\ dma'[c] = {} /\ l1_next'[c] = j /\ ResultsUpTo(c, j)'
    BY <1>4, <1>6, <1>11 DEF Asleep, Cleared, At, ResultsUpTo
<1>13. Starting(c)' \/ Working(c)'
    <2>1. CASE j = 0
        BY <1>0, <1>3, <1>12, <2>1 DEF Starting, StartingUp, Pending, At
    <2>2. CASE j > 0
        <3>1. Fetching(c, j)'
            BY <1>0, <1>12, <2>2 DEF Fetching, Pending, At
        <3> QED
            BY <1>3, <1>12, <2>2, <3>1 DEF Working
    <2> QED
        BY <1>0, <2>1, <2>2
<1>14. Position(c)'
    BY <1>8, <1>13 DEF Position, Busy
<1>15. c \notin Passed /\ c \notin Passed'
    BY <1>9, <1>13, NotCounted DEF Passed
<1>16. Passed' = Passed
    BY <1>10, <1>15 DEF Passed
<1>17. CountRight'
    BY <1>4, <1>5, <1>16 DEF Counting, CountRight, At
<1>18. Counting'
    <2>1. ~msip' /\ host'.at \in {"wake", "wait"}
        BY <1>3, <1>4, <1>5 DEF Counting
    <2>2. \A d \in Clusters : Position(d)'
        BY <1>5, <1>10, <1>14 DEF Counting
    <2>3. Passed' # Clusters
        BY <1>15
    <2> QED
        BY <1>17, <2>1, <2>2, <2>3 DEF Counting
<1>19. TypeOK'
    <2>1. usr_data_ptr' = host'.job
        BY <1>0, <1>2, <1>3, <1>4 DEF TypeOK
    <2> QED
        BY <1>0, <1>3, <1>4, <1>7, <2>1 DEF TypeOK
<1>20. \A d \in Clusters : JobsInPlace(d)'
    BY <1>4 DEF IInv, JobsInPlace
<1> QED
    BY <1>3, <1>18, <1>19, <1>20 DEF IInv

\* ... and what the host does when it has been interrupted.
LEMMA HostInv ==
    ASSUME IInv, HostWait \/ HostClear \/ HostPost
    PROVE  IInv'
<1>0. /\ TypeOK /\ 0 \in Clusters /\ N_JOBS \in Nat
      /\ host \in [at : {"wake", "wait", "clear", "post", "done"}, job : 0 .. N_JOBS, cluster : Clusters]
    BY Numbers DEF IInv, TypeOK
<1>1. Returned
    BY DEF IInv, Counting, Elected, HostWait, HostClear, HostPost
<1>2. UNCHANGED <<mcip, cnt, pc, l1_next, l1, slot, good, job_remote, dma, result>>
    BY DEF HostWait, HostClear, HostPost, memory
<1>3. \A c \in Clusters : JobsInPlace(c)'
    BY <1>2 DEF IInv, JobsInPlace
<1>4. PICK j \in 0 .. N_JOBS : j = host.job
    BY <1>0
<1>5. \A c \in Clusters : Asleep(c, j + 1)'
    BY <1>1, <1>2, <1>4 DEF Returned, Asleep, Cleared, At, ResultsUpTo
<1>6. host.cluster = 0 /\ host.at \in {"wait", "clear", "post"}
    BY DEF IInv, HostWait, HostClear, HostPost
<1>7. CASE HostWait
    <2>1. /\ host'.at = "clear" /\ host'.job = j /\ host'.cluster = 0 /\ UNCHANGED <<usr_data_ptr, msip>>
          /\ host' \in [at : {"wake", "wait", "clear", "post", "done"}, job : 0 .. N_JOBS, cluster : Clusters]
        BY <1>0, <1>4, <1>6, <1>7 DEF HostWait
    <2>2. Returned'
        BY <1>1, <1>2, <1>5, <2>1 DEF Returned
    <2>3. TypeOK'
        BY <1>0, <1>2, <1>4, <2>1 DEF TypeOK
    <2> QED
        BY <1>3, <2>1, <2>2, <2>3 DEF IInv
<1>8. CASE HostClear
    <2>1. /\ host'.at = (IF j = N_JOBS THEN "done" ELSE "post") /\ host'.job = j /\ host'.cluster = 0
          /\ msip' = FALSE /\ UNCHANGED usr_data_ptr
          /\ host' \in [at : {"wake", "wait", "clear", "post", "done"}, job : 0 .. N_JOBS, cluster : Clusters]
        BY <1>0, <1>4, <1>6, <1>8 DEF HostClear
    <2>2. Returned'
        BY <1>0, <1>1, <1>2, <1>5, <2>1 DEF Returned
    <2>3. TypeOK'
        BY <1>0, <1>2, <1>4, <2>1 DEF TypeOK
    <2> QED
        BY <1>3, <2>1, <2>2, <2>3 DEF IInv
<1>9. CASE HostPost
    <2>0. j < N_JOBS /\ ~msip
        BY <1>1, <1>4, <1>9 DEF Returned, HostPost
    <2>1. /\ host'.at = "wake" /\ host'.job = j + 1 /\ host'.cluster = 0
          /\ usr_data_ptr' = j + 1 /\ UNCHANGED msip
          /\ host' \in [at : {"wake", "wait", "clear", "post", "done"}, job : 0 .. N_JOBS, cluster : Clusters]
        <3>1. j + 1 \in 0 .. N_JOBS
            BY <1>0, <2>0
        <3>2. /\ host' = [host EXCEPT !.at = "wake", !.job = j + 1]
              /\ usr_data_ptr' = j + 1 /\ UNCHANGED msip
            BY <1>0, <1>4, <1>9 DEF HostPost
        <3> QED
            BY <1>0, <1>6, <3>1, <3>2
    <2>2. \A c \in Clusters : ~Woken(c)' /\ Position(c)'
        <3>1. \A c \in Clusters : ~Woken(c)'
            BY <2>1, Numbers DEF Woken
        <3> QED
            BY <1>5, <2>1, <3>1 DEF Position
    <2>3. Passed' = {}
        BY <2>2 DEF Passed
    <2>4. CountRight'
        BY <1>1, <1>2, <2>3, FS_EmptySet DEF CountRight, Returned
    <2>5. Counting'
        BY <1>0, <2>0, <2>1, <2>2, <2>3, <2>4 DEF Counting
    <2>6. TypeOK'
        BY <1>0, <1>2, <2>1 DEF TypeOK
    <2> QED
        BY <1>3, <2>1, <2>5, <2>6 DEF IInv
<1> QED
    BY <1>7, <1>8, <1>9

\* The invariant holds initially: everybody sleeps, and nobody is counted.
LEMMA InitInv == Init => IInv
<1> SUFFICES ASSUME Init PROVE IInv
    OBVIOUS
<1>0. /\ DM \in Cores /\ 0 \in Clusters /\ N_JOBS \in Nat
      /\ \A c \in Clusters : c \in Nat
      /\ \A c \in Clusters, k \in Cores : <<c, k>> \in Harts
    BY Numbers
<1>1. TypeOK
    <2>1. EmptySlot \in SlotType
        BY <1>0 DEF EmptySlot, SlotType
    <2>2. l1 \in [Clusters -> [Slots -> SlotType]]
        BY <2>1 DEF Init
    <2>3. host \in [at : {"wake", "wait", "clear", "post", "done"}, job : 0 .. N_JOBS, cluster : Clusters]
          /\ usr_data_ptr = host.job
        BY <1>0 DEF Init
    <2>4. msip \in BOOLEAN /\ mcip \in [Harts -> BOOLEAN] /\ good \in [Harts -> BOOLEAN]
        BY DEF Init
    <2>5. cnt \in Nat /\ DOMAIN pc = Harts
        BY DEF Init
    <2>6. l1_next \in [Clusters -> 0 .. N_JOBS + 1] /\ slot \in [Harts -> 0 .. N_JOBS + 1]
        BY <1>0 DEF Init
    <2>7. dma \in [Clusters -> SUBSET {"job", "x", "y", "z"}] /\ job_remote \in [Clusters -> 0 .. N_JOBS]
        BY <1>0 DEF Init
    <2>8. result \in [Jobs -> [Clusters -> SUBSET Compute]]
        BY DEF Init
    <2> QED
        BY <2>2, <2>3, <2>4, <2>5, <2>6, <2>7, <2>8 DEF TypeOK, SlotType
<1>2. \A c \in Clusters : JobsInPlace(c)
    BY DEF Init, JobsInPlace, EmptySlot
<1>3. \A c \in Clusters : ~Woken(c)
    BY <1>0 DEF Init, Woken
<1>4. \A c \in Clusters : Asleep(c, 0)
    BY <1>0 DEF Init, Asleep, Cleared, At, ResultsUpTo, Jobs
<1>5. Passed = {}
    BY <1>3 DEF Passed
<1>6. At(0, DM, {"parked", "bss"})
    BY <1>0 DEF Init, At
<1>7. Counting
    BY <1>0, <1>3, <1>4, <1>5, <1>6 DEF Counting, Position, CountRight, Init
<1> QED
    BY <1>1, <1>2, <1>7 DEF IInv, Init

\* Every other step keeps it.
LEMMA NextInv ==
    ASSUME IInv, [Next]_vars, ~spoilt'
    PROVE  IInv'
<1>1. CASE Host
    BY <1>1, HostWakeInv, HostInv DEF Host
<1>2. ASSUME NEW h \in Harts, Hart(h)
      PROVE  IInv'
    <2>1. PICK c \in Clusters, k \in Cores : h = <<c, k>>
        BY Numbers
    <2> QED
        BY <1>2, <2>1, HartInv
<1>3. ASSUME NEW c \in Clusters, HwBarrier(c)
      PROVE  IInv'
    BY <1>3, BarrierInv
<1>4. ASSUME NEW c \in Clusters, Dma(c)
      PROVE  IInv'
    BY <1>4, DmaInv DEF Dma
<1>5. CASE UNCHANGED vars
    <2>0. DM \in Cores /\ host.job \in 0 .. N_JOBS /\ 0 \in Clusters
        BY Numbers DEF IInv, TypeOK
    <2>1. UNCHANGED <<host, usr_data_ptr, msip, mcip, cnt, pc, l1_next, l1, slot, good, job_remote, dma, result>>
        BY <1>5 DEF vars
    <2>2. \A d \in Clusters : SameCluster(d)
        BY <2>1 DEF SameCluster
    <2>3. \A d \in Clusters :
             /\ \A n : Asleep(d, n)' <=> Asleep(d, n)
             /\ \A L : Ending(d, L)' <=> Ending(d, L)
             /\ Starting(d)' <=> Starting(d)
             /\ Working(d)' <=> Working(d)
             /\ JobsInPlace(d)' <=> JobsInPlace(d)
             /\ \A k \in Cores : \A L : (At(d, k, L)' <=> At(d, k, L)) /\ (Cleared(d, k, L)' <=> Cleared(d, k, L))
        BY <2>0, <2>1, <2>2, ClusterFrame
    <2>4. \A d \in Clusters : Woken(d)' <=> Woken(d)
        BY <2>1 DEF Woken
    <2>5. Passed' = Passed
        BY <2>0, <2>3, <2>4 DEF Passed
    <2>6. Counting => Counting'
        BY <2>0, <2>1, <2>3, <2>4, <2>5 DEF Counting, Position, Busy, CountRight
    <2>7. PICK n : n = host.job + 1
        OBVIOUS
    <2>8. \A d \in Clusters : Elected(d) => Elected(d)'
        BY <2>0, <2>1, <2>3, <2>7 DEF Elected
    <2>9. Returned => Returned'
        BY <2>1, <2>3, <2>7 DEF Returned
    <2>10. TypeOK'
        BY <2>1 DEF IInv, TypeOK
    <2> QED
        BY <2>1, <2>3, <2>6, <2>8, <2>9, <2>10 DEF IInv
<1> QED
    BY <1>1, <1>2, <1>3, <1>4, <1>5 DEF Next

-----------------------------------------------------------------------------
\* Once one of the two races has happened, it has happened.
LEMMA SpoiltStays ==
    ASSUME [Next]_vars, spoilt
    PROVE  spoilt'
BY DEF Next, Host, HostWake, HostWait, HostClear, HostPost, Hart, Wake, Clear, Add, Reset, Interrupt,
    InitBss, InitLibs, FetchJob, StartX, StartY, StartZ, StartDma, SetPointers, UpdateNext, WaitDma,
    ReadNext, CopyArgs, Axpy, Local, Shared, HwBarrier, Dma, DmaDone, vars

\* The invariant holds in every state that neither of the two races precedes:
\* a cluster counted before cluster 0 has cleared .bss (start.c:49), or a core
\* at work with operand pointers it copied too early (offload.c:105-110).
THEOREM Invariance == Spec => [](~spoilt => IInv)
<1>1. Init => (~spoilt => IInv)
    BY InitInv
<1>2. (~spoilt => IInv) /\ [Next]_vars => (~spoilt => IInv)'
    BY NextInv, SpoiltStays
<1> QED
    BY <1>1, <1>2, PTL DEF Spec

\* The variables keep their types, until one of the two races happens: from
\* then on a core may run on with another cluster's counter or pointers.
THEOREM TypeCorrect == Spec => [](~spoilt => TypeOK)
<1>1. IInv => TypeOK
    BY DEF IInv
<1> QED
    BY <1>1, Invariance, PTL

\* A compute core past the first barrier of a job (offload.c:57-60, 71-73)
\* has the local copy of the posted job, for every number of cores and jobs,
\* unless one of the two races came before.
THEOREM JobFound == Spec => []JobLocallyAvailable
<1>1. (~spoilt => IInv) => JobLocallyAvailable
    <2> SUFFICES ASSUME IInv, NEW h \in Harts, pc[h] \in {"args", "barrier_2", "axpy"}
                 PROVE  /\ slot[h] = slot[<<h[1], DM>>]
                        /\ l1[h[1]][slot[h]].job = usr_data_ptr
        BY DEF JobLocallyAvailable
    <2>0. DM \in Cores /\ TypeOK /\ \A i \in Cores : i = DM \/ i \in Compute
        BY Numbers DEF IInv
    <2>1. PICK c \in Clusters, k \in Cores : h = <<c, k>>
        BY Numbers
    <2>2. ~\E n : Asleep(c, n)
        BY <2>1 DEF Asleep, Cleared, At
    <2>3. \A L \in SUBSET {"add", "reset", "int", "wfi"} : ~Ending(c, L)
        BY <2>0, <2>1 DEF Ending, Cleared, At
    <2>4. ~Starting(c)
        BY <2>0, <2>1 DEF Starting, StartingUp, ReadyForJobs, Pending, Cleared, At
    <2>5. Working(c)
        <3>1. ~Returned
            BY <2>2 DEF Returned
        <3>2. \A e \in Clusters : ~Elected(e)
            BY <2>2, <2>3 DEF Elected
        <3> QED
            BY <2>2, <2>3, <2>4, <3>1, <3>2 DEF IInv, Counting, Position, Busy
    <2>6. PICK j \in Jobs : j = host.job
        <3>1. host.job \in Nat /\ host.job <= N_JOBS /\ N_JOBS \in Nat
            BY <2>0, TypeFacts, Numbers
        <3> QED
            BY <2>5, <3>1 DEF Working, Jobs
    <2>7. Fetching(c, j) \/ Loading(c, j) \/ Computing(c, j) \/ CopyingOut(c, j)
        BY <2>5, <2>6 DEF Working
    <2>8. Loading(c, j) \/ Computing(c, j)
        BY <2>0, <2>1, <2>7 DEF Fetching, CopyingOut, Pending, Cleared, At
    <2>9. slot[<<c, k>>] = j /\ slot[<<c, DM>>] = j /\ l1[c][j].job = j
        BY <2>0, <2>8 DEF Loading, Computing
    <2> QED
        BY <2>0, <2>1, <2>6, <2>9, TypeFacts
<1> QED
    BY <1>1, Invariance, PTL

\* No cluster carries out a job twice, unless one of the two races came before:
\* slot s never holds another job than s.
THEOREM JobOnce == Spec => []JobRunOnce
<1>1. (~spoilt => IInv) => JobRunOnce
    BY DEF IInv, JobsInPlace, JobRunOnce
<1> QED
    BY <1>1, Invariance, PTL

\* When the host goes on after a job (wait_sw_interrupt, host offload.c), every
\* share of the result of every cluster is in L3: if one is missing, a cluster
\* was counted before .bss was cleared, or a core worked with operand pointers
\* it had copied before they were set.
THEOREM ResultsComplete == Spec => []ResultsBeforeReturn
<1>1. (~spoilt => IInv) => ResultsBeforeReturn
    <2> SUFFICES ASSUME IInv, NEW j \in Jobs,
                        j < host.job \/ (j = host.job /\ host.at \in {"clear", "post", "done"}),
                        NEW c \in Clusters
                 PROVE  result[j][c] = Compute
        BY DEF ResultsBeforeReturn, ResultsInL3
    <2>0. DM \in Cores /\ TypeOK /\ j \in Nat
        BY Numbers DEF IInv, Jobs
    <2>1. host.job \in Nat
        BY <2>0, TypeFacts
    <2>2. CASE Counting
        <3>1. j < host.job
            BY <2>2 DEF Counting
        <3>2. ResultsUpTo(c, host.job) \/ ResultsUpTo(c, host.job + 1) \/ host.job = 0
            BY <2>2 DEF Counting, Position, Busy, Starting, Working, Ending, Asleep
        <3> QED
            BY <2>0, <2>1, <3>1, <3>2 DEF ResultsUpTo
    <2>3. CASE \E e \in Clusters : Elected(e)
        <3>1. ResultsUpTo(c, host.job + 1)
            BY <2>3 DEF Elected, Ending, Asleep
        <3> QED
            BY <2>0, <2>1, <3>1 DEF ResultsUpTo
    <2>4. CASE Returned
        <3>1. ResultsUpTo(c, host.job + 1)
            BY <2>4 DEF Returned, Asleep
        <3> QED
            BY <2>0, <2>1, <3>1 DEF ResultsUpTo
    <2> QED
        BY <2>2, <2>3, <2>4 DEF IInv
<1> QED
    BY <1>1, Invariance, PTL
====
