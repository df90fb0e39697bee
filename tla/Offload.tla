------------------------------- MODULE Offload -------------------------------
(***************************************************************************)
(* The offload application of Occamy: the CVA6 host (host/apps/offload)    *)
(* wakes the Snitch clusters with cluster interrupts, once to start them   *)
(* up and then once per job; the clusters (device/apps/offload, started by *)
(* snrt_main of start.c) carry the job out and the last of them sends the  *)
(* host a software interrupt (return_to_cva6 of occamy_device.h).          *)
(*                                                                         *)
(* In a cluster the DM core copies the job and its operands into the       *)
(* cluster's memory and the result out of it; the compute cores work on    *)
(* them.  They meet in the hardware barrier, and find each other's data    *)
(* through the L1 allocator's next pointer.  Every job uses the memory     *)
(* after the previous one, here a slot.                                    *)
(***************************************************************************)
EXTENDS Naturals, FiniteSets

CONSTANTS
    N_CLUSTERS,     \* number of clusters
    Compute,        \* the compute cores of each cluster
    N_JOBS          \* number of jobs the host sends

ASSUME JobsAssumption == N_JOBS \in Nat \ {0} /\ N_CLUSTERS \in Nat \ {0}

Clusters == 0 .. N_CLUSTERS - 1
DM    == "dm"
Cores == Compute \cup {DM}

ASSUME ComputeAssumption == DM \notin Compute

Harts == Clusters \X Cores
IsDM(h) == h[2] = DM
Jobs  == 1 .. N_JOBS
Slots == 1 .. N_JOBS + 1

VARIABLES
    host,           \* where the host is, its job and the cluster it wakes next
    usr_data_ptr,   \* the job posted in the communication buffer (0: none)
    msip,           \* the host's software interrupt is pending
    mcip,           \* the cluster interrupts pending, per hart
    cnt,            \* _snrt_barrier.cnt, in .bss
    pc,             \* where each hart is
    l1_next,        \* per cluster: the next pointer of the L1 allocator (0: unset)
    l1,             \* per cluster: the contents of each slot
    slot,           \* per hart: its pointer to the local copy of the job
    good,           \* per hart: the operand pointers it copied were set
    job_remote,     \* per cluster: the DM core's pointer to the posted job (0: unset)
    dma,            \* per cluster: the transfers under way
    result,         \* per job and cluster: whose share of z has arrived in L3
    spoilt          \* history: a cluster was counted before .bss was cleared, or
                    \* a core worked with operand pointers copied before they were set

vars == <<host, usr_data_ptr, msip, mcip, cnt, pc, l1_next, l1, slot, good, job_remote, dma, result,
          spoilt>>
memory == <<l1_next, l1, slot, good, job_remote, dma, result>>

EmptySlot == [job |-> 0, x |-> FALSE, y |-> FALSE, pointers |-> FALSE, z |-> {}]

\* The harts are parked in the boot ROM, and .bss holds anything.
Init ==
    /\ host = [at |-> "wake", job |-> 0, cluster |-> 0]
    /\ usr_data_ptr = 0
    /\ msip = FALSE
    /\ mcip = [h \in Harts |-> FALSE]
    /\ cnt \in 0..1
    /\ pc = [h \in Harts |-> "parked"]
    /\ l1_next = [c \in Clusters |-> 0]
    /\ l1 = [c \in Clusters |-> [s \in Slots |-> EmptySlot]]
    /\ slot = [h \in Harts |-> 0]
    /\ good = [h \in Harts |-> FALSE]
    /\ job_remote = [c \in Clusters |-> 0]
    /\ dma = [c \in Clusters |-> {}]
    /\ spoilt = FALSE
    /\ result = [j \in Jobs |-> [c \in Clusters |-> {}]]

(***************************************************************************)
(* The host.                                                               *)
(***************************************************************************)
\* wakeup_snitches_cl: one store per cluster sets the interrupts of its harts
HostWake ==
    /\ host.at = "wake"
    /\ mcip' = [h \in Harts |-> mcip[h] \/ h[1] = host.cluster]
    /\ host' = IF host.cluster = N_CLUSTERS - 1
                 THEN [host EXCEPT !.at = "wait", !.cluster = 0]
                 ELSE [host EXCEPT !.cluster = @ + 1]
    /\ UNCHANGED <<usr_data_ptr, msip, cnt, pc, memory, spoilt>>

\* wait_sw_interrupt
HostWait ==
    /\ host.at = "wait"
    /\ msip
    /\ host' = [host EXCEPT !.at = "clear"]
    /\ UNCHANGED <<usr_data_ptr, msip, mcip, cnt, pc, memory, spoilt>>

\* clear_sw_interrupt(0)
HostClear ==
    /\ host.at = "clear"
    /\ msip' = FALSE
    /\ host' = [host EXCEPT !.at = IF host.job = N_JOBS THEN "done" ELSE "post"]
    /\ UNCHANGED <<usr_data_ptr, mcip, cnt, pc, memory, spoilt>>

\* comm_buffer.usr_data_ptr = &jobs[i]
HostPost ==
    /\ host.at = "post"
    /\ host' = [host EXCEPT !.at = "wake", !.job = @ + 1]
    /\ usr_data_ptr' = host.job + 1
    /\ UNCHANGED <<msip, mcip, cnt, pc, memory, spoilt>>

Host == HostWake \/ HostWait \/ HostClear \/ HostPost

-----------------------------------------------------------------------------
\* Hart h goes from l to m.
Goto(h, l, m) == pc[h] = l /\ pc' = [pc EXCEPT ![h] = m]

\* Hart h does not touch what the host and the other clusters share, or
\* interrupts; or it touches nothing but those.
outside == <<host, usr_data_ptr, msip, mcip, cnt, result>>
Local  == UNCHANGED <<outside, job_remote, spoilt>>
Shared == UNCHANGED <<host, usr_data_ptr, memory, spoilt>>

-----------------------------------------------------------------------------
\* Plausible mistakes in the code, to show that the properties notice them.

\* post_wakeup_cl is forgotten.
ClearForgotten(h) ==
    /\ \/ Goto(h, "clear_first", "sync_all")
       \/ Goto(h, "clear", IF IsDM(h) THEN "fetch" ELSE "l1_next")
    /\ UNCHANGED <<mcip, msip, cnt>> /\ Shared

\* The last cluster does not reset the counter.
ResetForgotten(h) ==
    /\ Goto(h, "reset", "int")
    /\ UNCHANGED <<msip, mcip, cnt>> /\ Shared

\* The L1 allocator is updated before the barrier with the compute cores.
StartXUpdates(h) ==
    /\ Goto(h, "start_x", "barrier_1")
    /\ dma' = [dma EXCEPT ![h[1]] = @ \cup {"x"}]
    /\ l1_next' = [l1_next EXCEPT ![h[1]] = slot[h] + 1]
    /\ Local /\ UNCHANGED <<l1, slot, good>>

\* The DM core does not wait for the result to be copied out.
WaitDmaNotLast(h) ==
    /\ \/ Goto(h, "wait_job", "start_x") /\ dma[h[1]] = {}
       \/ Goto(h, "wait_operands", "barrier_2") /\ dma[h[1]] = {}
       \/ Goto(h, "wait_z", "add")
    /\ Local /\ UNCHANGED <<l1_next, l1, slot, good, dma>>
-----------------------------------------------------------------------------
(***************************************************************************)
(* Interrupts, and the synchronisation of the harts.                       *)
(***************************************************************************)
\* wfi ends when the interrupt is, or already was, pending.
Wake(h) ==
    /\ mcip[h]
    /\ \/ Goto(h, "parked", IF IsDM(h) THEN "bss" ELSE "pre")
       \/ Goto(h, "wfi", "clear")
    /\ UNCHANGED <<msip, mcip, cnt>> /\ Shared

\* post_wakeup_cl
Clear(h) ==
    /\ \/ Goto(h, "clear_first", "sync_all")
       \/ Goto(h, "clear", IF IsDM(h) THEN "fetch" ELSE "l1_next")
    /\ mcip' = [mcip EXCEPT ![h] = FALSE]
    /\ UNCHANGED <<msip, cnt>> /\ Shared

\* The hardware barrier.  Whoever is the last to load from it lets all
\* harts of the cluster on.
Barriers == {"pre", "sync_all", "barrier_1", "barrier_2", "barrier_3"}

After(h) ==
    CASE pc[h] = "pre"       -> "clear_first"
      [] pc[h] = "sync_all"  -> IF IsDM(h) THEN "add" ELSE "wfi"
      [] pc[h] = "barrier_1" -> IF IsDM(h) THEN "start_y" ELSE "args"
      [] pc[h] = "barrier_2" -> IF IsDM(h) THEN "barrier_3" ELSE "axpy"
      [] pc[h] = "barrier_3" -> IF IsDM(h) THEN "start_z" ELSE "wfi"

HwBarrier(c) ==
    /\ \A k \in Cores : pc[<<c, k>>] \in Barriers
    /\ pc' = [h \in Harts |-> IF h[1] = c THEN After(h) ELSE pc[h]]
    /\ UNCHANGED <<msip, mcip, cnt>> /\ Shared

\* return_to_cva6: the last DM core resets the counter and interrupts the host.
\* Nothing makes a cluster wait for cluster 0 to have cleared the counter.
Add(h) ==
    /\ cnt' = cnt + 1
    /\ Goto(h, "add", IF cnt' = N_CLUSTERS THEN "reset" ELSE "wfi")
    /\ spoilt' = (spoilt \/ pc[<<0, DM>>] \in {"parked", "bss"})
    /\ UNCHANGED <<host, usr_data_ptr, msip, mcip, memory>>

Reset(h) ==
    /\ Goto(h, "reset", "int")
    /\ cnt' = 0
    /\ UNCHANGED <<msip, mcip>> /\ Shared

\* snrt_int_sw_set(0)
Interrupt(h) ==
    /\ Goto(h, "int", "wfi")
    /\ msip' = TRUE
    /\ UNCHANGED <<mcip, cnt>> /\ Shared

(***************************************************************************)
(* snrt_main, as far as harts share memory in it.                          *)
(***************************************************************************)
\* snrt_init_bss: "Only one core needs to perform the initialization"
InitBss(h) ==
    /\ Goto(h, "bss", "libs")
    /\ cnt' = IF h[1] = 0 THEN 0 ELSE cnt
    /\ UNCHANGED <<msip, mcip>> /\ Shared

\* snrt_init_cls and snrt_init_libs, by the DM core of each cluster
InitLibs(h) ==
    /\ Goto(h, "libs", "pre")
    /\ l1_next' = [l1_next EXCEPT ![h[1]] = 1]
    /\ Local /\ UNCHANGED <<l1, slot, good, dma>>

(***************************************************************************)
(* The DM core's job.                                                      *)
(***************************************************************************)
StartDma(h, l, t, m) ==
    /\ Goto(h, l, m)
    /\ dma' = [dma EXCEPT ![h[1]] = @ \cup {t}]
    /\ UNCHANGED <<outside, spoilt, l1_next, l1, good>>

\* The DM core reads the pointer to the posted job.  The local job pointer is where the next free memory is.
FetchJob(h) ==
    /\ StartDma(h, "fetch", "job", "wait_job")
    /\ job_remote' = [job_remote EXCEPT ![h[1]] = usr_data_ptr]
    /\ slot' = [slot EXCEPT ![h] = l1_next[h[1]]]

StartX(h) == StartDma(h, "start_x", "x", "barrier_1") /\ UNCHANGED <<slot, job_remote>>
StartY(h) == StartDma(h, "start_y", "y", "pointers") /\ UNCHANGED <<slot, job_remote>>
StartZ(h) == StartDma(h, "start_z", "z", "wait_z") /\ UNCHANGED <<slot, job_remote>>

SetPointers(h) ==
    /\ Goto(h, "pointers", "update_next")
    /\ l1' = [l1 EXCEPT ![h[1]][slot[h]].pointers = TRUE]
    /\ Local /\ UNCHANGED <<l1_next, slot, good, dma>>

\* snrt_l1_update_next
UpdateNext(h) ==
    /\ Goto(h, "update_next", "wait_operands")
    /\ l1_next' = [l1_next EXCEPT ![h[1]] = slot[h] + 1]
    /\ Local /\ UNCHANGED <<l1, slot, good, dma>>

\* snrt_dma_wait_all
WaitDma(h) ==
    /\ dma[h[1]] = {}
    /\ \/ Goto(h, "wait_job", "start_x")
       \/ Goto(h, "wait_operands", "barrier_2")
       \/ Goto(h, "wait_z", "add")
    /\ Local /\ UNCHANGED <<l1_next, l1, slot, good, dma>>

\* A transfer of cluster c completes.
DmaDone(c, t) ==
    LET s == slot[<<c, DM>>]
        j == l1[c][s].job
    IN  /\ t \in dma[c]
        /\ dma' = [dma EXCEPT ![c] = @ \ {t}]
        /\ l1' = CASE t = "job" -> [l1 EXCEPT ![c][s].job = job_remote[c]]
                   [] t = "x"   -> [l1 EXCEPT ![c][s].x = TRUE]
                   [] t = "y"   -> [l1 EXCEPT ![c][s].y = TRUE]
                   [] t = "z"   -> l1
        /\ result' = IF t = "z" THEN [result EXCEPT ![j][c] = l1[c][s].z] ELSE result
        /\ UNCHANGED <<host, usr_data_ptr, msip, mcip, cnt, pc, l1_next, slot, good, job_remote, spoilt>>

(***************************************************************************)
(* A compute core's job.                                                   *)
(***************************************************************************)
\* job_local = snrt_l1_next()
ReadNext(h) ==
    /\ Goto(h, "l1_next", "barrier_1")
    /\ slot' = [slot EXCEPT ![h] = l1_next[h[1]]]
    /\ Local /\ UNCHANGED <<l1_next, l1, good, dma>>

\* args = axpy_job->args, the operand pointers among them
CopyArgs(h) ==
    /\ Goto(h, "args", "barrier_2")
    /\ good' = [good EXCEPT ![h] = l1[h[1]][slot[h]].pointers]
    /\ Local /\ UNCHANGED <<l1_next, l1, slot, dma>>

\* The hart's share of z, right if the operands are there and the pointers
\* to them were set when it copied them.  If they were not, it stores
\* wherever they point: its share is not computed, and nothing is claimed
\* of the memory from then on.
Axpy(h) ==
    LET s == l1[h[1]][slot[h]]
    IN  /\ Goto(h, "axpy", "barrier_3")
        /\ l1' = [l1 EXCEPT ![h[1]][slot[h]].z =
                      IF good[h] /\ s.x /\ s.y THEN @ \cup {h[2]} ELSE @]
        /\ spoilt' = (spoilt \/ ~good[h])
        /\ UNCHANGED <<outside, l1_next, slot, good, job_remote, dma>>

Hart(h) ==
    \/ Wake(h) \/ Clear(h) \/ Add(h) \/ Reset(h) \/ Interrupt(h) \/ InitBss(h)
    \/ InitLibs(h) \/ FetchJob(h) \/ StartX(h) \/ StartY(h) \/ StartZ(h)
    \/ SetPointers(h) \/ UpdateNext(h) \/ WaitDma(h) \/ ReadNext(h)
    \/ CopyArgs(h) \/ Axpy(h)

Dma(c) == \E t \in dma[c] : DmaDone(c, t)

Next ==
    \/ Host
    \/ \E h \in Harts : Hart(h)
    \/ \E c \in Clusters : HwBarrier(c) \/ Dma(c)

\* Host and harts keep executing, the barrier releases, transfers complete.
Spec ==
    /\ Init /\ [][Next]_vars
    /\ WF_vars(Host)
    /\ \A h \in Harts : WF_vars(Hart(h))
    /\ \A c \in Clusters : WF_vars(HwBarrier(c)) /\ WF_vars(Dma(c))

-----------------------------------------------------------------------------
\* A compute core that is past the first barrier of a job looks at the slot
\* its DM core has copied the posted job to: the update of the L1 allocator
\* comes neither too early nor too late (offload.c:57-60, 71-73).  This and
\* what follows is only put in doubt by the two races spoilt records.
JobLocallyAvailable ==
    ~spoilt => \A h \in Harts : pc[h] \in {"args", "barrier_2", "axpy"} =>
                   /\ slot[h] = slot[<<h[1], DM>>]
                   /\ l1[h[1]][slot[h]].job = usr_data_ptr

\* No cluster carries out a job twice: a hart is woken once per wake-up of
\* the host, although it may be awake when it comes.
JobRunOnce ==
    ~spoilt => \A c \in Clusters : \A s, t \in Slots :
                   (l1[c][s].job # 0 /\ l1[c][s].job = l1[c][t].job) => s = t

\* "make sure results are available before DMA starts transfer to L3"
\* (offload.c:86-87): when the host goes on, every core's share of the result
\* of every cluster is in L3.  Does not hold as it stands: a core may copy the
\* operand pointers before they are set (offload.c:105, 67-69).
ResultsInL3 ==
    \A j \in Jobs :
        (j < host.job \/ (j = host.job /\ host.at \in {"clear", "post", "done"})) =>
            \A c \in Clusters : result[j][c] = Compute

\* It holds unless one of the two races has happened: the barriers, the
\* counting of the clusters and the interrupts bring every share to L3.
ResultsBeforeReturn == ~spoilt => ResultsInL3

\* "Wait for snRuntime initialization to be over" (host/apps/offload.c:36):
\* the start-up and every job come to an end.  Does not hold as it stands: a
\* cluster may be counted before cluster 0 clears the counter (start.c:49).
HostReturns == <>(host.at = "done")

\* It holds unless one of the two races happens: no wake-up of a hart and no
\* interrupt of the host is lost.
HostFinishes == <>(host.at = "done" \/ spoilt)

-----------------------------------------------------------------------------
(***************************************************************************)
(* The inductive invariant.  A round is the start-up or one job: the host  *)
(* wakes the clusters one by one, and goes on when the last is done.       *)
(***************************************************************************)
SlotType == [job : 0 .. N_JOBS, x : BOOLEAN, y : BOOLEAN, pointers : BOOLEAN, z : SUBSET Compute]

TypeOK ==
    /\ host \in [at : {"wake", "wait", "clear", "post", "done"}, job : 0 .. N_JOBS,
                 cluster : Clusters]
    /\ usr_data_ptr = host.job /\ msip \in BOOLEAN /\ mcip \in [Harts -> BOOLEAN] /\ cnt \in Nat
    /\ DOMAIN pc = Harts
    /\ l1_next \in [Clusters -> 0 .. N_JOBS + 1]
    /\ l1 \in [Clusters -> [Slots -> SlotType]]
    /\ slot \in [Harts -> 0 .. N_JOBS + 1]
    /\ good \in [Harts -> BOOLEAN]
    /\ job_remote \in [Clusters -> 0 .. N_JOBS]
    /\ dma \in [Clusters -> SUBSET {"job", "x", "y", "z"}]
    /\ result \in [Jobs -> [Clusters -> SUBSET Compute]]

\* Hart k of cluster c is at one of the places L, its interrupt pending or not.
At(c, k, L)      == pc[<<c, k>>] \in L
Pending(c, k, L) == At(c, k, L) /\ mcip[<<c, k>>]
Cleared(c, k, L) == At(c, k, L) /\ ~mcip[<<c, k>>]

\* The results of the jobs before j, and the jobs in the memory of cluster c.
ResultsUpTo(c, j) == \A i \in Jobs : i < j => result[i][c] = Compute
JobsInPlace(c)    == \A s \in Slots : l1[c][s].job \in {0, s}

\* Cluster c sleeps after n rounds.
Asleep(c, n) ==
    /\ \A k \in Cores : Cleared(c, k, {IF n = 0 THEN "parked" ELSE "wfi"})
    /\ dma[c] = {} /\ l1_next[c] = n /\ ResultsUpTo(c, n)

\* Cluster c is in snrt_main: before or behind the first barrier.
StartingUp(c) ==
    /\ \A k \in Compute : Pending(c, k, {"parked", "pre"})
    /\ Pending(c, DM, {"parked", "bss", "libs", "pre"})
    /\ At(c, DM, {"pre"}) => l1_next[c] = 1
ReadyForJobs(c) ==
    /\ \A k \in Cores : Pending(c, k, {"clear_first"}) \/ Cleared(c, k, {"sync_all"})
    /\ l1_next[c] = 1
Starting(c) == host.job = 0 /\ dma[c] = {} /\ (StartingUp(c) \/ ReadyForJobs(c))

\* Transfer t of cluster c has arrived, in which case p.
Arrived(c, t, p) == t \notin dma[c] => p

\* Cluster c is in job j, up to the first barrier.
Fetching(c, j) ==
    /\ \A k \in Compute :
          \/ Pending(c, k, {"wfi", "clear"}) \/ Cleared(c, k, {"l1_next"})
          \/ Cleared(c, k, {"barrier_1"}) /\ slot[<<c, k>>] = j
    /\ \/ Pending(c, DM, {"wfi", "clear"}) /\ dma[c] = {}
       \/ Cleared(c, DM, {"fetch"}) /\ dma[c] = {}
       \/ /\ Cleared(c, DM, {"wait_job", "start_x", "barrier_1"}) /\ slot[<<c, DM>>] = j
          /\ dma[c] \subseteq CASE At(c, DM, {"wait_job"}) -> {"job"}
                                [] At(c, DM, {"start_x"})  -> {}
                                [] OTHER -> {"x"}
          /\ At(c, DM, {"wait_job"}) => job_remote[c] = j
          /\ Arrived(c, "job", l1[c][j].job = j)
          /\ At(c, DM, {"barrier_1"}) => Arrived(c, "x", l1[c][j].x)
    /\ l1_next[c] = j

\* Up to the second: the operands arrive.
Loading(c, j) ==
    /\ \A k \in Compute : Cleared(c, k, {"args", "barrier_2"}) /\ slot[<<c, k>>] = j
    /\ Cleared(c, DM, {"start_y", "pointers", "update_next", "wait_operands", "barrier_2"})
    /\ slot[<<c, DM>>] = j /\ l1[c][j].job = j
    /\ dma[c] \subseteq CASE At(c, DM, {"start_y"})   -> {"x"}
                          [] At(c, DM, {"barrier_2"}) -> {}
                          [] OTHER -> {"x", "y"}
    /\ Arrived(c, "x", l1[c][j].x)
    /\ ~At(c, DM, {"start_y"}) => Arrived(c, "y", l1[c][j].y)
    /\ l1_next[c] = IF At(c, DM, {"wait_operands", "barrier_2"}) THEN j + 1 ELSE j

\* Up to the third: the compute cores work.
Computing(c, j) ==
    /\ \A k \in Compute : /\ Cleared(c, k, {"axpy", "barrier_3"}) /\ slot[<<c, k>>] = j
                          /\ At(c, k, {"barrier_3"}) => k \in l1[c][j].z
    /\ Cleared(c, DM, {"barrier_3"})
    /\ slot[<<c, DM>>] = j /\ l1[c][j].job = j /\ l1[c][j].x /\ l1[c][j].y
    /\ dma[c] = {} /\ l1_next[c] = j + 1

\* Behind it: the result is copied out.
CopyingOut(c, j) ==
    /\ \A k \in Compute : Cleared(c, k, {"wfi"})
    /\ Cleared(c, DM, {"start_z", "wait_z"})
    /\ slot[<<c, DM>>] = j /\ l1[c][j].job = j /\ l1[c][j].z = Compute
    /\ dma[c] \subseteq (IF At(c, DM, {"wait_z"}) THEN {"z"} ELSE {})
    /\ At(c, DM, {"wait_z"}) => Arrived(c, "z", result[j][c] = Compute)
    /\ l1_next[c] = j + 1

Working(c) ==
    LET j == host.job
    IN  /\ j > 0 /\ ResultsUpTo(c, j)
        /\ Fetching(c, j) \/ Loading(c, j) \/ Computing(c, j) \/ CopyingOut(c, j)

\* Cluster c is through the round, up to return_to_cva6, where its DM core is at L.
Ending(c, L) ==
    /\ \A k \in Compute : Cleared(c, k, {"wfi"})
    /\ Cleared(c, DM, L)
    /\ dma[c] = {} /\ l1_next[c] = host.job + 1 /\ ResultsUpTo(c, host.job + 1)

\* The host has woken cluster c in this round.
Woken(c) == host.at = "wait" \/ (host.at = "wake" /\ c < host.cluster)

\* Before that it sleeps, after it it works.
Busy(c)     == Starting(c) \/ Working(c) \/ Ending(c, {"add", "wfi"})
Position(c) == IF Woken(c) THEN Busy(c) ELSE Asleep(c, host.job)

\* The clusters that have been counted in this round; nobody is before .bss
\* has been cleared.
Passed == {c \in Clusters : Woken(c) /\ Cleared(c, DM, {"wfi"})}

CountRight == IF At(0, DM, {"parked", "bss"}) THEN Passed = {} ELSE cnt = Cardinality(Passed)

\* The round is not over.
Counting ==
    /\ host.at \in {"wake", "wait"} /\ ~msip
    /\ \A c \in Clusters : Position(c)
    /\ Passed # Clusters
    /\ CountRight

\* The last cluster is about to interrupt the host.
Elected(c) ==
    /\ host.at = "wait" /\ ~msip
    /\ \A d \in Clusters \ {c} : Asleep(d, host.job + 1)
    /\ Ending(c, {"reset", "int"})
    /\ At(c, DM, {"int"}) => cnt = 0

\* The host knows, or is interrupted.
Returned ==
    /\ (host.at = "wait" /\ msip) \/ host.at \in {"clear", "post", "done"}
    /\ host.at = "post" => host.job < N_JOBS
    /\ host.at \in {"post", "done"} => ~msip
    /\ \A c \in Clusters : Asleep(c, host.job + 1)
    /\ cnt = 0

\* It is inductive as long as neither race has happened.
IInv ==
    /\ TypeOK
    /\ host.at # "wake" => host.cluster = 0
    /\ \A c \in Clusters : JobsInPlace(c)
    /\ Counting \/ (\E c \in Clusters : Elected(c)) \/ Returned

=============================================================================
