-------------------------------- MODULE Mutex --------------------------------
(***************************************************************************)
(* The spin lock of sw/snRuntime/src/sync.h: one word, taken by swapping   *)
(* in a 1 (snrt_mutex_acquire), optionally after seeing it at 0            *)
(* (snrt_mutex_ttas_acquire), and released by swapping in a 0.  Harts use  *)
(* both ways of taking it on the same word.                                *)
(***************************************************************************)
EXTENDS Naturals

CONSTANTS
    Harts,          \* the harts that use the lock
    MaxAcquires     \* how often each of them takes it

ASSUME AcquiresAssumption == MaxAcquires \in Nat

VARIABLES
    mtx,            \* *pmtx
    pc,             \* where each hart is
    acquires        \* history: how often each hart has called an acquire

lock_vars == <<mtx, pc, acquires>>

\* "out": outside; "test": in the load loop of the ttas variant; "swap": in
\* the swap loop of either variant; "cs": the lock is held.
Locations == {"out", "test", "swap", "cs"}

LockInit ==
    /\ mtx = 0
    /\ pc = [h \in Harts |-> "out"]
    /\ acquires = [h \in Harts |-> 0]

Goto(h, l) == pc' = [pc EXCEPT ![h] = l]

-----------------------------------------------------------------------------
\* Plausible mistakes in the code, to show that the properties notice them.

\* The ttas variant takes the lock with a plain store after its test.
TestFreeStore(h) ==
    /\ pc[h] = "test"
    /\ mtx = 0
    /\ Goto(h, "cs")
    /\ UNCHANGED <<mtx, acquires>>

\* The release swaps in the value that takes the lock.
KeepLocked(h) ==
    /\ pc[h] = "cs"
    /\ mtx' = 1
    /\ Goto(h, "out")
    /\ UNCHANGED acquires
-----------------------------------------------------------------------------

\* snrt_mutex_acquire is called: t0 = 1.
Acquire(h) ==
    /\ pc[h] = "out"
    /\ acquires[h] < MaxAcquires
    /\ acquires' = [acquires EXCEPT ![h] = @ + 1]
    /\ Goto(h, "swap")
    /\ UNCHANGED mtx

\* snrt_mutex_ttas_acquire is called.
TtasAcquire(h) ==
    /\ pc[h] = "out"
    /\ acquires[h] < MaxAcquires
    /\ acquires' = [acquires EXCEPT ![h] = @ + 1]
    /\ Goto(h, "test")
    /\ UNCHANGED mtx

\* lw t0 / bnez t0: the load that sees the lock free ends the loop.
TestFree(h) ==
    /\ pc[h] = "test"
    /\ mtx = 0
    /\ Goto(h, "swap")
    /\ UNCHANGED <<mtx, acquires>>

\* amoswap.w.aq / bnez: the swap that returns 0 has taken the lock.  A swap
\* that returns 1 leaves the word at 1, t0 at 1 and the hart in the loop.
Swap(h) ==
    /\ pc[h] = "swap"
    /\ mtx' = 1
    /\ Goto(h, IF mtx = 0 THEN "cs" ELSE "swap")
    /\ UNCHANGED acquires

\* snrt_mutex_release: amoswap.w.rl x0, x0
Release(h) ==
    /\ pc[h] = "cs"
    /\ mtx' = 0
    /\ Goto(h, "out")
    /\ UNCHANGED acquires

LockNext == \E h \in Harts :
    \/ Acquire(h) \/ TtasAcquire(h) \/ TestFree(h) \/ Swap(h) \/ Release(h)

\* Every hart keeps executing; nothing makes the lock itself fair.
LockSpec ==
    /\ LockInit /\ [][LockNext]_lock_vars
    /\ \A h \in Harts :
          WF_lock_vars(Acquire(h) \/ TtasAcquire(h) \/ TestFree(h) \/ Swap(h) \/ Release(h))

-----------------------------------------------------------------------------
LockTypeOK ==
    /\ mtx \in {0, 1}
    /\ pc \in [Harts -> Locations]
    /\ acquires \in [Harts -> 0..MaxAcquires]

\* At most one hart is between an acquire of either kind and its release.
MutualExclusion == \A g, h \in Harts : pc[g] = "cs" /\ pc[h] = "cs" => g = h

\* The word is 1 exactly while some hart holds the lock, so a lock that is
\* free can always be taken.
HeldIffSet == mtx = 1 <=> \E h \in Harts : pc[h] = "cs"

\* With finitely many acquires, every hart gets the lock each time it asks.
EventuallyAllServed ==
    <>[](\A h \in Harts : pc[h] = "out" /\ acquires[h] = MaxAcquires)

LockIInv == LockTypeOK /\ MutualExclusion /\ HeldIffSet

=============================================================================
