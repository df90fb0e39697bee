--------------------------- MODULE PartialBarrier ---------------------------
(***************************************************************************)
(* snrt_partial_barrier of sw/snRuntime/src/sync.h: a reusable software    *)
(* barrier made of an arrival counter and an iteration number, both 32-bit *)
(* words of shared memory.  The inter-cluster half of snrt_global_barrier  *)
(* is the same algorithm with the DM cores as its callers.                 *)
(*                                                                         *)
(* Each access to shared memory is one step.  The cores are in order and   *)
(* the barrier is volatile, so a step sees every earlier store.            *)
(***************************************************************************)
EXTENDS Naturals, FiniteSets

CONSTANTS
    Harts,          \* the harts that call the barrier
    W,              \* the number of values of a word (2^32 on the target)
    MaxRounds       \* how many times each hart calls the barrier

\* The parameter n of snrt_partial_barrier.
n == Cardinality(Harts)

ASSUME HartsAssumption  == IsFiniteSet(Harts) /\ Harts # {}
ASSUME WordAssumption   == W \in Nat /\ n < W
ASSUME RoundsAssumption == MaxRounds \in Nat

VARIABLES
    cnt,            \* barr->cnt
    iteration,      \* barr->iteration
    pc,             \* where each hart is in the function
    prev_it,        \* each hart's local prev_it
    entered, left,  \* history: calls started and calls returned, per hart
    released        \* history: how often the last arrival has released the rest

vars == <<cnt, iteration, pc, prev_it, entered, left, released>>

\* "call" is outside the function, the others the access that comes next.
Locations == {"call", "add", "reset", "bump", "spin"}

Init ==
    /\ cnt = 0
    /\ iteration = 0
    /\ pc = [h \in Harts |-> "call"]
    /\ prev_it = [h \in Harts |-> 0]
    /\ entered = [h \in Harts |-> 0]
    /\ left = [h \in Harts |-> 0]
    /\ released = 0

Goto(h, l) == pc' = [pc EXCEPT ![h] = l]

Return(h) ==
    /\ Goto(h, "call")
    /\ left' = [left EXCEPT ![h] = @ + 1]

-----------------------------------------------------------------------------
\* Plausible mistakes in the code, to show that the properties notice them.

\* fetch_add instead of add_fetch: the old value is compared.
FetchAddCnt(h) ==
    /\ pc[h] = "add"
    /\ cnt' = (cnt + 1) % W
    /\ Goto(h, IF cnt = n THEN "reset" ELSE "spin")
    /\ UNCHANGED <<iteration, prev_it, entered, left, released>>

\* iteration is a flag instead of a count.
RaiseIterationFlag(h) ==
    /\ pc[h] = "bump"
    /\ iteration' = 1
    /\ released' = released + 1
    /\ Return(h)
    /\ UNCHANGED <<cnt, prev_it, entered>>

\* The wait is for a raised flag, not for a change.
LeaveSpinOnFlag(h) ==
    /\ pc[h] = "spin"
    /\ iteration # 0
    /\ Return(h)
    /\ UNCHANGED <<cnt, iteration, prev_it, entered, released>>
-----------------------------------------------------------------------------
\* prev_it = barr->iteration
RememberIteration(h) ==
    /\ pc[h] = "call"
    /\ entered[h] < MaxRounds
    /\ entered' = [entered EXCEPT ![h] = @ + 1]
    /\ prev_it' = [prev_it EXCEPT ![h] = iteration]
    /\ Goto(h, "add")
    /\ UNCHANGED <<cnt, iteration, left, released>>

\* cnt = __atomic_add_fetch(&barr->cnt, 1); if (cnt == n)
AddFetchCnt(h) ==
    /\ pc[h] = "add"
    /\ cnt' = (cnt + 1) % W
    /\ Goto(h, IF cnt' = n THEN "reset" ELSE "spin")
    /\ UNCHANGED <<iteration, prev_it, entered, left, released>>

\* barr->cnt = 0
ResetCnt(h) ==
    /\ pc[h] = "reset"
    /\ cnt' = 0
    /\ Goto(h, "bump")
    /\ UNCHANGED <<iteration, prev_it, entered, left, released>>

\* __atomic_add_fetch(&barr->iteration, 1), after which the call returns
BumpIteration(h) ==
    /\ pc[h] = "bump"
    /\ iteration' = (iteration + 1) % W
    /\ released' = released + 1
    /\ Return(h)
    /\ UNCHANGED <<cnt, prev_it, entered>>

\* The exit of while (prev_it == barr->iteration); staying in it is a stutter.
LeaveSpin(h) ==
    /\ pc[h] = "spin"
    /\ prev_it[h] # iteration
    /\ Return(h)
    /\ UNCHANGED <<cnt, iteration, prev_it, entered, released>>

Step(h) ==
    \/ RememberIteration(h)
    \/ AddFetchCnt(h)
    \/ ResetCnt(h)
    \/ BumpIteration(h)
    \/ LeaveSpin(h)

Next == \E h \in Harts : Step(h)

\* Every hart keeps executing instructions.
Spec == Init /\ [][Next]_vars /\ \A h \in Harts : WF_vars(Step(h))

-----------------------------------------------------------------------------
TypeOK ==
    /\ cnt \in 0..(W - 1)
    /\ iteration \in 0..(W - 1)
    /\ pc \in [Harts -> Locations]
    /\ prev_it \in [Harts -> 0..(W - 1)]
    /\ entered \in [Harts -> Nat]
    /\ left \in [Harts -> Nat]
    /\ released \in Nat

\* No call of the barrier returns before every hart has made as many calls:
\* neither the reuse of cnt for the next round nor the wrap-around of
\* iteration lets a hart through early (sync.h:95-108).
NoEarlyExit == \A h, g \in Harts : left[h] <= entered[g]

\* A hart that a release was meant for cannot miss it.  Between the store to
\* iteration and its next load of it, the other harts can run on into the
\* next call but never complete it, so iteration still differs from prev_it.
NoMissedRelease ==
    \A h \in Harts :
        (pc[h] = "spin" /\ entered[h] <= released) => prev_it[h] # iteration

\* The barrier is what AbstractBarrier says a barrier is, liveness included.
Abstract == INSTANCE AbstractBarrier WITH Parties <- Harts
ImplementsBarrier == Abstract!Spec

-----------------------------------------------------------------------------
\* The inductive invariant behind NoEarlyExit and NoMissedRelease.

\* The harts that have been counted for the round in progress.
Arrived == {h \in Harts : pc[h] \in {"reset", "bump", "spin"}
                          /\ entered[h] = released + 1}

\* How far each hart is relative to the rounds released so far.
Progress ==
    \A h \in Harts :
        /\ pc[h] = "call" => entered[h] = released /\ left[h] = released
        /\ pc[h] \in {"add", "reset", "bump"} =>
              /\ entered[h] = released + 1
              /\ left[h] = released
              /\ prev_it[h] = iteration
        /\ pc[h] = "spin" =>
              \/ /\ entered[h] = released + 1
                 /\ left[h] = released
                 /\ prev_it[h] = iteration
              \/ /\ entered[h] = released
                 /\ left[h] + 1 = released
                 /\ prev_it[h] # iteration

\* The hart that takes the round down is the last one, and the only one.
LastIsAlone ==
    \A h \in Harts :
        pc[h] \in {"reset", "bump"} =>
            \A g \in Harts \ {h} : pc[g] = "spin" /\ entered[g] = released + 1

\* The counter counts the arrivals, until the last one has cleared it.
CntCounts ==
    cnt = IF \E h \in Harts : pc[h] = "bump" THEN 0 ELSE Cardinality(Arrived)

IInv == TypeOK /\ Progress /\ LastIsAlone /\ CntCounts

=============================================================================
