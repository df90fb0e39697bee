-------------------------- MODULE AbstractBarrier --------------------------
(***************************************************************************)
(* What every barrier of the Snitch runtime promises its callers.  A       *)
(* participant calls the barrier again and again; `entered' counts the     *)
(* calls it has started, `left' the calls that have returned.  A call may  *)
(* only return once every participant has started as many calls.           *)
(*                                                                         *)
(* The software barrier of sync.h (PartialBarrier) and the hardware        *)
(* barrier of snitch_barrier.sv (HwBarrier) are shown to implement it.     *)
(***************************************************************************)
EXTENDS Naturals

CONSTANTS
    Parties,        \* the participants that synchronise
    MaxRounds       \* how many times each of them calls the barrier

VARIABLES
    entered,        \* entered[p]: calls p has started
    left            \* left[p]:    calls of p that have returned

vars == <<entered, left>>

Init ==
    /\ entered = [p \in Parties |-> 0]
    /\ left    = [p \in Parties |-> 0]

\* p starts its next call.
Enter(p) ==
    /\ entered[p] = left[p]
    /\ entered[p] < MaxRounds
    /\ entered' = [entered EXCEPT ![p] = @ + 1]
    /\ UNCHANGED left

\* p may return: everybody has started the call p is in.
MayLeave(p) == left[p] < entered[p] /\ \A q \in Parties : entered[p] <= entered[q]

\* The calls of all p in S return at the same time.
Leave(S) ==
    /\ \A p \in S : MayLeave(p)
    /\ left' = [p \in Parties |-> IF p \in S THEN left[p] + 1 ELSE left[p]]
    /\ UNCHANGED entered

Next ==
    \/ \E p \in Parties : Enter(p)
    \/ \E S \in SUBSET Parties : Leave(S)

SafetySpec == Init /\ [][Next]_vars

LeaveWith(p) == \E S \in SUBSET Parties : p \in S /\ Leave(S)

\* Nobody is left behind in a barrier that everybody has entered.
Spec == SafetySpec /\ \A p \in Parties : WF_vars(LeaveWith(p))

=============================================================================
