------------------------ MODULE PartialBarrierProofs ------------------------
(***************************************************************************)
(* Proofs that snrt_partial_barrier is a barrier for every set of harts,   *)
(* every word size that can hold their number, and every number of calls.  *)
(***************************************************************************)
EXTENDS PartialBarrier, FiniteSetTheorems, TLAPS

\* Incrementing a word that is not full, and incrementing any word at all.
LEMMA WordIncrement ==
    ASSUME NEW x \in 0..(W - 1)
    PROVE  /\ (x + 1) % W \in 0..(W - 1)
           /\ x + 1 < W => (x + 1) % W = x + 1
           /\ 1 < W => (x + 1) % W # x
<1>1. W \in Nat /\ W > 0
    BY WordAssumption, HartsAssumption, FS_CardinalityType DEF n
<1>2. CASE x + 1 < W
    BY <1>1, <1>2
<1>3. CASE x + 1 = W
    BY <1>1, <1>3
<1> QED
    BY <1>1, <1>2, <1>3

\* There is at least one hart, and a word can hold the number of harts.
LEMMA HartCount == n \in Nat /\ 0 < n /\ W \in Nat /\ 1 < W
<1>1. n \in Nat
    BY HartsAssumption, FS_CardinalityType DEF n
<1>2. n # 0
    BY HartsAssumption, FS_EmptySet DEF n
<1> QED
    BY <1>1, <1>2, WordAssumption

\* The harts that have arrived are at most all harts, and as many as all
\* harts only when they are all harts.
LEMMA ArrivedCount ==
    ASSUME NEW S \in SUBSET Harts
    PROVE  /\ IsFiniteSet(S)
           /\ Cardinality(S) \in Nat
           /\ Cardinality(S) <= n
           /\ Cardinality(S) = n => S = Harts
BY HartsAssumption, FS_Subset, FS_CardinalityType DEF n

-----------------------------------------------------------------------------
\* The zeroed barrier, with no hart in it, satisfies the inductive invariant.
LEMMA InitIInv == Init => IInv
<1> SUFFICES ASSUME Init PROVE IInv
    OBVIOUS
<1>1. TypeOK
    BY HartCount DEF Init, TypeOK, Locations
<1>2. Progress /\ LastIsAlone
    BY DEF Init, Progress, LastIsAlone
<1>3. Arrived = {}
    BY DEF Init, Arrived
<1>4. CntCounts
    BY <1>3, FS_EmptySet DEF Init, CntCounts
<1> QED
    BY <1>1, <1>2, <1>4 DEF IInv

\* Every access of a hart to the barrier preserves it.
LEMMA NextIInv == IInv /\ [Next]_vars => IInv'
<1> SUFFICES ASSUME IInv, [Next]_vars PROVE IInv'
    OBVIOUS
<1> USE DEF IInv
<1>a. ASSUME NEW h \in Harts, RememberIteration(h) PROVE IInv'
    <2> USE <1>a DEF RememberIteration, Goto
    <2>1. TypeOK'
        BY DEF TypeOK, Locations
    <2>2. Progress'
        BY DEF TypeOK, Progress
    <2>3. LastIsAlone'
        BY DEF TypeOK, LastIsAlone
    <2>4. Arrived' = Arrived
        BY DEF TypeOK, Arrived, Progress
    <2>5. CntCounts'
        BY <2>4 DEF TypeOK, CntCounts
    <2> QED
        BY <2>1, <2>2, <2>3, <2>5
<1>b. ASSUME NEW h \in Harts, AddFetchCnt(h) PROVE IInv'
    <2> USE <1>b DEF AddFetchCnt, Goto
    <2>1. \A g \in Harts : pc[g] \notin {"reset", "bump"}
        BY DEF LastIsAlone
    <2>2. h \notin Arrived /\ Arrived' = Arrived \cup {h}
        BY DEF TypeOK, Arrived, Progress
    <2>3. Arrived \in SUBSET Harts /\ Arrived' \in SUBSET Harts
        BY DEF Arrived
    <2>4. cnt = Cardinality(Arrived)
        BY <2>1 DEF CntCounts
    <2>5. Cardinality(Arrived') = cnt + 1 /\ cnt + 1 <= n
        BY <2>2, <2>3, <2>4, ArrivedCount, FS_AddElement
    <2>6. cnt' = cnt + 1
        <3>1. cnt \in 0..(W - 1) /\ cnt + 1 < W
            BY <2>5, HartCount, WordAssumption DEF TypeOK
        <3>2. (cnt + 1) % W = cnt + 1
            BY <3>1, WordIncrement
        <3> QED
            BY <3>2
    <2>7. TypeOK'
        BY WordIncrement DEF TypeOK, Locations
    <2>8. Progress'
        BY DEF TypeOK, Progress
    <2>9. ASSUME cnt' = n PROVE Arrived' = Harts
        BY <2>3, <2>5, <2>6, <2>9, ArrivedCount
    <2>10. LastIsAlone'
        BY <2>1, <2>9 DEF TypeOK, LastIsAlone, Arrived
    <2>11. CntCounts'
        BY <2>1, <2>5, <2>6 DEF TypeOK, CntCounts
    <2> QED
        BY <2>7, <2>8, <2>10, <2>11
<1>c. ASSUME NEW h \in Harts, ResetCnt(h) PROVE IInv'
    <2> USE <1>c DEF ResetCnt, Goto
    <2>1. TypeOK'
        BY HartCount DEF TypeOK, Locations
    <2>2. Progress'
        BY DEF TypeOK, Progress
    <2>3. LastIsAlone'
        BY DEF TypeOK, LastIsAlone
    <2>4. CntCounts'
        BY DEF TypeOK, CntCounts
    <2> QED
        BY <2>1, <2>2, <2>3, <2>4
<1>d. ASSUME NEW h \in Harts, BumpIteration(h) PROVE IInv'
    <2> USE <1>d DEF BumpIteration, Return, Goto
    <2>1. /\ \A g \in Harts \ {h} : pc[g] = "spin" /\ entered[g] = released + 1
          /\ cnt = 0
        BY DEF LastIsAlone, CntCounts
    <2>2. iteration' # iteration
        BY WordIncrement, HartCount DEF TypeOK
    <2>3. TypeOK'
        BY WordIncrement DEF TypeOK, Locations
    <2>4. Progress'
        BY <2>1, <2>2 DEF TypeOK, Progress
    <2>5. LastIsAlone'
        BY <2>1 DEF TypeOK, LastIsAlone
    <2>6. Arrived' = {}
        BY <2>1 DEF TypeOK, Arrived
    <2>7. CntCounts'
        BY <2>1, <2>6, FS_EmptySet DEF TypeOK, CntCounts
    <2> QED
        BY <2>3, <2>4, <2>5, <2>7
<1>e. ASSUME NEW h \in Harts, LeaveSpin(h) PROVE IInv'
    <2> USE <1>e DEF LeaveSpin, Return, Goto
    <2>1. entered[h] = released /\ left[h] + 1 = released
        BY DEF Progress
    <2>2. \A g \in Harts : pc[g] \notin {"reset", "bump"}
        BY <2>1 DEF TypeOK, LastIsAlone
    <2>3. TypeOK'
        BY DEF TypeOK, Locations
    <2>4. Progress'
        BY <2>1 DEF TypeOK, Progress
    <2>5. LastIsAlone'
        BY <2>2 DEF TypeOK, LastIsAlone
    <2>6. Arrived' = Arrived
        BY <2>1 DEF TypeOK, Arrived
    <2>7. CntCounts'
        BY <2>2, <2>6 DEF TypeOK, CntCounts
    <2> QED
        BY <2>3, <2>4, <2>5, <2>7
<1>f. CASE UNCHANGED vars
    BY <1>f DEF vars, TypeOK, Progress, LastIsAlone, CntCounts, Arrived
<1> QED
    BY <1>a, <1>b, <1>c, <1>d, <1>e, <1>f DEF Next, Step

-----------------------------------------------------------------------------
\* The counter, the iteration number and the harts' locals keep their types
\* and their relation to the rounds released so far (sync.h:95-108).
THEOREM Invariance == Spec => []IInv
BY InitIInv, NextIInv, PTL DEF Spec

\* cnt and iteration stay within a word, however often the barrier is used.
THEOREM TypeCorrect == Spec => []TypeOK
<1>1. IInv => TypeOK
    BY DEF IInv
<1> QED
    BY <1>1, Invariance, PTL

\* No hart leaves snrt_partial_barrier before every hart has entered it.
THEOREM Safety == Spec => []NoEarlyExit
<1>1. IInv => NoEarlyExit
    BY DEF IInv, TypeOK, Locations, Progress, NoEarlyExit
<1> QED
    BY <1>1, Invariance, PTL

\* No hart waiting in snrt_partial_barrier can miss the release meant for it.
THEOREM ReleaseSeen == Spec => []NoMissedRelease
<1>1. IInv => NoMissedRelease
    BY DEF IInv, TypeOK, Progress, NoMissedRelease
<1> QED
    BY <1>1, Invariance, PTL

\* snrt_partial_barrier implements the abstract barrier: every step of a hart
\* is a step of AbstractBarrier or leaves entered and left alone.
THEOREM Refinement == Spec => Abstract!SafetySpec
<1>1. Init => Abstract!Init
    BY DEF Init, Abstract!Init
<1>2. ASSUME IInv, [Next]_vars PROVE [Abstract!Next]_(Abstract!vars)
    <2> USE <1>2 DEF IInv, TypeOK, Locations
    <2>1. ASSUME NEW h \in Harts, RememberIteration(h) PROVE Abstract!Enter(h)
        BY <2>1 DEF RememberIteration, Progress, Abstract!Enter
    <2>2. ASSUME NEW h \in Harts, AddFetchCnt(h) \/ ResetCnt(h)
          PROVE  UNCHANGED Abstract!vars
        BY <2>2 DEF AddFetchCnt, ResetCnt, Abstract!vars
    <2>3. ASSUME NEW h \in Harts, BumpIteration(h) PROVE Abstract!Leave({h})
        <3>1. Abstract!MayLeave(h)
            BY <2>3 DEF BumpIteration, Progress, LastIsAlone, Abstract!MayLeave
        <3>2. left' = [p \in Harts |-> IF p \in {h} THEN left[p] + 1 ELSE left[p]]
            BY <2>3 DEF BumpIteration, Return
        <3> QED
            BY <2>3, <3>1, <3>2 DEF BumpIteration, Abstract!Leave
    <2>4. ASSUME NEW h \in Harts, LeaveSpin(h) PROVE Abstract!Leave({h})
        <3>1. Abstract!MayLeave(h)
            BY <2>4 DEF LeaveSpin, Progress, Abstract!MayLeave
        <3>2. left' = [p \in Harts |-> IF p \in {h} THEN left[p] + 1 ELSE left[p]]
            BY <2>4 DEF LeaveSpin, Return
        <3> QED
            BY <2>4, <3>1, <3>2 DEF LeaveSpin, Abstract!Leave
    <2>5. CASE UNCHANGED vars
        BY <2>5 DEF vars, Abstract!vars
    <2>6. \A h \in Harts : {h} \in SUBSET Harts
        OBVIOUS
    <2> QED
        BY <2>1, <2>2, <2>3, <2>4, <2>5, <2>6 DEF Next, Step, Abstract!Next
<1> QED
    BY <1>1, <1>2, Invariance, PTL DEF Spec, Abstract!SafetySpec

=============================================================================
