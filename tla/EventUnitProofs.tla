-------------------------- MODULE EventUnitProofs --------------------------
(***************************************************************************)
(* Proofs about the event unit, for every number of cores and every        *)
(* sequence of calls of the master.                                        *)
(***************************************************************************)
EXTENDS EventUnit, FiniteSetTheorems, SequenceTheorems, TLAPS

\* The master and the workers are the cores.
LEMMA CoreFacts ==
    /\ Cores = Workers \cup {0} /\ 0 \notin Workers /\ 0 \in Cores /\ Workers \subseteq Cores
    /\ Workers \subseteq Nat /\ IsFiniteSet(Workers) /\ Cardinality(Workers) = N - 1
    /\ \A S \in SUBSET Workers :
          /\ IsFiniteSet(S) /\ Cardinality(S) \in Nat
          /\ Cardinality(S) = N - 1 => S = Workers
<1>1. Cores = Workers \cup {0} /\ 0 \notin Workers /\ 0 \in Cores /\ Workers \subseteq Nat
    BY CoresAssumption DEF Cores, Workers
<1>2. IsFiniteSet(Workers) /\ Cardinality(Workers) = N - 1
    BY CoresAssumption, FS_Interval DEF Workers
<1>3. ASSUME NEW S \in SUBSET Workers
      PROVE  /\ IsFiniteSet(S) /\ Cardinality(S) \in Nat
             /\ Cardinality(S) = N - 1 => S = Workers
    BY <1>2, <1>3, FS_Subset, FS_CardinalityType
<1> QED
    BY <1>1, <1>2, <1>3

\* The struct is a function from its words to numbers.
LEMMA StructFacts ==
    /\ ZeroedStruct \in [Fields -> Nat]
    /\ DOMAIN ZeroedStruct = Fields
    /\ \A f \in Fields : ZeroedStruct[f] = 0
BY DEF ZeroedStruct, Fields

\* The call the master is making.
LEMMA OpFacts ==
    ASSUME program \in Seq(Calls)
    PROVE  /\ Op \in {"none", "push", "run", "exit"}
           /\ program # <<>> => Tail(program) \in Seq(Calls)
           /\ Op = "push" => program # <<>> /\ Head(program).nthreads \in Nat
           /\ Op # "none" => program # <<>>
<1>1. CASE program = <<>>
    BY <1>1 DEF Op
<1>2. CASE program # <<>>
    <2>1. Head(program) \in Calls /\ Tail(program) \in Seq(Calls)
        BY <1>2
    <2>2. Op = Head(program).op
        BY <1>2 DEF Op
    <2>3. Head(program).op \in {"push", "run", "exit"}
          /\ (Head(program).op = "push" => Head(program).nthreads \in Nat)
        BY <2>1 DEF Calls
    <2> QED
        BY <1>2, <2>1, <2>2, <2>3
<1> QED
    BY <1>1, <1>2

\* One core moves at a time.
LEMMA MoveFacts ==
    ASSUME PcOK, NEW c \in Cores, NEW l, NEW m, Goto(c, l, m)
    PROVE  /\ pc[c] = l /\ pc'[c] = m /\ DOMAIN pc' = Cores
           /\ \A d \in Cores : d # c => pc'[d] = pc[d]
BY DEF Goto, PcOK

\* A step of a worker moves only that worker, and writes only the counts, its
\* interrupt and its own calls.
LEMMA WorkerFrame ==
    ASSUME TypeOK, NEW c \in Workers, Worker(c)
    PROVE  /\ DOMAIN pc' = Cores /\ \A d \in Cores : d # c => pc'[d] = pc[d]
           /\ \A d \in Cores : d # c => mcip'[d] = mcip[d] /\ ran'[d] = ran[d]
           /\ pc'[0] = pc[0] /\ ran'[0] = ran[0]
           /\ UNCHANGED <<eu_p_global, program, pushed>>
           /\ eu_p' \in [Fields -> Int]
           /\ \A f \in {"fn", "data", "nthreads", "exit_flag"} : eu_p'[f] = eu_p[f]
<1>0. c \in Cores /\ c # 0 /\ 0 \in Cores
    BY CoreFacts
<1>1. DOMAIN pc' = Cores /\ \A d \in Cores : d # c => pc'[d] = pc[d]
    <2>1. \E l, m : Goto(c, l, m)
        BY DEF Worker, WorkerInit, LeaveBarrier, WorkerEnter, WorkerExit, WorkerMine,
            WorkerCall, WorkerTaskEnds, WorkerFini, WorkerDoze, WorkerWfi, WorkerClr,
            WorkerRise, AddTo
    <2> QED
        BY <1>0, <2>1, MoveFacts DEF TypeOK
<1>2. \A d \in Cores : d # c => mcip'[d] = mcip[d] /\ ran'[d] = ran[d]
    BY <1>0 DEF Worker, WorkerInit, LeaveBarrier, WorkerEnter, WorkerExit, WorkerMine,
        WorkerCall, WorkerTaskEnds, WorkerFini, WorkerDoze, WorkerWfi, WorkerClr, WorkerRise,
        AddTo, CallEvent, TypeOK
<1>3. UNCHANGED <<eu_p_global, program, pushed>>
    BY DEF Worker, WorkerInit, LeaveBarrier, WorkerEnter, WorkerExit, WorkerMine,
        WorkerCall, WorkerTaskEnds, WorkerFini, WorkerDoze, WorkerWfi, WorkerClr, WorkerRise,
        AddTo, CallEvent
<1>4. \/ eu_p' = eu_p
      \/ \E f \in {"fini_count", "workers_in_loop", "workers_wfi"} :
            eu_p' = [eu_p EXCEPT ![f] = @ + 1] \/ eu_p' = [eu_p EXCEPT ![f] = @ - 1]
    BY DEF Worker, WorkerInit, LeaveBarrier, WorkerEnter, WorkerExit, WorkerMine,
        WorkerCall, WorkerTaskEnds, WorkerFini, WorkerDoze, WorkerWfi, WorkerClr, WorkerRise,
        AddTo, CallEvent
<1>5. /\ eu_p' \in [Fields -> Int]
      /\ \A f \in {"fn", "data", "nthreads", "exit_flag"} : eu_p'[f] = eu_p[f]
    <2>0. eu_p \in [Fields -> Int] /\ \A f \in Fields : eu_p[f] \in Nat
        BY DEF TypeOK
    <2>1. CASE eu_p' = eu_p
        BY <2>0, <2>1
    <2>2. ASSUME NEW f \in {"fini_count", "workers_in_loop", "workers_wfi"},
                 eu_p' = [eu_p EXCEPT ![f] = @ + 1] \/ eu_p' = [eu_p EXCEPT ![f] = @ - 1]
          PROVE  /\ eu_p' \in [Fields -> Int]
                 /\ \A g \in {"fn", "data", "nthreads", "exit_flag"} : eu_p'[g] = eu_p[g]
        <3>1. f \in Fields /\ f \notin {"fn", "data", "nthreads", "exit_flag"}
              /\ {"fn", "data", "nthreads", "exit_flag"} \subseteq Fields
            BY DEF Fields
        <3>2. eu_p[f] + 1 \in Int /\ eu_p[f] - 1 \in Int
            BY <2>0, <3>1
        <3> QED
            BY <2>0, <2>2, <3>1, <3>2
    <2> QED
        BY <1>4, <2>1, <2>2
<1> QED
    BY <1>0, <1>1, <1>2, <1>3, <1>5

\* Appending a call with the last event to the calls of a core that has not
\* run it.
LEMMA RunsIt ==
    ASSUME NEW c \in Cores, ran \in [Cores -> Seq(Nat \X Nat)], pushed \in Nat,
           pushed' = pushed, RanInOrder(c), Fresh(c),
           ran'[c] = Append(ran[c], <<pushed, pushed>>)
    PROVE  RanInOrder(c)' /\ RanIt(c)' /\ ran'[c] \in Seq(Nat \X Nat)
<1> DEFINE s == ran[c]
           t == ran'[c]
           e == <<pushed, pushed>>
<1>1. s \in Seq(Nat \X Nat) /\ e \in Nat \X Nat /\ e[1] = pushed /\ e[2] = pushed
    OBVIOUS
<1>2. t = Append(s, e)
    OBVIOUS
<1> HIDE DEF e, s, t
<1>3. /\ Len(s) \in Nat /\ Len(t) = Len(s) + 1 /\ t[Len(s) + 1] = e
      /\ \A i \in 1 .. Len(s) : t[i] = s[i] /\ s[i] \in Nat \X Nat
      /\ t \in Seq(Nat \X Nat)
    BY <1>1, <1>2
<1>4. \A i \in 1 .. Len(s) :
          s[i][1] \in Nat /\ s[i][1] = s[i][2] /\ s[i][1] <= pushed /\ s[i][1] < pushed
          /\ \A j \in 1 .. Len(s) : i < j => s[i][1] < s[j][1]
    BY <1>3 DEF RanInOrder, Fresh, s
<1>a. \A i \in 1 .. Len(t) : i \in 1 .. Len(s) \/ i = Len(s) + 1
    BY <1>3
<1>5. \A i \in 1 .. Len(t) : t[i][1] = t[i][2] /\ t[i][1] <= pushed
    <2> SUFFICES ASSUME NEW i \in 1 .. Len(t)
                 PROVE  t[i][1] = t[i][2] /\ t[i][1] <= pushed
        OBVIOUS
    <2>1. CASE i \in 1 .. Len(s)
        BY <1>3, <1>4, <2>1
    <2>2. CASE i = Len(s) + 1
        BY <1>1, <1>3, <2>2
    <2> QED
        BY <1>a, <2>1, <2>2
<1>6. \A i, j \in 1 .. Len(t) : i < j => t[i][1] < t[j][1]
    <2> SUFFICES ASSUME NEW i \in 1 .. Len(t), NEW j \in 1 .. Len(t), i < j
                 PROVE  t[i][1] < t[j][1]
        OBVIOUS
    <2>1. i \in 1 .. Len(s)
        BY <1>3
    <2>2. CASE j \in 1 .. Len(s)
        BY <1>3, <1>4, <2>1, <2>2
    <2>3. CASE j = Len(s) + 1
        BY <1>1, <1>3, <1>4, <2>1, <2>3
    <2> QED
        BY <1>a, <2>2, <2>3
<1>7. Len(t) \in 1 .. Len(t) /\ t[Len(t)][1] = pushed
    BY <1>1, <1>3
<1> QED
    BY <1>3, <1>5, <1>6, <1>7 DEF RanInOrder, RanIt, t

\* The parts of the invariant that speak of the master and of the other
\* workers do not notice a step of a worker.
LEMMA WorkerRest ==
    ASSUME IInv, NEW c \in Workers, Worker(c)
    PROVE  /\ ProgramRight' /\ BootRight' /\ EventRight' /\ MasterRanRight'
           /\ (Booting' <=> Booting) /\ (Woken' <=> Woken) /\ Op' = Op
           /\ (EventPending' <=> EventPending) /\ (EventWhole' <=> EventWhole)
           /\ \A d \in Cores : d # c => RanInOrder(d)'
           /\ \A d \in Workers : d # c => WorkerRight(d)' /\ WorkerRanRight(d)'
           /\ \A d \in Workers : d # c => (Asleep(d)' <=> Asleep(d))
<1>0. TypeOK /\ ProgramRight /\ BootRight /\ EventRight /\ MasterRanRight
    BY DEF IInv
<1>1. /\ DOMAIN pc' = Cores /\ \A d \in Cores : d # c => pc'[d] = pc[d]
      /\ \A d \in Cores : d # c => mcip'[d] = mcip[d] /\ ran'[d] = ran[d]
      /\ pc'[0] = pc[0] /\ ran'[0] = ran[0]
      /\ UNCHANGED <<eu_p_global, program, pushed>>
      /\ eu_p'.fn = eu_p.fn /\ eu_p'.data = eu_p.data
      /\ eu_p'.nthreads = eu_p.nthreads /\ eu_p'.exit_flag = eu_p.exit_flag
    BY <1>0, WorkerFrame
<1>2. /\ (Booting' <=> Booting) /\ (Woken' <=> Woken) /\ Op' = Op
      /\ (EventPending' <=> EventPending) /\ (EventWhole' <=> EventWhole)
    BY <1>1 DEF Booting, Woken, Op, EventPending, EventWhole
<1>3. ProgramRight' /\ BootRight' /\ EventRight'
    BY <1>0, <1>1, <1>2 DEF ProgramRight, BootRight, EventRight
<1>4. MasterRanRight'
    BY <1>0, <1>1, <1>2 DEF MasterRanRight, Fresh, RanIt
<1>5. \A d \in Cores : d # c => RanInOrder(d)'
    BY <1>1 DEF RanInOrder, IInv
<1>6. ASSUME NEW d \in Workers, d # c
      PROVE  WorkerRight(d)' /\ WorkerRanRight(d)' /\ (Asleep(d)' <=> Asleep(d))
    <2>1. d \in Cores /\ pc'[d] = pc[d] /\ mcip'[d] = mcip[d] /\ ran'[d] = ran[d]
        BY <1>1, <1>6, CoreFacts
    <2>2. (Asleep(d)' <=> Asleep(d)) /\ (Awake(d)' <=> Awake(d))
          /\ (Fresh(d)' <=> Fresh(d)) /\ (RanIt(d)' <=> RanIt(d))
        BY <1>1, <2>1 DEF Asleep, Awake, Fresh, RanIt
    <2>3. WorkerRight(d) /\ WorkerRanRight(d)
        BY DEF IInv
    <2>4. WorkerRight(d)'
        BY <1>1, <1>2, <2>1, <2>2, <2>3 DEF WorkerRight
    <2>5. WorkerRanRight(d)'
        BY <1>1, <1>2, <2>1, <2>2, <2>3 DEF WorkerRanRight
    <2> QED
        BY <2>2, <2>4, <2>5
<1> QED
    BY <1>2, <1>3, <1>4, <1>5, <1>6

\* What each step of a worker changes.
Moves(c, l, m) == pc[c] = l /\ pc'[c] = m
Quiet == UNCHANGED <<eu_p, mcip, ran>>
Adds(f, i) == UNCHANGED <<mcip, ran>> /\ eu_p' = [eu_p EXCEPT ![f] = @ + i]

\* Every step of a worker is one of these.
LEMMA WorkerEffect ==
    ASSUME TypeOK, NEW c \in Workers, Worker(c)
    PROVE  \/ Moves(c, "init", "barrier") /\ Quiet /\ eu_p_global
           \/ Moves(c, "barrier", "enter") /\ Quiet
              /\ \A d \in Cores : pc[d] \notin {"memset", "publish", "init"}
           \/ Moves(c, "enter", "exit?") /\ Adds("workers_in_loop", 1)
           \/ Moves(c, "exit?", "exited") /\ Quiet /\ eu_p.exit_flag # 0
           \/ Moves(c, "exit?", "mine?") /\ Quiet /\ eu_p.exit_flag = 0
           \/ Moves(c, "mine?", "call") /\ Quiet /\ c < eu_p.nthreads
           \/ Moves(c, "mine?", "fini") /\ Quiet /\ ~(c < eu_p.nthreads)
           \/ Moves(c, "call", "task") /\ UNCHANGED <<eu_p, mcip>> /\ CallEvent(c)
           \/ Moves(c, "task", "fini") /\ Quiet
           \/ Moves(c, "fini", "doze") /\ Adds("fini_count", 1)
           \/ Moves(c, "doze", "wfi") /\ Adds("workers_wfi", 1)
           \/ Moves(c, "wfi", "clr") /\ Quiet /\ mcip[c]
           \/ Moves(c, "clr", "rise") /\ UNCHANGED <<eu_p, ran>>
              /\ mcip' = [mcip EXCEPT ![c] = FALSE]
           \/ Moves(c, "rise", "exit?") /\ UNCHANGED <<mcip, ran>>
              /\ eu_p' = [eu_p EXCEPT !.workers_wfi = @ - 1]
<1>0. c \in Cores /\ c # 0 /\ PcOK
    BY CoreFacts DEF TypeOK
<1>1. \A l, m : Goto(c, l, m) => Moves(c, l, m)
    BY <1>0, MoveFacts DEF Moves
<1>2. CASE WorkerInit(c)
    BY <1>1, <1>2 DEF WorkerInit, Quiet
<1>3. CASE LeaveBarrier(c)
    BY <1>0, <1>1, <1>3 DEF LeaveBarrier, Quiet
<1>4. CASE WorkerEnter(c)
    BY <1>1, <1>4 DEF WorkerEnter, AddTo, Adds
<1>5. CASE WorkerExit(c)
    <2>1. CASE eu_p.exit_flag # 0
        BY <1>1, <1>5, <2>1 DEF WorkerExit, Quiet
    <2>2. CASE eu_p.exit_flag = 0
        BY <1>1, <1>5, <2>2 DEF WorkerExit, Quiet
    <2> QED BY <2>1, <2>2
<1>6. CASE WorkerMine(c)
    <2>1. CASE c < eu_p.nthreads
        BY <1>1, <1>6, <2>1 DEF WorkerMine, Quiet
    <2>2. CASE ~(c < eu_p.nthreads)
        BY <1>1, <1>6, <2>2 DEF WorkerMine, Quiet
    <2> QED BY <2>1, <2>2
<1>7. CASE WorkerCall(c)
    BY <1>1, <1>7 DEF WorkerCall
<1>8. CASE WorkerTaskEnds(c)
    BY <1>1, <1>8 DEF WorkerTaskEnds, Quiet
<1>9. CASE WorkerFini(c)
    BY <1>1, <1>9 DEF WorkerFini, AddTo, Adds
<1>10. CASE WorkerDoze(c)
    BY <1>1, <1>10 DEF WorkerDoze, AddTo, Adds
<1>11. CASE WorkerWfi(c)
    BY <1>1, <1>11 DEF WorkerWfi, Quiet
<1>12. CASE WorkerClr(c)
    BY <1>1, <1>12 DEF WorkerClr
<1>13. CASE WorkerRise(c)
    BY <1>1, <1>13 DEF WorkerRise
<1> QED
    BY <1>2, <1>3, <1>4, <1>5, <1>6, <1>7, <1>8, <1>9, <1>10, <1>11, <1>12, <1>13 DEF Worker

\* A step of a worker keeps the counts of the struct right.
LEMMA WorkerCounts ==
    ASSUME IInv, NEW c \in Workers, Worker(c)
    PROVE  /\ TypeOK' /\ CountsRight' /\ pc[0] # "memset"
<1>0. TypeOK /\ CountsRight /\ BootRight /\ WorkerRight(c)
    BY DEF IInv
<1>1. /\ DOMAIN pc' = Cores /\ \A d \in Cores : d # c => pc'[d] = pc[d]
      /\ pc'[0] = pc[0] /\ UNCHANGED <<eu_p_global, program, pushed>>
      /\ eu_p' \in [Fields -> Int]
      /\ \A d \in Cores : d # c => ran'[d] = ran[d]
    BY <1>0, WorkerFrame
<1>2. c \in Cores /\ c # 0 /\ 0 \in Cores /\ \A d \in Workers : d \in Cores
    BY CoreFacts
<1>3. pc[0] # "memset"
    <2> SUFFICES ASSUME pc[0] = "memset"
                 PROVE  FALSE
        OBVIOUS
    <2>1. ~eu_p_global /\ pc[c] = "init"
        BY <1>0 DEF BootRight, WorkerRight, Booting, BootLocations
    <2> QED
        BY <1>0, <2>1, WorkerEffect DEF Moves
<1>4. eu_p.workers_in_loop = Cardinality(InLoop) /\ eu_p.workers_wfi = Cardinality(Dozing)
    BY <1>0, <1>3 DEF CountsRight
<1>5. /\ InLoop \in SUBSET Workers /\ Dozing \in SUBSET Workers
      /\ IsFiniteSet(InLoop) /\ IsFiniteSet(Dozing)
      /\ Cardinality(InLoop) \in Nat /\ Cardinality(Dozing) \in Nat
    <2>1. InLoop \in SUBSET Workers /\ Dozing \in SUBSET Workers
        BY DEF InLoop, Dozing
    <2> QED
        BY <2>1, CoreFacts
<1>6. /\ "workers_in_loop" \in Fields /\ "workers_wfi" \in Fields /\ "fini_count" \in Fields
      /\ eu_p \in [Fields -> Nat]
    BY <1>0 DEF Fields, TypeOK
<1>7. /\ eu_p'.workers_in_loop = Cardinality(InLoop')
      /\ eu_p'.workers_wfi = Cardinality(Dozing')
      /\ eu_p'.fini_count \in Nat
      /\ pc'[c] \in WorkerLocations
    <2>1. CASE Moves(c, "enter", "exit?") /\ Adds("workers_in_loop", 1)
        <3>1. InLoop' = InLoop \cup {c} /\ c \notin InLoop /\ Dozing' = Dozing
            BY <1>1, <1>2, <2>1 DEF Moves, InLoop, Dozing
        <3>2. Cardinality(InLoop') = Cardinality(InLoop) + 1
            BY <1>5, <3>1, FS_AddElement
        <3> QED
            BY <1>4, <1>6, <2>1, <3>1, <3>2 DEF Adds, Moves, WorkerLocations
    <2>2. CASE Moves(c, "doze", "wfi") /\ Adds("workers_wfi", 1)
        <3>1. InLoop' = InLoop /\ c \notin Dozing /\ Dozing' = Dozing \cup {c}
            BY <1>1, <1>2, <2>2 DEF Moves, InLoop, Dozing
        <3>2. Cardinality(Dozing') = Cardinality(Dozing) + 1
            BY <1>5, <3>1, FS_AddElement
        <3> QED
            BY <1>4, <1>6, <2>2, <3>1, <3>2 DEF Adds, Moves, WorkerLocations
    <2>3. CASE Moves(c, "rise", "exit?") /\ eu_p' = [eu_p EXCEPT !.workers_wfi = @ - 1]
        <3>1. InLoop' = InLoop /\ c \in Dozing /\ Dozing' = Dozing \ {c}
            BY <1>1, <1>2, <2>3 DEF Moves, InLoop, Dozing
        <3>2. Cardinality(Dozing') = Cardinality(Dozing) - 1
            BY <1>5, <3>1, FS_RemoveElement
        <3> QED
            BY <1>4, <1>6, <2>3, <3>1, <3>2 DEF Moves, WorkerLocations
    <2>4. CASE Moves(c, "fini", "doze") /\ Adds("fini_count", 1)
        <3>1. InLoop' = InLoop /\ Dozing' = Dozing
            BY <1>1, <1>2, <2>4 DEF Moves, InLoop, Dozing
        <3> QED
            BY <1>4, <1>6, <2>4, <3>1 DEF Adds, Moves, WorkerLocations
    <2>5. CASE eu_p' = eu_p /\ \E l, m : /\ Moves(c, l, m)
                                         /\ \/ <<l, m>> = <<"init", "barrier">>
                                            \/ <<l, m>> = <<"barrier", "enter">>
                                            \/ <<l, m>> = <<"exit?", "exited">>
                                            \/ <<l, m>> = <<"exit?", "mine?">>
                                            \/ <<l, m>> = <<"mine?", "call">>
                                            \/ <<l, m>> = <<"mine?", "fini">>
                                            \/ <<l, m>> = <<"call", "task">>
                                            \/ <<l, m>> = <<"task", "fini">>
                                            \/ <<l, m>> = <<"wfi", "clr">>
                                            \/ <<l, m>> = <<"clr", "rise">>
        <3>1. /\ pc[c] \in {"init", "barrier", "enter"} <=> pc'[c] \in {"init", "barrier", "enter"}
              /\ pc[c] \in {"wfi", "clr", "rise"} <=> pc'[c] \in {"wfi", "clr", "rise"}
              /\ pc'[c] \in WorkerLocations
            BY <2>5 DEF Moves, WorkerLocations
        <3>2. InLoop' = InLoop /\ Dozing' = Dozing
            BY <1>1, <1>2, <3>1 DEF InLoop, Dozing
        <3> QED
            BY <1>4, <1>6, <2>5, <3>1, <3>2
    <2> QED
        BY <1>0, <2>1, <2>2, <2>3, <2>4, <2>5, WorkerEffect DEF Quiet
<1>8. CountsRight'
    BY <1>7 DEF CountsRight
<1>9. eu_p' \in [Fields -> Nat]
    <2>1. eu_p'.workers_in_loop \in Nat /\ eu_p'.workers_wfi \in Nat
        <3>1. InLoop' \in SUBSET Workers /\ Dozing' \in SUBSET Workers
            BY DEF InLoop, Dozing
        <3> QED
            BY <1>7, <3>1, CoreFacts
    <2>2. \A f \in {"fn", "data", "nthreads", "exit_flag"} : eu_p'[f] = eu_p[f] /\ eu_p[f] \in Nat
        BY <1>0, WorkerFrame DEF TypeOK, Fields
    <2>3. \A f \in Fields : eu_p'[f] \in Nat
        BY <1>7, <2>1, <2>2 DEF Fields
    <2> QED
        BY <1>1, <2>3
<1>10. PcOK'
    BY <1>0, <1>1, <1>2, <1>7 DEF TypeOK, PcOK
<1>11. mcip' \in [Cores -> BOOLEAN] /\ ran' \in [Cores -> Seq(Nat \X Nat)]
    <2>1. mcip' = mcip \/ mcip' = [mcip EXCEPT ![c] = FALSE]
        BY <1>0, WorkerEffect DEF Quiet, Adds
    <2>2. ran' = ran \/ CallEvent(c)
        BY <1>0, WorkerEffect DEF Quiet, Adds
    <2>3. <<eu_p.fn, eu_p.data>> \in Nat \X Nat
        BY <1>6 DEF Fields
    <2>4. mcip' \in [Cores -> BOOLEAN]
        <3>1. mcip \in [Cores -> BOOLEAN]
            BY <1>0 DEF TypeOK
        <3>2. [mcip EXCEPT ![c] = FALSE] \in [Cores -> BOOLEAN]
            BY <3>1
        <3> QED
            BY <2>1, <3>1, <3>2, Zenon
    <2>5. ran' \in [Cores -> Seq(Nat \X Nat)]
        <3>1. ran \in [Cores -> Seq(Nat \X Nat)]
            BY <1>0 DEF TypeOK
        <3>2. Append(ran[c], <<eu_p.fn, eu_p.data>>) \in Seq(Nat \X Nat)
            BY <1>2, <2>3, <3>1, AppendProperties
        <3> QED
            BY <1>2, <2>2, <3>1, <3>2 DEF CallEvent
    <2> QED
        BY <2>4, <2>5
<1> QED
    BY <1>0, <1>1, <1>3, <1>8, <1>9, <1>10, <1>11 DEF TypeOK

\* A step of a worker leaves it where a worker can be.
LEMMA WorkerPlace ==
    ASSUME IInv, NEW c \in Workers, Worker(c)
    PROVE  WorkerRight(c)'
<1>0. TypeOK /\ WorkerRight(c)
    BY DEF IInv
<1>1. /\ pc'[0] = pc[0] /\ eu_p_global' = eu_p_global /\ eu_p'.exit_flag = eu_p.exit_flag
      /\ (Booting' <=> Booting) /\ (Woken' <=> Woken)
    BY <1>0, WorkerFrame, WorkerRest
<1>2. c \in Cores /\ mcip \in [Cores -> BOOLEAN]
    BY <1>0, CoreFacts DEF TypeOK
<1>3. \/ mcip'[c] = mcip[c] /\ ~Moves(c, "clr", "rise")
      \/ Moves(c, "clr", "rise") /\ mcip'[c] = FALSE
    BY <1>0, <1>2, WorkerEffect DEF Quiet, Adds, Moves
<1>4. CASE Booting
    <2>1. Booting => eu_p.nthreads = 0 /\ eu_p.exit_flag = 0
        BY WorkerCounts DEF IInv, BootRight
    <2>2. /\ pc[c] \in {"init", "barrier", "enter", "exit?", "mine?", "fini", "doze", "wfi"}
          /\ ~mcip[c] /\ (~eu_p_global => pc[c] = "init")
        BY <1>0, <1>4 DEF WorkerRight
    <2>3. ~(c < eu_p.nthreads)
        BY <1>4, <2>1, CoreFacts
    <2>4. /\ pc'[c] \in {"init", "barrier", "enter", "exit?", "mine?", "fini", "doze", "wfi"}
          /\ (~eu_p_global => pc'[c] = "init")
        BY <1>0, <1>4, <2>1, <2>2, <2>3, WorkerEffect DEF Moves
    <2> QED
        BY <1>1, <1>3, <1>4, <2>2, <2>4 DEF WorkerRight, Moves
<1>5. CASE ~Booting /\ eu_p.exit_flag # 0
    <2>1. pc[c] \in {"wfi", "clr", "rise", "exit?", "exited"}
        BY <1>0, <1>5 DEF WorkerRight
    <2>2. pc'[c] \in {"wfi", "clr", "rise", "exit?", "exited"}
        BY <1>0, <1>5, <2>1, WorkerEffect DEF Moves
    <2> QED
        BY <1>1, <1>5, <2>2 DEF WorkerRight
<1>6. CASE ~Booting /\ eu_p.exit_flag = 0 /\ Woken
    <2>1. Asleep(c) \/ Awake(c)
        BY <1>0, <1>6 DEF WorkerRight
    <2>2. CASE Asleep(c)
        <3>1. pc'[c] = "wfi"
            BY <1>0, <2>2, WorkerEffect DEF Moves, Asleep
        <3> QED
            BY <1>1, <1>3, <1>6, <2>2, <3>1 DEF Moves, Asleep, WorkerRight
    <2>3. CASE pc[c] \in {"wfi", "clr"} /\ mcip[c]
        <3>1. pc'[c] = "clr" \/ (pc'[c] = "rise" /\ ~mcip'[c])
            BY <1>0, <1>2, <2>3, WorkerEffect DEF Moves
        <3>2. pc'[c] = "clr" => mcip'[c]
            BY <1>3, <2>3 DEF Moves
        <3> QED
            BY <1>1, <1>6, <3>1, <3>2 DEF Awake, WorkerRight
    <2>4. CASE pc[c] \in {"rise", "exit?", "mine?", "call", "task", "fini"} /\ ~mcip[c]
        <3>1. pc'[c] \in {"exit?", "mine?", "call", "task", "fini", "doze"}
            BY <1>0, <1>6, <2>4, WorkerEffect DEF Moves
        <3>2. ~mcip'[c]
            BY <1>3, <2>4
        <3> QED
            BY <1>1, <1>6, <3>1, <3>2 DEF Awake, Asleep, WorkerRight
    <2> QED
        BY <2>1, <2>2, <2>3, <2>4 DEF Awake
<1>7. CASE ~Booting /\ eu_p.exit_flag = 0 /\ ~Woken
    <2>1. Asleep(c)
        BY <1>0, <1>7 DEF WorkerRight
    <2>2. pc'[c] = "wfi"
        BY <1>0, <2>1, WorkerEffect DEF Moves, Asleep
    <2> QED
        BY <1>1, <1>3, <1>7, <2>1, <2>2 DEF Moves, Asleep, WorkerRight
<1> QED
    BY <1>4, <1>5, <1>6, <1>7

\* While an event runs, a step of a worker counts it as finished exactly once.
LEMMA WorkerFiniCounted ==
    ASSUME IInv, NEW c \in Workers, Worker(c)
    PROVE  FiniRight'
<1>0. TypeOK /\ FiniRight /\ WorkerRight(c) /\ WorkerRight(c)'
    BY WorkerPlace DEF IInv
<1>1. /\ pc'[0] = pc[0] /\ Op' = Op /\ (Booting' <=> Booting) /\ (Woken' <=> Woken)
      /\ eu_p'.exit_flag = eu_p.exit_flag
      /\ \A d \in Workers : d # c => (Asleep(d)' <=> Asleep(d))
    BY <1>0, WorkerFrame, WorkerRest
<1>2. c \in Cores /\ mcip \in [Cores -> BOOLEAN] /\ eu_p \in [Fields -> Nat]
      /\ "fini_count" \in Fields
    BY <1>0, CoreFacts DEF TypeOK, Fields
<1>3. \/ eu_p'.fini_count = eu_p.fini_count /\ ~Moves(c, "fini", "doze")
      \/ Moves(c, "fini", "doze") /\ eu_p'.fini_count = eu_p.fini_count + 1
    BY <1>0, <1>2, WorkerEffect DEF Quiet, Adds, Moves
<1>4. ASSUME Woken
      PROVE  eu_p'.fini_count = Cardinality({d \in Workers : Asleep(d)'})
    <2> DEFINE S == {d \in Workers : Asleep(d)}
               T == {d \in Workers : Asleep(d)'}
    <2>1. eu_p.fini_count = Cardinality(S) /\ S \in SUBSET Workers /\ IsFiniteSet(S)
        BY <1>0, <1>4, CoreFacts DEF FiniRight
    <2>2. Asleep(c) \/ Awake(c)
        BY <1>0, <1>4 DEF WorkerRight, Woken, Booting, BootLocations
    <2>3. \/ Moves(c, "fini", "doze") /\ ~Asleep(c) /\ Asleep(c)'
          \/ ~Moves(c, "fini", "doze") /\ (Asleep(c)' <=> Asleep(c))
        <3>1. CASE Moves(c, "fini", "doze")
            <4>1. ~mcip'[c]
                BY <1>0, <1>2, <2>2, <3>1, WorkerEffect DEF Moves, Awake, Asleep, Adds
            <4> QED
                BY <3>1, <4>1 DEF Moves, Asleep
        <3>2. CASE ~Moves(c, "fini", "doze") /\ Asleep(c)
            <4>1. pc'[c] = "wfi" /\ mcip' = mcip
                BY <1>0, <3>2, WorkerEffect DEF Moves, Asleep, Adds, Quiet
            <4> QED
                BY <3>2, <4>1 DEF Asleep
        <3>3. CASE ~Moves(c, "fini", "doze") /\ ~Asleep(c)
            <4>1. pc'[c] \notin {"doze", "wfi"}
                <5>1. pc[c] # "doze"
                    BY <2>2, <3>3 DEF Awake
                <5> QED
                    BY <1>0, <3>3, <5>1, WorkerEffect DEF Moves
            <4> QED
                BY <3>3, <4>1 DEF Asleep
        <3> QED
            BY <3>1, <3>2, <3>3
    <2>4. CASE Moves(c, "fini", "doze") /\ ~Asleep(c) /\ Asleep(c)'
        <3>1. T = S \cup {c} /\ c \notin S
            BY <1>1, <2>4
        <3>2. Cardinality(T) = Cardinality(S) + 1
            BY <2>1, <3>1, FS_AddElement
        <3> QED
            BY <1>3, <2>1, <2>4, <3>2
    <2>5. CASE ~Moves(c, "fini", "doze") /\ (Asleep(c)' <=> Asleep(c))
        <3>1. T = S
            BY <1>1, <2>5
        <3> QED
            BY <1>3, <2>1, <2>5, <3>1
    <2> QED
        BY <2>3, <2>4, <2>5
<1>5. ASSUME pc[0] \in {"wake", "set", "own", "join"}, Op = "run", ~Woken
      PROVE  eu_p'.fini_count = 0
    <2>1. eu_p.fini_count = 0
        BY <1>0, <1>5 DEF FiniRight
    <2>2. pc[c] # "fini"
        <3>1. ~Booting
            BY <1>5 DEF Booting, BootLocations
        <3> QED
            BY <1>0, <1>5, <3>1 DEF WorkerRight, Asleep
    <2> QED
        BY <1>3, <2>1, <2>2 DEF Moves
<1>6. Woken' => eu_p'.fini_count = Cardinality({d \in Workers : Asleep(d)'})
    BY <1>1, <1>4
<1>7. pc'[0] \in {"wake", "set", "own", "join"} /\ Op' = "run" /\ ~Woken' => eu_p'.fini_count = 0
    BY <1>1, <1>5
<1> QED
    BY <1>6, <1>7 DEF FiniRight

\* A step of a worker that is not the call of the event leaves its calls alone.
LEMMA WorkerCalls ==
    ASSUME IInv, NEW c \in Workers, Worker(c)
    PROVE  RanInOrder(c)' /\ WorkerRanRight(c)'
<1>0. TypeOK /\ WorkerRight(c) /\ WorkerRight(c)' /\ WorkerRanRight(c) /\ RanInOrder(c)
      /\ EventRight
    BY WorkerPlace, CoreFacts DEF IInv
<1>1. /\ pc'[0] = pc[0] /\ pushed' = pushed /\ (Booting' <=> Booting) /\ (Woken' <=> Woken)
      /\ eu_p'.exit_flag = eu_p.exit_flag /\ eu_p'.nthreads = eu_p.nthreads
      /\ (EventPending' <=> EventPending)
    BY <1>0, WorkerFrame, WorkerRest
<1>2. c \in Cores /\ mcip \in [Cores -> BOOLEAN] /\ ran \in [Cores -> Seq(Nat \X Nat)]
      /\ pushed \in Nat
    BY <1>0, CoreFacts DEF TypeOK
<1>3. Woken => ~Booting /\ eu_p.exit_flag = 0 /\ (Asleep(c) \/ Awake(c))
    BY <1>0 DEF Woken, Booting, BootLocations, WorkerRight
<1>4. CASE Moves(c, "call", "task") /\ UNCHANGED <<eu_p, mcip>> /\ CallEvent(c)
    <2>1. Woken
        BY <1>0, <1>4 DEF WorkerRight, Moves, Asleep
    <2>2. EventWhole
        <3>1. eu_p.nthreads \in Nat
            BY <1>0 DEF TypeOK, Fields
        <3>2. pc[0] = "join" \/ (EventPending /\ pc[0] = "own")
            BY <2>1, <3>1 DEF EventPending, Woken, BootLocations
        <3> QED
            BY <1>0, <2>1, <3>2 DEF EventRight
    <2>3. Awake(c) /\ c < eu_p.nthreads /\ Fresh(c)
        BY <1>0, <1>3, <1>4, <2>1 DEF WorkerRanRight, Moves, Asleep
    <2>4. ran'[c] = Append(ran[c], <<pushed, pushed>>)
        BY <1>2, <1>4, <2>2 DEF CallEvent, EventWhole
    <2>5. RanInOrder(c)' /\ RanIt(c)'
        BY <1>0, <1>1, <1>2, <2>3, <2>4, RunsIt
    <2>6. pc'[c] = "task" /\ ~Asleep(c)'
        BY <1>4 DEF Moves, Asleep
    <2>7. pc[0] # "stop" /\ eu_p.exit_flag = 0
        BY <1>3, <2>1 DEF Woken
    <2> QED
        BY <1>1, <2>1, <2>3, <2>5, <2>6, <2>7 DEF WorkerRanRight
<1>5. CASE ran' = ran /\ ~Moves(c, "call", "task")
    <2>1. (Fresh(c)' <=> Fresh(c)) /\ (RanIt(c)' <=> RanIt(c)) /\ RanInOrder(c)'
        BY <1>0, <1>1, <1>5 DEF Fresh, RanIt, RanInOrder
    <2>2. ASSUME Woken
          PROVE  /\ Awake(c)' /\ pc'[c] \notin {"task", "fini"} => Fresh(c)
                 /\ pc'[c] \in {"call", "task"} => c < eu_p.nthreads
                 /\ pc'[c] = "task" => RanIt(c)
                 /\ pc'[c] = "fini" \/ Asleep(c)' =>
                        IF c < eu_p.nthreads THEN RanIt(c) ELSE Fresh(c)
        <3>1. /\ Awake(c) /\ pc[c] \notin {"task", "fini"} => Fresh(c)
              /\ pc[c] \in {"call", "task"} => c < eu_p.nthreads
              /\ pc[c] = "task" => RanIt(c)
              /\ pc[c] = "fini" \/ Asleep(c) => IF c < eu_p.nthreads THEN RanIt(c) ELSE Fresh(c)
            BY <1>0, <2>2 DEF WorkerRanRight
        <3>2. CASE Asleep(c)
            <4>1. pc'[c] = "wfi" /\ mcip' = mcip
                BY <1>0, <3>2, WorkerEffect DEF Moves, Asleep, Adds, Quiet
            <4>2. Asleep(c)' /\ ~Awake(c)'
                BY <3>2, <4>1 DEF Asleep, Awake
            <4> QED
                BY <3>1, <3>2, <4>1, <4>2
        <3>3. CASE Awake(c) /\ ~Asleep(c)
            <4>1. \/ Moves(c, "wfi", "clr")
                  \/ Moves(c, "clr", "rise")
                  \/ Moves(c, "rise", "exit?")
                  \/ Moves(c, "exit?", "mine?")
                  \/ Moves(c, "mine?", "call") /\ c < eu_p.nthreads
                  \/ Moves(c, "mine?", "fini") /\ ~(c < eu_p.nthreads)
                  \/ Moves(c, "task", "fini")
                  \/ Moves(c, "fini", "doze")
                BY <1>0, <1>3, <1>5, <2>2, <3>3, WorkerEffect DEF Moves, Awake
            <4>2. pc'[c] \in {"clr", "rise", "exit?", "mine?", "call", "fini"} => ~Asleep(c)'
                BY DEF Asleep
            <4>3. pc'[c] = "doze" => ~Awake(c)'
                BY DEF Awake
            <4>4. pc[c] \in {"wfi", "clr", "rise", "exit?", "mine?"} => Fresh(c)
                BY <3>1, <3>3
            <4> QED
                BY <3>1, <4>1, <4>2, <4>3, <4>4 DEF Moves
        <3> QED
            BY <1>3, <2>2, <3>2, <3>3
    <2> QED
        BY <1>0, <1>1, <2>1, <2>2 DEF WorkerRanRight
<1> QED
    BY <1>0, <1>4, <1>5, WorkerEffect DEF Quiet, Adds, Moves

\* A step of a worker keeps the invariant.
LEMMA WorkerStep ==
    ASSUME IInv, NEW c \in Workers, Worker(c)
    PROVE  IInv'
<1>1. TypeOK' /\ CountsRight'
    BY WorkerCounts
<1>2. FiniRight' /\ WorkerRight(c)' /\ RanInOrder(c)' /\ WorkerRanRight(c)'
    BY WorkerPlace, WorkerFiniCounted, WorkerCalls
<1>3. /\ ProgramRight' /\ BootRight' /\ EventRight' /\ MasterRanRight'
      /\ \A d \in Cores : d # c => RanInOrder(d)'
      /\ \A d \in Workers : d # c => WorkerRight(d)' /\ WorkerRanRight(d)'
    BY WorkerRest
<1>4. Cores' = Cores /\ Workers' = Workers
    BY DEF Cores, Workers
<1> QED
    BY <1>1, <1>2, <1>3, <1>4 DEF IInv

-----------------------------------------------------------------------------
\* What each step of the master changes.
Idle == UNCHANGED <<eu_p, eu_p_global, mcip, program, pushed, ran>>
Writes(f, v) ==
    /\ eu_p' \in [Fields -> Nat] /\ eu_p'[f] = v /\ \A g \in Fields \ {f} : eu_p'[g] = eu_p[g]
    /\ UNCHANGED <<eu_p_global, mcip, program, ran>>
Wakes ==
    /\ mcip' = [c \in Cores |-> mcip[c] \/ c \in Workers]
    /\ UNCHANGED <<eu_p, eu_p_global, program, pushed, ran>>
OwnShare == CallEvent(0) /\ UNCHANGED <<eu_p, eu_p_global, mcip, program, pushed>>

MasterEffects ==
    \/ /\ Moves(0, "memset", "publish") /\ eu_p' = ZeroedStruct
       /\ UNCHANGED <<eu_p_global, mcip, program, pushed, ran>>
    \/ /\ Moves(0, "publish", "barrier") /\ eu_p_global' = TRUE
       /\ UNCHANGED <<eu_p, mcip, program, pushed, ran>>
    \/ Moves(0, "barrier", "boot") /\ Idle
    \/ Moves(0, "boot", "call") /\ Idle /\ eu_p.workers_wfi = N - 1
    \/ Moves(0, "call", "push_fn") /\ Idle /\ Op = "push"
    \/ /\ Moves(0, "push_fn", "push_data") /\ pushed' = pushed + 1
       /\ Writes("fn", pushed + 1)
    \/ /\ Moves(0, "push_data", "push_nthreads") /\ pushed' = pushed /\ Writes("data", pushed)
    \/ /\ Moves(0, "push_nthreads", "return") /\ pushed' = pushed
       /\ Writes("nthreads", Head(program).nthreads)
    \/ /\ Moves(0, "return", "call") /\ program' = Tail(program)
       /\ UNCHANGED <<eu_p, eu_p_global, mcip, pushed, ran>>
    \/ Moves(0, "call", "return") /\ Idle /\ Op = "run"
    \/ Moves(0, "call", "reset") /\ Idle /\ Op = "run" /\ eu_p.nthreads # 0
    \/ /\ Moves(0, "reset", "wake") /\ pushed' = pushed /\ Writes("fini_count", 0)
       /\ eu_p.nthreads > 1
    \/ /\ Moves(0, "reset", "own") /\ pushed' = pushed /\ Writes("fini_count", 0)
       /\ ~(eu_p.nthreads > 1)
    \/ Moves(0, "wake", "set") /\ Idle /\ AllWorkersWfi
    \/ Moves(0, "set", "own") /\ Wakes /\ Op = "run"
    \/ Moves(0, "set", "return") /\ Wakes /\ Op # "run"
    \/ Moves(0, "own", "join") /\ OwnShare /\ eu_p.nthreads > 1
    \/ Moves(0, "own", "stop") /\ OwnShare /\ ~(eu_p.nthreads > 1)
    \/ Moves(0, "join", "stop") /\ Idle /\ eu_p.fini_count = eu_p.workers_in_loop
    \/ Moves(0, "stop", "return") /\ pushed' = pushed /\ Writes("nthreads", 0)
    \/ Moves(0, "call", "set_exit") /\ Idle /\ Op = "exit" /\ AllWorkersWfi
    \/ Moves(0, "set_exit", "wake") /\ pushed' = pushed /\ Writes("exit_flag", 1)

\* A store to one word of the struct leaves the others alone.
LEMMA StoreFacts ==
    ASSUME eu_p \in [Fields -> Nat], NEW f \in Fields, NEW v \in Nat,
           eu_p' = [eu_p EXCEPT ![f] = v], UNCHANGED <<eu_p_global, mcip, program, ran>>
    PROVE  Writes(f, v)
BY DEF Writes

\* Every step of the master is one of these.
LEMMA MasterEffect ==
    ASSUME TypeOK, ProgramRight, Master
    PROVE  MasterEffects
<1>0. 0 \in Cores /\ PcOK /\ eu_p \in [Fields -> Nat] /\ pushed \in Nat
    BY CoreFacts DEF TypeOK
<1>1. \A l, m : Goto(0, l, m) => Moves(0, l, m)
    BY <1>0, MoveFacts DEF Moves
<1>2. /\ "fn" \in Fields /\ "data" \in Fields /\ "nthreads" \in Fields
      /\ "fini_count" \in Fields /\ "exit_flag" \in Fields
    BY DEF Fields
<1>3. CASE Memset
    BY <1>1, <1>3 DEF Memset, MasterEffects
<1>4. CASE Publish
    BY <1>1, <1>4 DEF Publish, MasterEffects
<1>5. CASE LeaveBarrier(0)
    BY <1>1, <1>5 DEF LeaveBarrier, Idle, MasterEffects
<1>6. CASE Booted
    BY <1>1, <1>6 DEF Booted, Idle, MasterEffects
<1>7. CASE PushWait
    BY <1>1, <1>7 DEF PushWait, Idle, MasterEffects
<1>8. CASE PushFn
    <2>1. Writes("fn", pushed + 1)
        <3>a. pushed + 1 \in Nat
            BY <1>0
        <3>b. eu_p' = [eu_p EXCEPT !["fn"] = pushed + 1]
            BY <1>8, Zenon DEF PushFn
        <3>1. pushed + 1 \in Nat /\ eu_p' = [eu_p EXCEPT !["fn"] = pushed + 1]
            BY <3>a, <3>b, Zenon
        <3>2. UNCHANGED <<eu_p_global, mcip, program, ran>>
            BY <1>8 DEF PushFn
        <3> QED
            BY <1>0, <1>2, <3>1, <3>2, StoreFacts
    <2> QED
        BY <1>1, <1>8, <2>1 DEF PushFn, MasterEffects
<1>9. CASE PushData
    <2>1. Writes("data", pushed)
        BY <1>0, <1>2, <1>9, StoreFacts DEF PushData
    <2> QED
        BY <1>1, <1>9, <2>1 DEF PushData, MasterEffects
<1>10. CASE PushNthreads
    <2>1. Head(program).nthreads \in Nat
        BY <1>10, OpFacts DEF PushNthreads, Goto, ProgramRight, TypeOK
    <2>2. Writes("nthreads", Head(program).nthreads)
        BY <1>0, <1>2, <1>10, <2>1, StoreFacts DEF PushNthreads
    <2> QED
        BY <1>1, <1>10, <2>2 DEF PushNthreads, MasterEffects
<1>11. CASE Return
    BY <1>1, <1>11 DEF Return, MasterEffects
<1>12. CASE RunBegin
    <2>1. CASE eu_p.nthreads = 0
        BY <1>1, <1>12, <2>1 DEF RunBegin, Idle, MasterEffects
    <2>2. CASE eu_p.nthreads # 0
        BY <1>1, <1>12, <2>2 DEF RunBegin, Idle, MasterEffects
    <2> QED BY <2>1, <2>2
<1>13. CASE RunReset
    <2>0. Writes("fini_count", 0)
        BY <1>0, <1>2, <1>13, StoreFacts DEF RunReset
    <2>1. CASE eu_p.nthreads > 1
        BY <1>1, <1>13, <2>0, <2>1 DEF RunReset, MasterEffects
    <2>2. CASE ~(eu_p.nthreads > 1)
        BY <1>1, <1>13, <2>0, <2>2 DEF RunReset, MasterEffects
    <2> QED BY <2>1, <2>2
<1>14. CASE WakeWait
    BY <1>1, <1>14 DEF WakeWait, Idle, MasterEffects
<1>15. CASE WakeSet
    <2>1. CASE Op = "run"
        BY <1>1, <1>15, <2>1 DEF WakeSet, Wakes, MasterEffects
    <2>2. CASE Op # "run"
        BY <1>1, <1>15, <2>2 DEF WakeSet, Wakes, MasterEffects
    <2> QED BY <2>1, <2>2
<1>16. CASE RunOwn
    <2>1. CASE eu_p.nthreads > 1
        BY <1>1, <1>16, <2>1 DEF RunOwn, OwnShare, MasterEffects
    <2>2. CASE ~(eu_p.nthreads > 1)
        BY <1>1, <1>16, <2>2 DEF RunOwn, OwnShare, MasterEffects
    <2> QED BY <2>1, <2>2
<1>17. CASE RunJoin
    BY <1>1, <1>17 DEF RunJoin, Idle, MasterEffects
<1>18. CASE RunStop
    <2>1. Writes("nthreads", 0)
        BY <1>0, <1>2, <1>18, StoreFacts DEF RunStop
    <2> QED
        BY <1>1, <1>18, <2>1 DEF RunStop, MasterEffects
<1>19. CASE ExitBegin
    BY <1>1, <1>19 DEF ExitBegin, Idle, MasterEffects
<1>20. CASE ExitFlag
    <2>1. Writes("exit_flag", 1)
        BY <1>0, <1>2, <1>20, StoreFacts DEF ExitFlag
    <2> QED
        BY <1>1, <1>20, <2>1 DEF ExitFlag, MasterEffects
<1> QED
    BY <1>3, <1>4, <1>5, <1>6, <1>7, <1>8, <1>9, <1>10, <1>11, <1>12, <1>13, <1>14, <1>15,
        <1>16, <1>17, <1>18, <1>19, <1>20 DEF Master

\* A step of the master moves no worker and makes no call for one.
LEMMA MasterFrame ==
    ASSUME TypeOK, MasterEffects, Master
    PROVE  /\ DOMAIN pc' = Cores /\ pc'[0] \in MasterLocations
           /\ \A d \in Workers : pc'[d] = pc[d] /\ ran'[d] = ran[d]
           /\ InLoop' = InLoop /\ Dozing' = Dozing
           /\ mcip' = mcip => \A d \in Workers : (Asleep(d)' <=> Asleep(d)) /\ (Awake(d)' <=> Awake(d))
           /\ pushed' = pushed => \A d \in Workers : (Fresh(d)' <=> Fresh(d)) /\ (RanIt(d)' <=> RanIt(d))
           /\ mcip' = mcip \/ pc[0] = "set"
           /\ pushed' = pushed \/ pc[0] = "push_fn"
<1>0. 0 \in Cores /\ 0 \notin Workers /\ \A d \in Workers : d \in Cores
    BY CoreFacts
<1>1. DOMAIN pc' = Cores /\ \A d \in Cores : d # 0 => pc'[d] = pc[d]
    <2>1. \E l, m : Goto(0, l, m)
        BY DEF Master, Memset, Publish, LeaveBarrier, Booted, PushWait, PushFn, PushData,
            PushNthreads, Return, RunBegin, RunReset, WakeWait, WakeSet, RunOwn, RunJoin,
            RunStop, ExitBegin, ExitFlag
    <2> QED
        BY <1>0, <2>1, MoveFacts DEF TypeOK
<1>2. pc'[0] \in MasterLocations /\ (mcip' = mcip \/ pc[0] = "set")
      /\ (pushed' = pushed \/ pc[0] = "push_fn")
    BY DEF MasterEffects, Moves, Idle, Writes, Wakes, OwnShare, MasterLocations, BootLocations
<1>3. ran' = ran \/ CallEvent(0)
    BY DEF MasterEffects, Idle, Writes, Wakes, OwnShare
<1>4. \A d \in Workers : pc'[d] = pc[d] /\ ran'[d] = ran[d]
    BY <1>0, <1>1, <1>3 DEF CallEvent, TypeOK
<1>5. InLoop' = InLoop /\ Dozing' = Dozing
    BY <1>4 DEF InLoop, Dozing
<1>6. mcip' = mcip => \A d \in Workers : (Asleep(d)' <=> Asleep(d)) /\ (Awake(d)' <=> Awake(d))
    BY <1>4 DEF Asleep, Awake
<1>7. pushed' = pushed => \A d \in Workers : (Fresh(d)' <=> Fresh(d)) /\ (RanIt(d)' <=> RanIt(d))
    BY <1>4 DEF Fresh, RanIt
<1> QED
    BY <1>1, <1>2, <1>4, <1>5, <1>6, <1>7

\* Past the start-up all workers are in the loop, and those that are all in
\* wfi are at one of its steps.
LEMMA AllInLoop ==
    ASSUME IInv, ~Booting
    PROVE  /\ InLoop = Workers /\ eu_p.workers_in_loop = N - 1
           /\ AllWorkersWfi => \A c \in Workers : pc[c] \in {"wfi", "clr", "rise"}
<1>1. \A c \in Workers : pc[c] \notin {"init", "barrier", "enter"}
    BY DEF IInv, WorkerRight, Asleep, Awake
<1>2. InLoop = Workers
    BY <1>1 DEF InLoop
<1>3. eu_p.workers_in_loop = N - 1 /\ eu_p.workers_wfi = Cardinality(Dozing)
    BY <1>2, CoreFacts DEF IInv, CountsRight, Booting, BootLocations
<1>4. Dozing \in SUBSET Workers
    BY DEF Dozing
<1>5. ASSUME AllWorkersWfi
      PROVE  \A c \in Workers : pc[c] \in {"wfi", "clr", "rise"}
    <2>1. Dozing = Workers
        BY <1>3, <1>4, <1>5, CoreFacts DEF AllWorkersWfi
    <2> QED
        BY <2>1 DEF Dozing
<1> QED
    BY <1>2, <1>3, <1>5

\* Which words of the struct a step of the master can change, and where it is
\* when it does.
LEMMA MasterWords ==
    ASSUME TypeOK, MasterEffects
    PROVE  /\ \/ eu_p'.nthreads = eu_p.nthreads /\ pc[0] # "stop"
              \/ pc[0] \in {"memset", "stop"} /\ eu_p'.nthreads = 0
              \/ pc[0] = "push_nthreads"
           /\ \/ eu_p'.exit_flag = eu_p.exit_flag /\ pc[0] # "set_exit"
              \/ pc[0] = "memset" /\ eu_p'.exit_flag = 0
              \/ pc[0] = "set_exit" /\ eu_p'.exit_flag = 1
           /\ \/ eu_p'.fini_count = eu_p.fini_count /\ pc[0] # "reset"
              \/ pc[0] \in {"memset", "reset"} /\ eu_p'.fini_count = 0
           /\ \/ eu_p'.fn = eu_p.fn /\ pc[0] # "push_fn"
              \/ pc[0] = "memset"
              \/ pc[0] = "push_fn" /\ eu_p'.fn = pushed + 1
           /\ \/ eu_p'.data = eu_p.data /\ pc[0] # "push_data"
              \/ pc[0] = "memset"
              \/ pc[0] = "push_data" /\ eu_p'.data = pushed
           /\ \/ /\ eu_p'.workers_in_loop = eu_p.workers_in_loop
                 /\ eu_p'.workers_wfi = eu_p.workers_wfi
              \/ pc[0] = "memset" /\ eu_p' = ZeroedStruct
<1>0. /\ "fn" \in Fields /\ "data" \in Fields /\ "nthreads" \in Fields
      /\ "fini_count" \in Fields /\ "exit_flag" \in Fields
      /\ "workers_in_loop" \in Fields /\ "workers_wfi" \in Fields
    BY DEF Fields
<1>z. /\ ZeroedStruct.nthreads = 0 /\ ZeroedStruct.exit_flag = 0 /\ ZeroedStruct.fini_count = 0
    BY <1>0, StructFacts
<1>1. \/ eu_p'.nthreads = eu_p.nthreads /\ pc[0] # "stop"
      \/ pc[0] \in {"memset", "stop"} /\ eu_p'.nthreads = 0
      \/ pc[0] = "push_nthreads"
    BY <1>0, <1>z DEF MasterEffects, Moves, Idle, Writes, Wakes, OwnShare
<1>2. \/ eu_p'.exit_flag = eu_p.exit_flag /\ pc[0] # "set_exit"
      \/ pc[0] = "memset" /\ eu_p'.exit_flag = 0
      \/ pc[0] = "set_exit" /\ eu_p'.exit_flag = 1
    BY <1>0, <1>z DEF MasterEffects, Moves, Idle, Writes, Wakes, OwnShare
<1>3. \/ eu_p'.fini_count = eu_p.fini_count /\ pc[0] # "reset"
      \/ pc[0] \in {"memset", "reset"} /\ eu_p'.fini_count = 0
    BY <1>0, <1>z DEF MasterEffects, Moves, Idle, Writes, Wakes, OwnShare
<1>4. \/ eu_p'.fn = eu_p.fn /\ pc[0] # "push_fn"
      \/ pc[0] = "memset"
      \/ pc[0] = "push_fn" /\ eu_p'.fn = pushed + 1
    BY <1>0 DEF MasterEffects, Moves, Idle, Writes, Wakes, OwnShare
<1>5. \/ eu_p'.data = eu_p.data /\ pc[0] # "push_data"
      \/ pc[0] = "memset"
      \/ pc[0] = "push_data" /\ eu_p'.data = pushed
    BY <1>0 DEF MasterEffects, Moves, Idle, Writes, Wakes, OwnShare
<1>6. \/ /\ eu_p'.workers_in_loop = eu_p.workers_in_loop
         /\ eu_p'.workers_wfi = eu_p.workers_wfi
      \/ pc[0] = "memset" /\ eu_p' = ZeroedStruct
    BY <1>0 DEF MasterEffects, Moves, Idle, Writes, Wakes, OwnShare
<1> QED
    BY <1>1, <1>2, <1>3, <1>4, <1>5, <1>6

\* Where the master goes from where, and under which condition.
MasterMove ==
    \/ Moves(0, "memset", "publish")
    \/ Moves(0, "publish", "barrier")
    \/ Moves(0, "barrier", "boot")
    \/ Moves(0, "boot", "call") /\ eu_p.workers_wfi = N - 1
    \/ Moves(0, "call", "push_fn") /\ Op = "push"
    \/ Moves(0, "push_fn", "push_data")
    \/ Moves(0, "push_data", "push_nthreads")
    \/ Moves(0, "push_nthreads", "return")
    \/ Moves(0, "return", "call")
    \/ Moves(0, "call", "return") /\ Op = "run"
    \/ Moves(0, "call", "reset") /\ Op = "run" /\ eu_p.nthreads # 0
    \/ Moves(0, "reset", "wake") /\ eu_p.nthreads > 1
    \/ Moves(0, "reset", "own") /\ ~(eu_p.nthreads > 1)
    \/ Moves(0, "wake", "set") /\ AllWorkersWfi
    \/ Moves(0, "set", "own") /\ Op = "run"
    \/ Moves(0, "set", "return") /\ Op # "run"
    \/ Moves(0, "own", "join") /\ eu_p.nthreads > 1
    \/ Moves(0, "own", "stop") /\ ~(eu_p.nthreads > 1)
    \/ Moves(0, "join", "stop") /\ eu_p.fini_count = eu_p.workers_in_loop
    \/ Moves(0, "stop", "return")
    \/ Moves(0, "call", "set_exit") /\ Op = "exit" /\ AllWorkersWfi
    \/ Moves(0, "set_exit", "wake")

\* Every step of the master is one of these moves.
LEMMA MasterMoves ==
    ASSUME MasterEffects
    PROVE  /\ MasterMove
           /\ program' = program \/ (pc[0] = "return" /\ program' = Tail(program))
           /\ pushed' = pushed \/ (pc[0] = "push_fn" /\ pushed' = pushed + 1)
           /\ pc[0] = "push_fn" => pushed' = pushed + 1
           /\ mcip' = mcip \/ (pc[0] = "set" /\ Wakes)
           /\ pc[0] = "set" => Wakes
           /\ ran' = ran \/ (pc[0] = "own" /\ CallEvent(0))
           /\ pc[0] = "own" => CallEvent(0)
<1>1. MasterMove
    BY DEF MasterEffects, MasterMove, Idle, Writes, Wakes, OwnShare
<1>2. program' = program \/ (pc[0] = "return" /\ program' = Tail(program))
    BY DEF MasterEffects, Moves, Idle, Writes, Wakes, OwnShare
<1>3. /\ pushed' = pushed \/ (pc[0] = "push_fn" /\ pushed' = pushed + 1)
      /\ pc[0] = "push_fn" => pushed' = pushed + 1
    BY DEF MasterEffects, Moves, Idle, Writes, Wakes, OwnShare
<1>4. mcip' = mcip \/ (pc[0] = "set" /\ Wakes)
    BY DEF MasterEffects, Moves, Idle, Writes, Wakes, OwnShare
<1>5. pc[0] = "set" => Wakes
    BY DEF MasterEffects, Moves, Idle, Writes, Wakes, OwnShare
<1>6. /\ ran' = ran \/ (pc[0] = "own" /\ CallEvent(0))
      /\ pc[0] = "own" => CallEvent(0)
    BY DEF MasterEffects, Moves, Idle, Writes, Wakes, OwnShare
<1> QED
    BY <1>1, <1>2, <1>3, <1>4, <1>5, <1>6

\* The parts of the invariant about the struct and the master's call.
LEMMA MasterPart ==
    ASSUME IInv, Master
    PROVE  TypeOK' /\ CountsRight' /\ ProgramRight' /\ BootRight' /\ EventRight'
<1>0. TypeOK /\ CountsRight /\ ProgramRight /\ BootRight /\ EventRight /\ MasterEffects
    BY MasterEffect DEF IInv
<1>e. MasterEffects
    BY <1>0
<1>1. /\ DOMAIN pc' = Cores /\ pc'[0] \in MasterLocations
      /\ \A d \in Workers : pc'[d] = pc[d] /\ ran'[d] = ran[d]
      /\ InLoop' = InLoop /\ Dozing' = Dozing
    BY <1>0, MasterFrame
<1>2. /\ eu_p \in [Fields -> Nat] /\ pushed \in Nat
      /\ "fn" \in Fields /\ "data" \in Fields /\ "nthreads" \in Fields
      /\ "fini_count" \in Fields /\ "exit_flag" \in Fields
      /\ "workers_in_loop" \in Fields /\ "workers_wfi" \in Fields
      /\ eu_p.nthreads \in Nat
    BY <1>0 DEF TypeOK, Fields
<1>3. eu_p' \in [Fields -> Nat] /\ pushed' \in Nat /\ eu_p_global' \in BOOLEAN
    <2>1. eu_p' = eu_p \/ eu_p' = ZeroedStruct \/ eu_p' \in [Fields -> Nat]
        BY <1>0 DEF MasterEffects, Idle, Writes, Wakes, OwnShare
    <2>2. pushed' = pushed \/ pushed' = pushed + 1
        BY <1>0 DEF MasterEffects, Idle, Writes, Wakes, OwnShare
    <2>3. eu_p_global' = eu_p_global \/ eu_p_global' = TRUE
        BY <1>0 DEF MasterEffects, Idle, Writes, Wakes, OwnShare
    <2>4. eu_p_global \in BOOLEAN
        BY <1>0 DEF TypeOK
    <2>5. eu_p' \in [Fields -> Nat]
        BY <1>2, <2>1, StructFacts
    <2>6. pushed' \in Nat
        BY <1>2, <2>2
    <2> QED
        BY <2>3, <2>4, <2>5, <2>6
<1>4. program' \in Seq(Calls) /\ (program' = program \/ pc[0] = "return")
    <2>1. program' = program \/ (pc[0] = "return" /\ program' = Tail(program))
        BY <1>0 DEF MasterEffects, Idle, Writes, Wakes, OwnShare, Moves
    <2>2. pc[0] = "return" => program # <<>>
        BY <1>0 DEF ProgramRight
    <2> QED
        BY <1>0, <2>1, <2>2, OpFacts DEF TypeOK
<1>5. mcip' \in [Cores -> BOOLEAN]
    <2>1. mcip' = mcip \/ Wakes
        BY <1>0 DEF MasterEffects, Idle, Writes, Wakes, OwnShare
    <2>2. mcip \in [Cores -> BOOLEAN]
        BY <1>0 DEF TypeOK
    <2>3. CASE Wakes
        BY <2>3 DEF Wakes
    <2> QED
        BY <2>1, <2>2, <2>3
<1>6. ran' \in [Cores -> Seq(Nat \X Nat)]
    <2>1. ran' = ran \/ CallEvent(0)
        BY <1>0 DEF MasterEffects, Idle, Writes, Wakes, OwnShare
    <2>2. ran \in [Cores -> Seq(Nat \X Nat)] /\ 0 \in Cores
        BY <1>0, CoreFacts DEF TypeOK
    <2>3. <<eu_p.fn, eu_p.data>> \in Nat \X Nat
        BY <1>2
    <2>4. Append(ran[0], <<eu_p.fn, eu_p.data>>) \in Seq(Nat \X Nat)
        BY <2>2, <2>3, AppendProperties
    <2> QED
        BY <2>1, <2>2, <2>4 DEF CallEvent
<1>7. TypeOK'
    BY <1>0, <1>1, <1>3, <1>4, <1>5, <1>6 DEF TypeOK, PcOK
<1>8. CountsRight'
    <2>1. CASE pc[0] = "memset"
        <3>1. eu_p' = ZeroedStruct
            BY <1>0, <2>1 DEF MasterEffects, Moves
        <3>2. \A c \in Workers : pc[c] = "init"
            BY <1>0, <2>1 DEF IInv, BootRight, WorkerRight, Booting, BootLocations
        <3>3. InLoop = {} /\ Dozing = {}
            BY <3>2 DEF InLoop, Dozing
        <3>4. eu_p'.workers_in_loop = 0 /\ eu_p'.workers_wfi = 0
            BY <1>2, <3>1, StructFacts
        <3> QED
            BY <1>1, <3>3, <3>4, FS_EmptySet DEF CountsRight
    <2>2. CASE pc[0] # "memset"
        <3>1. eu_p'.workers_in_loop = eu_p.workers_in_loop /\ eu_p'.workers_wfi = eu_p.workers_wfi
            BY <1>0, <1>2, <2>2 DEF MasterEffects, Idle, Writes, Wakes, OwnShare, Moves
        <3> QED
            BY <1>0, <1>1, <2>2, <3>1 DEF CountsRight
    <2> QED
        BY <2>1, <2>2
<1>9. BootRight'
    <2>1. ZeroedStruct.nthreads = 0 /\ ZeroedStruct.exit_flag = 0
        BY <1>2, StructFacts
    <2>2. ASSUME Booting'
          PROVE  \/ /\ Moves(0, "memset", "publish") /\ eu_p' = ZeroedStruct
                    /\ eu_p_global' = eu_p_global
                 \/ /\ Booting /\ pc[0] # "memset" /\ eu_p' = eu_p
                    /\ pc'[0] \in {"barrier", "boot"}
        BY <1>e, <2>2 DEF MasterEffects, Moves, Idle, Writes, Wakes, OwnShare, Booting, BootLocations
    <2>3. pc'[0] \in {"memset", "publish"} => Booting'
        BY DEF Booting, BootLocations
    <2> QED
        BY <1>0, <2>1, <2>2, <2>3 DEF BootRight, Moves
<1>10. ProgramRight'
    <2>1. (program' = program => Op' = Op) /\ (Op \in {"run", "push", "exit"} => program # <<>>)
        BY DEF Op
    <2>2. ProgramRight /\ eu_p.nthreads \in Nat /\ MasterMove
        BY <1>0, <1>2, MasterMoves
    <2>3. /\ eu_p'.nthreads = eu_p.nthreads \/ pc[0] \in {"memset", "stop", "push_nthreads"}
          /\ eu_p'.exit_flag = eu_p.exit_flag \/ pc[0] \in {"memset", "set_exit"}
          /\ pc[0] = "set_exit" => eu_p'.exit_flag # 0
        BY <1>0, MasterWords
    <2> QED
        BY <1>4, <2>1, <2>2, <2>3 DEF ProgramRight, MasterMove, Moves
<1>11. EventRight'
    <2>1. EventRight /\ (Booting /\ pc[0] # "memset" => eu_p.nthreads = 0) /\ MasterMove
        BY <1>0, MasterMoves DEF BootRight
    <2>2. /\ eu_p'.nthreads = eu_p.nthreads \/ pc[0] \in {"memset", "stop", "push_nthreads"}
          /\ pc[0] = "stop" => eu_p'.nthreads = 0
          /\ eu_p.nthreads \in Nat
          /\ eu_p'.fn = eu_p.fn \/ pc[0] \in {"memset", "push_fn"}
          /\ pc[0] = "push_fn" => eu_p'.fn = pushed'
          /\ eu_p'.data = eu_p.data \/ pc[0] \in {"memset", "push_data"}
          /\ pc[0] = "push_data" => eu_p'.data = pushed'
          /\ pushed' = pushed \/ pc[0] = "push_fn"
        BY <1>0, <1>2, MasterWords, MasterMoves
    <2> QED
        BY <2>1, <2>2 DEF EventRight, EventPending, EventWhole, BootLocations, Booting,
            MasterMove, Moves
<1> QED
    BY <1>7, <1>8, <1>9, <1>10, <1>11

\* The master wakes the workers when all of them sleep, and goes on from an
\* event when all of them sleep again.
LEMMA MasterPlace ==
    ASSUME IInv, Master, NEW c \in Workers
    PROVE  WorkerRight(c)'
<1>0. TypeOK /\ ProgramRight /\ BootRight /\ FiniRight /\ MasterEffects /\ WorkerRight(c)
    BY MasterEffect DEF IInv
<1>1. /\ pc'[c] = pc[c]
      /\ mcip' = mcip => (Asleep(c)' <=> Asleep(c)) /\ (Awake(c)' <=> Awake(c))
    BY <1>0, MasterFrame
<1>2. MasterMove
    BY <1>0, MasterMoves
<1>3. /\ eu_p'.nthreads = eu_p.nthreads \/ pc[0] \in {"memset", "stop", "push_nthreads"}
      /\ eu_p'.exit_flag = eu_p.exit_flag \/ pc[0] \in {"memset", "set_exit"}
      /\ pc[0] = "set_exit" => eu_p'.exit_flag # 0
    BY <1>0, MasterWords
<1>4. eu_p.nthreads \in Nat /\ eu_p.exit_flag \in Nat /\ eu_p.fini_count \in Nat
    BY <1>0 DEF TypeOK, Fields
<1>5. CASE Booting'
    <2>1. pc[0] \in {"memset", "publish", "barrier"}
        BY <1>2, <1>5 DEF MasterMove, Moves, Booting, BootLocations
    <2>2. Booting /\ mcip' = mcip
        BY <1>0, <2>1, MasterMoves DEF Booting, BootLocations
    <2>3. eu_p_global' = eu_p_global \/ (pc[0] = "publish" /\ eu_p_global')
        BY <1>0 DEF MasterEffects, Moves, Idle, Writes, Wakes, OwnShare
    <2> QED
        BY <1>0, <1>1, <1>5, <2>2, <2>3 DEF WorkerRight
<1>6. CASE pc[0] = "boot"
    <2>1. pc'[0] = "call" /\ eu_p.workers_wfi = N - 1 /\ mcip' = mcip
        BY <1>0, <1>2, <1>6, MasterMoves DEF MasterMove, Moves
    <2>2. Booting /\ eu_p.exit_flag = 0 /\ eu_p'.exit_flag = 0
        BY <1>0, <1>3, <1>6 DEF BootRight, Booting, BootLocations
    <2>3. Dozing = Workers
        <3>1. Dozing \in SUBSET Workers
            BY DEF Dozing
        <3>2. Cardinality(Dozing) = N - 1
            BY <1>6, <2>1 DEF IInv, CountsRight
        <3> QED
            BY <3>1, <3>2, CoreFacts
    <2>4. pc[c] \in {"wfi", "clr", "rise"}
        BY <2>3 DEF Dozing
    <2>5. Asleep(c)
        BY <1>0, <2>2, <2>4 DEF WorkerRight, Asleep
    <2> QED
        BY <1>1, <2>1, <2>2, <2>5 DEF WorkerRight, Booting, BootLocations, Woken
<1>7. CASE ~Booting' /\ pc[0] # "boot" /\ eu_p'.exit_flag # 0
    <2>1. ~Booting /\ (eu_p.exit_flag # 0 \/ pc[0] = "set_exit")
        BY <1>2, <1>3, <1>7 DEF MasterMove, Moves, Booting, BootLocations
    <2>2. CASE eu_p.exit_flag # 0
        BY <1>0, <1>1, <1>7, <2>1, <2>2 DEF WorkerRight
    <2>3. CASE eu_p.exit_flag = 0 /\ pc[0] = "set_exit"
        <3>1. pc[c] = "wfi"
            BY <1>0, <2>1, <2>3 DEF WorkerRight, Woken
        <3> QED
            BY <1>1, <1>7, <3>1 DEF WorkerRight
    <2> QED
        BY <2>1, <2>2, <2>3
<1>8. CASE ~Booting' /\ pc[0] # "boot" /\ eu_p'.exit_flag = 0
    <2>1. ~Booting /\ eu_p.exit_flag = 0 /\ pc[0] # "set_exit"
        BY <1>2, <1>3, <1>8 DEF MasterMove, Moves, Booting, BootLocations
    <2>2. CASE pc[0] = "set"
        <3>1. ~Woken /\ pc[c] = "wfi"
            BY <1>0, <2>1, <2>2 DEF WorkerRight, Woken
        <3>2. Op = "run" /\ eu_p.nthreads > 1 /\ pc'[0] = "own" /\ mcip'[c] /\ eu_p'.nthreads > 1
            <4>1. Op = "run" /\ eu_p.nthreads > 1
                BY <1>0, <2>1, <2>2 DEF ProgramRight
            <4>2. Wakes
                BY <1>0, <2>2, MasterMoves
            <4> QED
                BY <1>2, <1>3, <2>2, <4>1, <4>2, CoreFacts DEF MasterMove, Moves, Wakes
        <3>3. Awake(c)' /\ Woken'
            BY <1>1, <1>8, <3>1, <3>2 DEF Awake, Woken
        <3> QED
            BY <1>8, <3>3 DEF WorkerRight
    <2>3. CASE pc[0] # "set" /\ Woken
        <3>1. mcip' = mcip /\ (Asleep(c) \/ Awake(c))
            BY <1>0, <2>1, <2>3, MasterMoves DEF WorkerRight
        <3>2. CASE pc[0] = "own"
            <4>1. Woken'
                BY <1>2, <1>3, <1>8, <2>3, <3>2 DEF Woken, MasterMove, Moves
            <4> QED
                BY <1>1, <1>8, <3>1, <4>1 DEF WorkerRight
        <3>3. CASE pc[0] = "join"
            <4>1. pc'[0] = "stop" /\ eu_p.fini_count = eu_p.workers_in_loop
                BY <1>2, <3>3 DEF MasterMove, Moves
            <4>2. eu_p.fini_count = N - 1
                BY <2>1, <4>1, AllInLoop
            <4>3. eu_p.fini_count = Cardinality({d \in Workers : Asleep(d)})
                BY <1>0, <2>3 DEF FiniRight
            <4>4. {d \in Workers : Asleep(d)} = Workers
                BY <4>2, <4>3, CoreFacts
            <4> QED
                BY <1>1, <1>8, <3>1, <4>1, <4>4 DEF WorkerRight, Woken
        <3> QED
            BY <2>3, <3>2, <3>3 DEF Woken
    <2>4. CASE pc[0] # "set" /\ ~Woken
        <3>1. mcip' = mcip /\ Asleep(c)
            BY <1>0, <2>1, <2>4, MasterMoves DEF WorkerRight
        <3>2. ~Woken'
            BY <1>2, <1>3, <1>4, <2>1, <2>4 DEF Woken, MasterMove, Moves
        <3>3. pc'[0] \in {"set_exit", "set"} => pc[c] = "wfi"
            <4>1. pc'[0] \in {"set_exit", "set"} => AllWorkersWfi
                BY <1>2 DEF MasterMove, Moves
            <4> QED
                BY <2>1, <3>1, <4>1, AllInLoop DEF Asleep
        <3> QED
            BY <1>1, <1>8, <3>1, <3>2, <3>3 DEF WorkerRight
    <2> QED
        BY <2>2, <2>3, <2>4
<1> QED
    BY <1>5, <1>6, <1>7, <1>8

\* The master starts an event with fini_count cleared.
LEMMA MasterFini ==
    ASSUME IInv, Master
    PROVE  FiniRight'
<1>0. TypeOK /\ ProgramRight /\ FiniRight /\ MasterEffects /\ BootRight
    BY MasterEffect DEF IInv
<1>1. \A c \in Workers : pc'[c] = pc[c]
    BY <1>0, MasterFrame
<1>2. MasterMove
    BY <1>0, MasterMoves
<1>3. /\ eu_p'.nthreads = eu_p.nthreads \/ pc[0] \in {"memset", "stop", "push_nthreads"}
      /\ eu_p'.exit_flag = eu_p.exit_flag \/ pc[0] \in {"memset", "set_exit"}
      /\ eu_p'.fini_count = eu_p.fini_count \/ pc[0] \in {"memset", "reset"}
      /\ pc[0] = "reset" => eu_p'.fini_count = 0
    BY <1>0, MasterWords
<1>4. eu_p.nthreads \in Nat /\ eu_p.exit_flag \in Nat
    BY <1>0 DEF TypeOK, Fields
<1>5. pc[0] # "return" => Op' = Op
    BY <1>0, MasterMoves DEF Op
<1>6. ASSUME Woken'
      PROVE  eu_p'.fini_count = Cardinality({c \in Workers : Asleep(c)'})
    <2>1. CASE pc[0] = "set"
        <3>1. eu_p'.fini_count = 0
            <4>1. Op = "run" /\ ~Woken
                BY <1>0, <1>2, <1>6, <2>1 DEF MasterMove, Moves, Woken
            <4>2. eu_p.fini_count = 0
                BY <1>0, <2>1, <4>1 DEF FiniRight
            <4> QED
                BY <1>3, <2>1, <4>2
        <3>2. \A c \in Workers : mcip'[c]
            <4>1. Wakes
                BY <1>0, <2>1, MasterMoves
            <4> QED
                BY <4>1, CoreFacts DEF Wakes
        <3>3. {c \in Workers : Asleep(c)'} = {}
            BY <3>2 DEF Asleep
        <3> QED
            BY <3>1, <3>3, FS_EmptySet
    <2>2. CASE pc[0] # "set"
        <3>1. pc[0] = "own" /\ Woken /\ mcip' = mcip
            <4>1. pc[0] = "own" /\ Woken
                BY <1>2, <1>3, <1>4, <1>6, <2>2 DEF MasterMove, Moves, Woken
            <4> QED
                BY <1>0, <4>1, MasterMoves
        <3>2. {c \in Workers : Asleep(c)'} = {c \in Workers : Asleep(c)}
            <4>1. ASSUME NEW c \in Workers
                  PROVE  Asleep(c)' <=> Asleep(c)
                <5>1. pc'[c] = pc[c] /\ mcip'[c] = mcip[c]
                    BY <1>1, <3>1
                <5> QED
                    BY <5>1 DEF Asleep
            <4> QED
                BY <4>1, Zenon
        <3> QED
            BY <1>0, <1>3, <3>1, <3>2 DEF FiniRight
    <2> QED
        BY <2>1, <2>2
<1>7. ASSUME pc'[0] \in {"wake", "set", "own", "join"}, Op' = "run", ~Woken'
      PROVE  eu_p'.fini_count = 0
    <2>1. pc[0] \in {"reset", "wake", "set", "own"}
        <3>1. pc[0] # "set_exit"
            BY <1>0, <1>5, <1>7 DEF ProgramRight
        <3> QED
            BY <1>2, <1>7, <3>1 DEF MasterMove, Moves
    <2>2. CASE pc[0] = "reset"
        BY <1>3, <2>2
    <2>3. CASE pc[0] # "reset"
        <3>1. Op = "run"
            BY <1>5, <1>7, <2>1
        <3>2. ~Woken
            BY <1>2, <1>3, <1>7, <2>1, <2>3 DEF MasterMove, Moves, Woken
        <3>3. eu_p.fini_count = 0
            BY <1>0, <2>1, <2>3, <3>1, <3>2 DEF FiniRight
        <3> QED
            BY <1>3, <2>1, <2>3, <3>3
    <2> QED
        BY <2>2, <2>3
<1> QED
    BY <1>6, <1>7 DEF FiniRight

\* The calls of every core stay in order when the master steps.
LEMMA MasterCalls ==
    ASSUME IInv, Master
    PROVE  /\ \A c \in Cores : RanInOrder(c)'
           /\ MasterRanRight'
<1>0. TypeOK /\ ProgramRight /\ MasterRanRight /\ EventRight /\ MasterEffects /\ BootRight
      /\ \A c \in Cores : RanInOrder(c)
    BY MasterEffect DEF IInv
<1>1. \A c \in Workers : pc'[c] = pc[c] /\ ran'[c] = ran[c]
    BY <1>0, MasterFrame
<1>2. MasterMove
    BY <1>0, MasterMoves
<1>3. /\ eu_p'.nthreads = eu_p.nthreads \/ pc[0] \in {"memset", "stop", "push_nthreads"}
      /\ pc[0] = "stop" => eu_p'.nthreads = 0
    BY <1>0, MasterWords
<1>4. /\ eu_p.nthreads \in Nat /\ pushed \in Nat /\ ran \in [Cores -> Seq(Nat \X Nat)]
      /\ 0 \in Cores
    BY <1>0, CoreFacts DEF TypeOK, Fields
<1>5. pushed' = pushed \/ pushed' = pushed + 1
    BY <1>0, MasterMoves
<1>6. ASSUME NEW c \in Cores, ran'[c] = ran[c]
      PROVE  /\ RanInOrder(c)' /\ (pushed' = pushed + 1 => Fresh(c)')
             /\ pushed' = pushed => (Fresh(c)' <=> Fresh(c)) /\ (RanIt(c)' <=> RanIt(c))
    <2>1. \A i \in 1 .. Len(ran[c]) : ran[c][i][1] \in Nat
        <3>1. ran[c] \in Seq(Nat \X Nat)
            BY <1>4
        <3> QED
            BY <3>1
    <2>2. RanInOrder(c)
        BY <1>0
    <2>3. RanInOrder(c)'
        BY <1>4, <1>5, <1>6, <2>1, <2>2 DEF RanInOrder
    <2>4. pushed' = pushed + 1 => Fresh(c)'
        BY <1>4, <1>6, <2>1, <2>2 DEF RanInOrder, Fresh
    <2>5. pushed' = pushed => (Fresh(c)' <=> Fresh(c)) /\ (RanIt(c)' <=> RanIt(c))
        BY <1>6 DEF Fresh, RanIt
    <2> QED
        BY <2>3, <2>4, <2>5
<1>7. CASE pc[0] = "own"
    <2>1. pushed' = pushed /\ CallEvent(0)
        BY <1>0, <1>7, MasterMoves
    <2>2. EventPending
        BY <1>0, <1>7 DEF ProgramRight, EventPending, BootLocations
    <2>3. EventWhole /\ Fresh(0)
        BY <1>0, <1>7, <2>2 DEF EventRight, MasterRanRight
    <2>4. ran'[0] = Append(ran[0], <<pushed, pushed>>)
        BY <1>4, <2>1, <2>3 DEF CallEvent, EventWhole
    <2>5. RanInOrder(0)' /\ RanIt(0)'
        BY <1>0, <1>4, <2>1, <2>3, <2>4, RunsIt
    <2>6. pc'[0] \in {"join", "stop"}
        BY <1>2, <1>7 DEF MasterMove, Moves
    <2>7. \A c \in Workers : RanInOrder(c)'
        BY <1>1, <1>6, CoreFacts
    <2> QED
        BY <2>5, <2>6, <2>7, CoreFacts DEF MasterRanRight, EventPending
<1>8. CASE pc[0] # "own"
    <2>1. ran' = ran
        BY <1>0, <1>8, MasterMoves
    <2>2. \A c \in Cores : RanInOrder(c)'
        BY <1>6, <2>1
    <2>3. MasterRanRight'
        <3>1. CASE pc[0] = "push_fn"
            <4>1. Fresh(0)' /\ pc'[0] = "push_data"
                BY <1>0, <1>2, <1>4, <1>6, <2>1, <3>1, MasterMoves DEF MasterMove, Moves
            <4> QED
                BY <4>1 DEF MasterRanRight
        <3>2. CASE pc[0] # "push_fn"
            <4>1. (Fresh(0)' <=> Fresh(0)) /\ (RanIt(0)' <=> RanIt(0))
                BY <1>0, <1>4, <1>6, <2>1, <3>2, MasterMoves
            <4>2. Booting /\ pc[0] # "memset" => eu_p.nthreads = 0
                BY <1>0 DEF BootRight
            <4>3. EventPending' => EventPending \/ pc[0] = "push_nthreads"
                BY <1>2, <1>3, <1>8, <4>2
                    DEF EventPending, MasterMove, Moves, Booting, BootLocations
            <4>4. pc'[0] \in {"push_data", "push_nthreads"} => pc[0] = "push_data"
                BY <1>2, <3>2 DEF MasterMove, Moves
            <4>5. pc'[0] \in {"join", "stop"} => pc[0] = "join"
                BY <1>2, <1>8 DEF MasterMove, Moves
            <4> QED
                BY <1>0, <4>1, <4>3, <4>4, <4>5 DEF MasterRanRight
        <3> QED
            BY <3>1, <3>2
    <2> QED
        BY <2>2, <2>3
<1> QED
    BY <1>7, <1>8

\* What a worker has run stays right when the master steps.
LEMMA MasterWorkerCalls ==
    ASSUME IInv, Master, NEW c \in Workers
    PROVE  WorkerRanRight(c)'
<1>0. TypeOK /\ ProgramRight /\ FiniRight /\ MasterEffects /\ BootRight /\ RanInOrder(c)
      /\ WorkerRight(c) /\ WorkerRanRight(c) /\ WorkerRight(c)'
    BY MasterEffect, MasterPlace, CoreFacts DEF IInv
<1>1. /\ pc'[c] = pc[c] /\ ran'[c] = ran[c]
      /\ mcip' = mcip => (Asleep(c)' <=> Asleep(c)) /\ (Awake(c)' <=> Awake(c))
      /\ pushed' = pushed => (Fresh(c)' <=> Fresh(c)) /\ (RanIt(c)' <=> RanIt(c))
    BY <1>0, MasterFrame
<1>2. MasterMove /\ (mcip' = mcip \/ pc[0] = "set") /\ (pushed' = pushed \/ pc[0] = "push_fn")
    BY <1>0, MasterMoves
<1>3. /\ eu_p'.nthreads = eu_p.nthreads \/ pc[0] \in {"memset", "stop", "push_nthreads"}
      /\ pc[0] = "stop" => eu_p'.nthreads = 0
      /\ eu_p'.exit_flag = eu_p.exit_flag \/ pc[0] \in {"memset", "set_exit"}
    BY <1>0, MasterWords
<1>4. eu_p.nthreads \in Nat /\ c \in Nat /\ c > 0 /\ pushed \in Nat
    BY <1>0, CoresAssumption DEF TypeOK, Fields, Workers
<1>5. CASE pc[0] = "push_fn"
    <2>1. pc'[0] = "push_data" /\ pushed' = pushed + 1
        BY <1>0, <1>2, <1>5, MasterMoves DEF MasterMove, Moves
    <2>2. Fresh(c)'
        <3>1. ran[c] \in Seq(Nat \X Nat)
            BY <1>0, CoreFacts DEF TypeOK
        <3>2. \A i \in 1 .. Len(ran[c]) : ran[c][i][1] \in Nat
            BY <3>1
        <3> QED
            BY <1>0, <1>1, <1>4, <2>1, <3>2 DEF RanInOrder, Fresh
    <2> QED
        BY <2>1, <2>2 DEF WorkerRanRight, Woken
<1>6. CASE pc[0] = "set"
    <2>1. ~Woken /\ pc'[0] \in {"own", "return"} /\ pushed' = pushed
          /\ eu_p'.nthreads = eu_p.nthreads /\ eu_p'.exit_flag = eu_p.exit_flag
        BY <1>2, <1>3, <1>6 DEF MasterMove, Moves, Woken
    <2>2. EventPending' => EventPending
        BY <1>6, <2>1 DEF EventPending, BootLocations
    <2>3. EventPending => Fresh(c)
        BY <1>0, <2>1 DEF WorkerRanRight
    <2>4. ASSUME Woken'
          PROVE  /\ Awake(c)' => Fresh(c)'
                 /\ pc'[c] = "wfi" /\ ~Asleep(c)'
        <3>1. eu_p.exit_flag = 0 /\ EventPending
            BY <1>4, <1>6, <2>1, <2>4 DEF Woken, EventPending, BootLocations
        <3>2. pc[c] = "wfi"
            BY <1>0, <1>6, <2>1, <3>1 DEF WorkerRight, Booting, BootLocations
        <3>3. mcip'[c]
            <4>1. Wakes
                BY <1>0, <1>6, MasterMoves
            <4> QED
                BY <4>1, CoreFacts DEF Wakes
        <3> QED
            BY <1>1, <2>1, <2>3, <3>1, <3>2, <3>3 DEF Asleep
    <2> QED
        BY <1>1, <2>1, <2>2, <2>3, <2>4 DEF WorkerRanRight
<1>7. CASE pc[0] = "own"
    <2>1. /\ pc'[0] \in {"join", "stop"} /\ (pc'[0] = "join" <=> eu_p.nthreads > 1)
          /\ pushed' = pushed /\ mcip' = mcip /\ eu_p.nthreads # 0
          /\ eu_p'.nthreads = eu_p.nthreads /\ eu_p'.exit_flag = eu_p.exit_flag
        BY <1>0, <1>2, <1>3, <1>7 DEF MasterMove, Moves, ProgramRight
    <2>2. EventPending /\ ~EventPending' /\ (Woken' <=> Woken)
        BY <1>7, <2>1 DEF EventPending, BootLocations, Woken
    <2>3. CASE Woken
        <3>1. pc'[0] = "join" /\ eu_p'.exit_flag = 0
            BY <2>1, <2>3 DEF Woken
        <3> QED
            BY <1>0, <1>1, <2>1, <2>2, <2>3, <3>1 DEF WorkerRanRight
    <2>4. CASE ~Woken
        <3>1. Fresh(c)
            BY <1>0, <2>2, <2>4 DEF WorkerRanRight
        <3>2. pc'[0] = "stop" => eu_p.nthreads = 1
            BY <1>4, <2>1
        <3>3. pc'[0] = "stop" => ~(c < eu_p.nthreads)
            BY <1>4, <3>2
        <3>4. pc'[0] = "join" => eu_p.exit_flag # 0
            BY <1>7, <2>1, <2>4 DEF Woken
        <3> QED
            BY <1>1, <2>1, <2>2, <2>4, <3>1, <3>2, <3>3, <3>4 DEF WorkerRanRight
    <2> QED
        BY <2>3, <2>4
<1>8. CASE pc[0] = "join"
    <2>1. /\ pc'[0] = "stop" /\ eu_p.fini_count = eu_p.workers_in_loop /\ eu_p.nthreads > 1
          /\ pushed' = pushed /\ mcip' = mcip /\ Op = "run"
          /\ eu_p'.nthreads = eu_p.nthreads /\ eu_p'.exit_flag = eu_p.exit_flag
        BY <1>0, <1>2, <1>3, <1>8 DEF MasterMove, Moves, ProgramRight
    <2>2. ~EventPending' /\ ~Woken' /\ ~Booting /\ ~Booting'
        BY <1>8, <2>1 DEF EventPending, Woken, Booting, BootLocations
    <2>3. Woken
        <3> SUFFICES ASSUME ~Woken
                     PROVE  FALSE
            OBVIOUS
        <3>1. eu_p.fini_count = 0 /\ eu_p.workers_in_loop = N - 1
            BY <1>0, <1>8, <2>1, <2>2, AllInLoop DEF FiniRight
        <3>2. N - 1 = 0
            BY <2>1, <3>1
        <3> QED
            BY <1>4, <3>2, CoresAssumption DEF Workers
    <2>4. Asleep(c)
        <3>1. eu_p'.exit_flag = 0
            BY <2>1, <2>3 DEF Woken
        <3> QED
            BY <1>0, <1>1, <2>1, <2>2, <3>1 DEF WorkerRight
    <2> QED
        BY <1>0, <1>1, <2>1, <2>2, <2>3, <2>4 DEF WorkerRanRight, Woken
<1>9. CASE pc[0] \notin {"push_fn", "set", "own", "join"}
    <2>1. pushed' = pushed /\ mcip' = mcip /\ ~Woken /\ ~Woken' /\ pc'[0] \notin {"join", "stop"}
        BY <1>2, <1>3, <1>4, <1>9 DEF MasterMove, Moves, Woken
    <2>2. Booting /\ pc[0] # "memset" => eu_p.nthreads = 0
        BY <1>0 DEF BootRight
    <2>3. EventPending' => EventPending \/ pc[0] = "push_nthreads"
        BY <1>2, <1>3, <1>9, <2>2 DEF EventPending, MasterMove, Moves, Booting, BootLocations
    <2>4. pc'[0] \in {"push_data", "push_nthreads"} => pc[0] = "push_data"
        BY <1>2, <1>9 DEF MasterMove, Moves
    <2> QED
        BY <1>0, <1>1, <2>1, <2>3, <2>4 DEF WorkerRanRight
<1> QED
    BY <1>5, <1>6, <1>7, <1>8, <1>9

\* A step of the master keeps the invariant.
LEMMA MasterStep ==
    ASSUME IInv, Master
    PROVE  IInv'
<1>1. TypeOK' /\ CountsRight' /\ ProgramRight' /\ BootRight' /\ EventRight'
    BY MasterPart
<1>2. FiniRight' /\ MasterRanRight' /\ \A c \in Cores : RanInOrder(c)'
    BY MasterFini, MasterCalls
<1>3. \A c \in Workers : WorkerRight(c)' /\ WorkerRanRight(c)'
    BY MasterPlace, MasterWorkerCalls
<1>4. Cores' = Cores /\ Workers' = Workers
    BY DEF Cores, Workers
<1> QED
    BY <1>1, <1>2, <1>3, <1>4 DEF IInv

-----------------------------------------------------------------------------
\* The cluster starts in the invariant, whatever the memory of the struct holds.
LEMMA InitIInv == Init => IInv
<1> SUFFICES ASSUME Init
             PROVE  IInv
    OBVIOUS
<1>0. Cores = Workers \cup {0} /\ 0 \notin Workers /\ 0 \in Cores
    BY CoreFacts
<1>1. /\ DOMAIN pc = Cores /\ pc[0] = "memset" /\ \A c \in Workers : pc[c] = "init"
      /\ ~eu_p_global /\ eu_p_global \in BOOLEAN /\ pushed = 0
      /\ program \in Seq(Calls)
    BY <1>0, ProgramsAssumption DEF Init
<1>2. mcip \in [Cores -> BOOLEAN] /\ \A c \in Cores : ~mcip[c]
    BY DEF Init
<1>3. ran \in [Cores -> Seq(Nat \X Nat)] /\ \A c \in Cores : Len(ran[c]) = 0
    BY EmptySeq DEF Init
<1>4. eu_p \in [Fields -> Nat]
    <2>1. PICK x \in 0 .. 1 : eu_p = [f \in Fields |-> x]
        BY StructFacts DEF Init
    <2> QED
        BY <2>1
<1>5. TypeOK
    BY <1>1, <1>2, <1>3, <1>4
        DEF TypeOK, PcOK, MasterLocations, BootLocations, WorkerLocations
<1>6. ProgramRight /\ CountsRight /\ BootRight
    BY <1>1 DEF ProgramRight, CountsRight, BootRight
<1>7. FiniRight /\ EventRight
    BY <1>1 DEF FiniRight, EventRight, Woken, EventPending, BootLocations
<1>8. \A c \in Workers : WorkerRight(c)
    BY <1>0, <1>1, <1>2 DEF WorkerRight, Booting, BootLocations
<1>9. \A c \in Cores : RanInOrder(c)
    BY <1>3 DEF RanInOrder
<1>10. MasterRanRight /\ \A c \in Workers : WorkerRanRight(c)
    BY <1>1 DEF MasterRanRight, WorkerRanRight, EventPending, Woken, BootLocations
<1> QED
    BY <1>5, <1>6, <1>7, <1>8, <1>9, <1>10 DEF IInv

\* A step that changes nothing keeps the invariant.
LEMMA StutterIInv ==
    ASSUME IInv, UNCHANGED vars
    PROVE  IInv'
BY DEF vars, IInv, TypeOK, PcOK, ProgramRight, Op, CountsRight, InLoop, Dozing, BootRight,
    Booting, FiniRight, Woken, Asleep, Awake, EventRight, EventPending, EventWhole, WorkerRight,
    RanInOrder, MasterRanRight, WorkerRanRight, Fresh, RanIt

\* The invariant holds in every reachable state: the words of the struct count
\* the workers, the master wakes them only when all sleep (eu.h:117-130,
\* 188-223), and the calls of each core are whole and in order.
THEOREM Invariance == Spec => []IInv
<1>1. IInv /\ [Next]_vars => IInv'
    <2> SUFFICES ASSUME IInv, [Next]_vars
                 PROVE  IInv'
        OBVIOUS
    <2>1. CASE Master
        BY <2>1, MasterStep
    <2>2. ASSUME NEW c \in Workers, Worker(c)
          PROVE  IInv'
        BY <2>2, WorkerStep
    <2>3. CASE UNCHANGED vars
        BY <2>3, StutterIInv
    <2> QED
        BY <2>1, <2>2, <2>3 DEF Next
<1> QED
    BY InitIInv, <1>1, PTL DEF Spec

\* Every word, interrupt and location keeps its type.
THEOREM TypeCorrect == Spec => []TypeOK
<1>1. IInv => TypeOK
    BY DEF IInv
<1> QED
    BY Invariance, <1>1, PTL

\* A core whose calls are in order has run an event at most once, and exactly
\* once if it is among its calls.
LEMMA InOrderOnce ==
    ASSUME TypeOK, NEW c \in Cores, RanInOrder(c), NEW e
    PROVE  /\ TimesRan(c, e) \in {0, 1}
           /\ TimesRan(c, e) = 0 <=> \A i \in 1 .. Len(ran[c]) : ran[c][i][1] # e
<1> DEFINE S == {i \in 1 .. Len(ran[c]) : ran[c][i][1] = e}
<1>0. ran[c] \in Seq(Nat \X Nat)
    BY DEF TypeOK
<1>1. \A i \in 1 .. Len(ran[c]) : ran[c][i][1] \in Nat
    BY <1>0
<1>2. \A i, j \in S : i = j
    <2> SUFFICES ASSUME NEW i \in S, NEW j \in S, i # j
                 PROVE  FALSE
        OBVIOUS
    <2>1. i < j \/ j < i
        BY <1>0
    <2>2. ran[c][i][1] = e /\ ran[c][j][1] = e /\ i \in 1 .. Len(ran[c]) /\ j \in 1 .. Len(ran[c])
        OBVIOUS
    <2>3. CASE i < j
        BY <1>1, <2>2, <2>3 DEF RanInOrder
    <2>4. CASE j < i
        BY <1>1, <2>2, <2>4 DEF RanInOrder
    <2> QED
        BY <2>1, <2>3, <2>4
<1>3. TimesRan(c, e) = Cardinality(S)
    BY DEF TimesRan
<1>4. CASE S = {}
    <2>1. Cardinality(S) = 0
        BY <1>4, FS_EmptySet
    <2> QED
        BY <1>3, <1>4, <2>1
<1>5. CASE S # {}
    <2>1. PICK i \in S : TRUE
        BY <1>5
    <2>2. S = {i}
        BY <1>2, <2>1
    <2>3. Cardinality(S) = 1
        BY <2>2, FS_Singleton
    <2> QED
        BY <1>3, <1>5, <2>3
<1> QED
    BY <1>4, <1>5

\* No core runs an event twice (eu.h:297), and a worker in a task is one of the
\* threads the event asks for.
THEOREM EventRunOnce == Spec => []NoReexecution
<1>1. IInv => NoReexecution
    <2> SUFFICES ASSUME IInv PROVE NoReexecution
        OBVIOUS
    <2>1. ASSUME NEW c \in Cores, NEW e \in 0 .. pushed PROVE TimesRan(c, e) <= 1
        <3>1. TimesRan(c, e) \in {0, 1}
            BY InOrderOnce DEF IInv
        <3> QED
            BY <3>1
    <2>2. ASSUME NEW c \in Workers, pc[c] \in {"call", "task"} PROVE c < eu_p.nthreads
        <3>1. WorkerRight(c) /\ WorkerRanRight(c)
            BY DEF IInv
        <3>2. Woken
            BY <2>2, <3>1 DEF WorkerRight, Booting, BootLocations, Asleep
        <3> QED
            BY <2>2, <3>1, <3>2 DEF WorkerRanRight
    <2> QED
        BY <2>1, <2>2 DEF NoReexecution
<1> QED
    BY Invariance, <1>1, PTL

\* When eu_run_empty is about to return, every thread of the team has run the
\* whole event once, no other core has, and no worker is in the task
\* (eu.h:278-298).
THEOREM JoinWaitsForAll == Spec => []JoinMeansDone
<1>1. IInv => JoinMeansDone
    <2> SUFFICES ASSUME IInv, pc[0] = "stop", NEW c \in Cores
                 PROVE  /\ CallsAreWhole(c)
                        /\ TimesRan(c, pushed) = IF c < eu_p.nthreads THEN 1 ELSE 0
                        /\ pc[c] \notin {"mine?", "call", "task"}
        BY DEF JoinMeansDone
    <2>0. TypeOK /\ RanInOrder(c) /\ ProgramRight
        BY DEF IInv
    <2>1. CallsAreWhole(c)
        BY <2>0 DEF RanInOrder, CallsAreWhole
    <2>2. TimesRan(c, pushed) \in {0, 1}
          /\ (TimesRan(c, pushed) = 0 <=> \A i \in 1 .. Len(ran[c]) : ran[c][i][1] # pushed)
        BY <2>0, InOrderOnce
    <2>3. eu_p.nthreads \in Nat /\ eu_p.nthreads # 0 /\ pushed \in Nat
        BY <2>0 DEF TypeOK, Fields, ProgramRight
    <2>4. Fresh(c) => TimesRan(c, pushed) = 0
        BY <2>2, <2>3 DEF Fresh
    <2>5. RanIt(c) => TimesRan(c, pushed) = 1
        BY <2>2 DEF RanIt
    <2>6. CASE c = 0
        <3>1. RanIt(0)
            BY DEF IInv, MasterRanRight
        <3> QED
            BY <2>1, <2>3, <2>5, <2>6, <3>1
    <2>7. CASE c \in Workers
        <3>1. WorkerRight(c) /\ WorkerRanRight(c)
            BY <2>7 DEF IInv
        <3>2. IF c < eu_p.nthreads /\ eu_p.exit_flag = 0 THEN RanIt(c) ELSE Fresh(c)
            BY <3>1 DEF WorkerRanRight
        <3>3. eu_p.exit_flag # 0 => ~(c < eu_p.nthreads)
            <4>1. eu_p.exit_flag # 0 => eu_p.nthreads = 1
                BY <3>1 DEF WorkerRanRight
            <4> QED
                BY <2>7, <4>1, CoresAssumption DEF Workers
        <3>4. pc[c] \notin {"mine?", "call", "task"}
            BY <3>1 DEF WorkerRight, Booting, BootLocations, Woken, Asleep
        <3> QED
            BY <2>1, <2>4, <2>5, <3>2, <3>3, <3>4
    <2> QED
        BY <2>6, <2>7, CoreFacts
<1> QED
    BY Invariance, <1>1, PTL
====
