-------------------------- MODULE DataMoverProofs --------------------------
(***************************************************************************)
(* Proofs about the data mover, for every set of clients, every program,   *)
(* every size of the ring and every depth of the DMA engine.               *)
(***************************************************************************)
EXTENDS DataMover, SequenceTheorems, TLAPS

Words == {"queue", "queue_back", "queue_front", "queue_fill", "mutex", "stat_q",
          "stat_pvalid", "dm_wfi"}

\* The words of the struct keep their values, but for w, which gets v.
Keeps        == \A x \in Words : dm_p'[x] = dm_p[x]
Stores(w, v) == dm_p'[w] = v /\ \A x \in Words \ {w} : dm_p'[x] = dm_p[x]

\* The words of the struct and their types.
LEMMA StructFacts ==
    ASSUME StructOK
    PROVE  /\ DOMAIN dm_p = Words
           /\ dm_p.queue \in [Slots -> Tasks] /\ dm_p.queue_back \in Slots
           /\ dm_p.queue_front \in Slots /\ dm_p.queue_fill \in Nat /\ dm_p.mutex \in {0, 1}
           /\ dm_p.stat_q \in 0 .. 3 /\ dm_p.stat_pvalid \in {0, 1} /\ dm_p.dm_wfi \in Nat
BY DEF StructOK, Words

\* A store to one word.
LEMMA StoreFacts ==
    ASSUME StructOK, NEW w \in Words, NEW v, dm_p' = [dm_p EXCEPT ![w] = v]
    PROVE  Stores(w, v)
BY StructFacts DEF Stores

\* A store of a value of the word's type keeps the struct well formed.
LEMMA StoreType ==
    ASSUME StructOK
    PROVE  /\ \A v \in [Slots -> Tasks] :
                  dm_p' = [dm_p EXCEPT !.queue = v] => StructOK'
           /\ \A v \in {0, 1} :
                  /\ dm_p' = [dm_p EXCEPT !.mutex = v] => StructOK'
                  /\ dm_p' = [dm_p EXCEPT !.stat_pvalid = v] => StructOK'
           /\ \A v \in 0 .. 3 : dm_p' = [dm_p EXCEPT !.stat_q = v] => StructOK'
           /\ \A v \in Nat : dm_p' = [dm_p EXCEPT !.dm_wfi = v] => StructOK'
           /\ \A v \in Nat, s \in Slots :
                  /\ dm_p' = [dm_p EXCEPT !.queue_fill = v, !.queue_front = s] => StructOK'
                  /\ dm_p' = [dm_p EXCEPT !.queue_back = s, !.queue_fill = v] => StructOK'
BY DEF StructOK

\* A cleared struct is well formed and empty.
LEMMA ZeroedFacts ==
    ASSUME dm_p' = ZeroedStruct
    PROVE  /\ StructOK' /\ dm_p'.queue_fill = 0 /\ dm_p'.queue_front = 0 /\ dm_p'.queue_back = 0
           /\ dm_p'.stat_q = 0 /\ dm_p'.mutex = 0 /\ dm_p'.stat_pvalid = 0 /\ dm_p'.dm_wfi = 0
<1>1. NoTask \in Tasks /\ 0 \in Slots
    BY SizeAssumption DEF NoTask, Tasks, Slots
<1> QED
    BY <1>1 DEF ZeroedStruct, StructOK

\* The next slot of the ring.
LEMMA NextSlot ==
    ASSUME NEW i \in Slots
    PROVE  (i + 1) % DM_TASK_QUEUE_SIZE = Wrap(i + 1) /\ Wrap(i + 1) \in Slots
<1>1. DM_TASK_QUEUE_SIZE \in Nat /\ DM_TASK_QUEUE_SIZE > 0 /\ i \in Nat
      /\ i < DM_TASK_QUEUE_SIZE
    BY SizeAssumption DEF Slots
<1>2. CASE i + 1 < DM_TASK_QUEUE_SIZE
    BY <1>1, <1>2 DEF Wrap, Slots
<1>3. CASE i + 1 = DM_TASK_QUEUE_SIZE
    BY <1>1, <1>3 DEF Wrap, Slots
<1> QED
    BY <1>1, <1>2, <1>3

\* The call of a client.
LEMMA OpFacts ==
    ASSUME NEW c \in Clients, program \in [Clients -> Seq(Ops)]
    PROVE  /\ Op(c) \in Ops \cup {"none"}
           /\ Op(c) # "none" => program[c] # <<>> /\ Op(c) = program[c][1]
           /\ program[c] # <<>> => Tail(program[c]) \in Seq(Ops)
<1>1. program[c] \in Seq(Ops)
    OBVIOUS
<1>2. CASE program[c] = <<>>
    BY <1>2 DEF Op
<1>3. CASE program[c] # <<>>
    <2>1. Head(program[c]) \in Ops /\ Tail(program[c]) \in Seq(Ops)
          /\ Head(program[c]) = program[c][1]
        BY <1>1, <1>3
    <2>2. Op(c) = Head(program[c])
        BY <1>3 DEF Op
    <2> QED
        BY <1>3, <2>1, <2>2 DEF Ops
<1> QED
    BY <1>2, <1>3

-----------------------------------------------------------------------------
\* What each step of the DM core changes.
DmMoves(l, m) == dm_pc = l /\ dm_pc' = m

DmEffects ==
    \/ /\ DmMoves("memset", "publish") /\ dm_p' = ZeroedStruct
       /\ UNCHANGED <<dm_p_global, issued>>
    \/ DmMoves("publish", "fill?") /\ dm_p_global' = TRUE /\ Keeps /\ issued' = issued
    \/ /\ dm_p_global' = dm_p_global /\ issued' = issued
       /\ \/ DmMoves("fill?", "start") /\ Keeps /\ dm_p.queue_fill # 0
          \/ DmMoves("fill?", "stat") /\ Keeps
          \/ /\ DmMoves("bump", "stat")
             /\ dm_p'.queue_fill = dm_p.queue_fill - 1
             /\ dm_p'.queue_back = Wrap(dm_p.queue_back + 1)
             /\ \A x \in Words \ {"queue_fill", "queue_back"} : dm_p'[x] = dm_p[x]
          \/ DmMoves("stat", "exited") /\ Keeps
          \/ /\ DmMoves("stat", "answer") /\ Keeps
             /\ dm_p.stat_q = STAT_READY \/ (dm_p.stat_q = STAT_WAIT_IDLE /\ ~Busy)
          \/ DmMoves("stat", "sleep?") /\ Keeps
          \/ DmMoves("answer", "clear") /\ Stores("stat_pvalid", 1)
          \/ DmMoves("clear", "sleep?") /\ Stores("stat_q", 0)
          \/ DmMoves("sleep?", "no_stat?") /\ Keeps
          \/ DmMoves("sleep?", "fill?") /\ Keeps
          \/ DmMoves("no_stat?", "doze") /\ Keeps
          \/ DmMoves("no_stat?", "fill?") /\ Keeps
          \/ DmMoves("doze", "wfi") /\ Stores("dm_wfi", dm_p.dm_wfi + 1)
          \/ DmMoves("wfi", "clr") /\ Keeps
          \/ DmMoves("clr", "rise") /\ Keeps
          \/ DmMoves("rise", "fill?") /\ Stores("dm_wfi", dm_p.dm_wfi - 1)
    \/ /\ DmMoves("start", "bump") /\ Keeps /\ dm_p_global' = dm_p_global
       /\ issued' = Append(issued, dm_p.queue[dm_p.queue_back])

\* Every step of the DM core is one of these.
LEMMA DmEffect ==
    ASSUME TypeOK, DmStep
    PROVE  DmEffects
<1>0. StructOK /\ "stat_pvalid" \in Words /\ "stat_q" \in Words /\ "dm_wfi" \in Words
    BY DEF TypeOK, Words
<1>k. dm_p' = dm_p => Keeps
    BY DEF Keeps
<1>1. CASE DmMemset
    BY <1>1 DEF DmMemset, Dm, dma, DmMoves, DmEffects
<1>2. CASE DmPublish
    BY <1>2, <1>k DEF DmPublish, Dm, dma, DmMoves, DmEffects
<1>3. CASE DmFill
    BY <1>3, <1>k DEF DmFill, Dm, dma, DmMoves, DmEffects
<1>4. CASE DmStart
    BY <1>4, <1>k DEF DmStart, Dm, dma, DmMoves, DmEffects
<1>5. CASE DmBump
    <2>1. /\ dm_p'.queue_fill = dm_p.queue_fill - 1
          /\ dm_p'.queue_back = (dm_p.queue_back + 1) % DM_TASK_QUEUE_SIZE
          /\ \A x \in Words \ {"queue_fill", "queue_back"} : dm_p'[x] = dm_p[x]
        BY <1>0, <1>5, StructFacts DEF DmBump, Words
    <2>2. dm_p'.queue_back = Wrap(dm_p.queue_back + 1)
        BY <1>0, <2>1, StructFacts, NextSlot
    <2> QED
        BY <1>5, <2>1, <2>2 DEF DmBump, Dm, dma, DmMoves, DmEffects
<1>6. CASE DmStat
    <2>1. Keeps /\ dm_p_global' = dm_p_global /\ issued' = issued /\ dm_pc = "stat"
        BY <1>6, <1>k DEF DmStat, Dm, dma
    <2>2. \/ dm_pc' = "exited"
          \/ dm_pc' = "answer" /\ dm_p.stat_q = STAT_READY
          \/ dm_pc' = "answer" /\ dm_p.stat_q = STAT_WAIT_IDLE /\ ~Busy
          \/ dm_pc' = "sleep?"
        BY <1>6 DEF DmStat, Dm
    <2> QED
        BY <2>1, <2>2 DEF DmMoves, DmEffects
<1>7. CASE DmAnswer
    BY <1>0, <1>7, StoreFacts DEF DmAnswer, Dm, dma, DmMoves, DmEffects
<1>8. CASE DmClear
    BY <1>0, <1>8, StoreFacts DEF DmClear, Dm, dma, DmMoves, DmEffects
<1>9. CASE DmSleepFill
    BY <1>9, <1>k DEF DmSleepFill, Dm, dma, DmMoves, DmEffects
<1>10. CASE DmSleepStat
    BY <1>10, <1>k DEF DmSleepStat, Dm, dma, DmMoves, DmEffects
<1>11. CASE DmDoze
    <2>1. Stores("dm_wfi", dm_p.dm_wfi + 1)
        BY <1>0, <1>11, StoreFacts DEF DmDoze
    <2> QED
        BY <1>11, <2>1 DEF DmDoze, Dm, dma, DmMoves, DmEffects
<1>12. CASE DmWfi
    BY <1>12, <1>k DEF DmWfi, Dm, dma, DmMoves, DmEffects
<1>13. CASE DmClr
    BY <1>13, <1>k DEF DmClr, Dm, dma, DmMoves, DmEffects
<1>14. CASE DmRise
    <2>1. Stores("dm_wfi", dm_p.dm_wfi - 1)
        BY <1>0, <1>14, StoreFacts DEF DmRise
    <2> QED
        BY <1>14, <2>1 DEF DmRise, Dm, dma, DmMoves, DmEffects
<1> QED
    BY <1>1, <1>2, <1>3, <1>4, <1>5, <1>6, <1>7, <1>8, <1>9, <1>10, <1>11, <1>12, <1>13,
        <1>14 DEF DmStep

\* The DM core leaves the clients and their tasks alone.
LEMMA DmFrame ==
    ASSUME DmStep
    PROVE  UNCHANGED <<pc, program, submitted, done>>
BY DEF DmStep, DmMemset, DmPublish, DmFill, DmStart, DmBump, DmStat, DmAnswer, DmClear,
    DmSleepFill, DmSleepStat, DmDoze, DmWfi, DmClr, DmRise, Dm, clients, dma

\* What each step of a client changes.
ClientMoves(c, l, m) == pc[c] = l /\ pc'[c] = m

ClientEffects(c) ==
    \/ /\ Keeps /\ UNCHANGED <<program, submitted>>
       /\ \/ ClientMoves(c, "init", "call") /\ dm_p_global
          \/ /\ ClientMoves(c, "call", "lock") /\ Op(c) \in Copies
             /\ dm_p.queue_fill < DM_TASK_QUEUE_SIZE
          \/ ClientMoves(c, "call", "set_first") /\ Op(c) \in {"start", "wait"}
          \/ ClientMoves(c, "wake", "set")
          \/ ClientMoves(c, "set_first", "drain") /\ Op(c) = "wait"
          \/ ClientMoves(c, "set", "await") /\ Op(c) \in {"wait", "ready"}
          \/ ClientMoves(c, "drain", "no_request") /\ dm_p.queue_fill = 0
          \/ ClientMoves(c, "no_request", "lock")
          \/ ClientMoves(c, "await", "unlock") /\ dm_p.stat_pvalid # 0
    \/ /\ UNCHANGED <<program, submitted>>
       /\ \/ /\ dm_p.mutex = 0 /\ Stores("mutex", 1)
             /\ \/ ClientMoves(c, "lock", "insert") /\ Op(c) \in Copies
                \/ ClientMoves(c, "lock", "pvalid") /\ Op(c) \notin Copies
                \/ ClientMoves(c, "call", "pvalid") /\ Op(c) = "ready"
          \/ /\ ClientMoves(c, "bump", "unlock")
             /\ dm_p'.queue_fill = dm_p.queue_fill + 1
             /\ dm_p'.queue_front = Wrap(dm_p.queue_front + 1)
             /\ \A x \in Words \ {"queue_fill", "queue_front"} : dm_p'[x] = dm_p[x]
          \/ ClientMoves(c, "pvalid", "request") /\ Stores("stat_pvalid", 0)
          \/ /\ ClientMoves(c, "request", "wake") /\ Op(c) = "wait"
             /\ Stores("stat_q", STAT_WAIT_IDLE)
          \/ ClientMoves(c, "request", "wake") /\ Op(c) = "ready" /\ Stores("stat_q", STAT_READY)
          \/ ClientMoves(c, "call", "wake") /\ Op(c) = "exit" /\ Stores("stat_q", STAT_EXIT)
    \/ /\ ClientMoves(c, "insert", "bump") /\ program' = program
       /\ submitted' = Append(submitted, Task(c, Op(c)))
       /\ Stores("queue", [dm_p.queue EXCEPT ![dm_p.queue_front] = Task(c, Op(c))])
    \/ /\ program' = [program EXCEPT ![c] = Tail(@)] /\ submitted' = submitted
       /\ \/ ClientMoves(c, "unlock", "call") /\ Stores("mutex", 0)
          \/ ClientMoves(c, "set_first", "call") /\ Op(c) = "start" /\ Keeps
          \/ ClientMoves(c, "set", "call") /\ Op(c) = "exit" /\ Keeps

\* Every step of a client is one of these.
LEMMA ClientEffect ==
    ASSUME TypeOK, NEW c \in Clients, ClientStep(c)
    PROVE  ClientEffects(c)
<1>0. /\ StructOK /\ "stat_pvalid" \in Words /\ "stat_q" \in Words /\ "mutex" \in Words
      /\ "queue" \in Words /\ pc \in [Clients -> ClientLocations]
    BY DEF TypeOK, Words
<1>k. dm_p' = dm_p => Keeps
    BY DEF Keeps
<1>m. \A l, m : Client(c, l, m) => ClientMoves(c, l, m) /\ program' = program
    BY <1>0 DEF Client, ClientMoves
<1>r. \A l : Return(c, l) => /\ ClientMoves(c, l, "call")
                            /\ program' = [program EXCEPT ![c] = Tail(@)]
    BY <1>0 DEF Return, ClientMoves
<1>1. CASE ClientInit(c)
    BY <1>1, <1>k, <1>m DEF ClientInit, ClientEffects
<1>2. CASE PollFill(c)
    BY <1>2, <1>k, <1>m DEF PollFill, ClientEffects
<1>3. CASE Lock(c)
    <2>1. dm_p.mutex = 0 /\ Stores("mutex", 1) /\ submitted' = submitted
        BY <1>0, <1>3, StoreFacts DEF Lock
    <2>2. CASE Op(c) = "ready"
        BY <1>3, <1>m, <2>1, <2>2 DEF Lock, ClientEffects, Copies
    <2>3. CASE Op(c) # "ready" /\ Op(c) \in Copies
        BY <1>3, <1>m, <2>1, <2>3 DEF Lock, ClientEffects
    <2>4. CASE Op(c) # "ready" /\ Op(c) \notin Copies
        BY <1>3, <1>m, <2>1, <2>4 DEF Lock, ClientEffects
    <2> QED
        BY <2>2, <2>3, <2>4
<1>4. CASE Insert(c)
    <2>1. Stores("queue", [dm_p.queue EXCEPT ![dm_p.queue_front] = Task(c, Op(c))])
        BY <1>0, <1>4, StructFacts DEF Insert, Stores, Words
    <2> QED
        BY <1>4, <1>m, <2>1 DEF Insert, ClientEffects
<1>5. CASE Bump(c)
    <2>1. /\ dm_p'.queue_fill = dm_p.queue_fill + 1
          /\ dm_p'.queue_front = (dm_p.queue_front + 1) % DM_TASK_QUEUE_SIZE
          /\ \A x \in Words \ {"queue_fill", "queue_front"} : dm_p'[x] = dm_p[x]
        BY <1>0, <1>5, StructFacts DEF Bump, Words
    <2>2. dm_p'.queue_front = Wrap(dm_p.queue_front + 1)
        BY <1>0, <2>1, StructFacts, NextSlot
    <2> QED
        BY <1>5, <1>m, <2>1, <2>2 DEF Bump, ClientEffects
<1>6. CASE Unlock(c)
    BY <1>0, <1>6, <1>r, StoreFacts DEF Unlock, ClientEffects
<1>7. CASE SeeAsleep(c)
    BY <1>7, <1>k, <1>m DEF SeeAsleep, ClientEffects
<1>8. CASE SetInterrupt(c)
    BY <1>8, <1>k, <1>m, <1>r DEF SetInterrupt, ClientEffects
<1>9. CASE Drained(c)
    BY <1>9, <1>k, <1>m DEF Drained, ClientEffects
<1>10. CASE NoRequest(c)
    BY <1>10, <1>k, <1>m DEF NoRequest, ClientEffects
<1>11. CASE ClearPvalid(c)
    BY <1>0, <1>11, <1>m, StoreFacts DEF ClearPvalid, ClientEffects
<1>12. CASE Request(c)
    <2>1. CASE Op(c) = "wait" /\ Client(c, "request", "wake")
               /\ dm_p' = [dm_p EXCEPT !.stat_q = STAT_WAIT_IDLE]
        BY <1>0, <1>12, <1>m, <2>1, StoreFacts DEF Request, ClientEffects
    <2>2. CASE Op(c) = "ready" /\ Client(c, "request", "wake")
               /\ dm_p' = [dm_p EXCEPT !.stat_q = STAT_READY]
        BY <1>0, <1>12, <1>m, <2>2, StoreFacts DEF Request, ClientEffects
    <2>3. CASE Op(c) = "exit" /\ Client(c, "call", "wake")
               /\ dm_p' = [dm_p EXCEPT !.stat_q = STAT_EXIT]
        BY <1>0, <1>12, <1>m, <2>3, StoreFacts DEF Request, ClientEffects
    <2> QED
        BY <1>12, <2>1, <2>2, <2>3 DEF Request
<1>13. CASE Await(c)
    BY <1>13, <1>k, <1>m DEF Await, ClientEffects
<1> QED
    BY <1>1, <1>2, <1>3, <1>4, <1>5, <1>6, <1>7, <1>8, <1>9, <1>10, <1>11, <1>12, <1>13
        DEF ClientStep

\* A client leaves the DM core, the DMA engine and the other clients alone.
LEMMA ClientFrame ==
    ASSUME TypeOK, NEW c \in Clients, ClientStep(c)
    PROVE  /\ UNCHANGED <<dm_pc, dm_p_global, issued, done>>
           /\ pc' \in [Clients -> ClientLocations] /\ DOMAIN program' = Clients
           /\ \A d \in Clients : d # c => pc'[d] = pc[d] /\ program'[d] = program[d]
<1>0. pc \in [Clients -> ClientLocations] /\ program \in [Clients -> Seq(Ops)]
    BY DEF TypeOK
<1>1. UNCHANGED <<dm_pc, dm_p_global, issued, done>>
    BY DEF ClientStep, ClientInit, PollFill, Lock, Insert, Bump, Unlock, SeeAsleep,
        SetInterrupt, Drained, NoRequest, ClearPvalid, Request, Await, Client, Return, dma
<1>2. \E m : pc' = [pc EXCEPT ![c] = m]
    BY DEF ClientStep, ClientInit, PollFill, Lock, Insert, Bump, Unlock, SeeAsleep,
        SetInterrupt, Drained, NoRequest, ClearPvalid, Request, Await, Client, Return
<1>3. program' = program \/ program' = [program EXCEPT ![c] = Tail(@)]
    BY ClientEffect DEF ClientEffects
<1>4. pc'[c] \in ClientLocations
    BY ClientEffect DEF ClientEffects, ClientMoves, ClientLocations
<1> QED
    BY <1>0, <1>1, <1>2, <1>3, <1>4

\* The same for what the invariant says of the other clients.
LEMMA ClientOthers ==
    ASSUME TypeOK, NEW c \in Clients, ClientStep(c), NEW d \in Clients, d # c
    PROVE  /\ pc'[d] = pc[d] /\ Op(d)' = Op(d)
           /\ (Locked(d)' <=> Locked(d)) /\ (Pending(d)' <=> Pending(d))
<1>1. pc'[d] = pc[d] /\ program'[d] = program[d]
    BY ClientFrame
<1>2. Op(d)' = Op(d)
    BY <1>1 DEF Op
<1> QED
    BY <1>1, <1>2 DEF Locked, Pending

\* The next call of a client that stays in its call is the same.
LEMMA ClientOp ==
    ASSUME TypeOK, NEW c \in Clients, ClientStep(c)
    PROVE  \/ program' = program /\ Op(c)' = Op(c)
           \/ pc'[c] = "call" /\ program'[c] = Tail(program[c])
<1>1. \/ program' = program
      \/ pc'[c] = "call" /\ program' = [program EXCEPT ![c] = Tail(@)]
    BY ClientEffect DEF ClientEffects, ClientMoves
<1>2. program \in [Clients -> Seq(Ops)]
    BY DEF TypeOK
<1> QED
    BY <1>1, <1>2 DEF Op

\* The number of tasks in the ring is positive when the DM core takes one out,
\* and dm_wfi when it is lowered: the words of the struct stay numbers.
LEMMA DmType ==
    ASSUME IInv, DmStep
    PROVE  TypeOK'
<1>0. TypeOK /\ StructOK /\ DmEffects /\ CountRight
    BY DmEffect DEF IInv, TypeOK
<1>1. UNCHANGED <<pc, program, submitted, done>>
    BY DmFrame
<1>2. StructOK'
    <2>0. dm_p.queue_fill \in Nat /\ dm_p.queue_back \in Slots /\ dm_p.dm_wfi \in Nat
        BY <1>0, StructFacts
    <2>1. CASE DmMemset
        BY <2>1, ZeroedFacts DEF DmMemset
    <2>2. CASE DmBump
        <3>1. dm_p.queue_fill > 0
            BY <1>0, <2>2 DEF CountRight, DmBump, Dm
        <3>2. dm_p.queue_fill - 1 \in Nat
            BY <2>0, <3>1
        <3>3. (dm_p.queue_back + 1) % DM_TASK_QUEUE_SIZE \in Slots
            BY <2>0, NextSlot
        <3> QED
            BY <1>0, <2>2, <3>2, <3>3, StoreType DEF DmBump
    <2>3. CASE DmAnswer
        BY <1>0, <2>3, StoreType DEF DmAnswer
    <2>4. CASE DmClear
        BY <1>0, <2>4, StoreType DEF DmClear
    <2>5. CASE DmDoze
        <3>1. dm_p.dm_wfi + 1 \in Nat
            BY <2>0
        <3> QED
            BY <1>0, <2>5, <3>1, StoreType DEF DmDoze
    <2>6. CASE DmRise
        <3>1. dm_p.dm_wfi = 1
            BY <1>0, <2>6 DEF CountRight, DmRise, Dm
        <3>2. dm_p.dm_wfi - 1 \in Nat
            BY <3>1
        <3> QED
            BY <1>0, <2>6, <3>2, StoreType DEF DmRise
    <2>7. CASE dm_p' = dm_p
        BY <1>0, <2>7 DEF StructOK
    <2> QED
        BY <2>1, <2>2, <2>3, <2>4, <2>5, <2>6, <2>7 DEF DmStep, DmPublish, DmFill, DmStart,
            DmStat, DmSleepFill, DmSleepStat, DmWfi, DmClr
<1>3. issued' \in Seq(Tasks)
    <2>1. issued' = issued \/ issued' = Append(issued, dm_p.queue[dm_p.queue_back])
        BY <1>0 DEF DmEffects
    <2>2. dm_p.queue[dm_p.queue_back] \in Tasks /\ issued \in Seq(Tasks)
        BY <1>0, StructFacts DEF TypeOK
    <2> QED
        BY <2>1, <2>2, AppendProperties
<1>4. dm_pc' \in DmLocations
    BY <1>0 DEF DmEffects, DmMoves, DmLocations
<1>5. dm_p_global' \in BOOLEAN /\ mcip' \in BOOLEAN
    <2>1. dm_p_global' = dm_p_global \/ dm_p_global' = TRUE
        BY <1>0 DEF DmEffects
    <2>2. mcip' = mcip \/ mcip' = FALSE
        BY DEF DmStep, DmMemset, DmPublish, DmFill, DmStart, DmBump, DmStat, DmAnswer, DmClear,
            DmSleepFill, DmSleepStat, DmDoze, DmWfi, DmClr, DmRise
    <2> QED
        BY <1>0, <2>1, <2>2 DEF TypeOK
<1> QED
    BY <1>0, <1>1, <1>2, <1>3, <1>4, <1>5 DEF TypeOK

\* A client stores values of the right type.
LEMMA ClientType ==
    ASSUME IInv, NEW c \in Clients, ClientStep(c)
    PROVE  TypeOK'
<1>0. TypeOK /\ StructOK /\ ClientEffects(c) /\ OpRight(c)
    BY ClientEffect DEF IInv, TypeOK
<1>1. /\ UNCHANGED <<dm_pc, dm_p_global, issued, done>>
      /\ pc' \in [Clients -> ClientLocations] /\ DOMAIN program' = Clients
      /\ \A d \in Clients : d # c => program'[d] = program[d]
    BY <1>0, ClientFrame
<1>2. Task(c, Op(c)) \in Tasks
    BY <1>0 DEF Task, Tasks, TypeOK
<1>3. StructOK'
    <2>0. dm_p.queue_fill \in Nat /\ dm_p.queue_front \in Slots /\ dm_p.queue \in [Slots -> Tasks]
        BY <1>0, StructFacts
    <2>1. CASE Lock(c)
        BY <1>0, <2>1, StoreType DEF Lock
    <2>2. CASE Insert(c)
        <3>1. [dm_p.queue EXCEPT ![dm_p.queue_front] = Task(c, Op(c))] \in [Slots -> Tasks]
            BY <1>2, <2>0
        <3>2. dm_p' = [dm_p EXCEPT !.queue = [dm_p.queue EXCEPT ![dm_p.queue_front] = Task(c, Op(c))]]
            BY <2>2 DEF Insert
        <3> QED
            BY <1>0, <3>1, <3>2, StoreType
    <2>3. CASE Bump(c)
        <3>1. dm_p.queue_fill + 1 \in Nat
            BY <2>0
        <3>2. (dm_p.queue_front + 1) % DM_TASK_QUEUE_SIZE \in Slots
            BY <2>0, NextSlot
        <3> QED
            BY <1>0, <2>3, <3>1, <3>2, StoreType DEF Bump
    <2>4. CASE Unlock(c)
        BY <1>0, <2>4, StoreType DEF Unlock
    <2>5. CASE ClearPvalid(c)
        BY <1>0, <2>5, StoreType DEF ClearPvalid
    <2>6. CASE Request(c)
        <3>1. \E v \in 0 .. 3 : dm_p' = [dm_p EXCEPT !.stat_q = v]
            BY <2>6 DEF Request, STAT_WAIT_IDLE, STAT_READY, STAT_EXIT
        <3> QED
            BY <1>0, <3>1, StoreType
    <2>7. CASE dm_p' = dm_p
        BY <1>0, <2>7 DEF StructOK
    <2>8. \/ Lock(c) \/ Insert(c) \/ Bump(c) \/ Unlock(c) \/ ClearPvalid(c) \/ Request(c)
          \/ dm_p' = dm_p
        BY DEF ClientStep, ClientInit, PollFill, SeeAsleep, SetInterrupt, Drained, NoRequest,
            Await
    <2> QED
        BY <2>1, <2>2, <2>3, <2>4, <2>5, <2>6, <2>7, <2>8
<1>4. submitted' \in Seq(Tasks)
    <2>1. submitted' = submitted \/ submitted' = Append(submitted, Task(c, Op(c)))
        BY <1>0 DEF ClientEffects
    <2>2. submitted \in Seq(Tasks)
        BY <1>0 DEF TypeOK
    <2> QED
        BY <1>2, <2>1, <2>2, AppendProperties
<1>5. program' \in [Clients -> Seq(Ops)]
    <2>1. program' = program \/ (program' = [program EXCEPT ![c] = Tail(@)] /\ Op(c) # "none")
        BY <1>0 DEF ClientEffects, ClientMoves, OpRight, Copies
    <2>2. program \in [Clients -> Seq(Ops)]
        BY <1>0 DEF TypeOK
    <2>3. Op(c) # "none" => Tail(program[c]) \in Seq(Ops)
        BY <2>2, OpFacts
    <2> QED
        BY <2>1, <2>2, <2>3
<1>6. mcip' \in BOOLEAN
    <2>1. mcip' = mcip \/ mcip' = TRUE
        BY DEF ClientStep, ClientInit, PollFill, Lock, Insert, Bump, Unlock, SeeAsleep,
            SetInterrupt, Drained, NoRequest, ClearPvalid, Request, Await
    <2> QED
        BY <1>0, <2>1 DEF TypeOK
<1> QED
    BY <1>0, <1>1, <1>3, <1>4, <1>5, <1>6 DEF TypeOK

-----------------------------------------------------------------------------
\* The facts every proof about a step starts from.
LEMMA Basics ==
    ASSUME IInv
    PROVE  /\ TypeOK /\ StructOK /\ BootRight /\ LockRight /\ OneOwner /\ CountRight /\ AnswerRight
           /\ \A c \in Clients : OpRight(c) /\ WaitRight(c)
           /\ Len(submitted) \in Nat /\ Len(issued) \in Nat /\ done \in Nat
           /\ dm_p.queue_fill \in Nat /\ dm_p.dm_wfi \in Nat /\ dm_p.mutex \in {0, 1}
           /\ dm_p.stat_pvalid \in {0, 1}
<1>1. TypeOK /\ StructOK
    BY DEF IInv, TypeOK
<1>2. Len(submitted) \in Nat /\ Len(issued) \in Nat /\ done \in Nat
    BY <1>1, LenProperties DEF TypeOK
<1> QED
    BY <1>1, <1>2, StructFacts DEF IInv, LockRight

\* A client that waits for an answer holds the mutex.
LEMMA PendingLocked ==
    ASSUME NEW c \in Clients, Pending(c)
    PROVE  Locked(c)
BY DEF Pending, Locked

\* A step of the DM core keeps everything but its answers right.
LEMMA DmRest ==
    ASSUME IInv, DmStep
    PROVE  /\ BootRight' /\ LockRight' /\ CountRight'
           /\ \A c \in Clients : OpRight(c)' /\ WaitRight(c)'
<1>0. TypeOK /\ StructOK /\ BootRight /\ LockRight /\ OneOwner /\ CountRight
      /\ Len(submitted) \in Nat /\ Len(issued) \in Nat /\ done \in Nat
      /\ dm_p.queue_fill \in Nat /\ dm_p.dm_wfi \in Nat
    BY Basics
<1>e. DmEffects
    BY <1>0, DmEffect
<1>1. UNCHANGED <<pc, program, submitted, done>>
    BY DmFrame
<1>2. \A c \in Clients : Op(c)' = Op(c) /\ (Locked(c)' <=> Locked(c))
    BY <1>1 DEF Op, Locked
<1>3. \/ issued' = issued /\ dm_pc # "start"
      \/ dm_pc = "start" /\ dm_pc' = "bump" /\ Len(issued') = Len(issued) + 1 /\ issued' # <<>>
    <2>1. \/ issued' = issued /\ dm_pc # "start"
          \/ DmMoves("start", "bump") /\ issued' = Append(issued, dm_p.queue[dm_p.queue_back])
        BY <1>e DEF DmEffects, DmMoves
    <2>2. issued \in Seq(Tasks) /\ dm_p.queue[dm_p.queue_back] \in Tasks
        BY <1>0, StructFacts DEF TypeOK
    <2> QED
        BY <2>1, <2>2, AppendProperties DEF DmMoves
<1>4. BootRight'
    <2>1. /\ (dm_p_global' = dm_p_global \/ (DmMoves("publish", "fill?") /\ dm_p_global'))
          /\ (dm_pc = "publish" => dm_p_global')
          /\ (dm_pc = "memset" => dm_pc' = "publish")
          /\ (dm_pc' \in {"memset", "publish"} => dm_pc = "memset")
        BY <1>e DEF DmEffects, DmMoves
    <2> QED
        BY <1>0, <1>1, <1>3, <2>1 DEF BootRight, DmMoves
<1>5. LockRight'
    <2>1. CASE dm_pc = "memset"
        <3>1. \A c \in Clients : ~Locked(c)
            BY <1>0, <2>1 DEF BootRight, Locked
        <3> QED
            BY <1>2, <3>1 DEF LockRight, OneOwner
    <2>2. CASE dm_pc # "memset"
        <3>1. dm_p'.mutex = dm_p.mutex
            BY <1>e, <2>2 DEF DmEffects, DmMoves, Keeps, Stores, Words
        <3> QED
            BY <1>0, <1>2, <3>1 DEF LockRight, OneOwner
    <2> QED
        BY <2>1, <2>2
<1>6. CountRight'
    <2>1. (Inserting' <=> Inserting) /\ Added' = Added
        BY <1>1 DEF Inserting, Added
    <2>2. /\ done' <= Len(issued')
          /\ dm_pc' = "bump" => Len(issued') > 0
          /\ \A c \in Clients : pc'[c] = "bump" =>
                Len(submitted') > 0 /\ submitted'[Len(submitted')].client = c
        <3>1. dm_pc' = "bump" => dm_pc = "start"
            BY <1>e DEF DmEffects, DmMoves
        <3> QED
            BY <1>0, <1>1, <1>3, <3>1 DEF CountRight
    <2>3. CASE dm_pc = "memset"
        <3>1. dm_p' = ZeroedStruct /\ dm_pc' = "publish" /\ issued' = issued
            BY <1>e, <2>3 DEF DmEffects, DmMoves
        <3>2. Len(submitted) = 0 /\ Len(issued) = 0 /\ ~Inserting
            BY <1>0, <2>3 DEF BootRight, Inserting
        <3>3. Removed' = 0 /\ Added' = 0
            BY <2>1, <3>1, <3>2 DEF Removed, Added
        <3> QED
            BY <2>2, <3>1, <3>3, ZeroedFacts DEF CountRight
    <2>4. CASE dm_pc # "memset"
        <3>1. /\ Removed + dm_p.queue_fill = Added
              /\ dm_pc \in {"start", "bump"} => dm_p.queue_fill > 0
              /\ dm_p.dm_wfi = IF dm_pc \in {"wfi", "clr", "rise"} THEN 1 ELSE 0
            BY <1>0, <2>4 DEF CountRight
        <3>2. \/ /\ dm_p'.queue_fill = dm_p.queue_fill /\ dm_pc # "bump"
                 /\ dm_pc' = "bump" => dm_pc = "start"
                 /\ dm_pc' = "start" => dm_p.queue_fill # 0
              \/ DmMoves("bump", "stat") /\ dm_p'.queue_fill = dm_p.queue_fill - 1
            BY <1>e, <2>4 DEF DmEffects, DmMoves, Keeps, Stores, Words
        <3>3. dm_p'.dm_wfi = IF dm_pc' \in {"wfi", "clr", "rise"} THEN 1 ELSE 0
            BY <1>0, <1>e, <2>4, <3>1 DEF DmEffects, DmMoves, Keeps, Stores, Words
        <3>4. Removed' + dm_p'.queue_fill = Added'
            <4>1. CASE DmMoves("bump", "stat") /\ dm_p'.queue_fill = dm_p.queue_fill - 1
                <5>1. Removed = Len(issued) - 1 /\ Removed' = Len(issued)
                    BY <1>3, <4>1 DEF Removed, DmMoves
                <5> QED
                    BY <1>0, <2>1, <3>1, <4>1, <5>1
            <4>2. CASE dm_p'.queue_fill = dm_p.queue_fill /\ dm_pc # "bump"
                       /\ (dm_pc' = "bump" => dm_pc = "start")
                <5>1. Removed' = Removed
                    BY <1>0, <1>3, <4>2 DEF Removed
                <5> QED
                    BY <2>1, <3>1, <4>2, <5>1
            <4> QED
                BY <3>2, <4>1, <4>2
        <3>5. dm_pc' \in {"start", "bump"} => dm_p'.queue_fill > 0
            BY <1>0, <3>1, <3>2 DEF DmMoves
        <3> QED
            BY <2>2, <3>3, <3>4, <3>5 DEF CountRight
    <2> QED
        BY <2>3, <2>4
<1>7. ASSUME NEW c \in Clients
      PROVE  OpRight(c)' /\ WaitRight(c)'
    <2>1. OpRight(c) /\ WaitRight(c) /\ Op(c)' = Op(c)
        BY <1>2, Basics
    <2>2. OpRight(c)'
        BY <1>1, <2>1 DEF OpRight
    <2>3. (AllIssued(c) => AllIssued(c)') /\ (AllDone(c) => AllDone(c)')
        BY <1>0, <1>1, <1>3 DEF AllIssued, AllDone
    <2>4. WaitRight(c)'
        BY <1>1, <2>1, <2>3 DEF WaitRight
    <2> QED
        BY <2>2, <2>4
<1> QED
    BY <1>4, <1>5, <1>6, <1>7

\* A step of the DM core answers only a request that is pending, and the
\* request of dm_wait only when the tasks of the caller are complete.
LEMMA DmAnswerRight ==
    ASSUME IInv, DmStep
    PROVE  AnswerRight'
<1>0. TypeOK /\ StructOK /\ BootRight /\ OneOwner /\ CountRight /\ AnswerRight
      /\ Len(issued) \in Nat /\ done \in Nat /\ \A c \in Clients : WaitRight(c)
    BY Basics
<1>e. DmEffects
    BY <1>0, DmEffect
<1>1. UNCHANGED <<pc, program, submitted, done>>
    BY DmFrame
<1>2. \A c \in Clients : /\ Op(c)' = Op(c) /\ (Pending(c)' <=> Pending(c))
                         /\ (AllDone(c)' <=> AllDone(c))
    BY <1>1 DEF Op, Pending, AllDone
<1>3. CASE dm_pc = "memset"
    <2>1. dm_p' = ZeroedStruct /\ dm_pc' = "publish"
        BY <1>e, <1>3 DEF DmEffects, DmMoves
    <2>2. \A c \in Clients : pc'[c] = "init"
        BY <1>0, <1>1, <1>3 DEF BootRight
    <2> QED
        BY <2>1, <2>2, ZeroedFacts
            DEF AnswerRight, Pending, STAT_WAIT_IDLE, STAT_READY
<1>4. CASE dm_pc = "answer"
    <2>1. dm_pc' = "clear" /\ dm_p'.stat_pvalid = 1
        BY <1>e, <1>4 DEF DmEffects, DmMoves, Stores
    <2>2. PICK c \in Clients : Pending(c) /\ (Op(c) = "wait" => AllDone(c))
        BY <1>0, <1>4 DEF AnswerRight
    <2>3. ASSUME NEW d \in Clients
          PROVE  /\ pc[d] # "request"
                 /\ Pending(d) /\ Op(d) = "wait" => AllDone(d)
        <3>1. Locked(c)
            BY <2>2, PendingLocked
        <3>2. Locked(d) => d = c
            BY <1>0, <3>1 DEF OneOwner
        <3>3. pc[d] = "request" \/ Pending(d) => Locked(d)
            BY PendingLocked DEF Locked
        <3>4. pc[c] # "request"
            BY <2>2 DEF Pending
        <3> QED
            BY <2>2, <3>2, <3>3, <3>4
    <2> QED
        BY <1>1, <1>2, <2>1, <2>3 DEF AnswerRight
<1>5. CASE dm_pc = "clear"
    <2>1. dm_pc' = "sleep?" /\ dm_p'.stat_q = 0 /\ dm_p'.stat_pvalid = dm_p.stat_pvalid
        BY <1>e, <1>5 DEF DmEffects, DmMoves, Stores, Words
    <2> QED
        BY <1>0, <1>1, <1>2, <1>5, <2>1 DEF AnswerRight, STAT_WAIT_IDLE, STAT_READY
<1>6. CASE dm_pc \notin {"memset", "answer", "clear"}
    <2>1. /\ dm_p'.stat_q = dm_p.stat_q /\ dm_p'.stat_pvalid = dm_p.stat_pvalid
          /\ dm_pc' # "clear"
          /\ dm_pc' = "answer" => \/ dm_p.stat_q = STAT_READY
                                  \/ dm_p.stat_q = STAT_WAIT_IDLE /\ ~Busy
        BY <1>e, <1>6 DEF DmEffects, DmMoves, Keeps, Stores, Words
    <2>2. ASSUME dm_p.stat_q \in {STAT_WAIT_IDLE, STAT_READY}
          PROVE  /\ dm_p.stat_pvalid = 0
                 /\ \E c \in Clients :
                        Pending(c) /\ (dm_p.stat_q = STAT_WAIT_IDLE <=> Op(c) = "wait")
        BY <1>0, <1>6, <2>2 DEF AnswerRight
    <2>3. ASSUME dm_pc' = "answer"
          PROVE  /\ dm_p.stat_pvalid = 0
                 /\ \E c \in Clients : Pending(c) /\ (Op(c) = "wait" => AllDone(c))
        <3>1. dm_p.stat_q \in {STAT_WAIT_IDLE, STAT_READY}
            BY <2>1, <2>3
        <3>2. PICK c \in Clients : Pending(c) /\ (dm_p.stat_q = STAT_WAIT_IDLE <=> Op(c) = "wait")
            BY <2>2, <3>1
        <3>3. ASSUME Op(c) = "wait"
              PROVE  AllDone(c)
            <4>1. ~Busy
                BY <2>1, <2>3, <3>2, <3>3 DEF STAT_WAIT_IDLE, STAT_READY
            <4>2. done = Len(issued)
                BY <1>0, <4>1 DEF Busy, CountRight
            <4>3. AllIssued(c)
                BY <1>0, <3>2, <3>3 DEF WaitRight, Pending
            <4> QED
                BY <4>2, <4>3 DEF AllIssued, AllDone
        <3> QED
            BY <2>2, <3>1, <3>2, <3>3
    <2>4. \A c \in Clients :
              /\ pc[c] = "request" => dm_p.stat_pvalid = 0
              /\ Pending(c) /\ Op(c) = "wait" /\ dm_p.stat_pvalid # 0 => AllDone(c)
        BY <1>0, <1>6 DEF AnswerRight
    <2> QED
        BY <1>1, <1>2, <2>1, <2>2, <2>3, <2>4 DEF AnswerRight
<1> QED
    BY <1>3, <1>4, <1>5, <1>6

-----------------------------------------------------------------------------
\* A client that takes a step has seen the pointer to the struct.
LEMMA ClientBoot ==
    ASSUME IInv, NEW c \in Clients, ClientStep(c)
    PROVE  dm_p_global /\ dm_pc \notin {"memset", "publish"} /\ BootRight'
<1>0. TypeOK /\ BootRight
    BY Basics
<1>e. ClientEffects(c)
    BY <1>0, ClientEffect
<1>1. pc[c] = "init" => dm_p_global
    BY <1>e DEF ClientEffects, ClientMoves
<1>2. dm_p_global
    BY <1>0, <1>1 DEF BootRight
<1> QED
    BY <1>0, <1>2, ClientFrame DEF BootRight

\* What a step of a client adds to the tasks.
LEMMA ClientSubmits ==
    ASSUME IInv, NEW c \in Clients, ClientStep(c)
    PROVE  \/ submitted' = submitted /\ pc[c] # "insert" /\ pc'[c] # "bump"
           \/ /\ ClientMoves(c, "insert", "bump")
              /\ Len(submitted') = Len(submitted) + 1
              /\ submitted'[Len(submitted) + 1] = Task(c, Op(c))
              /\ \A i \in 1..Len(submitted) : submitted'[i] = submitted[i]
<1>0. TypeOK
    BY Basics
<1>e. ClientEffects(c)
    BY <1>0, ClientEffect
<1>1. \/ submitted' = submitted /\ pc[c] # "insert" /\ pc'[c] # "bump"
      \/ ClientMoves(c, "insert", "bump") /\ submitted' = Append(submitted, Task(c, Op(c)))
    BY <1>e DEF ClientEffects, ClientMoves
<1>2. submitted \in Seq(Tasks) /\ Task(c, Op(c)) \in Tasks
    BY <1>0, LenProperties DEF TypeOK, Task, Tasks
<1> QED
    BY <1>1, <1>2, AppendProperties

\* A new task is its owner's: the other clients' tasks stay as they are.
LEMMA ClientTasks ==
    ASSUME IInv, NEW c \in Clients, ClientStep(c), NEW d \in Clients,
           d # c \/ pc[c] # "insert"
    PROVE  (AllIssued(d)' <=> AllIssued(d)) /\ (AllDone(d)' <=> AllDone(d))
<1>0. Len(submitted) \in Nat /\ UNCHANGED <<issued, done>>
    BY Basics, ClientFrame
<1>1. CASE submitted' = submitted
    BY <1>0, <1>1 DEF AllIssued, AllDone
<1>2. CASE /\ d # c /\ Len(submitted') = Len(submitted) + 1
           /\ submitted'[Len(submitted) + 1].client = c
           /\ \A i \in 1..Len(submitted) : submitted'[i] = submitted[i]
    BY <1>0, <1>2 DEF AllIssued, AllDone
<1>3. Task(c, Op(c)).client = c
    BY DEF Task
<1> QED
    BY <1>1, <1>2, <1>3, ClientSubmits DEF ClientMoves

\* The mutex has one owner, and it is the client in its critical section.
LEMMA ClientLockRight ==
    ASSUME IInv, NEW c \in Clients, ClientStep(c)
    PROVE  LockRight' /\ OpRight(c)'
<1>0. TypeOK /\ LockRight /\ OneOwner /\ OpRight(c)
    BY Basics
<1>e. ClientEffects(c)
    BY <1>0, ClientEffect
<1>1. \A d \in Clients : d # c => (Locked(d)' <=> Locked(d))
    BY <1>0, ClientOthers
<1>2. OpRight(c)'
    <2>1. \/ pc'[c] = "call"
          \/ Op(c)' = Op(c)
        BY <1>0, ClientOp
    <2>2. Op(c) \in Ops \cup {"none"}
        BY <1>0, OpFacts DEF TypeOK
    <2>3. CASE pc'[c] = "call"
        BY <2>3 DEF OpRight
    <2>4. CASE Op(c)' = Op(c)
        BY <1>0, <1>e, <2>2, <2>4 DEF OpRight, ClientEffects, ClientMoves, Copies
    <2> QED
        BY <2>1, <2>3, <2>4
<1>3. CASE dm_p.mutex = 0 /\ dm_p'.mutex = 1
    <2>1. \A d \in Clients : ~Locked(d)
        BY <1>0, <1>3 DEF LockRight
    <2> QED
        BY <1>1, <1>2, <1>3, <2>1 DEF LockRight, OneOwner
<1>4. CASE pc[c] = "unlock"
    <2>1. Locked(c) /\ pc'[c] = "call"
        BY <1>e, <1>4 DEF Locked, ClientEffects, ClientMoves
    <2>2. \A d \in Clients : ~Locked(d)'
        BY <1>0, <1>1, <2>1 DEF OneOwner, Locked
    <2> QED
        BY <1>2, <2>2 DEF LockRight, OneOwner
<1>5. CASE pc[c] # "unlock" /\ ~(dm_p.mutex = 0 /\ dm_p'.mutex = 1)
    <2>1. dm_p'.mutex = dm_p.mutex
        BY <1>e, <1>5 DEF ClientEffects, ClientMoves, Keeps, Stores, Words
    <2>2. pc'[c] # "call" => Op(c)' = Op(c)
        BY <1>0, ClientOp
    <2>3. Locked(c)' => Locked(c)
        BY <1>0, <1>e, <1>5, <2>2 DEF ClientEffects, ClientMoves, Locked, OpRight, Copies, Stores
    <2> QED
        BY <1>0, <1>1, <1>2, <2>1, <2>3 DEF LockRight, OneOwner
<1> QED
    BY <1>3, <1>4, <1>5

\* A client that has put its task in the ring is the only one that counts it.
LEMMA ClientCountRight ==
    ASSUME IInv, NEW c \in Clients, ClientStep(c)
    PROVE  CountRight'
<1>0. TypeOK /\ OneOwner /\ CountRight /\ Len(submitted) \in Nat /\ Len(issued) \in Nat
      /\ dm_p.queue_fill \in Nat
    BY Basics
<1>e. ClientEffects(c)
    BY <1>0, ClientEffect
<1>1. UNCHANGED <<dm_pc, issued, done>> /\ Removed' = Removed /\ Removed \in Int
    BY <1>0, ClientFrame DEF Removed
<1>2. \A d \in Clients : d # c => pc'[d] = pc[d] /\ (Locked(d)' <=> Locked(d))
    BY <1>0, ClientOthers
<1>3. dm_pc # "memset" /\ dm_p'.dm_wfi = dm_p.dm_wfi
    BY <1>e, ClientBoot DEF ClientEffects, Keeps, Stores, Words
<1>4. /\ Removed + dm_p.queue_fill = Added
      /\ dm_pc \in {"start", "bump"} => dm_p.queue_fill > 0
      /\ dm_p.dm_wfi = IF dm_pc \in {"wfi", "clr", "rise"} THEN 1 ELSE 0
    BY <1>0, <1>3 DEF CountRight
<1>5. pc[c] \in {"insert", "bump"} => \A d \in Clients : d # c => pc[d] # "bump"
    <2>1. pc[c] \in {"insert", "bump"} => Locked(c)
        BY DEF Locked
    <2>2. \A d \in Clients : pc[d] = "bump" => Locked(d)
        BY DEF Locked
    <2> QED
        BY <1>0, <2>1, <2>2 DEF OneOwner
<1>6. /\ Removed' + dm_p'.queue_fill = Added' /\ dm_p'.queue_fill >= dm_p.queue_fill
      /\ \A d \in Clients : pc'[d] = "bump" =>
            Len(submitted') > 0 /\ submitted'[Len(submitted')].client = d
    <2>1. CASE pc[c] = "insert"
        <3>1. /\ pc'[c] = "bump" /\ Len(submitted') = Len(submitted) + 1
              /\ submitted'[Len(submitted) + 1].client = c
            <4>1. Task(c, Op(c)).client = c
                BY DEF Task
            <4> QED
                BY <2>1, <4>1, ClientSubmits DEF ClientMoves
        <3>2. dm_p'.queue_fill = dm_p.queue_fill
            BY <1>e, <2>1 DEF ClientEffects, ClientMoves, Stores, Words
        <3>3. ~Inserting /\ Inserting'
            BY <1>5, <2>1, <3>1 DEF Inserting
        <3>4. Added' = Added
            BY <1>0, <3>1, <3>3 DEF Added
        <3>5. \A d \in Clients : pc'[d] = "bump" => d = c
            BY <1>2, <1>5, <2>1
        <3> QED
            BY <1>0, <1>1, <1>4, <3>1, <3>2, <3>4, <3>5
    <2>2. CASE pc[c] = "bump"
        <3>1. pc'[c] = "unlock" /\ dm_p'.queue_fill = dm_p.queue_fill + 1
            BY <1>e, <2>2 DEF ClientEffects, ClientMoves
        <3>2. submitted' = submitted
            BY <2>2, ClientSubmits DEF ClientMoves
        <3>3. \A d \in Clients : pc'[d] # "bump"
            BY <1>2, <1>5, <2>2, <3>1
        <3>4. Inserting /\ ~Inserting'
            BY <2>2, <3>3 DEF Inserting
        <3>5. Added' = Added + 1
            BY <1>0, <3>2, <3>4 DEF Added
        <3> QED
            BY <1>0, <1>1, <1>4, <3>1, <3>3, <3>5
    <2>3. CASE pc[c] \notin {"insert", "bump"}
        <3>1. dm_p'.queue_fill = dm_p.queue_fill
            BY <1>e, <2>3 DEF ClientEffects, ClientMoves, Keeps, Stores, Words
        <3>2. submitted' = submitted /\ pc'[c] # "bump"
            BY <2>3, ClientSubmits DEF ClientMoves
        <3>3. \A d \in Clients : pc'[d] = "bump" <=> pc[d] = "bump"
            BY <1>2, <2>3, <3>2
        <3>4. Added' = Added
            BY <3>2, <3>3 DEF Inserting, Added
        <3> QED
            BY <1>0, <1>1, <1>4, <3>1, <3>2, <3>3, <3>4 DEF CountRight
    <2> QED
        BY <2>1, <2>2, <2>3
<1>7. dm_pc' \in {"start", "bump"} => dm_p'.queue_fill > 0
    <2>1. CASE dm_pc \in {"start", "bump"}
        <3>1. dm_p.queue_fill > 0 /\ dm_p'.queue_fill \in Int
            BY <1>4, <2>1, <1>0, ClientType, StructFacts DEF TypeOK, StructOK
        <3> QED
            BY <1>0, <1>6, <3>1
    <2> QED
        BY <1>1, <2>1
<1> QED
    BY <1>0, <1>1, <1>3, <1>4, <1>6, <1>7 DEF CountRight

\* dm_wait has seen the ring empty after the caller's tasks were in it, and
\* only the caller itself could add one.
LEMMA ClientWaitRight ==
    ASSUME IInv, NEW c \in Clients, ClientStep(c)
    PROVE  \A d \in Clients : WaitRight(d)' /\ OpRight(d)'
<1>0. TypeOK /\ CountRight /\ AnswerRight /\ Len(submitted) \in Nat /\ Len(issued) \in Nat
      /\ dm_p.queue_fill \in Nat /\ \A d \in Clients : OpRight(d) /\ WaitRight(d)
    BY Basics
<1>e. ClientEffects(c)
    BY <1>0, ClientEffect
<1>1. ASSUME NEW d \in Clients, d # c
      PROVE  WaitRight(d)' /\ OpRight(d)'
    <2>1. pc'[d] = pc[d] /\ Op(d)' = Op(d)
        BY <1>0, <1>1, ClientOthers
    <2>2. (AllIssued(d)' <=> AllIssued(d)) /\ (AllDone(d)' <=> AllDone(d))
        BY <1>1, ClientTasks
    <2> QED
        BY <1>0, <2>1, <2>2 DEF WaitRight, OpRight
<1>2. WaitRight(c)'
    <2>0. OpRight(c) /\ WaitRight(c)
        BY <1>0
    <2>1. CASE pc[c] = "insert" \/ pc'[c] = "call"
        <3>1. pc'[c] \in {"bump", "call"}
            BY <1>e, <2>1 DEF ClientEffects, ClientMoves
        <3> QED
            BY <3>1 DEF WaitRight
    <2>2. CASE pc[c] # "insert" /\ pc'[c] # "call"
        <3>1. Op(c)' = Op(c)
            BY <1>0, <2>2, ClientOp
        <3>2. (AllIssued(c)' <=> AllIssued(c)) /\ (AllDone(c)' <=> AllDone(c))
            BY <2>2, ClientTasks
        <3>3. CASE pc[c] = "drain"
            <4>1. pc'[c] = "no_request" /\ dm_p.queue_fill = 0
                BY <1>e, <3>3 DEF ClientEffects, ClientMoves
            <4>2. Removed = Added
                <5>1. dm_pc # "memset"
                    BY ClientBoot
                <5>2. Removed + 0 = Added
                    BY <1>0, <4>1, <5>1 DEF CountRight
                <5>3. Removed \in Int
                    BY <1>0 DEF Removed
                <5> QED
                    BY <5>2, <5>3
            <4>3. Len(submitted) <= Len(issued)
                  \/ (Len(submitted) - 1 <= Len(issued) /\ Inserting)
                BY <1>0, <4>2 DEF Added, Removed
            <4>4. Inserting => submitted[Len(submitted)].client # c
                <5>1. \A d \in Clients : pc[d] = "bump" => submitted[Len(submitted)].client = d
                    BY <1>0 DEF CountRight
                <5> QED
                    BY <3>3, <5>1 DEF Inserting
            <4>5. AllIssued(c)
                BY <1>0, <4>3, <4>4 DEF AllIssued
            <4> QED
                BY <3>2, <4>1, <4>5 DEF WaitRight
        <3>4. CASE pc[c] = "await"
            <4>1. pc'[c] = "unlock" /\ dm_p.stat_pvalid # 0 /\ dm_pc # "memset"
                BY <1>e, <3>4, ClientBoot DEF ClientEffects, ClientMoves
            <4>2. Op(c) = "wait" => AllDone(c) /\ AllIssued(c)
                BY <1>0, <3>4, <4>1 DEF AnswerRight, Pending, WaitRight
            <4> QED
                BY <3>1, <3>2, <4>1, <4>2 DEF WaitRight
        <3>5. CASE pc[c] \notin {"drain", "await"}
            BY <1>e, <2>0, <2>2, <3>1, <3>2, <3>5
                DEF ClientEffects, ClientMoves, WaitRight, OpRight, Copies
        <3> QED
            BY <3>3, <3>4, <3>5
    <2> QED
        BY <2>1, <2>2
<1> QED
    BY <1>1, <1>2, ClientLockRight

\* A client asks only when it holds the mutex and no answer is left over, and
\* nobody else takes the answer.
LEMMA ClientAnswerRight ==
    ASSUME IInv, NEW c \in Clients, ClientStep(c)
    PROVE  AnswerRight'
<1>0. TypeOK /\ OneOwner /\ AnswerRight /\ OpRight(c)
    BY Basics
<1>e. ClientEffects(c)
    BY <1>0, ClientEffect
<1>1. dm_pc' = dm_pc /\ dm_pc # "memset"
    BY <1>0, ClientBoot, ClientFrame
<1>2. \A d \in Clients : d # c => /\ pc'[d] = pc[d] /\ Op(d)' = Op(d)
                                 /\ (Pending(d)' <=> Pending(d)) /\ (AllDone(d)' <=> AllDone(d))
    BY <1>0, ClientOthers, ClientTasks
<1>3. /\ dm_pc = "answer" =>
            /\ dm_p.stat_pvalid = 0
            /\ \E d \in Clients : Pending(d) /\ (Op(d) = "wait" => AllDone(d))
      /\ dm_pc \notin {"answer", "clear"} /\ dm_p.stat_q \in {STAT_WAIT_IDLE, STAT_READY} =>
            /\ dm_p.stat_pvalid = 0
            /\ \E d \in Clients : Pending(d) /\ (dm_p.stat_q = STAT_WAIT_IDLE <=> Op(d) = "wait")
      /\ \A d \in Clients :
            /\ pc[d] = "request" => dm_p.stat_pvalid = 0
            /\ Pending(d) /\ Op(d) = "wait" /\ dm_p.stat_pvalid # 0 => AllDone(d)
    BY <1>0, <1>1 DEF AnswerRight
<1>4. Pending(c)' => pc'[c] \in {"wake", "set", "await"} /\ Op(c)' = Op(c) /\ Op(c) \in {"wait", "ready"}
    BY <1>0, ClientOp DEF Pending
<1>5. CASE pc[c] \in {"insert", "pvalid", "request"}
    <2>1. \A d \in Clients : ~Pending(d)
        <3>1. Locked(c) /\ ~Pending(c)
            BY <1>5 DEF Locked, Pending
        <3> QED
            BY <1>0, <3>1, PendingLocked DEF OneOwner
    <2>2. dm_pc # "answer"
          /\ (dm_pc # "clear" => dm_p.stat_q \notin {STAT_WAIT_IDLE, STAT_READY})
        BY <1>3, <2>1
    <2>3. \A d \in Clients : d # c => pc[d] # "request"
        BY <1>0, <1>5 DEF OneOwner, Locked
    <2>4. CASE pc[c] = "insert"
        <3>1. pc'[c] = "bump" /\ dm_p'.stat_q = dm_p.stat_q /\ dm_p'.stat_pvalid = dm_p.stat_pvalid
            BY <1>e, <2>4 DEF ClientEffects, ClientMoves, Stores, Words
        <3>2. \A d \in Clients : ~Pending(d)' /\ pc'[d] # "request"
            BY <1>2, <1>4, <2>1, <2>3, <3>1
        <3> QED
            BY <1>1, <2>2, <3>1, <3>2 DEF AnswerRight
    <2>5. CASE pc[c] = "pvalid"
        <3>1. pc'[c] = "request" /\ dm_p'.stat_q = dm_p.stat_q /\ dm_p'.stat_pvalid = 0
            BY <1>e, <2>5 DEF ClientEffects, ClientMoves, Stores, Words
        <3> QED
            BY <1>1, <2>2, <3>1 DEF AnswerRight
    <2>6. CASE pc[c] = "request"
        <3>1. /\ pc'[c] = "wake" /\ dm_p'.stat_pvalid = dm_p.stat_pvalid
              /\ (Op(c) = "wait" /\ dm_p'.stat_q = STAT_WAIT_IDLE)
                 \/ (Op(c) = "ready" /\ dm_p'.stat_q = STAT_READY)
            BY <1>e, <2>6 DEF ClientEffects, ClientMoves, Stores, Words
        <3>2. dm_p'.stat_pvalid = 0
            BY <1>3, <2>6, <3>1
        <3>3. Op(c)' = Op(c)
            BY <1>0, <3>1, ClientOp
        <3>4. Pending(c)' /\ (dm_p'.stat_q = STAT_WAIT_IDLE <=> Op(c)' = "wait")
            BY <3>1, <3>3 DEF Pending, STAT_WAIT_IDLE, STAT_READY
        <3>5. \E d \in Clients : Pending(d)' /\ (dm_p'.stat_q = STAT_WAIT_IDLE <=> Op(d)' = "wait")
            BY <3>4
        <3> QED
            BY <1>1, <2>2, <3>2, <3>5 DEF AnswerRight
    <2> QED
        BY <1>5, <2>4, <2>5, <2>6
<1>6. CASE pc[c] \notin {"insert", "pvalid", "request"}
    <2>1. dm_p'.stat_pvalid = dm_p.stat_pvalid /\ pc'[c] # "request"
        BY <1>e, <1>6 DEF ClientEffects, ClientMoves, Keeps, Stores, Words
    <2>2. dm_p'.stat_q = dm_p.stat_q \/ dm_p'.stat_q = STAT_EXIT
        BY <1>e, <1>6 DEF ClientEffects, ClientMoves, Keeps, Stores, Words
    <2>3. AllDone(c)' <=> AllDone(c)
        BY <1>6, ClientTasks
    <2>4. Pending(c)' => Pending(c)
        BY <1>0, <1>e, <1>4, <1>6 DEF ClientEffects, ClientMoves, Pending
    <2>5. Pending(c) => Pending(c)' \/ dm_p.stat_pvalid # 0
        <3>1. Pending(c) => pc'[c] \in {"set", "await"} \/ dm_p.stat_pvalid # 0
            BY <1>e DEF ClientEffects, ClientMoves, Pending
        <3>2. pc'[c] \in {"set", "await"} => Op(c)' = Op(c)
            BY <1>0, ClientOp
        <3> QED
            BY <3>1, <3>2 DEF Pending
    <2>6. Pending(c)' => Op(c)' = Op(c)
        BY <1>4
    <2>7. \A d \in Clients :
              /\ (Pending(d)' => Pending(d) /\ Op(d)' = Op(d))
              /\ (Pending(d) /\ dm_p.stat_pvalid = 0 => Pending(d)' /\ Op(d)' = Op(d))
              /\ (AllDone(d)' <=> AllDone(d)) /\ (pc'[d] = "request" => pc[d] = "request")
        BY <1>2, <2>1, <2>3, <2>4, <2>5, <2>6
    <2>8. dm_pc' = "answer" =>
              /\ dm_p'.stat_pvalid = 0
              /\ \E d \in Clients : Pending(d)' /\ (Op(d)' = "wait" => AllDone(d)')
        BY <1>1, <1>3, <2>1, <2>7
    <2>9. dm_pc' \notin {"answer", "clear"} /\ dm_p'.stat_q \in {STAT_WAIT_IDLE, STAT_READY} =>
              /\ dm_p'.stat_pvalid = 0
              /\ \E d \in Clients : Pending(d)' /\ (dm_p'.stat_q = STAT_WAIT_IDLE <=> Op(d)' = "wait")
        <3>1. dm_p'.stat_q \in {STAT_WAIT_IDLE, STAT_READY} => dm_p'.stat_q = dm_p.stat_q
            BY <2>2 DEF STAT_EXIT, STAT_WAIT_IDLE, STAT_READY
        <3> QED
            BY <1>1, <1>3, <2>1, <2>7, <3>1
    <2>10. \A d \in Clients :
              /\ pc'[d] = "request" => dm_p'.stat_pvalid = 0
              /\ Pending(d)' /\ Op(d)' = "wait" /\ dm_p'.stat_pvalid # 0 => AllDone(d)'
        BY <1>3, <2>1, <2>7
    <2> QED
        BY <2>8, <2>9, <2>10 DEF AnswerRight
<1> QED
    BY <1>5, <1>6

-----------------------------------------------------------------------------
\* The DMA engine completes one of the transfers it was given.
LEMMA DmaRight ==
    ASSUME IInv, DmaComplete
    PROVE  IInv'
<1>0. /\ TypeOK /\ BootRight /\ LockRight /\ CountRight /\ AnswerRight
      /\ \A c \in Clients : OpRight(c) /\ WaitRight(c)
      /\ Len(submitted) \in Nat /\ Len(issued) \in Nat /\ done \in Nat
    BY Basics
<1>1. /\ UNCHANGED <<dm_p, dm_p_global, mcip, dm_pc, pc, program, submitted, issued>>
      /\ done' = done + 1 /\ done < Len(issued)
    BY DEF DmaComplete, Busy, clients
<1>2. \A c \in Clients : /\ Op(c)' = Op(c) /\ (Locked(c)' <=> Locked(c))
                         /\ (Pending(c)' <=> Pending(c)) /\ (AllIssued(c)' <=> AllIssued(c))
                         /\ (AllDone(c) => AllDone(c)')
    BY <1>0, <1>1 DEF Op, Locked, Pending, AllIssued, AllDone
<1>3. TypeOK'
    BY <1>0, <1>1 DEF TypeOK, StructOK
<1>4. BootRight' /\ LockRight'
    BY <1>0, <1>1, <1>2 DEF BootRight, LockRight, OneOwner
<1>5. CountRight'
    <2>1. Added' = Added /\ Removed' = Removed
        BY <1>1 DEF Added, Removed, Inserting
    <2>2. done' <= Len(issued')
        BY <1>0, <1>1
    <2> QED
        BY <1>0, <1>1, <2>1, <2>2 DEF CountRight
<1>6. AnswerRight'
    BY <1>0, <1>1, <1>2 DEF AnswerRight
<1>7. \A c \in Clients : OpRight(c)' /\ WaitRight(c)'
    BY <1>0, <1>1, <1>2 DEF OpRight, WaitRight
<1> QED
    BY <1>3, <1>4, <1>5, <1>6, <1>7 DEF IInv

\* A stuttering step.
LEMMA StutterRight ==
    ASSUME IInv, UNCHANGED vars
    PROVE  IInv'
<1>1. UNCHANGED <<dm_p, dm_p_global, mcip, dm_pc, pc, program, submitted, issued, done>>
    BY DEF vars, clients, dma
<1>2. \A c \in Clients : /\ Op(c)' = Op(c) /\ (Locked(c)' <=> Locked(c))
                         /\ (Pending(c)' <=> Pending(c)) /\ (AllIssued(c)' <=> AllIssued(c))
                         /\ (AllDone(c)' <=> AllDone(c))
    BY <1>1 DEF Op, Locked, Pending, AllIssued, AllDone
<1>3. TypeOK'
    BY <1>1 DEF IInv, TypeOK, StructOK
<1>4. BootRight' /\ LockRight'
    BY <1>1, <1>2 DEF IInv, BootRight, LockRight, OneOwner
<1>5. CountRight'
    <2>1. Added' = Added /\ Removed' = Removed
        BY <1>1 DEF Added, Removed, Inserting
    <2> QED
        BY <1>1, <2>1 DEF IInv, CountRight
<1>6. AnswerRight'
    BY <1>1, <1>2 DEF IInv, AnswerRight
<1>7. \A c \in Clients : OpRight(c)' /\ WaitRight(c)'
    BY <1>1, <1>2 DEF IInv, OpRight, WaitRight
<1> QED
    BY <1>3, <1>4, <1>5, <1>6, <1>7 DEF IInv

\* Before the struct is cleared its words hold anything, and nobody reads them.
LEMMA InitRight ==
    ASSUME Init
    PROVE  IInv
<1>1. /\ dm_p_global = FALSE /\ mcip = FALSE /\ dm_pc = "memset" /\ done = 0
      /\ \A c \in Clients : pc[c] = "init"
      /\ pc \in [Clients -> ClientLocations] /\ program \in [Clients -> Seq(Ops)]
      /\ submitted = <<>> /\ issued = <<>>
    BY ProgramsAssumption DEF Init, ClientLocations
<1>2. Len(submitted) = 0 /\ Len(issued) = 0 /\ submitted \in Seq(Tasks) /\ issued \in Seq(Tasks)
    BY <1>1, EmptySeq
<1>3. StructOK
    <2>1. NoTask \in Tasks /\ 0 \in Slots
        BY SizeAssumption DEF NoTask, Tasks, Slots
    <2>2. PICK fill, mtx, pvalid, wfi \in {0, 1}, stat \in {0, STAT_EXIT} :
              dm_p = [ZeroedStruct EXCEPT !.queue_fill = fill, !.mutex = mtx,
                          !.stat_pvalid = pvalid, !.dm_wfi = wfi, !.stat_q = stat]
        BY DEF Init
    <2>3. stat \in 0 .. 3
        BY DEF STAT_EXIT
    <2>4. dm_p = [queue |-> [s \in Slots |-> NoTask], queue_back |-> 0, queue_front |-> 0,
                  queue_fill |-> fill, mutex |-> mtx, stat_q |-> stat, stat_pvalid |-> pvalid,
                  dm_wfi |-> wfi]
        BY <2>2 DEF ZeroedStruct
    <2>5. [s \in Slots |-> NoTask] \in [Slots -> Tasks] /\ fill \in Nat /\ wfi \in Nat
        BY <2>1
    <2> QED
        BY <2>1, <2>3, <2>4, <2>5 DEF StructOK
<1>4. TypeOK
    BY <1>1, <1>2, <1>3 DEF TypeOK, DmLocations
<1>5. \A c \in Clients : ~Locked(c) /\ OpRight(c) /\ WaitRight(c)
    BY <1>1 DEF Locked, OpRight, WaitRight
<1>6. BootRight /\ LockRight /\ CountRight /\ AnswerRight
    BY <1>1, <1>2, <1>5 DEF BootRight, LockRight, OneOwner, CountRight, AnswerRight
<1> QED
    BY <1>4, <1>5, <1>6 DEF IInv

\* The invariant holds from the first instruction of dm_init on: whatever the
\* clients call, a task is counted exactly while it is in the ring, an answer
\* is to the request of the client that holds the mutex, and dm_wait goes on
\* only past what it has waited for.
THEOREM Invariance == Spec => []IInv
<1>1. Init => IInv
    BY InitRight
<1>2. IInv /\ [Next]_vars => IInv'
    <2> SUFFICES ASSUME IInv, [Next]_vars
                 PROVE  IInv'
        OBVIOUS
    <2>1. CASE DmStep
        BY <2>1, DmType, DmRest, DmAnswerRight DEF IInv
    <2>2. CASE DmaComplete
        BY <2>2, DmaRight
    <2>3. ASSUME NEW c \in Clients, ClientStep(c)
          PROVE  IInv'
        BY <2>3, ClientType, ClientBoot, ClientLockRight, ClientCountRight, ClientWaitRight,
            ClientAnswerRight DEF IInv
    <2>4. CASE UNCHANGED vars
        BY <2>4, StutterRight
    <2> QED
        BY <2>1, <2>2, <2>3, <2>4 DEF Next
<1> QED
    BY <1>1, <1>2, PTL DEF Spec

\* Every variable keeps its type: queue_fill and dm_wfi, which the code only
\* ever adds one to and takes one from, never go below zero.
THEOREM TypeCorrect == Spec => []TypeOK
<1>1. IInv => TypeOK
    BY DEF IInv
<1> QED
    BY <1>1, Invariance, PTL

\* The mutex of the data mover works: of the clients that queue tasks and ask
\* for answers, one is between _dm_mtx_lock and _dm_mtx_release at a time.
THEOREM MutexOwned == Spec => []OneOwner
<1>1. IInv => OneOwner
    BY DEF IInv, LockRight
<1> QED
    BY <1>1, Invariance, PTL

-----------------------------------------------------------------------------
\* A client without copies to come is never on its way to queue a task.
LEMMA NoCopiesFacts ==
    ASSUME IInv, NEW c \in Clients, NoCopies(c)
    PROVE  Op(c) \notin Copies /\ pc[c] \notin {"insert", "bump"}
<1>0. program \in [Clients -> Seq(Ops)] /\ OpRight(c)
    BY Basics DEF TypeOK
<1>1. program[c] # <<>> => 1 \in 1..Len(program[c])
    BY <1>0, EmptySeq, LenProperties
<1>2. Op(c) \notin Copies
    <2>1. Op(c) \in Copies => program[c] # <<>> /\ Op(c) = program[c][1]
        BY <1>0, OpFacts DEF Copies
    <2> QED
        BY <1>1, <2>1 DEF NoCopies
<1> QED
    BY <1>0, <1>2 DEF OpRight

\* A call that returns leaves the calls after it.
LEMMA NoCopiesStable ==
    ASSUME IInv, NEW c \in Clients, NoCopies(c),
           program'[c] = program[c]
           \/ (program'[c] = Tail(program[c]) /\ Op(c) # "none")
    PROVE  NoCopies(c)'
<1>0. program \in [Clients -> Seq(Ops)] /\ program[c] \in Seq(Ops)
    BY Basics DEF TypeOK
<1>1. CASE program'[c] = program[c]
    BY <1>1 DEF NoCopies
<1>2. CASE program'[c] = Tail(program[c]) /\ Op(c) # "none"
    <2>1. program[c] # <<>>
        BY <1>0, <1>2, OpFacts
    <2>2. /\ Len(program'[c]) = Len(program[c]) - 1
          /\ \A i \in 1..Len(program'[c]) : program'[c][i] = program[c][i + 1]
        BY <1>0, <1>2, <2>1, HeadTailProperties
    <2>3. Len(program[c]) \in Nat
        BY <1>0, LenProperties
    <2> QED
        BY <2>2, <2>3 DEF NoCopies
<1> QED
    BY <1>1, <1>2

\* The DM core publishes an empty ring and then only takes tasks out of it.
LEMMA DmTakesOut ==
    ASSUME IInv, DmStep, dm_p_global'
    PROVE  \/ dm_p_global /\ dm_p'.queue_fill <= dm_p.queue_fill
           \/ dm_p'.queue_fill = 0 /\ \A c \in Clients : pc[c] = "init"
<1>0. TypeOK /\ BootRight /\ CountRight /\ dm_p.queue_fill \in Nat
    BY Basics
<1>e. DmEffects
    BY <1>0, DmEffect
<1>1. CASE dm_pc = "publish"
    <2>1. dm_p'.queue_fill = dm_p.queue_fill
        BY <1>e, <1>1 DEF DmEffects, DmMoves, Keeps, Words
    <2>2. (\A c \in Clients : pc[c] = "init") /\ Len(submitted) = 0 /\ Len(issued) = 0
        BY <1>0, <1>1 DEF BootRight
    <2>3. Removed = 0 /\ Added = 0
        BY <1>1, <2>2 DEF Removed, Added, Inserting
    <2>4. Removed + dm_p.queue_fill = Added
        BY <1>0, <1>1 DEF CountRight
    <2> QED
        BY <1>0, <2>1, <2>2, <2>3, <2>4
<1>2. CASE dm_pc # "publish"
    <2>1. dm_p_global /\ dm_pc # "memset"
        BY <1>0, <1>e, <1>2 DEF DmEffects, DmMoves, BootRight
    <2>2. dm_p'.queue_fill = dm_p.queue_fill \/ dm_p'.queue_fill = dm_p.queue_fill - 1
        BY <1>e, <2>1 DEF DmEffects, DmMoves, Keeps, Stores, Words
    <2> QED
        BY <1>0, <2>1, <2>2
<1> QED
    BY <1>1, <1>2

\* The slot that the one client that queues tasks has seen stays free.
LEMMA QueuerStep ==
    ASSUME IInv, QueuerRight, [Next]_vars
    PROVE  QueuerRight'
<1>0. TypeOK /\ BootRight /\ dm_p.queue_fill \in Nat /\ DM_TASK_QUEUE_SIZE \in Nat
      /\ \A c \in Clients : OpRight(c)
    BY Basics, SizeAssumption
<1>q. PICK q \in Clients :
          /\ \A c \in Clients \ {q} : NoCopies(c)
          /\ dm_p_global =>
                /\ dm_p.queue_fill <= DM_TASK_QUEUE_SIZE
                /\ pc[q] \in {"lock", "insert", "bump"} /\ Op(q) \in Copies =>
                      dm_p.queue_fill < DM_TASK_QUEUE_SIZE
    BY DEF QueuerRight
<1> DEFINE Right ==
        dm_p_global =>
            /\ dm_p.queue_fill <= DM_TASK_QUEUE_SIZE
            /\ pc[q] \in {"lock", "insert", "bump"} /\ Op(q) \in Copies =>
                  dm_p.queue_fill < DM_TASK_QUEUE_SIZE
<1>s. SUFFICES (\A c \in Clients \ {q} : NoCopies(c)') /\ Right'
    BY DEF QueuerRight
<1>1. CASE DmStep
    <2>1. pc' = pc /\ program' = program /\ Op(q)' = Op(q)
        BY <1>1, DmFrame DEF Op
    <2>2. \A c \in Clients \ {q} : NoCopies(c)'
        BY <1>q, <2>1 DEF NoCopies
    <2>3. dm_p_global' => \/ dm_p_global /\ dm_p'.queue_fill <= dm_p.queue_fill
                          \/ dm_p'.queue_fill = 0 /\ \A c \in Clients : pc[c] = "init"
        BY <1>1, DmTakesOut
    <2>4. dm_p'.queue_fill \in Nat
        BY <1>1, DmType, StructFacts DEF TypeOK, StructOK
    <2>5. DM_TASK_QUEUE_SIZE > 0
        BY SizeAssumption
    <2>6. Right'
        BY <1>0, <1>q, <2>1, <2>3, <2>4, <2>5
    <2> QED
        BY <2>2, <2>6
<1>2. CASE DmaComplete \/ UNCHANGED vars
    <2>1. UNCHANGED <<dm_p, dm_p_global, pc, program>>
        BY <1>2 DEF DmaComplete, vars, clients
    <2>2. (\A c \in Clients \ {q} : NoCopies(c)') /\ Op(q)' = Op(q)
        BY <1>q, <2>1 DEF NoCopies, Op
    <2> QED
        BY <1>q, <2>1, <2>2
<1>3. ASSUME NEW c \in Clients, ClientStep(c)
      PROVE  (\A d \in Clients \ {q} : NoCopies(d)') /\ Right'
    <2>e. ClientEffects(c)
        BY <1>0, <1>3, ClientEffect
    <2>1. \A d \in Clients : program'[d] = program[d]
                             \/ (program'[d] = Tail(program[d]) /\ Op(d) # "none")
        <3>1. \A d \in Clients : d # c => program'[d] = program[d]
            BY <1>0, <1>3, ClientFrame
        <3>2. \/ program' = program
              \/ (program' = [program EXCEPT ![c] = Tail(@)] /\ Op(c) # "none")
            BY <1>0, <2>e DEF ClientEffects, ClientMoves, OpRight, Copies
        <3>3. program \in [Clients -> Seq(Ops)]
            BY <1>0 DEF TypeOK
        <3> QED
            BY <3>1, <3>2, <3>3
    <2>2. \A d \in Clients \ {q} : NoCopies(d)'
        BY <1>q, <2>1, NoCopiesStable
    <2>3. dm_p_global /\ dm_p_global' = dm_p_global
        BY <1>0, <1>3, ClientBoot, ClientFrame
    <2>4. CASE c # q
        <3>1. pc'[q] = pc[q] /\ Op(q)' = Op(q)
            BY <1>0, <1>3, <2>4, ClientOthers
        <3>2. pc[c] \notin {"insert", "bump"}
            BY <1>q, <2>4, NoCopiesFacts
        <3>3. dm_p'.queue_fill = dm_p.queue_fill
            BY <2>e, <3>2 DEF ClientEffects, ClientMoves, Keeps, Stores, Words
        <3> QED
            BY <1>q, <2>2, <2>3, <3>1, <3>3
    <2>5. CASE c = q
        <3>1. pc'[q] # "call" => Op(q)' = Op(q)
            BY <1>0, <1>3, <2>5, ClientOp
        <3>2. \/ dm_p'.queue_fill = dm_p.queue_fill
              \/ dm_p'.queue_fill = dm_p.queue_fill + 1 /\ pc[q] = "bump" /\ pc'[q] = "unlock"
            BY <2>e, <2>5 DEF ClientEffects, ClientMoves, Keeps, Stores, Words
        <3>3. pc'[q] \in {"lock", "insert", "bump"} /\ Op(q) \in Copies =>
                  dm_p.queue_fill < DM_TASK_QUEUE_SIZE
            BY <1>0, <1>q, <2>3, <2>5, <2>e DEF ClientEffects, ClientMoves, OpRight, Copies
        <3>4. pc[q] = "bump" => dm_p.queue_fill < DM_TASK_QUEUE_SIZE
            BY <1>0, <1>q, <2>3 DEF OpRight
        <3>5. dm_p'.queue_fill <= DM_TASK_QUEUE_SIZE
            BY <1>0, <1>q, <2>3, <3>2, <3>4
        <3>6. pc'[q] \in {"lock", "insert", "bump"} /\ Op(q)' \in Copies =>
                  dm_p'.queue_fill < DM_TASK_QUEUE_SIZE
            BY <3>1, <3>2, <3>3
        <3> QED
            BY <2>2, <3>5, <3>6
    <2> QED
        BY <2>4, <2>5
<1> QED
    BY <1>1, <1>2, <1>3 DEF Next

\* With one client that queues tasks, and any number that wait, ask and start,
\* the ring never overflows, although the poll of queue_fill in
\* dm_memcpy_async comes before the lock.
THEOREM RingNeverOverflows == Spec /\ OneQueuer => []QueueBounded
<1>1. Init /\ OneQueuer => QueuerRight
    BY DEF Init, OneQueuer, QueuerRight
<1>2. IInv /\ QueuerRight /\ [Next]_vars => QueuerRight'
    BY QueuerStep
<1>3. IInv /\ QueuerRight => QueueBounded
    <2> SUFFICES ASSUME IInv, QueuerRight, dm_p_global
                 PROVE  /\ dm_p.queue_fill <= DM_TASK_QUEUE_SIZE
                        /\ \A c \in Clients : pc[c] \in {"insert", "bump"} =>
                               dm_p.queue_fill < DM_TASK_QUEUE_SIZE
        BY DEF QueueBounded
    <2>1. PICK q \in Clients :
              /\ \A c \in Clients \ {q} : NoCopies(c)
              /\ dm_p.queue_fill <= DM_TASK_QUEUE_SIZE
              /\ pc[q] \in {"lock", "insert", "bump"} /\ Op(q) \in Copies =>
                    dm_p.queue_fill < DM_TASK_QUEUE_SIZE
        BY DEF QueuerRight
    <2>2. \A c \in Clients : pc[c] \in {"insert", "bump"} => c = q
        BY <2>1, NoCopiesFacts
    <2>3. OpRight(q)
        BY Basics
    <2> QED
        BY <2>1, <2>2, <2>3 DEF OpRight
<1> QED
    BY <1>1, <1>2, <1>3, Invariance, PTL DEF Spec

-----------------------------------------------------------------------------
\* Places in the ring, counted from queue_back.
LEMMA WrapFacts ==
    ASSUME NEW b \in Slots, NEW n \in Nat
    PROVE  /\ n <= DM_TASK_QUEUE_SIZE => Wrap(b + n) \in Slots
           /\ n < DM_TASK_QUEUE_SIZE => Wrap(Wrap(b + n) + 1) = Wrap(b + (n + 1))
           /\ n < DM_TASK_QUEUE_SIZE => Wrap(Wrap(b + 1) + n) = Wrap(b + (n + 1))
           /\ n < DM_TASK_QUEUE_SIZE => \A k \in 0..(n - 1) : Wrap(b + k) # Wrap(b + n)
           /\ Wrap(b) = b
<1>1. DM_TASK_QUEUE_SIZE \in Nat /\ DM_TASK_QUEUE_SIZE > 0 /\ b \in Nat
      /\ b < DM_TASK_QUEUE_SIZE
    BY SizeAssumption DEF Slots
<1> QED
    BY <1>1 DEF Wrap, Slots

\* The ring has as many tasks as are in it or being put in it.
LEMMA RingCount ==
    ASSUME IInv, dm_pc # "memset"
    PROVE  /\ Removed \in Nat /\ Removed + dm_p.queue_fill = Added
           /\ Len(issued) <= Len(submitted)
           /\ ~Inserting => Len(submitted) = Removed + dm_p.queue_fill
           /\ Inserting => Len(submitted) = Removed + dm_p.queue_fill + 1
<1>0. CountRight /\ Len(submitted) \in Nat /\ Len(issued) \in Nat /\ dm_p.queue_fill \in Nat
    BY Basics
<1>1. Removed + dm_p.queue_fill = Added /\ (dm_pc = "bump" => Len(issued) > 0 /\ dm_p.queue_fill > 0)
    BY <1>0 DEF CountRight
<1>2. Removed \in Nat
    BY <1>0, <1>1 DEF Removed
<1> QED
    BY <1>0, <1>1, <1>2 DEF Added, Removed

\* The DM core takes the oldest task out of the ring.
LEMMA DmRing ==
    ASSUME IInv, QueueBounded, RingRight, DmStep
    PROVE  RingRight'
<1>0. /\ TypeOK /\ StructOK /\ BootRight /\ CountRight /\ dm_p.queue_fill \in Nat
      /\ Len(submitted) \in Nat /\ Len(issued) \in Nat /\ DM_TASK_QUEUE_SIZE \in Nat
      /\ dm_p.queue_back \in Slots
    BY Basics, StructFacts, SizeAssumption
<1>e. DmEffects
    BY <1>0, DmEffect
<1>1. submitted' = submitted
    BY DmFrame
<1>2. CASE dm_pc = "memset"
    <2>1. dm_p' = ZeroedStruct /\ dm_pc' = "publish" /\ issued' = issued
        BY <1>e, <1>2 DEF DmEffects, DmMoves
    <2>2. Len(submitted) = 0 /\ Len(issued) = 0
        BY <1>0, <1>2 DEF BootRight
    <2>3. Removed' = 0
        BY <2>1, <2>2 DEF Removed
    <2>4. Wrap(0) = 0
        BY SizeAssumption DEF Wrap
    <2> QED
        BY <1>1, <2>1, <2>2, <2>3, <2>4, ZeroedFacts DEF RingRight
<1>r. ASSUME dm_pc # "memset"
      PROVE  /\ dm_p.queue_front = Wrap(dm_p.queue_back + dm_p.queue_fill)
             /\ \A k \in 0..(Len(submitted) - Removed - 1) :
                   dm_p.queue[Wrap(dm_p.queue_back + k)] = submitted[Removed + 1 + k]
             /\ \A i \in 1..Len(issued) : issued[i] = submitted[i]
             /\ Removed \in Nat /\ Len(issued) <= Len(submitted)
             /\ Len(submitted) - Removed <= dm_p.queue_fill + 1
             /\ Len(submitted) - Removed >= dm_p.queue_fill
    <2>1. /\ Removed \in Nat /\ Len(issued) <= Len(submitted)
          /\ \/ Len(submitted) = Removed + dm_p.queue_fill
             \/ Len(submitted) = Removed + dm_p.queue_fill + 1
        BY <1>r, RingCount
    <2>2. /\ Len(submitted) - Removed <= dm_p.queue_fill + 1
          /\ Len(submitted) - Removed >= dm_p.queue_fill
        BY <1>0, <2>1
    <2> QED
        BY <1>r, <2>1, <2>2 DEF RingRight
<1>3. CASE dm_pc = "start"
    <2>1. Keeps /\ dm_pc' = "bump" /\ issued' = Append(issued, dm_p.queue[dm_p.queue_back])
        BY <1>e, <1>3 DEF DmEffects, DmMoves
    <2>2. issued \in Seq(Tasks) /\ dm_p.queue[dm_p.queue_back] \in Tasks
        BY <1>0, StructFacts DEF TypeOK
    <2>3. /\ Len(issued') = Len(issued) + 1 /\ issued'[Len(issued) + 1] = dm_p.queue[dm_p.queue_back]
          /\ \A i \in 1..Len(issued) : issued'[i] = issued[i]
        BY <2>1, <2>2, AppendProperties
    <2>4. Removed = Len(issued) /\ Removed' = Len(issued)
        BY <1>0, <1>3, <2>1, <2>3 DEF Removed
    <2>5. dm_p.queue_fill > 0
        BY <1>0, <1>3 DEF CountRight
    <2>6. dm_p.queue[dm_p.queue_back] = submitted[Len(issued) + 1]
        <3>1. 0 \in 0..(Len(submitted) - Removed - 1)
            BY <1>0, <1>3, <1>r, <2>5
        <3>2. Wrap(dm_p.queue_back + 0) = dm_p.queue_back
            BY <1>0 DEF Wrap, Slots
        <3>3. Removed + 1 + 0 = Len(issued) + 1
            BY <1>0, <2>4
        <3> QED
            BY <1>3, <1>r, <3>1, <3>2, <3>3
    <2>7. \A i \in 1..Len(issued') : issued'[i] = submitted[i]
        BY <1>0, <1>3, <1>r, <2>3, <2>6
    <2>8. UNCHANGED <<dm_p.queue, dm_p.queue_back, dm_p.queue_front, dm_p.queue_fill>>
        BY <2>1 DEF Keeps, Words
    <2> QED
        BY <1>1, <1>3, <1>r, <2>4, <2>7, <2>8 DEF RingRight
<1>4. CASE dm_pc = "bump"
    <2>1. /\ dm_pc' = "stat" /\ issued' = issued
          /\ dm_p'.queue_fill = dm_p.queue_fill - 1
          /\ dm_p'.queue_back = Wrap(dm_p.queue_back + 1)
          /\ dm_p'.queue = dm_p.queue /\ dm_p'.queue_front = dm_p.queue_front
        BY <1>e, <1>4 DEF DmEffects, DmMoves, Words
    <2>2. dm_p.queue_fill > 0 /\ dm_p.queue_fill <= DM_TASK_QUEUE_SIZE
        BY <1>0, <1>4 DEF CountRight, QueueBounded, BootRight
    <2>3. Removed' = Removed + 1
        BY <1>0, <1>4, <2>1 DEF Removed
    <2>4. \A n \in 0..(DM_TASK_QUEUE_SIZE - 1) :
              Wrap(dm_p'.queue_back + n) = Wrap(dm_p.queue_back + (n + 1))
        BY <1>0, <2>1, WrapFacts
    <2>5. dm_p'.queue_front = Wrap(dm_p'.queue_back + dm_p'.queue_fill)
        <3>1. dm_p.queue_fill - 1 \in 0..(DM_TASK_QUEUE_SIZE - 1)
              /\ (dm_p.queue_fill - 1) + 1 = dm_p.queue_fill
            BY <1>0, <2>2
        <3> QED
            BY <1>4, <1>r, <2>1, <2>4, <3>1
    <2>6. ASSUME NEW k \in 0..(Len(submitted) - (Removed + 1) - 1)
          PROVE  dm_p.queue[Wrap(dm_p'.queue_back + k)] = submitted[(Removed + 1) + 1 + k]
        <3>1. k + 1 \in 0..(Len(submitted) - Removed - 1) /\ k \in 0..(DM_TASK_QUEUE_SIZE - 1)
              /\ Removed + 1 + (k + 1) = (Removed + 1) + 1 + k
            BY <1>0, <1>4, <1>r, <2>2
        <3> QED
            BY <1>4, <1>r, <2>4, <3>1
    <2> QED
        BY <1>1, <1>4, <1>r, <2>1, <2>3, <2>5, <2>6 DEF RingRight
<1>5. CASE dm_pc \notin {"memset", "start", "bump"}
    <2>1. issued' = issued /\ dm_pc' # "bump"
        BY <1>e, <1>5 DEF DmEffects, DmMoves
    <2>2. /\ dm_p'.queue_fill = dm_p.queue_fill /\ dm_p'.queue_back = dm_p.queue_back
          /\ dm_p'.queue = dm_p.queue /\ dm_p'.queue_front = dm_p.queue_front
        BY <1>e, <1>5 DEF DmEffects, DmMoves, Keeps, Stores, Words
    <2>3. Removed' = Removed
        BY <1>5, <2>1 DEF Removed
    <2> QED
        BY <1>1, <1>5, <1>r, <2>1, <2>2, <2>3 DEF RingRight
<1> QED
    BY <1>2, <1>3, <1>4, <1>5

\* A client puts its task in the slot behind the youngest one.
LEMMA ClientRing ==
    ASSUME IInv, QueueBounded, RingRight, NEW c \in Clients, ClientStep(c)
    PROVE  RingRight'
<1>0. /\ TypeOK /\ StructOK /\ OneOwner /\ dm_p.queue_fill \in Nat
      /\ Len(submitted) \in Nat /\ Len(issued) \in Nat /\ DM_TASK_QUEUE_SIZE \in Nat
      /\ dm_p.queue_back \in Slots /\ dm_p.queue \in [Slots -> Tasks]
    BY Basics, StructFacts, SizeAssumption
<1>e. ClientEffects(c)
    BY <1>0, ClientEffect
<1>1. dm_p_global /\ dm_pc # "memset" /\ dm_pc' = dm_pc /\ issued' = issued /\ Removed' = Removed
    BY <1>0, ClientBoot, ClientFrame DEF Removed
<1>r. /\ dm_p.queue_front = Wrap(dm_p.queue_back + dm_p.queue_fill)
      /\ \A k \in 0..(Len(submitted) - Removed - 1) :
            dm_p.queue[Wrap(dm_p.queue_back + k)] = submitted[Removed + 1 + k]
      /\ \A i \in 1..Len(issued) : issued[i] = submitted[i]
      /\ Removed \in Nat /\ Len(issued) <= Len(submitted)
    BY <1>1, RingCount DEF RingRight
<1>2. CASE pc[c] = "insert"
    <2>1. /\ Len(submitted') = Len(submitted) + 1
          /\ submitted'[Len(submitted) + 1] = Task(c, Op(c))
          /\ \A i \in 1..Len(submitted) : submitted'[i] = submitted[i]
        BY <1>2, ClientSubmits
    <2>2. /\ dm_p'.queue = [dm_p.queue EXCEPT ![dm_p.queue_front] = Task(c, Op(c))]
          /\ dm_p'.queue_front = dm_p.queue_front /\ dm_p'.queue_back = dm_p.queue_back
          /\ dm_p'.queue_fill = dm_p.queue_fill
        BY <1>e, <1>2 DEF ClientEffects, ClientMoves, Stores, Words
    <2>3. dm_p.queue_fill < DM_TASK_QUEUE_SIZE
        BY <1>1, <1>2 DEF QueueBounded
    <2>4. Len(submitted) = Removed + dm_p.queue_fill
        <3>1. \A d \in Clients : pc[d] # "bump"
            BY <1>0, <1>2 DEF OneOwner, Locked
        <3> QED
            BY <1>1, <3>1, RingCount DEF Inserting
    <2>5. dm_p.queue_front \in Slots
        BY <1>0, StructFacts
    <2>6. ASSUME NEW k \in 0..(dm_p.queue_fill - 1)
          PROVE  dm_p'.queue[Wrap(dm_p.queue_back + k)] = submitted'[Removed + 1 + k]
        <3>1. Wrap(dm_p.queue_back + k) # dm_p.queue_front
            BY <1>0, <1>r, <2>3, WrapFacts
        <3>2. Wrap(dm_p.queue_back + k) \in Slots
            <4>1. k \in Nat /\ k <= DM_TASK_QUEUE_SIZE
                BY <1>0, <2>3
            <4> QED
                BY <1>0, <4>1, WrapFacts
        <3>3. k \in 0..(Len(submitted) - Removed - 1) /\ Removed + 1 + k \in 1..Len(submitted)
            BY <1>0, <1>r, <2>4
        <3>4. dm_p'.queue[Wrap(dm_p.queue_back + k)] = dm_p.queue[Wrap(dm_p.queue_back + k)]
            BY <1>0, <2>2, <3>1, <3>2
        <3> QED
            BY <1>r, <2>1, <3>3, <3>4
    <2>7. dm_p'.queue[Wrap(dm_p.queue_back + dm_p.queue_fill)] = submitted'[Removed + 1 + dm_p.queue_fill]
        <3>1. Removed + 1 + dm_p.queue_fill = Len(submitted) + 1
            BY <1>0, <1>r, <2>4
        <3>2. dm_p'.queue[dm_p.queue_front] = Task(c, Op(c))
            BY <1>0, <2>2, <2>5
        <3> QED
            BY <1>r, <2>1, <3>1, <3>2
    <2>8. ASSUME NEW k \in 0..(Len(submitted') - Removed' - 1)
          PROVE  dm_p'.queue[Wrap(dm_p'.queue_back + k)] = submitted'[Removed' + 1 + k]
        <3>1. k \in 0..(dm_p.queue_fill - 1) \/ k = dm_p.queue_fill
            BY <1>0, <1>1, <1>r, <2>1, <2>4
        <3> QED
            BY <1>1, <2>2, <2>6, <2>7, <3>1
    <2>9. \A i \in 1..Len(issued') : issued'[i] = submitted'[i]
        BY <1>0, <1>1, <1>r, <2>1
    <2>10. dm_p'.queue_front = Wrap(dm_p'.queue_back + dm_p'.queue_fill)
        BY <1>r, <2>2
    <2> QED
        BY <2>8, <2>9, <2>10 DEF RingRight
<1>3. CASE pc[c] = "bump"
    <2>1. /\ dm_p'.queue_fill = dm_p.queue_fill + 1
          /\ dm_p'.queue_front = Wrap(dm_p.queue_front + 1)
          /\ dm_p'.queue = dm_p.queue /\ dm_p'.queue_back = dm_p.queue_back
        BY <1>e, <1>3 DEF ClientEffects, ClientMoves, Words
    <2>2. submitted' = submitted
        BY <1>3, ClientSubmits DEF ClientMoves
    <2>3. dm_p.queue_fill < DM_TASK_QUEUE_SIZE
        BY <1>1, <1>3 DEF QueueBounded
    <2>4. dm_p'.queue_front = Wrap(dm_p'.queue_back + dm_p'.queue_fill)
        BY <1>0, <1>r, <2>1, <2>3, WrapFacts
    <2> QED
        BY <1>1, <1>r, <2>1, <2>2, <2>4 DEF RingRight
<1>4. CASE pc[c] \notin {"insert", "bump"}
    <2>1. /\ dm_p'.queue_fill = dm_p.queue_fill /\ dm_p'.queue_front = dm_p.queue_front
          /\ dm_p'.queue = dm_p.queue /\ dm_p'.queue_back = dm_p.queue_back
        BY <1>e, <1>4 DEF ClientEffects, ClientMoves, Keeps, Stores, Words
    <2>2. submitted' = submitted
        BY <1>4, ClientSubmits DEF ClientMoves
    <2> QED
        BY <1>1, <1>r, <2>1, <2>2 DEF RingRight
<1> QED
    BY <1>2, <1>3, <1>4

\* As long as the ring does not overflow, its slots from queue_back on hold
\* exactly the tasks that are not yet started, in the order of insertion.
THEOREM RingInvariance == Spec /\ []QueueBounded => []RingRight
<1>1. Init => RingRight
    BY DEF Init, RingRight
<1>2. IInv /\ QueueBounded /\ RingRight /\ [Next]_vars => RingRight'
    <2> SUFFICES ASSUME IInv, QueueBounded, RingRight, [Next]_vars
                 PROVE  RingRight'
        OBVIOUS
    <2>1. CASE DmStep
        BY <2>1, DmRing
    <2>2. CASE DmaComplete \/ UNCHANGED vars
        <3>1. UNCHANGED <<dm_p, dm_pc, submitted, issued>>
            BY <2>2 DEF DmaComplete, vars, dma
        <3>2. Removed' = Removed
            BY <3>1 DEF Removed
        <3> QED
            BY <3>1, <3>2 DEF RingRight
    <2>3. ASSUME NEW c \in Clients, ClientStep(c)
          PROVE  RingRight'
        BY <2>3, ClientRing
    <2> QED
        BY <2>1, <2>2, <2>3 DEF Next
<1> QED
    BY <1>1, <1>2, Invariance, PTL DEF Spec

\* What the invariants say of the order of the tasks and of dm_wait.
LEMMA OrderAndWait ==
    ASSUME IInv, RingRight
    PROVE  IssuedInOrder /\ WaitMeansComplete
<1>0. /\ BootRight /\ CountRight /\ Len(submitted) \in Nat /\ Len(issued) \in Nat /\ done \in Nat
      /\ submitted \in Seq(Tasks) /\ issued \in Seq(Tasks)
      /\ \A c \in Clients : WaitRight(c)
    BY Basics DEF TypeOK
<1>1. Len(issued) <= Len(submitted) /\ \A i \in 1..Len(issued) : issued[i] = submitted[i]
    <2>1. CASE dm_pc = "memset"
        BY <1>0, <2>1 DEF BootRight
    <2>2. CASE dm_pc # "memset"
        BY <2>2, RingCount DEF RingRight
    <2> QED
        BY <2>1, <2>2
<1>2. issued = SubSeq(submitted, 1, Len(issued))
    <2>1. \A i \in 1..Len(issued) : submitted[i] \in Tasks
        BY <1>0, <1>1
    <2>2. /\ SubSeq(submitted, 1, Len(issued)) \in Seq(Tasks)
          /\ Len(SubSeq(submitted, 1, Len(issued))) = Len(issued)
          /\ \A i \in 1..Len(issued) : SubSeq(submitted, 1, Len(issued))[i] = submitted[i]
        BY <1>0, <1>1, <2>1, SubSeqProperties
    <2> QED
        BY <1>0, <1>1, <2>2, SeqEqual
<1>3. WaitMeansComplete
    <2> SUFFICES ASSUME NEW c \in Clients, pc[c] = "unlock", Op(c) = "wait",
                        NEW i \in 1..Len(submitted), submitted[i].client = c
                 PROVE  \E k \in 1..done : issued[k] = submitted[i]
        BY DEF WaitMeansComplete
    <2>1. i <= done
        BY <1>0 DEF WaitRight, AllDone
    <2>2. i \in 1..done /\ i \in 1..Len(issued)
        BY <1>0, <2>1 DEF CountRight
    <2> QED
        BY <1>1, <2>2
<1> QED
    BY <1>1, <1>2, <1>3 DEF IssuedInOrder

\* The DMA engine is given the queued tasks, each once and in order: for any
\* clients that do not overflow the ring, and so for any clients of which one
\* queues tasks.
THEOREM TasksInOrder ==
    /\ Spec /\ []QueueBounded => []IssuedInOrder
    /\ Spec /\ OneQueuer => []IssuedInOrder
<1>1. IInv /\ RingRight => IssuedInOrder
    BY OrderAndWait
<1> QED
    BY <1>1, Invariance, RingInvariance, RingNeverOverflows, PTL

\* dm_wait returns only when the copies its caller has queued are complete,
\* whatever the other clients ask meanwhile, dm_exit included.
THEOREM WaitCompletes ==
    /\ Spec /\ []QueueBounded => []WaitMeansComplete
    /\ Spec /\ OneQueuer => []WaitMeansComplete
<1>1. IInv /\ RingRight => WaitMeansComplete
    BY OrderAndWait
<1> QED
    BY <1>1, Invariance, RingInvariance, RingNeverOverflows, PTL
====
