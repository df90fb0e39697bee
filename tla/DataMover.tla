------------------------------ MODULE DataMover ------------------------------
(***************************************************************************)
(* The data mover of sw/snRuntime/src/dm.h.  Client cores put copy tasks   *)
(* in a ring buffer in the cluster's memory; the DM core takes them out    *)
(* and starts them on the DMA engine.  A client wakes the DM core with a   *)
(* cluster interrupt, and asks it something (is the DMA idle? are you      *)
(* ready? exit!) through the words stat_q and stat_pvalid.                 *)
(*                                                                         *)
(* Each access to shared memory is one step.  Words that only one core can *)
(* touch at the time (queue_back; queue_front, under the mutex) are moved  *)
(* together with the access next to them.                                  *)
(***************************************************************************)
EXTENDS Naturals, Sequences

CONSTANTS
    Clients,                \* the cores that call the dm_ functions
    Programs,               \* the calls each client makes: [Clients -> Seq(Ops)]
    DM_TASK_QUEUE_SIZE,     \* slots of the ring (4 in the code)
    DmaDepth                \* transfers the DMA engine holds before it would block

ASSUME SizeAssumption  == DM_TASK_QUEUE_SIZE \in Nat \ {0}
ASSUME DepthAssumption == DmaDepth \in Nat \ {0}

VARIABLES
    dm_p,           \* the dm_t struct in the cluster's memory
    dm_p_global,    \* TRUE once the pointer to it is published
    mcip,           \* the DM core's cluster interrupt is pending
    dm_pc,          \* where the DM core is
    pc, program,    \* where each client is, and its calls to come
    submitted,      \* history: the tasks in the order of insertion
    issued, done    \* DMA: the tasks started, and how many of them are complete

dma     == <<issued, done>>
clients == <<pc, program>>
vars    == <<dm_p, dm_p_global, mcip, dm_pc, clients, submitted, dma>>

Slots == 0 .. DM_TASK_QUEUE_SIZE - 1

\* en_stat_t; 0 is no request.
STAT_WAIT_IDLE == 1
STAT_EXIT      == 2
STAT_READY     == 3

\* dm_memcpy_async, dm_memcpy2d_async, dm_start, dm_wait, dm_wait_ready, dm_exit
Ops    == {"memcpy", "memcpy2d", "start", "wait", "ready", "exit"}
Copies == {"memcpy", "memcpy2d"}

ASSUME ProgramsAssumption == Programs \subseteq [Clients -> Seq(Ops)]

\* A task: who queued it, its number among all tasks, and whether it is 2D.
Task(c, op) == [client |-> c, id |-> Len(submitted) + 1, twod |-> op = "memcpy2d"]
NoTask == [client |-> "nobody", id |-> 0, twod |-> FALSE]

ZeroedStruct ==
    [queue |-> [s \in Slots |-> NoTask], queue_back |-> 0, queue_front |-> 0,
     queue_fill |-> 0, mutex |-> 0, stat_q |-> 0, stat_pvalid |-> 0, dm_wfi |-> 0]

\* The memory dm_init takes for the struct holds anything: here, non-zero
\* or zero in any of the words the cores poll.
Init ==
    /\ \E fill, mtx, pvalid, wfi \in {0, 1}, stat \in {0, STAT_EXIT} :
          dm_p = [ZeroedStruct EXCEPT !.queue_fill = fill, !.mutex = mtx,
                      !.stat_pvalid = pvalid, !.dm_wfi = wfi, !.stat_q = stat]
    /\ dm_p_global = FALSE
    /\ mcip = FALSE
    /\ dm_pc = "memset"
    /\ pc = [c \in Clients |-> "init"]
    /\ program \in Programs
    /\ submitted = <<>>
    /\ issued = <<>>
    /\ done = 0

\* The DMA engine as dm_main uses it: __builtin_sdma_stat of DM_STATUS_BUSY
\* and DM_STATUS_WOULD_BLOCK, and transfers that complete in order.
Busy       == done < Len(issued)
WouldBlock == Len(issued) - done >= DmaDepth

DmaComplete ==
    /\ Busy
    /\ done' = done + 1
    /\ UNCHANGED <<dm_p, dm_p_global, mcip, dm_pc, clients, submitted, issued>>

\* The call client c is in, or makes next.
Op(c) == IF program[c] = <<>> THEN "none" ELSE Head(program[c])

\* The DM core goes from l to m.
Dm(l, m) == dm_pc = l /\ dm_pc' = m /\ UNCHANGED <<clients, submitted>>

\* Client c goes from l to m; its call returns.
Client(c, l, m) ==
    /\ pc[c] = l
    /\ pc' = [pc EXCEPT ![c] = m]
    /\ UNCHANGED <<program, dm_pc, dm_p_global, dma>>
Return(c, l) ==
    /\ pc[c] = l
    /\ pc' = [pc EXCEPT ![c] = "call"]
    /\ program' = [program EXCEPT ![c] = Tail(@)]
    /\ UNCHANGED <<dm_pc, dm_p_global, dma>>

-----------------------------------------------------------------------------
\* Plausible mistakes in the code, to show that the properties notice them.

\* STAT_WAIT_IDLE is answered without looking at the DMA engine.
DmStatNotBusy ==
    /\ Dm("stat", CASE dm_p.stat_q = STAT_EXIT -> "exited"
                    [] dm_p.stat_q = 0 -> "sleep?"
                    [] OTHER -> "answer")
    /\ UNCHANGED <<dm_p, dm_p_global, mcip, dma>>

\* The DM core goes to sleep although a request is pending.
DmSleepAnyway ==
    /\ Dm("no_stat?", "doze")
    /\ UNCHANGED <<dm_p, dm_p_global, mcip, dma>>

\* The poll lets one task too many through.
PollFillOffByOne(c) ==
    /\ Op(c) \in Copies
    /\ dm_p.queue_fill <= DM_TASK_QUEUE_SIZE
    /\ Client(c, "call", "lock")
    /\ UNCHANGED <<dm_p, mcip, submitted>>

\* The ring index stays where it is.
DmBumpStuck ==
    /\ Dm("bump", "stat")
    /\ dm_p' = [dm_p EXCEPT !.queue_fill = @ - 1]
    /\ UNCHANGED <<dm_p_global, mcip, dma>>

\* The mutex is taken without waiting for its owner.
LockAnyway(c) ==
    /\ Client(c, IF Op(c) = "ready" THEN "call" ELSE "lock",
                 IF Op(c) \in Copies THEN "insert" ELSE "pvalid")
    /\ dm_p' = [dm_p EXCEPT !.mutex = 1]
    /\ UNCHANGED <<mcip, submitted>>

-----------------------------------------------------------------------------
(***************************************************************************)
(* dm_init: the DM core clears the struct, then publishes the pointer that *)
(* the other cores wait for.                                               *)
(***************************************************************************)
DmMemset ==
    /\ Dm("memset", "publish")
    /\ dm_p' = ZeroedStruct
    /\ UNCHANGED <<dm_p_global, mcip, dma>>

DmPublish ==
    /\ Dm("publish", "fill?")
    /\ dm_p_global' = TRUE
    /\ UNCHANGED <<dm_p, mcip, dma>>

ClientInit(c) ==
    /\ dm_p_global
    /\ Client(c, "init", "call")
    /\ UNCHANGED <<dm_p, mcip, submitted>>

(***************************************************************************)
(* dm_main.                                                                *)
(***************************************************************************)
\* if (dm_p->queue_fill)
DmFill ==
    /\ Dm("fill?", IF dm_p.queue_fill # 0 THEN "start" ELSE "stat")
    /\ UNCHANGED <<dm_p, dm_p_global, mcip, dma>>

\* Wait until the DMA engine takes a transfer, then start the oldest task.
DmStart ==
    /\ Dm("start", "bump")
    /\ ~WouldBlock
    /\ issued' = Append(issued, dm_p.queue[dm_p.queue_back])
    /\ UNCHANGED <<dm_p, dm_p_global, mcip, done>>

DmBump ==
    /\ Dm("bump", "stat")
    /\ dm_p' = [dm_p EXCEPT !.queue_back = (@ + 1) % DM_TASK_QUEUE_SIZE,
                            !.queue_fill = @ - 1]
    /\ UNCHANGED <<dm_p_global, mcip, dma>>

\* switch (dm_p->stat_q).  STAT_EXIT ends the loop without sleeping, because
\* stat_q stays non-zero: only the DM core itself ever clears it.
DmStat ==
    /\ Dm("stat", CASE dm_p.stat_q = STAT_EXIT -> "exited"
                    [] dm_p.stat_q = STAT_READY -> "answer"
                    [] dm_p.stat_q = STAT_WAIT_IDLE /\ ~Busy -> "answer"
                    [] OTHER -> "sleep?")
    /\ UNCHANGED <<dm_p, dm_p_global, mcip, dma>>

\* stat_pvalid = 1, and then stat_q = 0.
DmAnswer ==
    /\ Dm("answer", "clear")
    /\ dm_p' = [dm_p EXCEPT !.stat_pvalid = 1]
    /\ UNCHANGED <<dm_p_global, mcip, dma>>

DmClear ==
    /\ Dm("clear", "sleep?")
    /\ dm_p' = [dm_p EXCEPT !.stat_q = 0]
    /\ UNCHANGED <<dm_p_global, mcip, dma>>

\* if (!dm_p->queue_fill && !dm_p->stat_q), two loads
DmSleepFill ==
    /\ Dm("sleep?", IF dm_p.queue_fill = 0 THEN "no_stat?" ELSE "fill?")
    /\ UNCHANGED <<dm_p, dm_p_global, mcip, dma>>

DmSleepStat ==
    /\ Dm("no_stat?", IF dm_p.stat_q = 0 THEN "doze" ELSE "fill?")
    /\ UNCHANGED <<dm_p, dm_p_global, mcip, dma>>

\* wfi_dm: dm_wfi is raised; wfi ends when the interrupt is, or already was,
\* pending; the interrupt is cleared; dm_wfi is lowered.
DmDoze ==
    /\ Dm("doze", "wfi")
    /\ dm_p' = [dm_p EXCEPT !.dm_wfi = @ + 1]
    /\ UNCHANGED <<dm_p_global, mcip, dma>>

DmWfi ==
    /\ Dm("wfi", "clr")
    /\ mcip
    /\ UNCHANGED <<dm_p, dm_p_global, mcip, dma>>

DmClr ==
    /\ Dm("clr", "rise")
    /\ mcip' = FALSE
    /\ UNCHANGED <<dm_p, dm_p_global, dma>>

DmRise ==
    /\ Dm("rise", "fill?")
    /\ dm_p' = [dm_p EXCEPT !.dm_wfi = @ - 1]
    /\ UNCHANGED <<dm_p_global, mcip, dma>>

DmStep ==
    \/ DmMemset \/ DmPublish \/ DmFill \/ DmStart \/ DmBump \/ DmStat
    \/ DmAnswer \/ DmClear \/ DmSleepFill \/ DmSleepStat \/ DmDoze \/ DmWfi
    \/ DmClr \/ DmRise

(***************************************************************************)
(* dm_memcpy_async and dm_memcpy2d_async.                                  *)
(***************************************************************************)
\* do s = queue_fill; while (s >= DM_TASK_QUEUE_SIZE), before the lock
PollFill(c) ==
    /\ Op(c) \in Copies
    /\ dm_p.queue_fill < DM_TASK_QUEUE_SIZE
    /\ Client(c, "call", "lock")
    /\ UNCHANGED <<dm_p, mcip, submitted>>

\* _dm_mtx_lock, also in dm_wait, and first thing in dm_wait_ready
Lock(c) ==
    /\ Client(c, IF Op(c) = "ready" THEN "call" ELSE "lock",
                 IF Op(c) \in Copies THEN "insert" ELSE "pvalid")
    /\ dm_p.mutex = 0
    /\ dm_p' = [dm_p EXCEPT !.mutex = 1]
    /\ UNCHANGED <<mcip, submitted>>

Insert(c) ==
    /\ Client(c, "insert", "bump")
    /\ submitted' = Append(submitted, Task(c, Op(c)))
    /\ dm_p' = [dm_p EXCEPT !.queue[dm_p.queue_front] = Task(c, Op(c))]
    /\ UNCHANGED mcip

Bump(c) ==
    /\ Client(c, "bump", "unlock")
    /\ dm_p' = [dm_p EXCEPT !.queue_fill = @ + 1,
                            !.queue_front = (@ + 1) % DM_TASK_QUEUE_SIZE]
    /\ UNCHANGED <<mcip, submitted>>

\* _dm_mtx_release
Unlock(c) ==
    /\ Return(c, "unlock")
    /\ dm_p' = [dm_p EXCEPT !.mutex = 0]
    /\ UNCHANGED <<mcip, submitted>>

(***************************************************************************)
(* wake_dm: all of dm_start, the begin of dm_wait, the end of dm_exit and  *)
(* of the requests in dm_wait and dm_wait_ready.                           *)
(***************************************************************************)
\* while (!dm_wfi)
SeeAsleep(c) ==
    /\ dm_p.dm_wfi # 0
    /\ \/ Op(c) \in {"start", "wait"} /\ Client(c, "call", "set_first")
       \/ Client(c, "wake", "set")
    /\ UNCHANGED <<dm_p, mcip, submitted>>

\* snrt_int_cluster_set
SetInterrupt(c) ==
    /\ \/ Op(c) = "start" /\ Return(c, "set_first")
       \/ Op(c) = "wait" /\ Client(c, "set_first", "drain")
       \/ Op(c) = "exit" /\ Return(c, "set")
       \/ Op(c) \in {"wait", "ready"} /\ Client(c, "set", "await")
    /\ mcip' = TRUE
    /\ UNCHANGED <<dm_p, submitted>>

(***************************************************************************)
(* dm_wait, dm_wait_ready and dm_exit.                                     *)
(***************************************************************************)
\* dm_wait: while (queue_fill != 0), then while (stat_q)
Drained(c) ==
    /\ dm_p.queue_fill = 0
    /\ Client(c, "drain", "no_request")
    /\ UNCHANGED <<dm_p, mcip, submitted>>

NoRequest(c) ==
    /\ dm_p.stat_q = 0
    /\ Client(c, "no_request", "lock")
    /\ UNCHANGED <<dm_p, mcip, submitted>>

ClearPvalid(c) ==
    /\ Client(c, "pvalid", "request")
    /\ dm_p' = [dm_p EXCEPT !.stat_pvalid = 0]
    /\ UNCHANGED <<mcip, submitted>>

\* The store to stat_q.  dm_exit begins with it and takes no lock.
Request(c) ==
    /\ \/ Op(c) = "wait"  /\ Client(c, "request", "wake")
          /\ dm_p' = [dm_p EXCEPT !.stat_q = STAT_WAIT_IDLE]
       \/ Op(c) = "ready" /\ Client(c, "request", "wake")
          /\ dm_p' = [dm_p EXCEPT !.stat_q = STAT_READY]
       \/ Op(c) = "exit"  /\ Client(c, "call", "wake")
          /\ dm_p' = [dm_p EXCEPT !.stat_q = STAT_EXIT]
    /\ UNCHANGED <<mcip, submitted>>

\* while (!stat_pvalid)
Await(c) ==
    /\ dm_p.stat_pvalid # 0
    /\ Client(c, "await", "unlock")
    /\ UNCHANGED <<dm_p, mcip, submitted>>

ClientStep(c) ==
    \/ ClientInit(c) \/ PollFill(c) \/ Lock(c) \/ Insert(c) \/ Bump(c)
    \/ Unlock(c) \/ SeeAsleep(c) \/ SetInterrupt(c) \/ Drained(c)
    \/ NoRequest(c) \/ ClearPvalid(c) \/ Request(c) \/ Await(c)

Next == DmStep \/ DmaComplete \/ \E c \in Clients : ClientStep(c)

\* The cores keep executing and the DMA engine keeps moving data.
Spec ==
    /\ Init /\ [][Next]_vars
    /\ WF_vars(DmStep)
    /\ WF_vars(DmaComplete)
    /\ \A c \in Clients : WF_vars(ClientStep(c))

-----------------------------------------------------------------------------
\* "block only if DM queue is full" (dm.h:254), but then do block: the ring
\* never holds more tasks than it has slots, and a client that has the mutex
\* and is about to queue a task, which polled queue_fill before it had the
\* mutex, still finds a free slot.
QueueBounded ==
    dm_p_global =>
        /\ dm_p.queue_fill <= DM_TASK_QUEUE_SIZE
        /\ \A c \in Clients : pc[c] \in {"insert", "bump"} => dm_p.queue_fill < DM_TASK_QUEUE_SIZE

\* The DMA engine is given exactly the queued tasks, each once, in the order
\* in which they were queued and as the kind of copy that was asked for.
IssuedInOrder ==
    /\ Len(issued) <= Len(submitted)
    /\ issued = SubSeq(submitted, 1, Len(issued))

\* dm_wait only returns when every copy its caller has queued is complete
\* (dm.h:366, "the DMA has completed all transfers").
WaitMeansComplete ==
    \A c \in Clients :
        (pc[c] = "unlock" /\ Op(c) = "wait") =>
            \A i \in 1..Len(submitted) :
                submitted[i].client = c =>
                    \E k \in 1..done : issued[k] = submitted[i]

\* Client c is between _dm_mtx_lock and _dm_mtx_release.
Locked(c) ==
    \/ pc[c] \in {"insert", "bump", "unlock", "pvalid", "request", "await"}
    \/ pc[c] \in {"wake", "set"} /\ Op(c) \in {"wait", "ready"}

\* A request and its answer belong to one client: nobody else queues a task
\* or clears stat_pvalid while a client waits for the answer.
OneOwner == \A c, d \in Clients : Locked(c) /\ Locked(d) => c = d

\* Only one client makes calls, and none of them is dm_exit.
SoleClient ==
    /\ \E c \in Clients : \A d \in Clients \ {c} : program[d] = <<>>
    /\ \A c \in Clients : \A i \in 1..Len(program[c]) : program[c][i] # "exit"

\* A dm_wait_ready whose request has been wiped out: the DM core sets
\* stat_pvalid before it clears stat_q (dm.h:212-213), and the caller it has
\* let go may be back with the next request in between.
ReadyLost ==
    \E c \in Clients : /\ pc[c] = "await" /\ Op(c) = "ready"
                       /\ dm_p.stat_q = 0 /\ dm_p.stat_pvalid = 0

\* With one client no wake-up of the DM core is lost, wherever it is on its way
\* into wfi or out of it (dm.h:140, 228): its calls return, and every copy it
\* has queued and then started or waited for is carried out.  The one thing
\* that can keep a call from returning is that the DM core wipes out the
\* request of a dm_wait_ready.
SoleClientServed ==
    SoleClient => <>[](\/ /\ \A c \in Clients : program[c] = <<>>
                          /\ done = Len(submitted)
                       \/ ReadyLost)

\* "Wait for all DMA transfers to complete", "Wait for the DM core to be ready"
\* (dm.h:342, 373), and no longer: every call returns.  The DM core sets
\* stat_pvalid before it clears stat_q (dm.h:212-213), and a request stored in
\* between, by the caller of dm_wait that this has let go, is wiped out.
EveryCallReturns == <>(\A c \in Clients : program[c] = <<>>)

\* "Send the data mover to exit()" (dm.h:242): when the calls are made the DM
\* core has left its loop.
DmExits == <>(dm_pc = "exited")

-----------------------------------------------------------------------------
(***************************************************************************)
(* The inductive invariant.                                                *)
(***************************************************************************)
DmLocations ==
    {"memset", "publish", "fill?", "start", "bump", "stat", "answer", "clear", "sleep?",
     "no_stat?", "doze", "wfi", "clr", "rise", "exited"}
ClientLocations ==
    {"init", "call", "lock", "insert", "bump", "unlock", "set_first", "drain", "no_request",
     "pvalid", "request", "wake", "set", "await"}

Tasks == [client : Clients \cup {"nobody"}, id : Nat, twod : BOOLEAN]

StructOK ==
    dm_p \in [queue : [Slots -> Tasks], queue_back : Slots, queue_front : Slots,
              queue_fill : Nat, mutex : {0, 1}, stat_q : 0 .. 3, stat_pvalid : {0, 1},
              dm_wfi : Nat]

TypeOK ==
    /\ StructOK /\ dm_p_global \in BOOLEAN /\ mcip \in BOOLEAN
    /\ dm_pc \in DmLocations /\ pc \in [Clients -> ClientLocations]
    /\ program \in [Clients -> Seq(Ops)]
    /\ submitted \in Seq(Tasks) /\ issued \in Seq(Tasks) /\ done \in Nat

\* No client has done anything before the struct is cleared and published.
BootRight ==
    /\ dm_p_global <=> dm_pc \notin {"memset", "publish"}
    /\ ~dm_p_global => (\A c \in Clients : pc[c] = "init") /\ Len(submitted) = 0 /\ Len(issued) = 0

\* Where client c can be in which call.
OpRight(c) ==
    /\ pc[c] \in {"insert", "bump"} => Op(c) \in Copies
    /\ pc[c] = "lock" => Op(c) \in Copies \cup {"wait"}
    /\ pc[c] = "set_first" => Op(c) \in {"start", "wait"}
    /\ pc[c] \in {"drain", "no_request"} => Op(c) = "wait"
    /\ pc[c] \in {"pvalid", "request", "await"} => Op(c) \in {"wait", "ready"}
    /\ pc[c] \in {"wake", "set"} => Op(c) \in {"wait", "ready", "exit"}
    /\ pc[c] = "unlock" => Op(c) \in Copies \cup {"wait", "ready"}

\* The mutex is taken while a client is in its critical section.
LockRight ==
    /\ OneOwner
    /\ \A c \in Clients : Locked(c) => dm_p.mutex = 1

\* queue_fill is the number of tasks put in the ring and not yet taken out.
Inserting == \E c \in Clients : pc[c] = "bump"
Added     == IF Inserting THEN Len(submitted) - 1 ELSE Len(submitted)
Removed   == IF dm_pc = "bump" THEN Len(issued) - 1 ELSE Len(issued)
CountRight ==
    /\ done <= Len(issued)
    /\ dm_pc # "memset" =>
          /\ Removed + dm_p.queue_fill = Added
          /\ dm_pc \in {"start", "bump"} => dm_p.queue_fill > 0
          /\ dm_p.dm_wfi = IF dm_pc \in {"wfi", "clr", "rise"} THEN 1 ELSE 0
    /\ dm_pc = "bump" => Len(issued) > 0
    /\ \A c \in Clients : pc[c] = "bump" =>
          Len(submitted) > 0 /\ submitted[Len(submitted)].client = c

\* Client c has asked for something and not yet seen the answer.
Pending(c) == pc[c] \in {"wake", "set", "await"} /\ Op(c) \in {"wait", "ready"}

\* The tasks of client c are started, or complete.
AllIssued(c) == \A i \in 1..Len(submitted) : submitted[i].client = c => i <= Len(issued)
AllDone(c)   == \A i \in 1..Len(submitted) : submitted[i].client = c => i <= done

\* What dm_wait has seen to so far.
WaitRight(c) ==
    Op(c) = "wait" =>
        /\ pc[c] \in {"no_request", "lock", "pvalid", "request", "wake", "set", "await", "unlock"}
              => AllIssued(c)
        /\ pc[c] = "unlock" => AllDone(c)

\* The answer is to the request of the client that holds the mutex.
AnswerRight ==
    dm_pc # "memset" =>
        /\ dm_pc = "answer" =>
              /\ dm_p.stat_pvalid = 0
              /\ \E c \in Clients : Pending(c) /\ (Op(c) = "wait" => AllDone(c))
        /\ dm_pc \notin {"answer", "clear"} /\ dm_p.stat_q \in {STAT_WAIT_IDLE, STAT_READY} =>
              /\ dm_p.stat_pvalid = 0
              /\ \E c \in Clients :
                     Pending(c) /\ (dm_p.stat_q = STAT_WAIT_IDLE <=> Op(c) = "wait")
        /\ \A c \in Clients :
              /\ pc[c] = "request" => dm_p.stat_pvalid = 0
              /\ Pending(c) /\ Op(c) = "wait" /\ dm_p.stat_pvalid # 0 => AllDone(c)

IInv ==
    /\ TypeOK /\ BootRight /\ LockRight /\ CountRight /\ AnswerRight
    /\ \A c \in Clients : OpRight(c) /\ WaitRight(c)

(***************************************************************************)
(* The poll of queue_fill comes before the lock, so that several clients   *)
(* that queue tasks can pass it for the same slot.  QueueBounded holds if  *)
(* one client queues tasks, whatever the others wait for.                  *)
(***************************************************************************)
\* No client but q will queue a task.
NoCopies(c) == \A i \in 1..Len(program[c]) : program[c][i] \notin Copies
OneQueuer   == \E q \in Clients : \A c \in Clients \ {q} : NoCopies(c)

\* The one client that queues tasks has seen a free slot, and nobody else
\* fills it.
QueuerRight ==
    \E q \in Clients :
        /\ \A c \in Clients \ {q} : NoCopies(c)
        /\ dm_p_global =>
              /\ dm_p.queue_fill <= DM_TASK_QUEUE_SIZE
              /\ pc[q] \in {"lock", "insert", "bump"} /\ Op(q) \in Copies =>
                    dm_p.queue_fill < DM_TASK_QUEUE_SIZE

\* The ring holds the tasks that are not yet taken out, from queue_back on.
Wrap(i) == IF i < DM_TASK_QUEUE_SIZE THEN i ELSE i - DM_TASK_QUEUE_SIZE
RingRight ==
    dm_pc # "memset" =>
        /\ dm_p.queue_front = Wrap(dm_p.queue_back + dm_p.queue_fill)
        /\ \A k \in 0..(Len(submitted) - Removed - 1) :
              dm_p.queue[Wrap(dm_p.queue_back + k)] = submitted[Removed + 1 + k]
        /\ \A i \in 1..Len(issued) : issued[i] = submitted[i]

=============================================================================
