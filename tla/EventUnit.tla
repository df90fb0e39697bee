------------------------------ MODULE EventUnit ------------------------------
(***************************************************************************)
(* The event unit of sw/snRuntime/src/omp/eu.h, started by                 *)
(* snrt_omp_bootstrap (omp.c) and driven by parallelRegion (omp.h).  Core  *)
(* 0, the master, publishes an event (a function, its data and a number of *)
(* threads), wakes the workers with cluster interrupts, runs its own share *)
(* and waits until every worker has counted itself as finished.  A worker  *)
(* sleeps in wfi, runs the event if its index is below the number of       *)
(* threads, counts itself as finished and sleeps again.                    *)
(*                                                                         *)
(* Each access to shared memory is one step; the words of the event are    *)
(* written one by one.                                                     *)
(***************************************************************************)
EXTENDS Naturals, Sequences, FiniteSets

CONSTANTS
    N,              \* compute cores of the cluster, the master included
    Programs        \* the sequences of calls the master may make

ASSUME CoresAssumption == N \in Nat \ {0}

VARIABLES
    eu_p,           \* the eu_t struct in the cluster's memory
    eu_p_global,    \* TRUE once the pointer to it is published
    mcip,           \* which cores have a cluster interrupt pending
    pc,             \* where each core is
    program,        \* the master's calls to come
    pushed,         \* history: number of events dispatched
    ran             \* history: the <<fn, data>> each core has called, in order

vars == <<eu_p, eu_p_global, mcip, pc, program, pushed, ran>>

Cores   == 0 .. N - 1
Workers == 1 .. N - 1

\* A call of the master: eu_dispatch_push for n threads, eu_run_empty, eu_exit.
Push(n) == [op |-> "push", nthreads |-> n]
Run     == [op |-> "run"]
Exit    == [op |-> "exit"]
Calls   == [op : {"push"}, nthreads : Nat] \cup [op : {"run", "exit"}]

ASSUME ProgramsAssumption == Programs \subseteq Seq(Calls)

Op == IF program = <<>> THEN "none" ELSE Head(program).op

ZeroedStruct ==
    [fn |-> 0, data |-> 0, nthreads |-> 0, fini_count |-> 0,
     workers_in_loop |-> 0, workers_wfi |-> 0, exit_flag |-> 0]

\* Until it is cleared, the memory taken for the struct holds anything.
Init ==
    /\ \E x \in 0..1 : eu_p = [f \in DOMAIN ZeroedStruct |-> x]
    /\ eu_p_global = FALSE
    /\ mcip = [c \in Cores |-> FALSE]
    /\ pc = [c \in Cores |-> IF c = 0 THEN "memset" ELSE "init"]
    /\ program \in Programs
    /\ pushed = 0
    /\ ran = [c \in Cores |-> <<>>]

\* Core c goes from l to m.
Goto(c, l, m) == pc[c] = l /\ pc' = [pc EXCEPT ![c] = m]

\* Core c calls the function of the event with the data of the event.
CallEvent(c) == ran' = [ran EXCEPT ![c] = Append(@, <<eu_p.fn, eu_p.data>>)]

AllWorkersWfi == eu_p.workers_wfi = eu_p.workers_in_loop

-----------------------------------------------------------------------------
\* Plausible mistakes in the code, to show that the properties notice them.

\* eu_run_empty clears fini_count after it has woken the workers.
RunOwnResets ==
    /\ Goto(0, "own", IF eu_p.nthreads > 1 THEN "join" ELSE "stop")
    /\ CallEvent(0)
    /\ eu_p' = [eu_p EXCEPT !.fini_count = 0]
    /\ UNCHANGED <<eu_p_global, mcip, program, pushed>>

\* eu_run_empty relies on the workers being back in wfi instead of finished.
RunJoinOnWfi ==
    /\ AllWorkersWfi
    /\ Goto(0, "join", "stop")
    /\ UNCHANGED <<eu_p, eu_p_global, mcip, program, pushed, ran>>

\* nthreads is not cleared after the event.
RunStopSkipped ==
    /\ Goto(0, "stop", "return")
    /\ UNCHANGED <<eu_p, eu_p_global, mcip, program, pushed, ran>>

-----------------------------------------------------------------------------
(***************************************************************************)
(* snrt_omp_bootstrap and eu_init.  The master clears the struct and       *)
(* publishes it; all cores meet in the cluster's hardware barrier; the     *)
(* master then waits for all workers to be in wfi.                         *)
(***************************************************************************)
Memset ==
    /\ Goto(0, "memset", "publish")
    /\ eu_p' = ZeroedStruct
    /\ UNCHANGED <<eu_p_global, mcip, program, pushed, ran>>

Publish ==
    /\ Goto(0, "publish", "barrier")
    /\ eu_p_global' = TRUE
    /\ UNCHANGED <<eu_p, mcip, program, pushed, ran>>

WorkerInit(c) ==
    /\ eu_p_global
    /\ Goto(c, "init", "barrier")
    /\ UNCHANGED <<eu_p, eu_p_global, mcip, program, pushed, ran>>

LeaveBarrier(c) ==
    /\ \A d \in Cores : pc[d] \notin {"memset", "publish", "init"}
    /\ Goto(c, "barrier", IF c = 0 THEN "boot" ELSE "enter")
    /\ UNCHANGED <<eu_p, eu_p_global, mcip, program, pushed, ran>>

Booted ==
    /\ eu_p.workers_wfi = N - 1
    /\ Goto(0, "boot", "call")
    /\ UNCHANGED <<eu_p, eu_p_global, mcip, program, pushed, ran>>

(***************************************************************************)
(* eu_dispatch_push.                                                       *)
(***************************************************************************)
PushWait ==
    /\ Op = "push"
    /\ AllWorkersWfi
    /\ Goto(0, "call", "push_fn")
    /\ UNCHANGED <<eu_p, eu_p_global, mcip, program, pushed, ran>>

PushFn ==
    /\ Goto(0, "push_fn", "push_data")
    /\ pushed' = pushed + 1
    /\ eu_p' = [eu_p EXCEPT !.fn = pushed + 1]
    /\ UNCHANGED <<eu_p_global, mcip, program, ran>>

\* The data pointer and argc.
PushData ==
    /\ Goto(0, "push_data", "push_nthreads")
    /\ eu_p' = [eu_p EXCEPT !.data = pushed]
    /\ UNCHANGED <<eu_p_global, mcip, program, pushed, ran>>

PushNthreads ==
    /\ Goto(0, "push_nthreads", "return")
    /\ eu_p' = [eu_p EXCEPT !.nthreads = Head(program).nthreads]
    /\ UNCHANGED <<eu_p_global, mcip, program, pushed, ran>>

Return ==
    /\ Goto(0, "return", "call")
    /\ program' = Tail(program)
    /\ UNCHANGED <<eu_p, eu_p_global, mcip, pushed, ran>>

(***************************************************************************)
(* eu_run_empty.                                                           *)
(***************************************************************************)
RunBegin ==
    /\ Op = "run"
    /\ Goto(0, "call", IF eu_p.nthreads = 0 THEN "return" ELSE "reset")
    /\ UNCHANGED <<eu_p, eu_p_global, mcip, program, pushed, ran>>

RunReset ==
    /\ Goto(0, "reset", IF eu_p.nthreads > 1 THEN "wake" ELSE "own")
    /\ eu_p' = [eu_p EXCEPT !.fini_count = 0]
    /\ UNCHANGED <<eu_p_global, mcip, program, pushed, ran>>

\* wake_workers: wait for all workers to be in wfi,
WakeWait ==
    /\ AllWorkersWfi
    /\ Goto(0, "wake", "set")
    /\ UNCHANGED <<eu_p, eu_p_global, mcip, program, pushed, ran>>

\* then set their interrupts with one store.
WakeSet ==
    /\ Goto(0, "set", IF Op = "run" THEN "own" ELSE "return")
    /\ mcip' = [c \in Cores |-> mcip[c] \/ c \in Workers]
    /\ UNCHANGED <<eu_p, eu_p_global, program, pushed, ran>>

\* The master's own share.
RunOwn ==
    /\ Goto(0, "own", IF eu_p.nthreads > 1 THEN "join" ELSE "stop")
    /\ CallEvent(0)
    /\ UNCHANGED <<eu_p, eu_p_global, mcip, program, pushed>>

RunJoin ==
    /\ eu_p.fini_count = eu_p.workers_in_loop
    /\ Goto(0, "join", "stop")
    /\ UNCHANGED <<eu_p, eu_p_global, mcip, program, pushed, ran>>

RunStop ==
    /\ Goto(0, "stop", "return")
    /\ eu_p' = [eu_p EXCEPT !.nthreads = 0]
    /\ UNCHANGED <<eu_p_global, mcip, program, pushed, ran>>

(***************************************************************************)
(* eu_exit.  Its call of eu_run_empty is made only when there is no event, *)
(* and then returns at once.                                               *)
(***************************************************************************)
ExitBegin ==
    /\ Op = "exit"
    /\ AllWorkersWfi
    /\ Goto(0, "call", "set_exit")
    /\ UNCHANGED <<eu_p, eu_p_global, mcip, program, pushed, ran>>

ExitFlag ==
    /\ Goto(0, "set_exit", "wake")
    /\ eu_p' = [eu_p EXCEPT !.exit_flag = 1]
    /\ UNCHANGED <<eu_p_global, mcip, program, pushed, ran>>

Master ==
    \/ Memset \/ Publish \/ LeaveBarrier(0) \/ Booted
    \/ PushWait \/ PushFn \/ PushData \/ PushNthreads \/ Return
    \/ RunBegin \/ RunReset \/ WakeWait \/ WakeSet \/ RunOwn \/ RunJoin \/ RunStop
    \/ ExitBegin \/ ExitFlag

(***************************************************************************)
(* eu_event_loop and worker_wfi.                                           *)
(***************************************************************************)
\* Core c goes from l to m and adds i to word f of the struct.
AddTo(c, l, m, f, i) ==
    /\ Goto(c, l, m)
    /\ eu_p' = [eu_p EXCEPT ![f] = @ + i]
    /\ UNCHANGED <<eu_p_global, mcip, program, pushed, ran>>

WorkerEnter(c) == AddTo(c, "enter", "exit?", "workers_in_loop", 1)

WorkerExit(c) ==
    /\ Goto(c, "exit?", IF eu_p.exit_flag # 0 THEN "exited" ELSE "mine?")
    /\ UNCHANGED <<eu_p, eu_p_global, mcip, program, pushed, ran>>

WorkerMine(c) ==
    /\ Goto(c, "mine?", IF c < eu_p.nthreads THEN "call" ELSE "fini")
    /\ UNCHANGED <<eu_p, eu_p_global, mcip, program, pushed, ran>>

WorkerCall(c) ==
    /\ Goto(c, "call", "task")
    /\ CallEvent(c)
    /\ UNCHANGED <<eu_p, eu_p_global, mcip, program, pushed>>

WorkerTaskEnds(c) ==
    /\ Goto(c, "task", "fini")
    /\ UNCHANGED <<eu_p, eu_p_global, mcip, program, pushed, ran>>

WorkerFini(c) == AddTo(c, "fini", "doze", "fini_count", 1)
WorkerDoze(c) == AddTo(c, "doze", "wfi", "workers_wfi", 1)

\* wfi ends when the interrupt is, or already was, pending.
WorkerWfi(c) ==
    /\ mcip[c]
    /\ Goto(c, "wfi", "clr")
    /\ UNCHANGED <<eu_p, eu_p_global, mcip, program, pushed, ran>>

WorkerClr(c) ==
    /\ Goto(c, "clr", "rise")
    /\ mcip' = [mcip EXCEPT ![c] = FALSE]
    /\ UNCHANGED <<eu_p, eu_p_global, program, pushed, ran>>

WorkerRise(c) ==
    /\ Goto(c, "rise", "exit?")
    /\ eu_p' = [eu_p EXCEPT !.workers_wfi = @ - 1]
    /\ UNCHANGED <<eu_p_global, mcip, program, pushed, ran>>

Worker(c) ==
    \/ WorkerInit(c) \/ LeaveBarrier(c) \/ WorkerEnter(c) \/ WorkerExit(c)
    \/ WorkerMine(c) \/ WorkerCall(c) \/ WorkerTaskEnds(c) \/ WorkerFini(c)
    \/ WorkerDoze(c) \/ WorkerWfi(c) \/ WorkerClr(c) \/ WorkerRise(c)

Next == Master \/ \E c \in Workers : Worker(c)

\* Every core keeps executing, and every task ends.
Spec ==
    /\ Init /\ [][Next]_vars
    /\ WF_vars(Master)
    /\ \A c \in Workers : WF_vars(Worker(c))

-----------------------------------------------------------------------------
\* How often core c has run event e.
TimesRan(c, e) == Cardinality({i \in 1..Len(ran[c]) : ran[c][i][1] = e})

\* No core runs an event twice ("stop workers from re-executing the task",
\* eu.h:297), and no worker is in a task it has no part in: the team the worker
\* compared itself with (eu.h:225) is still that of the event it calls.
NoReexecution ==
    /\ \A c \in Cores : \A e \in 0..pushed : TimesRan(c, e) <= 1
    /\ \A c \in Workers : pc[c] \in {"call", "task"} => c < eu_p.nthreads

\* "make sure queue is empty" (eu.h:184): when eu_exit is about to set the exit
\* flag no event is waiting to be run.
QueueEmptied == pc[0] = "set_exit" => eu_p.nthreads = 0

\* No call of core c had the function of one event and the data of another.
CallsAreWhole(c) == \A i \in 1..Len(ran[c]) : ran[c][i][1] = ran[c][i][2]

\* When eu_run_empty is about to return, each thread of the team has run the
\* event and all of it, no other core has, and no worker is still in the task
\* (eu.h:278-298).
JoinMeansDone ==
    pc[0] = "stop" =>
        \A c \in Cores :
            /\ CallsAreWhole(c)
            /\ TimesRan(c, pushed) = IF c < eu_p.nthreads THEN 1 ELSE 0
            /\ pc[c] \notin {"mine?", "call", "task"}

\* No wake-up is lost: the master gets through all its calls, and eu_exit
\* sends every worker away (eu.h:117-130, 188-223).
AllLeave ==
    <>(/\ pc[0] = "call" /\ program = <<>>
       /\ \A c \in Workers : pc[c] = "exited")

-----------------------------------------------------------------------------
(***************************************************************************)
(* The inductive invariant.                                                *)
(***************************************************************************)
Fields == {"fn", "data", "nthreads", "fini_count", "workers_in_loop", "workers_wfi",
           "exit_flag"}
BootLocations == {"memset", "publish", "barrier", "boot"}
MasterLocations ==
    BootLocations \cup {"call", "push_fn", "push_data", "push_nthreads", "return", "reset",
                        "wake", "set", "own", "join", "stop", "set_exit"}
WorkerLocations ==
    {"init", "barrier", "enter", "exit?", "mine?", "call", "task", "fini", "doze", "wfi",
     "clr", "rise", "exited"}

PcOK == DOMAIN pc = Cores /\ pc[0] \in MasterLocations
        /\ \A c \in Workers : pc[c] \in WorkerLocations
TypeOK ==
    /\ PcOK
    /\ eu_p \in [Fields -> Nat] /\ eu_p_global \in BOOLEAN
    /\ mcip \in [Cores -> BOOLEAN]
    /\ program \in Seq(Calls) /\ pushed \in Nat
    /\ ran \in [Cores -> Seq(Nat \X Nat)]

\* Where the master can be in which call, and with which event.
ProgramRight ==
    /\ pc[0] \in {"push_fn", "push_data", "push_nthreads"} => Op = "push"
    /\ pc[0] \in {"reset", "own", "join", "stop"} => Op = "run" /\ eu_p.nthreads # 0
    /\ pc[0] \in {"wake", "set"} =>
          (Op = "run" /\ eu_p.nthreads > 1) \/ (Op = "exit" /\ eu_p.exit_flag # 0)
    /\ pc[0] = "join" => eu_p.nthreads > 1
    /\ pc[0] = "set_exit" => Op = "exit"
    /\ pc[0] = "return" => program # <<>>

\* The words of the struct count the workers in the loop and those in or
\* around wfi.
InLoop == {c \in Workers : pc[c] \notin {"init", "barrier", "enter"}}
Dozing == {c \in Workers : pc[c] \in {"wfi", "clr", "rise"}}
CountsRight ==
    pc[0] # "memset" =>
        /\ eu_p.workers_in_loop = Cardinality(InLoop)
        /\ eu_p.workers_wfi = Cardinality(Dozing)

\* The workers have been woken for an event and not all of them are known to
\* have finished it.
Booting == pc[0] \in BootLocations
Woken == pc[0] \in {"own", "join"} /\ eu_p.nthreads > 1 /\ eu_p.exit_flag = 0
Asleep(c) == pc[c] \in {"doze", "wfi"} /\ ~mcip[c]
Awake(c) ==
    \/ pc[c] \in {"wfi", "clr"} /\ mcip[c]
    \/ pc[c] \in {"rise", "exit?", "mine?", "call", "task", "fini"} /\ ~mcip[c]

\* Where a worker can be.
WorkerRight(c) ==
    IF Booting
    THEN /\ pc[c] \in {"init", "barrier", "enter", "exit?", "mine?", "fini", "doze", "wfi"}
         /\ ~mcip[c]
         /\ ~eu_p_global => pc[c] = "init"
    ELSE IF eu_p.exit_flag # 0
    THEN pc[c] \in {"wfi", "clr", "rise", "exit?", "exited"}
    ELSE IF Woken
    THEN Asleep(c) \/ Awake(c)
    ELSE Asleep(c) /\ (pc[0] \in {"set_exit", "set"} => pc[c] = "wfi")

\* The master starts from a cleared struct, and publishes it afterwards.
BootRight ==
    /\ Booting /\ pc[0] # "memset" => eu_p.nthreads = 0 /\ eu_p.exit_flag = 0
    /\ pc[0] \in {"memset", "publish"} => ~eu_p_global

\* fini_count counts the workers that have finished the event.
FiniRight ==
    /\ Woken => eu_p.fini_count = Cardinality({c \in Workers : Asleep(c)})
    /\ pc[0] \in {"wake", "set", "own", "join"} /\ Op = "run" /\ ~Woken => eu_p.fini_count = 0

\* The calls of a core, in order; whether the last event is among them.
Fresh(c) == \A i \in 1..Len(ran[c]) : ran[c][i][1] < pushed
RanIt(c) == \E i \in 1..Len(ran[c]) : ran[c][i][1] = pushed
RanInOrder(c) ==
    \A i \in 1..Len(ran[c]) :
        /\ ran[c][i][1] = ran[c][i][2] /\ ran[c][i][1] <= pushed
        /\ \A j \in 1..Len(ran[c]) : i < j => ran[c][i][1] < ran[c][j][1]

\* An event is waiting to be run, and complete.
EventPending == eu_p.nthreads # 0 /\ pc[0] \notin {"join", "stop"} \cup BootLocations
EventWhole == eu_p.fn = pushed /\ eu_p.data = pushed

EventRight ==
    /\ EventPending /\ pc[0] \notin {"push_data", "push_nthreads"} => EventWhole
    /\ pc[0] \in {"push_data", "push_nthreads"} => eu_p.fn = pushed
    /\ pc[0] \in {"push_nthreads", "join"} => EventWhole

MasterRanRight ==
    /\ EventPending \/ pc[0] \in {"push_data", "push_nthreads"} => Fresh(0)
    /\ pc[0] \in {"join", "stop"} => RanIt(0)

\* A worker's part in the event.
WorkerRanRight(c) ==
    /\ (EventPending \/ pc[0] \in {"push_data", "push_nthreads"}) /\ ~Woken => Fresh(c)
    /\ Woken =>
          /\ Awake(c) /\ pc[c] \notin {"task", "fini"} => Fresh(c)
          /\ pc[c] \in {"call", "task"} => c < eu_p.nthreads
          /\ pc[c] = "task" => RanIt(c)
          /\ pc[c] = "fini" \/ Asleep(c) => IF c < eu_p.nthreads THEN RanIt(c) ELSE Fresh(c)
    /\ pc[0] = "stop" \/ (pc[0] = "join" /\ eu_p.exit_flag # 0) =>
          IF c < eu_p.nthreads /\ eu_p.exit_flag = 0 THEN RanIt(c) ELSE Fresh(c)
    /\ pc[0] = "stop" /\ eu_p.exit_flag # 0 => eu_p.nthreads = 1

IInv ==
    /\ TypeOK /\ ProgramRight /\ CountsRight /\ BootRight /\ FiniRight /\ EventRight
    /\ \A c \in Workers : WorkerRight(c)
    /\ \A c \in Cores : RanInOrder(c)
    /\ MasterRanRight /\ \A c \in Workers : WorkerRanRight(c)

=============================================================================
