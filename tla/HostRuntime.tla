----------------------------- MODULE HostRuntime -----------------------------
(***************************************************************************)
(* Software interrupts and the timer of Occamy: the CVA6 host runtime       *)
(* (host/runtime/host.c) and its counterpart on the Snitch harts            *)
(* (global_interrupts.h and elect_director of occamy_device.h).             *)
(*                                                                         *)
(* The CLINT packs the pending bits of FIELDS harts into a register, and    *)
(* every change of one bit is a load and a store of the whole register.     *)
(* Host and harts therefore take comm_buffer.lock, the spin lock of module  *)
(* Mutex, here taken in one step.  Hart 0 is the host.  In each round it    *)
(* wakes some harts, perhaps waits with delay_ns, and waits for them to be  *)
(* done; a woken hart clears its interrupt, and the last of them, elected   *)
(* by elect_director, interrupts the host.                                  *)
(***************************************************************************)
EXTENDS Integers, Sequences, FiniteSets

CONSTANTS
    N_CLUSTERS, N_CORES_PER_CLUSTER,
    FIELDS,         \* CLINT_MSIP_P_FIELDS_PER_REG
    Selections,     \* arguments <<base, num, stride>> for wakeup_snitches_selective
    RTC_PERIOD,     \* nanoseconds of an RTC period, (int64_t)rtc_period
    Intervals,      \* delays of delay_ns, in nanoseconds
    ROUNDS          \* rounds of the host

ASSUME HostAssumption ==
    /\ {N_CLUSTERS, N_CORES_PER_CLUSTER, FIELDS, ROUNDS, RTC_PERIOD} \subseteq Nat \ {0}
    /\ Intervals \subseteq Nat

N_SNITCHES == N_CLUSTERS * N_CORES_PER_CLUSTER
Snitches == 1 .. N_SNITCHES
Harts == 0 .. N_SNITCHES

VARIABLES
    lock,           \* comm_buffer.lock
    msip,           \* the harts whose pending bit is set in the CLINT
    pc,             \* where each hart is
    call,           \* hart -> register updates left, and where it returns to
    loaded,         \* hart -> the register it has loaded
    mutex,          \* the counter of elect_director
    targets,        \* the harts of the host's round
    round,          \* rounds the host has begun
    timer,          \* RTC ticks to mtimecmp, ticks since the delay began, its interval
    mtie,           \* the host's timer interrupts are enabled
    want            \* history: the harts that should be pending

vars == <<lock, msip, pc, call, loaded, mutex, targets, round, timer, mtie, want>>

Register(h) == h \div FIELDS
Field(r, f) == r * FIELDS + f
Word(r) == {h \in msip : Register(h) = r}

\* The harts whose bits the update u of a register is about.
BitsOf(u) == {g \in Harts : \E f \in u.mask : g = Field(u.reg, f)}

----------------------------------------------------------------------------
(* set_sw_interrupts_unsafe: the masks, register by register.               *)

\* One pass of the loop over the harts; a full mask is stored without loading
\* the register first, except the last.
StridedPass(base, num, stride, i, s) ==
    LET field == base + (i - 1) * stride
        mask == s.mask \cup {field % FIELDS}
        next == Register(field + stride)
    IN  IF i # num /\ next # s.prev
        THEN [ptr |-> s.ptr + (next - s.prev), prev |-> next, mask |-> {},
              out |-> Append(s.out, [reg |-> s.ptr, mask |-> mask,
                                     plain |-> mask = 0 .. FIELDS - 1])]
        ELSE [s EXCEPT !.mask = mask]

StridedStart(base) ==
    [ptr |-> Register(base), prev |-> Register(base), mask |-> {}, out |-> << >>]

StridedLoop(base, num, stride) ==
    LET loop[i \in 0 .. num] ==
            IF i = 0 THEN StridedStart(base)
            ELSE StridedPass(base, num, stride, i, loop[i - 1])
    IN  loop

\* What is left in the mask after the loop is stored last.
StridedUpdates(base, num, stride) ==
    LET s == StridedLoop(base, num, stride)[num]
    IN  Append(s.out, [reg |-> s.ptr, mask |-> s.mask, plain |-> FALSE])

Selected(base, num, stride) == {base + i * stride : i \in 0 .. num - 1}

\* Only Snitch harts are selected.
ASSUME SelectionsAssumption ==
    \A sel \in Selections :
        sel \in Nat \X Nat \X Nat /\ Selected(sel[1], sel[2], sel[3]) \subseteq Snitches

----------------------------------------------------------------------------
NoCall == [op |-> "none", updates |-> << >>, then |-> "", effect |-> {}]

Init ==
    /\ lock = 0 /\ msip = {} /\ mutex = 0 /\ targets = {} /\ round = 0
    /\ pc = [h \in Harts |-> IF h = 0 THEN "start" ELSE "parked"]
    /\ call = [h \in Harts |-> NoCall]
    /\ loaded = [h \in Harts |-> {}]
    /\ timer = [left |-> 0, elapsed |-> 0, interval |-> 0]
    /\ mtie = FALSE
    /\ want = {}

Goto(h, l, m) == pc[h] = l /\ pc' = [pc EXCEPT ![h] = m]

\* Hart h calls the CLINT function op, which returns to then.
Begin(h, l, op, updates, effect, then) ==
    /\ Goto(h, l, "acquire")
    /\ call' = [call EXCEPT ![h] = [op |-> op, updates |-> updates, then |-> then,
                                    effect |-> effect]]

\* set_sw_interrupt, snrt_int_sw_set; clear_sw_interrupt, snrt_int_sw_clear
One(g) == <<[reg |-> Register(g), mask |-> {g % FIELDS}, plain |-> FALSE]>>

SetOne(h, l, g, then) == Begin(h, l, "set", One(g), {g}, then)

ClearOne(h, l, then) == Begin(h, l, "clear", One(h), {h}, then)

\* Without the lock: clear_sw_interrupt_unsafe.
AcquireForSetOnly(h) ==
    /\ IF call[h].op = "clear" THEN UNCHANGED lock ELSE lock = 0 /\ lock' = 1
    /\ Goto(h, "acquire", "load")
    /\ UNCHANGED <<msip, call, loaded, mutex, targets, round, timer, mtie, want>>

\* mutex_tas_acquire, mutex_ttas_acquire, snrt_mutex_acquire
Acquire(h) ==
    /\ lock = 0 /\ lock' = 1
    /\ Goto(h, "acquire", "load")
    /\ UNCHANGED <<msip, call, loaded, mutex, targets, round, timer, mtie, want>>

Load(h) ==
    /\ Goto(h, "load", "store")
    /\ loaded' = [loaded EXCEPT ![h] = Word(Head(call[h].updates).reg)]
    /\ UNCHANGED <<lock, msip, call, mutex, targets, round, timer, mtie, want>>

\* *ptr |= mask, *ptr &= ~mask or *ptr = mask; the last store completes the
\* call's effect.
Store(h) ==
    LET u == Head(call[h].updates)
        bits == BitsOf(u)
        new == CASE call[h].op = "clear" -> loaded[h] \ bits
                 [] u.plain -> bits
                 [] OTHER -> loaded[h] \cup bits
        last == Len(call[h].updates) = 1
    IN  /\ Goto(h, "store", IF last THEN "release" ELSE "load")
        /\ msip' = (msip \ Word(u.reg)) \cup new
        /\ call' = [call EXCEPT ![h].updates = Tail(@)]
        /\ want' = IF ~last THEN want
                   ELSE IF call[h].op = "set" THEN want \cup call[h].effect
                   ELSE want \ call[h].effect
        /\ UNCHANGED <<lock, loaded, mutex, targets, round, timer, mtie>>

Release(h) ==
    /\ Goto(h, "release", call[h].then)
    /\ lock' = 0
    /\ UNCHANGED <<msip, call, loaded, mutex, targets, round, timer, mtie, want>>

----------------------------------------------------------------------------
(* A Snitch hart.                                                           *)

\* wfi in the boot ROM or the runtime; the hart then clears its interrupt.
Woken(h) ==
    /\ h \in msip
    /\ ClearOne(h, "parked", "elect")
    /\ UNCHANGED <<lock, msip, loaded, mutex, targets, round, timer, mtie, want>>

\* The new value of the counter is taken for the old one.
ElectNewValue(h) ==
    /\ Goto(h, "elect", IF mutex = Cardinality(targets) THEN "elected" ELSE "parked")
    /\ mutex' = mutex + 1
    /\ UNCHANGED <<lock, msip, call, loaded, targets, round, timer, mtie, want>>

\* elect_director: fetch-and-add; the last one resets the counter.
Elect(h) ==
    /\ Goto(h, "elect", IF mutex = Cardinality(targets) - 1 THEN "elected" ELSE "parked")
    /\ mutex' = mutex + 1
    /\ UNCHANGED <<lock, msip, call, loaded, targets, round, timer, mtie, want>>

ResetMutexForgotten(h) ==
    /\ Goto(h, "elected", "return")
    /\ UNCHANGED <<lock, msip, call, loaded, mutex, targets, round, timer, mtie, want>>

ResetMutex(h) ==
    /\ Goto(h, "elected", "return")
    /\ mutex' = 0
    /\ UNCHANGED <<lock, msip, call, loaded, targets, round, timer, mtie, want>>

\* return_to_cva6(SYNC_NONE)
ReturnToHost(h) ==
    /\ SetOne(h, "return", 0, "parked")
    /\ UNCHANGED <<lock, msip, loaded, mutex, targets, round, timer, mtie, want>>

----------------------------------------------------------------------------
(* The host.                                                                *)

\* wakeup_snitches, wakeup_master_snitches, wakeup_snitches_selective
WakeUp(sel) ==
    /\ round < ROUNDS
    /\ Begin(0, "start", "set", StridedUpdates(sel[1], sel[2], sel[3]),
             Selected(sel[1], sel[2], sel[3]), "woken")
    /\ targets' = Selected(sel[1], sel[2], sel[3])
    /\ round' = round + 1
    /\ UNCHANGED <<lock, msip, loaded, mutex, timer, mtie, want>>

WakeUps == Selections \cup {<<1, N_SNITCHES, 1>>, <<1, N_CLUSTERS, N_CORES_PER_CLUSTER>>}

\* wakeup_snitch
WakeUpOne(g) ==
    /\ round < ROUNDS
    /\ SetOne(0, "start", g, "woken")
    /\ targets' = {g}
    /\ round' = round + 1
    /\ UNCHANGED <<lock, msip, loaded, mutex, timer, mtie, want>>

\* set_timer_interrupt converts nanoseconds to whole RTC periods, rounding down.
Periods(ns) == ns \div RTC_PERIOD

\* delay_ns: mtime is read ...
ReadTime(i) ==
    /\ Goto(0, "woken", "program")
    /\ timer' = [timer EXCEPT !.elapsed = 0, !.interval = i]
    /\ UNCHANGED <<lock, msip, call, loaded, mutex, targets, round, mtie, want>>

\* ... and mtimecmp written, perhaps ticks later
ProgramTimer ==
    /\ Goto(0, "program", "enable")
    /\ timer' = [timer EXCEPT !.left =
           IF Periods(timer.interval) > timer.elapsed
           THEN Periods(timer.interval) - timer.elapsed ELSE 0]
    /\ UNCHANGED <<lock, msip, call, loaded, mutex, targets, round, mtie, want>>

EnableTimer ==
    /\ Goto(0, "enable", "delay wfi")
    /\ mtie' = TRUE
    /\ UNCHANGED <<lock, msip, call, loaded, mutex, targets, round, timer, want>>

NoWait == Goto(0, "woken", "done wfi")
          /\ UNCHANGED <<lock, msip, call, loaded, mutex, targets, round, timer, mtie, want>>

\* wfi returns on any enabled pending interrupt; software interrupts are.
Wfi ==
    /\ 0 \in msip \/ (mtie /\ timer.left = 0)
    /\ Goto(0, "delay wfi", "delay test") \/ Goto(0, "done wfi", "done test")
    /\ UNCHANGED <<lock, msip, call, loaded, mutex, targets, round, timer, mtie, want>>

\* The loop of wait_timer_interrupt is left out.
TestTimerOnce ==
    /\ Goto(0, "delay test", "disable")
    /\ UNCHANGED <<lock, msip, call, loaded, mutex, targets, round, timer, mtie, want>>

\* while (!timer_interrupt_pending() && timer_interrupts_enabled())
TestTimer ==
    /\ Goto(0, "delay test", IF timer.left # 0 /\ mtie THEN "delay wfi" ELSE "disable")
    /\ UNCHANGED <<lock, msip, call, loaded, mutex, targets, round, timer, mtie, want>>

DisableTimer ==
    /\ Goto(0, "disable", "clear timer")
    /\ mtie' = FALSE
    /\ UNCHANGED <<lock, msip, call, loaded, mutex, targets, round, timer, want>>

\* clear_timer_interrupt: mtimecmp = mtime + 1
ClearTimer ==
    /\ Goto(0, "clear timer", "done wfi")
    /\ timer' = [timer EXCEPT !.left = 1]
    /\ UNCHANGED <<lock, msip, call, loaded, mutex, targets, round, mtie, want>>

\* wait_snitches_done: while (!sw_interrupt_pending()), then clear it
TestDone ==
    /\ Goto(0, "done test", IF 0 \in msip THEN "done" ELSE "done wfi")
    /\ UNCHANGED <<lock, msip, call, loaded, mutex, targets, round, timer, mtie, want>>

ClearDone ==
    /\ ClearOne(0, "done", "start")
    /\ UNCHANGED <<lock, msip, loaded, mutex, targets, round, timer, mtie, want>>

\* The RTC; what happened longer ago than any interval is alike.
Tick ==
    /\ timer.left # 0 \/ \E i \in Intervals : timer.elapsed <= Periods(i)
    /\ timer' = [timer EXCEPT !.left = IF @ = 0 THEN 0 ELSE @ - 1,
                     !.elapsed = IF \E i \in Intervals : @ <= Periods(i) THEN @ + 1 ELSE @]
    /\ UNCHANGED <<lock, msip, pc, call, loaded, mutex, targets, round, mtie, want>>

----------------------------------------------------------------------------
Shared(h) == Acquire(h) \/ Load(h) \/ Store(h) \/ Release(h)

Snitch(h) == Shared(h) \/ Woken(h) \/ Elect(h) \/ ResetMutex(h) \/ ReturnToHost(h)

Host ==
    \/ Shared(0)
    \/ \E sel \in WakeUps : WakeUp(sel)
    \/ \E g \in Snitches : WakeUpOne(g)
    \/ \E i \in Intervals : ReadTime(i)
    \/ ProgramTimer \/ EnableTimer \/ NoWait \/ Wfi \/ TestTimer \/ DisableTimer
    \/ ClearTimer \/ TestDone \/ ClearDone

Next == Host \/ (\E h \in Snitches : Snitch(h)) \/ Tick

\* Every hart keeps executing and the RTC keeps ticking.
Spec ==
    /\ Init /\ [][Next]_vars
    /\ WF_vars(Host) /\ WF_vars(Tick)
    /\ \A h \in Snitches : WF_vars(Snitch(h))

----------------------------------------------------------------------------
(* Properties.                                                              *)

\* No software interrupt is lost or made up: outside the critical sections
\* the CLINT holds exactly the interrupts the completed calls set and did
\* not clear, those of strided wake-ups included.
InterruptsKept == lock = 0 => msip = want

\* delay_ns falls short of its nanoseconds by less than one RTC period, what
\* the division cuts off, although any software interrupt ends the wfi it
\* sleeps in and the RTC ticks between reading mtime and writing mtimecmp.
DelayHonoured ==
    pc[0] = "disable" => timer.interval < (timer.elapsed + 1) * RTC_PERIOD

\* "Minimum delay is of one RTC period" (host.c:530): delay_ns returns after a
\* tick of the RTC at least.
MinimumDelay == pc[0] = "disable" => timer.elapsed >= 1

\* The election has one winner, who is the last: when the host is told that
\* the harts are done, each of them has taken its interrupt and is past the
\* election.
AllTookPart ==
    0 \in msip => \A h \in targets : h \notin msip /\ pc[h] # "elect"

\* Every round ends: no wake-up is lost, nobody waits for the lock, the
\* timer or an interrupt for good.
HostReturns == <>(round = ROUNDS /\ pc[0] = "start")

----------------------------------------------------------------------------
(* The inductive invariant.                                                 *)

Updates == [reg : Nat, mask : SUBSET (0 .. FIELDS - 1), plain : BOOLEAN]
Critical == {"load", "store", "release"}
InCall(h) == pc[h] \in Critical \cup {"acquire"}
HostLocations ==
    Critical \cup {"start", "acquire", "woken", "program", "enable", "delay wfi",
                   "delay test", "disable", "clear timer", "done wfi", "done test", "done"}
SnitchLocations == Critical \cup {"parked", "acquire", "elect", "elected", "return"}

Locations(h) == IF h = 0 THEN HostLocations ELSE SnitchLocations
CallTypes == [op : {"none", "set", "clear"}, updates : Seq(Updates),
              then : {"", "woken", "start", "elect", "parked"}, effect : SUBSET Harts]
TimerTypes == [left : Nat, elapsed : Nat, interval : Nat]

PcOK == DOMAIN pc = Harts /\ \A h \in Harts : pc[h] \in Locations(h)
CallOK == call \in [Harts -> CallTypes] /\ loaded \in [Harts -> SUBSET Harts]
WordsOK ==
    /\ lock \in {0, 1} /\ mutex \in Nat /\ mtie \in BOOLEAN
    /\ msip \in SUBSET Harts /\ want \in SUBSET Harts /\ targets \in SUBSET Snitches
TypeOK == PcOK /\ CallOK /\ WordsOK /\ timer \in TimerTypes

\* The delay: what is left of it is never less than what has to pass.
DelayKept ==
    /\ pc[0] \in {"enable", "delay wfi", "delay test"} =>
          Periods(timer.interval) <= timer.left + timer.elapsed
    /\ pc[0] \in {"program", "enable", "delay wfi", "delay test"} =>
          timer.interval \in Intervals
    /\ pc[0] = "disable" => Periods(timer.interval) <= timer.elapsed

\* wait_timer_interrupt is called with timer interrupts enabled.
TimerRight == DelayKept /\ (pc[0] \in {"delay wfi", "delay test"} => mtie)

\* comm_buffer.lock is held by whoever is between acquire and release.
LockRight ==
    \A h \in Harts : pc[h] \in Critical =>
        lock = 1 /\ \A g \in Harts : pc[g] \in Critical => g = h

\* What a call is for: the host wakes its targets and clears its own
\* interrupt, a Snitch hart clears its own interrupt or sets the host's.
CallRight(h) ==
    LET c == call[h]
    IN  \/ h = 0 /\ c.then = "woken" /\ c.op = "set" /\ c.effect = targets
        \/ c.then = (IF h = 0 THEN "start" ELSE "elect") /\ c.op = "clear"
           /\ c.effect = {h} /\ (pc[h] # "release" => c.updates = One(h))
        \/ h # 0 /\ c.then = "parked" /\ c.op = "set"
           /\ c.effect = {0} /\ (pc[h] # "release" => c.updates = One(0))

\* The harts whose bits the updates in the sequence s are about.
AllBits(s) == {g \in Harts : \E i \in 1 .. Len(s) : g \in BitsOf(s[i])}

\* The updates a call has left bring about what is left of its effect.
UpdatesRight(h) ==
    LET s == call[h].updates
    IN  /\ pc[h] # "release" =>
              /\ s # << >>
              /\ \A i \in 1 .. Len(s) : s[i].plain => s[i].mask = 0 .. FIELDS - 1
              /\ AllBits(s) \subseteq call[h].effect
        /\ pc[h] = "acquire" => AllBits(s) = call[h].effect
        /\ pc[h] \in {"load", "store"} =>
              IF call[h].op = "set" THEN msip \cup AllBits(s) = want \cup call[h].effect
              ELSE msip = want
        /\ pc[h] = "release" => msip = want
        /\ pc[h] = "store" => loaded[h] = Word(Head(s).reg)

CallsRight == \A h \in Harts : InCall(h) => CallRight(h) /\ UpdatesRight(h)

\* A round.  Harts that still have to go through the election, and the one
\* that has won it.
HostWaking == pc[0] \in {"acquire", "load", "store"} /\ call[0].then = "woken"
HostIdle == pc[0] = "start" \/ (pc[0] = "release" /\ call[0].then = "start")

Pending ==
    {h \in Snitches : \/ h \in msip
                      \/ pc[h] = "elect"
                      \/ InCall(h) /\ call[h].then = "elect"
                      \/ HostWaking /\ h \in targets}

Directors ==
    {h \in Snitches : pc[h] \in {"elected", "return"} \/ (InCall(h) /\ call[h].then = "parked")}

\* The round goes from one of these phases to the next.
Idle == HostIdle /\ Pending = {} /\ Directors = {} /\ 0 \notin msip /\ mutex = 0
Working ==
    /\ ~HostIdle /\ Directors = {} /\ 0 \notin msip
    /\ mutex + Cardinality(Pending) = Cardinality(targets)
Elected ==
    /\ ~HostIdle /\ ~HostWaking /\ Pending = {} /\ 0 \notin msip
    /\ \E d \in Snitches : Directors = {d} /\ pc[d] = "elected"
Returning ==
    /\ ~HostIdle /\ ~HostWaking /\ Pending = {} /\ 0 \notin msip /\ mutex = 0
    /\ \E d \in Snitches : Directors = {d} /\ pc[d] \in {"return", "acquire", "load", "store"}
Done ==
    /\ ~HostIdle /\ ~HostWaking /\ Pending = {} /\ 0 \in msip /\ mutex = 0
    /\ \A d \in Directors : pc[d] = "release"

\* An interrupt stays pending until its hart has cleared it ...
InterruptStays ==
    \A h \in Snitches :
        /\ h \in msip => pc[h] = "parked" \/ (InCall(h) /\ call[h].then = "elect")
        /\ pc[h] \in {"elect", "release"} => h \notin msip

\* ... and no hart gets past the lock while the host is waking its targets.
TargetsParked ==
    HostWaking =>
        /\ mutex = 0 /\ Pending = targets
        /\ \A h \in Snitches :
              \/ pc[h] = "parked" /\ (h \in msip => pc[0] # "acquire")
              \/ pc[h] = "acquire" /\ call[h].then = "elect" /\ pc[0] # "acquire"

\* The host's own interrupt stays until the host has cleared it.
HostCalled ==
    pc[0] = "done" \/ (pc[0] \in {"acquire", "load", "store"} /\ call[0].then = "start")
        => 0 \in msip

Phases == Idle \/ Working \/ Elected \/ Returning \/ Done

RoundRight == InterruptStays /\ TargetsParked /\ HostCalled /\ Phases

IInv == TypeOK /\ TimerRight /\ LockRight /\ InterruptsKept /\ CallsRight /\ RoundRight
=============================================================================
