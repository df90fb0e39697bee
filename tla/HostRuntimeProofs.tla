------------------------- MODULE HostRuntimeProofs -------------------------
(***************************************************************************)
(* Proofs about the software interrupts and the timer of Occamy, for every *)
(* number of clusters, cores and CLINT fields, every selection of harts    *)
(* and every delay.                                                        *)
(***************************************************************************)
EXTENDS HostRuntime, FiniteSetTheorems, SequenceTheorems, WellFoundedInduction, TLAPS

\* The harts are numbered consecutively from the host's 0.
LEMMA HartNumbers ==
    /\ N_SNITCHES \in Nat /\ Snitches \subseteq Nat /\ Harts \subseteq Nat
    /\ Snitches \subseteq Harts /\ 0 \in Harts /\ 0 \notin Snitches
    /\ Harts = Snitches \cup {0}
<1>1. N_SNITCHES \in Nat
    BY HostAssumption DEF N_SNITCHES
<1> QED
    BY <1>1 DEF Snitches, Harts

\* Multiplication by a constant keeps order.
LEMMA TimesMonotonic ==
    ASSUME NEW a \in Nat, NEW b \in Nat, NEW c \in Nat, a <= b
    PROVE  a * c <= b * c
OBVIOUS

\* The conversion to RTC periods cuts off less than one period.
LEMMA PeriodsBelow ==
    ASSUME NEW ns \in Nat
    PROVE  Periods(ns) \in Nat /\ ns < (Periods(ns) + 1) * RTC_PERIOD
<1>1. RTC_PERIOD \in Nat /\ RTC_PERIOD > 0
    BY HostAssumption
<1>2. ns \div RTC_PERIOD \in Int /\ ns % RTC_PERIOD \in 0 .. RTC_PERIOD - 1
    BY <1>1
<1>3. ns = RTC_PERIOD * (ns \div RTC_PERIOD) + (ns % RTC_PERIOD)
    BY <1>1
<1>4. ns \div RTC_PERIOD >= 0
    BY <1>1
<1>5. ((ns \div RTC_PERIOD) + 1) * RTC_PERIOD = RTC_PERIOD * (ns \div RTC_PERIOD) + RTC_PERIOD
    BY <1>1, <1>2
<1> QED
    BY <1>1, <1>2, <1>3, <1>4, <1>5 DEF Periods

\* Every hart is one field of one register of the CLINT.
LEMMA FieldOfHart ==
    ASSUME NEW h \in Nat
    PROVE  /\ Register(h) \in Nat
           /\ h % FIELDS \in 0 .. FIELDS - 1
           /\ h = Field(Register(h), h % FIELDS)
<1>1. FIELDS \in Nat /\ FIELDS > 0
    BY HostAssumption
<1>2. h \div FIELDS \in Int /\ h % FIELDS \in 0 .. FIELDS - 1
    BY <1>1
<1>3. h = FIELDS * (h \div FIELDS) + (h % FIELDS)
    BY <1>1
<1>4. h \div FIELDS >= 0
    BY <1>1
<1> QED
    BY <1>1, <1>2, <1>3, <1>4 DEF Register, Field

\* Every wake-up selects Snitch harts.
LEMMA WakeUpTypes ==
    ASSUME NEW sel \in WakeUps
    PROVE  /\ sel \in Nat \X Nat \X Nat
           /\ Selected(sel[1], sel[2], sel[3]) \subseteq Snitches
<1>1. CASE sel \in Selections
    BY <1>1, SelectionsAssumption
<1>2. CASE sel = <<1, N_SNITCHES, 1>>
    BY <1>2, HartNumbers DEF Selected, Snitches
<1>3. CASE sel = <<1, N_CLUSTERS, N_CORES_PER_CLUSTER>>
    <2>1. N_CLUSTERS \in Nat /\ N_CORES_PER_CLUSTER \in Nat /\ N_CORES_PER_CLUSTER > 0
        BY HostAssumption
    <2>2. ASSUME NEW i \in 0 .. N_CLUSTERS - 1
          PROVE  1 + i * N_CORES_PER_CLUSTER \in Snitches
        <3> DEFINE C == N_CORES_PER_CLUSTER
        <3>1. i * C \in Nat
            BY <2>1
        <3>2. (i + 1) * C <= N_CLUSTERS * C
            BY <2>1, TimesMonotonic
        <3>3. (i + 1) * C = i * C + C
            BY <2>1
        <3> QED
            BY <2>1, <3>1, <3>2, <3>3, HartNumbers DEF Snitches, N_SNITCHES
    <2> QED
        BY <1>3, <2>1, <2>2 DEF Selected
<1> QED
    BY <1>1, <1>2, <1>3 DEF WakeUps

\* Induction over the natural numbers, for a set of them.
LEMMA SetInduction ==
    ASSUME NEW S, 0 \in S, \A k \in Nat : k \in S => k + 1 \in S
    PROVE  Nat \subseteq S
<1> SUFFICES ASSUME Nat \ S # {} PROVE FALSE
    OBVIOUS
<1> DEFINE R == OpToRel(<, Nat)
           T == Nat \ S
<1>1. IsWellFoundedOn(R, Nat)
    BY NatLessThanWellFounded
<1>2. \A x, y \in Nat : x < y => <<x, y>> \in R
    BY DEF OpToRel
<1>3. T \subseteq Nat /\ T # {}
    OBVIOUS
<1>4. PICK x \in T : \A y \in T : ~ (<<y, x>> \in R)
    <2> HIDE DEF R, T
    <2> QED
        BY <1>1, <1>3, WFMin
<1>5. x \in Nat /\ x # 0 /\ x - 1 \in Nat /\ x - 1 < x /\ x = (x - 1) + 1
    OBVIOUS
<1>6. x - 1 \notin T
    <2> HIDE DEF R, T
    <2> QED
        BY <1>2, <1>4, <1>5
<1> QED
    BY <1>5, <1>6

\* The loop of set_sw_interrupts_unsafe is well defined.
LEMMA StridedLoopDef ==
    ASSUME NEW base \in Nat, NEW num \in Nat, NEW stride \in Nat
    PROVE  StridedLoop(base, num, stride) =
               [i \in 0 .. num |->
                   IF i = 0 THEN StridedStart(base)
                   ELSE StridedPass(base, num, stride, i,
                                    StridedLoop(base, num, stride)[i - 1])]
<1> DEFINE Pass(i, s) == StridedPass(base, num, stride, i, s)
           Start == StridedStart(base)
           Rec(g, k) == g = [i \in 0 .. k |-> IF i = 0 THEN Start ELSE Pass(i, g[i - 1])]
           S == {k \in Nat : \E g : Rec(g, k)}
<1> HIDE DEF Pass, Start
<1>1. 0 \in S
    <2> DEFINE g == [i \in 0 .. 0 |-> Start]
    <2>1. Rec(g, 0)
        OBVIOUS
    <2> QED
        BY <2>1
<1>2. ASSUME NEW k \in Nat, k \in S PROVE k + 1 \in S
    <2>1. PICK g : Rec(g, k)
        BY <1>2
    <2> DEFINE f == [i \in 0 .. k + 1 |-> IF i <= k THEN g[i] ELSE Pass(k + 1, g[k])]
    <2>2. \A i \in 0 .. k : g[i] = IF i = 0 THEN Start ELSE Pass(i, g[i - 1])
        BY <2>1
    <2>3. \A i \in 0 .. k + 1 : f[i] = IF i = 0 THEN Start ELSE Pass(i, f[i - 1])
        BY <2>2
    <2>4. Rec(f, k + 1)
        <3>1. DOMAIN f = 0 .. k + 1 /\ f = [i \in 0 .. k + 1 |-> f[i]]
            OBVIOUS
        <3> HIDE DEF f
        <3> QED
            BY <2>3, <3>1
    <2> HIDE DEF f, Rec
    <2> QED
        BY <2>4
<1>3. PICK g : Rec(g, num)
    <2> HIDE DEF S
    <2>1. num \in S
        BY <1>1, <1>2, SetInduction
    <2> QED
        BY <2>1 DEF S
<1>4. StridedLoop(base, num, stride) = CHOOSE f : Rec(f, num)
    BY DEF StridedLoop, Pass, Start
<1>5. Rec(CHOOSE f : Rec(f, num), num)
    <2> HIDE DEF Rec
    <2> QED
        BY <1>3
<1> QED
    BY <1>4, <1>5 DEF Pass, Start

\* The bits of a sequence of updates, one more or one less.
LEMMA AllBitsAppend ==
    ASSUME NEW s \in Seq(Updates), NEW u \in Updates
    PROVE  AllBits(Append(s, u)) = AllBits(s) \cup BitsOf(u)
<1>1. /\ Len(s) \in Nat /\ Len(Append(s, u)) = Len(s) + 1
      /\ \A i \in 1 .. Len(s) : Append(s, u)[i] = s[i]
      /\ Append(s, u)[Len(s) + 1] = u
    OBVIOUS
<1>2. BitsOf(u) \subseteq Harts
    BY DEF BitsOf
<1> QED
    BY <1>1, <1>2 DEF AllBits

\* The bits of a sequence of updates whose first one is done.
LEMMA AllBitsTail ==
    ASSUME NEW s \in Seq(Updates), s # << >>
    PROVE  AllBits(s) = BitsOf(Head(s)) \cup AllBits(Tail(s))
<1>1. /\ Len(s) \in Nat /\ Len(s) > 0 /\ Len(Tail(s)) = Len(s) - 1
      /\ Head(s) = s[1]
      /\ \A i \in 1 .. Len(s) - 1 : Tail(s)[i] = s[i + 1]
    OBVIOUS
<1>2. \A i \in 1 .. Len(s) : i = 1 \/ (i - 1 \in 1 .. Len(s) - 1 /\ s[i] = Tail(s)[i - 1])
    BY <1>1
<1>3. BitsOf(Head(s)) \subseteq Harts
    BY DEF BitsOf
<1>4. AllBits(s) \subseteq BitsOf(Head(s)) \cup AllBits(Tail(s))
    BY <1>1, <1>2 DEF AllBits
<1>5. AllBits(Tail(s)) \subseteq AllBits(s)
    BY <1>1 DEF AllBits
<1>6. BitsOf(Head(s)) \subseteq AllBits(s)
    BY <1>1, <1>3 DEF AllBits
<1> QED
    BY <1>4, <1>5, <1>6

\* A full mask covers the whole register, the mask of one hart just its bit.
LEMMA BitsOfFull ==
    ASSUME NEW u \in Updates, u.mask = 0 .. FIELDS - 1
    PROVE  \A h \in Harts : Register(h) = u.reg => h \in BitsOf(u)
BY HartNumbers, FieldOfHart DEF BitsOf

\* The mask of one hart is its bit.
LEMMA BitsOfOne ==
    ASSUME NEW h \in Harts
    PROVE  /\ One(h) \in Seq(Updates) /\ Len(One(h)) = 1 /\ ~One(h)[1].plain
           /\ AllBits(One(h)) = {h}
           /\ BitsOf(Head(One(h))) = {h} /\ Tail(One(h)) = << >>
<1>1. [reg |-> Register(h), mask |-> {h % FIELDS}, plain |-> FALSE] \in Updates
    BY HartNumbers, FieldOfHart DEF Updates
<1>2. BitsOf([reg |-> Register(h), mask |-> {h % FIELDS}, plain |-> FALSE]) = {h}
    BY HartNumbers, FieldOfHart DEF BitsOf
<1> DEFINE u == [reg |-> Register(h), mask |-> {h % FIELDS}, plain |-> FALSE]
<1>3. One(h) = <<u>> /\ ~u.plain
    BY DEF One
<1> HIDE DEF u
<1>4. /\ <<u>> \in Seq(Updates) /\ Len(<<u>>) = 1 /\ <<u>>[1] = u
      /\ Head(<<u>>) = u /\ Tail(<<u>>) = << >>
    BY <1>1 DEF u
<1>5. BitsOf(u) = {h}
    BY <1>2 DEF u
<1>6. AllBits(<<u>>) = {h}
    BY <1>4, <1>5 DEF AllBits
<1> QED
    BY <1>3, <1>4, <1>5, <1>6

\* The updates set_sw_interrupts_unsafe computes are about the selected harts,
\* and a register is overwritten only when all of its bits are to be set.
LEMMA StridedUpdatesRight ==
    ASSUME NEW base \in Nat, NEW num \in Nat, NEW stride \in Nat,
           Selected(base, num, stride) \subseteq Snitches
    PROVE  LET s == StridedUpdates(base, num, stride)
           IN  /\ s \in Seq(Updates) /\ s # << >>
               /\ \A i \in 1 .. Len(s) : s[i].plain => s[i].mask = 0 .. FIELDS - 1
               /\ AllBits(s) = Selected(base, num, stride)
<1> DEFINE loop == StridedLoop(base, num, stride)
           Rest(s) == [reg |-> s.ptr, mask |-> s.mask, plain |-> FALSE]
           Hart(k) == base + k * stride
           Full(s) == \A j \in 1 .. Len(s) : s[j].plain => s[j].mask = 0 .. FIELDS - 1
           Typed(s) == s \in [ptr : Nat, prev : Nat, mask : SUBSET (0 .. FIELDS - 1),
                              out : Seq(Updates)]
           Right(i, s) ==
               /\ Typed(s)
               /\ s.ptr = s.prev
               /\ i < num => s.prev = Register(Hart(i))
               /\ Full(s.out)
               /\ AllBits(s.out) \cup BitsOf(Rest(s)) = {Hart(k) : k \in 0 .. i - 1}
           S == {i \in Nat : i <= num => Right(i, loop[i])}
<1>0. \A k \in Nat : Hart(k) \in Nat /\ Hart(k + 1) = Hart(k) + stride
    OBVIOUS
<1>1. \A k \in 0 .. num - 1 : Hart(k) \in Snitches /\ Hart(k) \in Harts
    BY HartNumbers DEF Selected
<1>i. \A i \in 0 .. num :
          loop[i] = IF i = 0 THEN StridedStart(base)
                    ELSE StridedPass(base, num, stride, i, loop[i - 1])
    <2>1. loop = [i \in 0 .. num |->
                     IF i = 0 THEN StridedStart(base)
                     ELSE StridedPass(base, num, stride, i, loop[i - 1])]
        BY StridedLoopDef
    <2> HIDE DEF loop
    <2> QED
        BY <2>1
<1>2. loop[0] = StridedStart(base)
    BY <1>i
<1> HIDE DEF loop
<1>3. \A i \in 1 .. num : loop[i] = StridedPass(base, num, stride, i, loop[i - 1])
    BY <1>i
<1>ii. \A i \in Nat : i \in S <=> (i <= num => Right(i, loop[i]))
    <2> HIDE DEF Right
    <2> QED
        OBVIOUS
<1> HIDE DEF S
<1>4. 0 \in S
    <2>1. Typed(loop[0]) /\ loop[0].ptr = loop[0].prev /\ Full(loop[0].out)
        BY <1>2, FieldOfHart DEF StridedStart
    <2>2. loop[0].prev = Register(Hart(0))
        BY <1>2 DEF StridedStart
    <2>3. AllBits(loop[0].out) \cup BitsOf(Rest(loop[0])) = {}
        BY <1>2 DEF StridedStart, AllBits, BitsOf
    <2>4. {Hart(k) : k \in 0 .. 0 - 1} = {}
        OBVIOUS
    <2> HIDE DEF Typed, Full, Hart, Rest
    <2>5. Right(0, loop[0])
        BY <2>1, <2>2, <2>3, <2>4 DEF Right
    <2> QED
        BY <1>ii, <2>5
<1> HIDE DEF Right
<1>5. ASSUME NEW i \in Nat, i \in S PROVE i + 1 \in S
    <2> SUFFICES ASSUME i + 1 <= num PROVE Right(i + 1, loop[i + 1])
        BY <1>ii
    <2> DEFINE s == loop[i]
               t == loop[i + 1]
               field == Hart(i)
               mask == s.mask \cup {field % FIELDS}
               next == Register(field + stride)
               flush == i + 1 # num /\ next # s.prev
               new == [reg |-> s.ptr, mask |-> mask, plain |-> mask = 0 .. FIELDS - 1]
    <2>0. Right(i, s)
        BY <1>ii, <1>5
    <2>1. /\ Typed(s) /\ s.ptr = s.prev /\ s.prev = Register(field) /\ field \in Harts
          /\ Full(s.out)
          /\ AllBits(s.out) \cup BitsOf(Rest(s)) = {Hart(k) : k \in 0 .. i - 1}
        <3>1. i < num /\ i \in 0 .. num - 1
            OBVIOUS
        <3>2. field \in Harts
            BY <1>1, <3>1
        <3> HIDE DEF Hart, s, Typed, Full, Rest
        <3> QED
            BY <2>0, <3>1, <3>2 DEF Right
    <2>2. t = IF flush
              THEN [ptr |-> s.ptr + (next - s.prev), prev |-> next, mask |-> {},
                    out |-> Append(s.out, new)]
              ELSE [s EXCEPT !.mask = mask]
        <3>1. (i + 1) - 1 = i /\ i + 1 \in 1 .. num
            OBVIOUS
        <3>2. t = StridedPass(base, num, stride, i + 1, s)
            BY <1>3, <3>1
        <3> QED
            BY <3>1, <3>2 DEF StridedPass
    <2>3. /\ field \in Nat /\ field % FIELDS \in 0 .. FIELDS - 1
          /\ field = Field(Register(field), field % FIELDS)
          /\ next \in Nat /\ next = Register(Hart(i + 1))
        BY <1>0, FieldOfHart
    <2>4. new \in Updates
        BY <2>1, <2>3 DEF Updates
    <2> HIDE DEF Hart, field, next, s, t
    <2>5. BitsOf(new) = BitsOf(Rest(s)) \cup {field}
        BY <2>1, <2>3 DEF BitsOf
    <2>6. AllBits(s.out) \cup BitsOf(new) = {Hart(k) : k \in 0 .. i}
        <3>1. {Hart(k) : k \in 0 .. i} = {Hart(k) : k \in 0 .. i - 1} \cup {field}
            BY DEF field
        <3> QED
            BY <2>1, <2>5, <3>1
    <2>7. CASE flush
        <3>1. t.ptr = next /\ t.prev = next /\ t.mask = {} /\ t.out = Append(s.out, new)
            <4>1. s.ptr + (next - s.prev) = next
                BY <2>1, <2>3
            <4> HIDE DEF new
            <4> QED
                BY <2>2, <2>7, <4>1
        <3>2. Typed(t)
            <4>1. Append(s.out, new) \in Seq(Updates)
                <5>1. s.out \in Seq(Updates)
                    BY <2>1
                <5> HIDE DEF new
                <5> QED
                    BY <2>4, <5>1
            <4>2. s.ptr + (next - s.prev) = next
                BY <2>1, <2>3
            <4> HIDE DEF new
            <4> QED
                BY <2>2, <2>3, <2>7, <4>1, <4>2
        <3>3. Full(t.out)
            <4>1. new.plain => new.mask = 0 .. FIELDS - 1
                OBVIOUS
            <4>2. s.out \in Seq(Updates)
                BY <2>1
            <4> HIDE DEF new
            <4> QED
                BY <2>1, <2>4, <3>1, <4>1, <4>2
        <3>4. BitsOf(Rest(t)) = {}
            BY <3>1 DEF BitsOf
        <3>5. AllBits(t.out) = AllBits(s.out) \cup BitsOf(new)
            <4>1. s.out \in Seq(Updates)
                BY <2>1
            <4> HIDE DEF new
            <4> QED
                BY <2>4, <3>1, <4>1, AllBitsAppend
        <3>6. AllBits(t.out) \cup BitsOf(Rest(t)) = {Hart(k) : k \in 0 .. (i + 1) - 1}
            <4>1. (i + 1) - 1 = i
                OBVIOUS
            <4> HIDE DEF new, Rest
            <4> QED
                BY <2>6, <3>4, <3>5, <4>1
        <3> HIDE DEF Typed, Full, Rest, new
        <3>7. Right(i + 1, t)
            BY <2>3, <3>1, <3>2, <3>3, <3>6 DEF Right
        <3> QED
            BY <3>7 DEF t
    <2>8. CASE ~flush
        <3>1. t.ptr = s.ptr /\ t.prev = s.prev /\ t.mask = mask /\ t.out = s.out
            BY <2>1, <2>2, <2>8
        <3>2. Typed(t)
            BY <2>1, <2>2, <2>3, <2>8
        <3>3. BitsOf(Rest(t)) = BitsOf(new)
            BY <3>1 DEF BitsOf
        <3>4. AllBits(t.out) \cup BitsOf(Rest(t)) = {Hart(k) : k \in 0 .. (i + 1) - 1}
            <4>1. (i + 1) - 1 = i
                OBVIOUS
            <4> HIDE DEF new, Rest
            <4> QED
                BY <2>6, <3>1, <3>3, <4>1
        <3>5. i + 1 < num => t.prev = Register(Hart(i + 1))
            BY <2>1, <2>3, <2>8, <3>1
        <3> HIDE DEF Typed, Full, Rest, new
        <3>6. Right(i + 1, t)
            BY <2>1, <3>1, <3>2, <3>4, <3>5 DEF Right
        <3> QED
            BY <3>6 DEF t
    <2> QED
        BY <2>7, <2>8
<1>6. Right(num, loop[num])
    <2>1. num \in S
        BY <1>4, <1>5, SetInduction
    <2> QED
        BY <1>ii, <2>1
<1>7. Rest(loop[num]) \in Updates
    BY <1>6 DEF Updates, Right
<1>8. StridedUpdates(base, num, stride) = Append(loop[num].out, Rest(loop[num]))
    BY DEF StridedUpdates, loop
<1>9. {Hart(k) : k \in 0 .. num - 1} = Selected(base, num, stride)
    BY DEF Selected
<1> DEFINE out == loop[num].out
           rest == Rest(loop[num])
<1>10. /\ out \in Seq(Updates) /\ rest \in Updates /\ ~rest.plain /\ Full(out)
       /\ AllBits(out) \cup BitsOf(rest) = Selected(base, num, stride)
       /\ StridedUpdates(base, num, stride) = Append(out, rest)
    BY <1>6, <1>7, <1>8, <1>9 DEF Right
<1> HIDE DEF out, rest
<1>11. Append(out, rest) \in Seq(Updates) /\ Append(out, rest) # << >>
    BY <1>10
<1>12. Full(Append(out, rest))
    BY <1>10
<1> QED
    BY <1>10, <1>11, <1>12, AllBitsAppend

-----------------------------------------------------------------------------
(* The inductive invariant.                                                 *)

\* Where a call returns to.
LEMMA CallTarget ==
    ASSUME IInv, NEW h \in Harts, InCall(h)
    PROVE  /\ h = 0 => call[h].then \in {"woken", "start"}
           /\ h # 0 => call[h].then \in {"elect", "parked"}
BY DEF IInv, CallsRight, CallRight

\* One hart moves at a time.
LEMMA MoveOK ==
    ASSUME PcOK, NEW h \in Harts, NEW m \in Locations(h), pc' = [pc EXCEPT ![h] = m]
    PROVE  /\ PcOK' /\ pc'[h] = m
           /\ \A g \in Harts \ {h} : pc'[g] = pc[g]
BY DEF PcOK

\* A hart that calls a CLINT function goes to take the lock.
LEMMA BeginEffect ==
    ASSUME PcOK, CallOK, NEW h \in Harts, NEW l, NEW op, NEW s, NEW effect, NEW then,
           Begin(h, l, op, s, effect, then)
    PROVE  /\ pc[h] = l /\ pc'[h] = "acquire"
           /\ call'[h] = [op |-> op, updates |-> s, then |-> then, effect |-> effect]
           /\ \A g \in Harts \ {h} : pc'[g] = pc[g] /\ call'[g] = call[g]
BY DEF Begin, Goto, PcOK, CallOK

\* Beginning a call keeps the types.
LEMMA BeginOK ==
    ASSUME PcOK, CallOK, UNCHANGED loaded,
           NEW h \in Harts, NEW l, NEW op \in {"set", "clear"},
           NEW s \in Seq(Updates), NEW effect \in SUBSET Harts,
           NEW then \in {"woken", "start", "elect", "parked"},
           Begin(h, l, op, s, effect, then)
    PROVE  /\ PcOK' /\ CallOK'
           /\ pc[h] = l /\ pc'[h] = "acquire"
           /\ call'[h] = [op |-> op, updates |-> s, then |-> then, effect |-> effect]
           /\ \A g \in Harts \ {h} : pc'[g] = pc[g] /\ call'[g] = call[g]
<1> DEFINE c == [op |-> op, updates |-> s, then |-> then, effect |-> effect]
<1>1. /\ pc[h] = l /\ pc' = [pc EXCEPT ![h] = "acquire"]
      /\ call' = [call EXCEPT ![h] = c]
    BY DEF Begin, Goto
<1>2. c \in CallTypes
    BY DEF CallTypes
<1> HIDE DEF c
<1>3. "acquire" \in Locations(h)
    BY DEF Locations, HostLocations, SnitchLocations
<1>4. CallOK' /\ call'[h] = c /\ \A g \in Harts \ {h} : call'[g] = call[g]
    BY <1>1, <1>2 DEF CallOK
<1> QED
    BY <1>1, <1>3, <1>4, MoveOK DEF c

\* Every variable keeps its type.
LEMMA NextTypeOK == IInv /\ [Next]_vars => TypeOK'
<1> SUFFICES ASSUME IInv, [Next]_vars PROVE TypeOK'
    OBVIOUS
<1> USE HartNumbers
<1>0. PcOK /\ CallOK /\ WordsOK /\ timer \in TimerTypes
    BY DEF IInv, TypeOK
<1> USE <1>0 DEF TypeOK
<1>1. ASSUME NEW h \in Harts, Acquire(h) PROVE TypeOK'
    <2>1. "load" \in Locations(h)
        BY DEF Locations, HostLocations, SnitchLocations, Critical
    <2> QED
        BY <1>1, <2>1, MoveOK DEF Acquire, Goto, CallOK, WordsOK
<1>2. ASSUME NEW h \in Harts, Load(h) PROVE TypeOK'
    <2>1. Word(Head(call[h].updates).reg) \in SUBSET Harts
        BY DEF Word, WordsOK
    <2>2. "store" \in Locations(h)
        BY DEF Locations, HostLocations, SnitchLocations, Critical
    <2>3. CallOK'
        BY <1>2, <2>1 DEF Load, CallOK
    <2> QED
        BY <1>2, <2>2, <2>3, MoveOK DEF Load, Goto, WordsOK
<1>3. ASSUME NEW h \in Harts, Store(h) PROVE TypeOK'
    <2>1. /\ \E m \in {"load", "release"} : pc' = [pc EXCEPT ![h] = m]
          /\ UNCHANGED <<lock, loaded, mutex, targets, timer, mtie>>
        BY <1>3 DEF Store, Goto
    <2>2. msip' \in SUBSET Harts /\ want' \in SUBSET Harts
        BY <1>3 DEF Store, BitsOf, Word, WordsOK, CallOK, CallTypes
    <2>3. pc[h] = "store" /\ call' = [call EXCEPT ![h].updates = Tail(@)]
        BY <1>3 DEF Store, Goto
    <2>4. call[h] \in CallTypes /\ call[h].updates # << >>
        BY <2>3 DEF IInv, CallsRight, UpdatesRight, InCall, Critical, CallOK
    <2>5. Tail(call[h].updates) \in Seq(Updates)
        <3> DEFINE s == call[h].updates
        <3>1. s \in Seq(Updates) /\ s # << >>
            BY <2>4 DEF CallTypes
        <3> HIDE DEF s
        <3>2. Tail(s) \in Seq(Updates)
            BY <3>1
        <3> QED
            BY <3>2 DEF s
    <2>6. [call[h] EXCEPT !.updates = Tail(@)] \in CallTypes
        BY <2>4, <2>5 DEF CallTypes
    <2>7. CallOK'
        <3>1. call' = [call EXCEPT ![h] = [call[h] EXCEPT !.updates = Tail(@)]]
            BY <2>3
        <3> QED
            BY <2>1, <2>6, <3>1 DEF CallOK
    <2>8. {"load", "release"} \subseteq Locations(h)
        BY DEF Locations, HostLocations, SnitchLocations, Critical
    <2> QED
        BY <2>1, <2>2, <2>7, <2>8, MoveOK DEF WordsOK
<1>4. ASSUME NEW h \in Harts, Release(h) PROVE TypeOK'
    <2>1. pc[h] = "release" /\ InCall(h) /\ pc' = [pc EXCEPT ![h] = call[h].then]
        BY <1>4 DEF Release, Goto, InCall, Critical
    <2>2. call[h].then \in Locations(h)
        BY <2>1, CallTarget DEF Locations, HostLocations, SnitchLocations
    <2> QED
        BY <1>4, <2>1, <2>2, MoveOK DEF Release, CallOK, WordsOK
<1>5. ASSUME NEW h \in Snitches, Woken(h) PROVE TypeOK'
    BY <1>5, BitsOfOne, BeginOK DEF Woken, ClearOne, WordsOK
<1>6. ASSUME NEW h \in Snitches, ReturnToHost(h) PROVE TypeOK'
    BY <1>6, BitsOfOne, BeginOK DEF ReturnToHost, SetOne, WordsOK
<1>7. ASSUME NEW h \in Snitches, Elect(h) PROVE TypeOK'
    <2>1. {"elected", "parked"} \subseteq Locations(h)
        BY DEF Locations, SnitchLocations
    <2>2. \E m \in {"elected", "parked"} : pc' = [pc EXCEPT ![h] = m]
        BY <1>7 DEF Elect, Goto
    <2>3. PcOK'
        BY <2>1, <2>2, MoveOK
    <2> QED
        BY <1>7, <2>3 DEF Elect, CallOK, WordsOK
<1>8. ASSUME NEW h \in Snitches, ResetMutex(h) PROVE TypeOK'
    <2>1. "return" \in Locations(h)
        BY DEF Locations, SnitchLocations
    <2> QED
        BY <1>8, <2>1, MoveOK DEF ResetMutex, Goto, CallOK, WordsOK
<1>9. ASSUME NEW sel \in WakeUps, WakeUp(sel) PROVE TypeOK'
    <2>1. /\ StridedUpdates(sel[1], sel[2], sel[3]) \in Seq(Updates)
          /\ Selected(sel[1], sel[2], sel[3]) \in SUBSET Snitches
          /\ Selected(sel[1], sel[2], sel[3]) \in SUBSET Harts
        BY WakeUpTypes, StridedUpdatesRight
    <2>2. /\ Begin(0, "start", "set", StridedUpdates(sel[1], sel[2], sel[3]),
                   Selected(sel[1], sel[2], sel[3]), "woken")
          /\ loaded' = loaded /\ targets' = Selected(sel[1], sel[2], sel[3])
          /\ UNCHANGED <<lock, msip, mutex, timer, mtie, want>>
        BY <1>9 DEF WakeUp
    <2>3. PcOK' /\ CallOK'
        BY <2>1, <2>2, BeginOK
    <2>4. targets' \in SUBSET Snitches
        BY <2>1, <2>2
    <2>5. timer' \in TimerTypes
        BY <2>2
    <2>6. WordsOK'
        BY <2>2, <2>4 DEF WordsOK
    <2> QED
        BY <2>3, <2>5, <2>6
<1>10. ASSUME NEW g \in Snitches, WakeUpOne(g) PROVE TypeOK'
    BY <1>10, BitsOfOne, BeginOK DEF WakeUpOne, SetOne, WordsOK
<1>11. ASSUME ClearDone PROVE TypeOK'
    BY <1>11, BitsOfOne, BeginOK DEF ClearDone, ClearOne, WordsOK
<1>12. HostLocations = Locations(0)
    BY DEF Locations
<1>13. ASSUME NEW i \in Intervals, ReadTime(i) PROVE TypeOK'
    BY <1>12, <1>13, HostAssumption, MoveOK
        DEF ReadTime, Goto, CallOK, WordsOK, TimerTypes, HostLocations
<1>14. ASSUME ProgramTimer PROVE TypeOK'
    <2>1. timer.interval \in Nat /\ timer.elapsed \in Nat
        BY DEF TimerTypes
    <2>p. Periods(timer.interval) \in Nat
        BY <2>1, PeriodsBelow
    <2>2. timer' \in TimerTypes
        BY <1>14, <2>1, <2>p DEF ProgramTimer, TimerTypes
    <2> QED
        BY <1>12, <1>14, <2>2, MoveOK DEF ProgramTimer, Goto, CallOK, WordsOK, HostLocations
<1>15. ASSUME EnableTimer \/ NoWait \/ Wfi \/ TestTimer \/ DisableTimer \/ TestDone
       PROVE  TypeOK'
    <2>1. \E m \in HostLocations : pc' = [pc EXCEPT ![0] = m]
        BY <1>15 DEF EnableTimer, NoWait, Wfi, TestTimer, DisableTimer, TestDone, Goto,
            HostLocations
    <2>2. CallOK' /\ WordsOK' /\ timer' \in TimerTypes
        BY <1>15 DEF EnableTimer, NoWait, Wfi, TestTimer, DisableTimer, TestDone,
            CallOK, WordsOK
    <2> QED
        BY <1>12, <2>1, <2>2, MoveOK
<1>16. ASSUME ClearTimer PROVE TypeOK'
    BY <1>12, <1>16, MoveOK DEF ClearTimer, Goto, CallOK, WordsOK, TimerTypes, HostLocations
<1>17. ASSUME Tick PROVE TypeOK'
    <2>1. timer' \in TimerTypes
        <3>1. timer.left \in Nat /\ timer.elapsed \in Nat
            BY DEF TimerTypes
        <3>2. \E l, e \in Nat : timer' = [timer EXCEPT !.left = l, !.elapsed = e]
            <4>1. PICK l : l = IF timer.left = 0 THEN 0 ELSE timer.left - 1
                OBVIOUS
            <4>2. PICK e : e = IF \E i \in Intervals : timer.elapsed <= Periods(i)
                               THEN timer.elapsed + 1 ELSE timer.elapsed
                OBVIOUS
            <4>3. l \in Nat /\ e \in Nat
                BY <3>1, <4>1, <4>2
            <4>4. timer' = [timer EXCEPT !.left = l, !.elapsed = e]
                BY <1>17, <4>1, <4>2 DEF Tick, TimerTypes
            <4> QED
                BY <4>3, <4>4
        <3> QED
            BY <3>2 DEF TimerTypes
    <2> QED
        BY <1>17, <2>1 DEF Tick, PcOK, CallOK, WordsOK
<1>18. CASE UNCHANGED vars
    BY <1>18 DEF vars, PcOK, CallOK, WordsOK
<1> QED
    BY <1>1, <1>2, <1>3, <1>4, <1>5, <1>6, <1>7, <1>8, <1>9, <1>10, <1>11, <1>13,
        <1>14, <1>15, <1>16, <1>17, <1>18 DEF Next, Host, Snitch, Shared

\* Nobody else moves the host, its timer or its timer interrupt.
LEMMA HostElsewhere ==
    ASSUME PcOK, NEW h \in Snitches, Snitch(h)
    PROVE  pc'[0] = pc[0] /\ timer' = timer /\ mtie' = mtie
BY HartNumbers DEF Snitch, Shared, Acquire, Load, Store, Release, Woken, Elect, ResetMutex,
    ReturnToHost, ClearOne, SetOne, Begin, Goto, PcOK

\* The host goes through the timer functions in order, and the timer never
\* runs out before the delay has passed.
LEMMA NextTimerRight == IInv /\ [Next]_vars => TimerRight'
<1> SUFFICES ASSUME IInv, [Next]_vars PROVE TimerRight'
    OBVIOUS
<1>0. PcOK /\ TimerRight /\ DelayKept /\ timer \in TimerTypes
    BY DEF IInv, TypeOK, TimerRight
<1>t. timer.left \in Nat /\ timer.elapsed \in Nat /\ timer.interval \in Nat
    BY <1>0 DEF TimerTypes
<1>p. Periods(timer.interval) \in Nat
    BY <1>t, PeriodsBelow
<1> USE <1>0, <1>t, <1>p, HartNumbers
<1>1. ASSUME NEW h \in Snitches, Snitch(h) PROVE TimerRight'
    BY <1>1, HostElsewhere DEF TimerRight, DelayKept
<1>2. ASSUME Shared(0) PROVE TimerRight'
    <2>1. pc'[0] \in {"load", "store", "release", "woken", "start"}
        <3>1. InCall(0) /\ Release(0) => call[0].then \in {"woken", "start"}
            BY CallTarget
        <3> QED
            BY <1>2, <3>1 DEF Shared, Acquire, Load, Store, Release, Goto, InCall, Critical,
                PcOK
    <2> QED
        BY <2>1 DEF TimerRight, DelayKept
<1>3. ASSUME \/ \E sel \in WakeUps : WakeUp(sel)
             \/ \E g \in Snitches : WakeUpOne(g)
             \/ NoWait \/ ClearTimer \/ TestDone \/ ClearDone
      PROVE  TimerRight'
    <2>1. pc'[0] \in {"acquire", "done wfi", "done"}
        BY <1>3 DEF WakeUp, WakeUpOne, NoWait, ClearTimer, TestDone, ClearDone, SetOne,
            ClearOne, Begin, Goto, PcOK
    <2> QED
        BY <2>1 DEF TimerRight, DelayKept
<1>4. ASSUME NEW i \in Intervals, ReadTime(i) PROVE TimerRight'
    <2>1. pc'[0] = "program" /\ timer'.interval = i
        BY <1>4 DEF ReadTime, Goto, PcOK, TimerTypes
    <2> QED
        BY <2>1 DEF TimerRight, DelayKept
<1>5. ASSUME ProgramTimer PROVE TimerRight'
    <2>1. /\ pc[0] = "program" /\ pc'[0] = "enable"
          /\ timer'.interval = timer.interval /\ timer'.elapsed = timer.elapsed
          /\ timer'.left = IF Periods(timer.interval) > timer.elapsed
                           THEN Periods(timer.interval) - timer.elapsed ELSE 0
        BY <1>5 DEF ProgramTimer, Goto, PcOK, TimerTypes
    <2> QED
        BY <2>1 DEF TimerRight, DelayKept
<1>6. ASSUME EnableTimer PROVE TimerRight'
    BY <1>6 DEF EnableTimer, Goto, PcOK, TimerRight, DelayKept
<1>7. ASSUME Wfi PROVE TimerRight'
    BY <1>7 DEF Wfi, Goto, PcOK, TimerRight, DelayKept
<1>8. ASSUME TestTimer PROVE TimerRight'
    <2>1. /\ pc[0] = "delay test" /\ timer' = timer /\ mtie' = mtie
          /\ pc'[0] = IF timer.left # 0 /\ mtie THEN "delay wfi" ELSE "disable"
        BY <1>8 DEF TestTimer, Goto, PcOK
    <2>2. mtie
        BY <2>1 DEF TimerRight
    <2>3. pc'[0] = IF timer.left # 0 THEN "delay wfi" ELSE "disable"
        BY <2>1, <2>2
    <2>4. Periods(timer.interval) <= timer.left + timer.elapsed /\ timer.interval \in Intervals
        BY <2>1 DEF DelayKept
    <2>5. timer.left = 0 => Periods(timer.interval) <= timer.elapsed
        BY <2>4
    <2>6. DelayKept'
        BY <2>1, <2>3, <2>4, <2>5 DEF DelayKept
    <2> QED
        BY <2>1, <2>2, <2>6 DEF TimerRight
<1>9. ASSUME DisableTimer PROVE TimerRight'
    BY <1>9 DEF DisableTimer, Goto, PcOK, TimerRight, DelayKept
<1>10. ASSUME Tick PROVE TimerRight'
    <2>1. /\ timer'.left = IF timer.left = 0 THEN 0 ELSE timer.left - 1
          /\ timer'.elapsed = IF \E i \in Intervals : timer.elapsed <= Periods(i)
                              THEN timer.elapsed + 1 ELSE timer.elapsed
          /\ timer'.interval = timer.interval
          /\ pc' = pc /\ mtie' = mtie
        BY <1>10 DEF Tick, TimerTypes
    <2>2. timer.interval \in Intervals =>
              \/ timer'.elapsed = timer.elapsed + 1
              \/ timer'.elapsed = timer.elapsed /\ Periods(timer.interval) <= timer.elapsed
        BY <2>1, HostAssumption, PeriodsBelow
    <2>3. timer'.elapsed \in Nat /\ timer.elapsed <= timer'.elapsed
        BY <2>1
    <2>4. timer.interval \in Intervals /\ Periods(timer.interval) <= timer.left + timer.elapsed =>
              Periods(timer'.interval) <= timer'.left + timer'.elapsed
        BY <2>1, <2>2
    <2>5. Periods(timer.interval) <= timer.elapsed => Periods(timer'.interval) <= timer'.elapsed
        BY <2>1, <2>3
    <2>6. DelayKept'
        BY <2>1, <2>4, <2>5 DEF DelayKept
    <2> QED
        BY <2>1, <2>6 DEF TimerRight
<1>11. CASE UNCHANGED vars
    BY <1>11 DEF vars, TimerRight, DelayKept
<1> QED
    BY <1>1, <1>2, <1>3, <1>4, <1>5, <1>6, <1>7, <1>8, <1>9, <1>10, <1>11 DEF Next, Host

\* A call is not disturbed by other harts.
LEMMA CallFrame ==
    ASSUME NEW g \in Harts, CallRight(g), UpdatesRight(g),
           pc'[g] = pc[g], call'[g] = call[g], loaded'[g] = loaded[g],
           g = 0 => targets' = targets,
           pc[g] \in Critical => msip' = msip /\ want' = want
    PROVE  CallRight(g)' /\ UpdatesRight(g)'
<1>1. CallRight(g)'
    BY DEF CallRight
<1>2. AllBits(call'[g].updates) = AllBits(call[g].updates)
    OBVIOUS
<1>3. pc[g] = "store" => Word(Head(call[g].updates).reg)' = Word(Head(call[g].updates).reg)
    BY DEF Word, Critical
<1>4. UpdatesRight(g)'
    BY <1>2, <1>3 DEF UpdatesRight, Critical
<1> QED
    BY <1>1, <1>4

\* Steps outside the calls leave them alone.
LEMMA QuietCalls ==
    ASSUME LockRight, InterruptsKept, CallsRight,
           UNCHANGED <<lock, msip, want, call, loaded, targets>>,
           \A g \in Harts : pc'[g] \in Critical \cup {"acquire"} => pc'[g] = pc[g]
    PROVE  LockRight' /\ InterruptsKept' /\ CallsRight'
<1>1. LockRight'
    BY DEF LockRight
<1>2. InterruptsKept'
    BY DEF InterruptsKept
<1>3. CallsRight'
    <2> SUFFICES ASSUME NEW g \in Harts, InCall(g)' PROVE CallRight(g)' /\ UpdatesRight(g)'
        BY DEF CallsRight
    <2>1. pc'[g] = pc[g] /\ InCall(g)
        BY DEF InCall
    <2> QED
        BY <2>1, CallFrame DEF CallsRight
<1> QED
    BY <1>1, <1>2, <1>3

\* Beginning a call that is right.
LEMMA BeginCalls ==
    ASSUME LockRight, InterruptsKept, CallsRight,
           UNCHANGED <<lock, msip, want, loaded>>,
           NEW h \in Harts, h # 0 => targets' = targets,
           pc'[h] = "acquire",
           \A g \in Harts \ {h} : pc'[g] = pc[g] /\ call'[g] = call[g],
           h # 0 \/ UNCHANGED targets \/ pc[0] \in {"start"},
           CallRight(h)', UpdatesRight(h)'
    PROVE  LockRight' /\ InterruptsKept' /\ CallsRight'
<1>1. LockRight'
    <2>1. \A g \in Harts : pc'[g] \in Critical => g # h /\ pc'[g] = pc[g]
        BY DEF Critical
    <2> QED
        BY <2>1 DEF LockRight
<1>2. InterruptsKept'
    BY DEF InterruptsKept
<1>3. CallsRight'
    <2> SUFFICES ASSUME NEW g \in Harts \ {h}, InCall(g)' PROVE CallRight(g)' /\ UpdatesRight(g)'
        BY DEF CallsRight
    <2>1. pc'[g] = pc[g] /\ call'[g] = call[g] /\ InCall(g)
        BY DEF InCall
    <2>2. g = 0 => targets' = targets
        OBVIOUS
    <2> QED
        BY <2>1, <2>2, CallFrame DEF CallsRight
<1> QED
    BY <1>1, <1>2, <1>3

\* A store brings about what the call still has to do, and nothing else: the
\* register it replaces is the one it has loaded, or all of it is set.
LEMMA StoreEffect ==
    ASSUME IInv, NEW h \in Harts, Store(h)
    PROVE  /\ pc[h] = "store" /\ lock = 1
           /\ call[h].op \in {"set", "clear"}
           /\ call'[h] = [call[h] EXCEPT !.updates = Tail(@)]
           /\ \A g \in Harts \ {h} : call'[g] = call[g] /\ pc'[g] = pc[g]
           /\ pc'[h] \in {"load", "release"}
           /\ call[h].op = "clear" =>
                 msip' = msip \ {h} /\ want' = msip' /\ pc'[h] = "release"
           /\ call[h].op = "set" =>
                 /\ msip \subseteq msip' /\ msip' \subseteq msip \cup call[h].effect
                 /\ pc'[h] = "release" => msip' = want' /\ msip' = msip \cup call[h].effect
                 /\ pc'[h] = "load" =>
                       /\ want' = want /\ Tail(call[h].updates) # << >>
                       /\ msip' \cup AllBits(Tail(call[h].updates)) = want \cup call[h].effect
           /\ call[h].updates = One(0) \/ call[h].updates = One(h) => pc'[h] = "release"
<1>0. PcOK /\ CallOK /\ WordsOK /\ LockRight /\ CallsRight
    BY DEF IInv, TypeOK
<1> DEFINE c == call[h]
           s == call[h].updates
           u == Head(s)
           bits == BitsOf(u)
           last == Len(s) = 1
           new == CASE c.op = "clear" -> loaded[h] \ bits
                    [] u.plain -> bits
                    [] OTHER -> loaded[h] \cup bits
<1>1. /\ pc[h] = "store"
      /\ pc' = [pc EXCEPT ![h] = IF last THEN "release" ELSE "load"]
      /\ msip' = (msip \ Word(u.reg)) \cup new
      /\ call' = [call EXCEPT ![h].updates = Tail(@)]
      /\ want' = IF ~last THEN want
                 ELSE IF c.op = "set" THEN want \cup c.effect ELSE want \ c.effect
    BY DEF Store, Goto
<1>2. InCall(h) /\ CallRight(h) /\ UpdatesRight(h) /\ lock = 1
    BY <1>0, <1>1 DEF InCall, Critical, CallsRight, LockRight
<1>3. c \in CallTypes /\ s \in Seq(Updates) /\ s # << >>
    BY <1>0, <1>1, <1>2 DEF CallOK, CallTypes, UpdatesRight
<1>4. u \in Updates /\ u = s[1] /\ Len(s) \in Nat /\ Len(s) >= 1 /\ Tail(s) \in Seq(Updates)
      /\ (last <=> Tail(s) = << >>)
    <2> HIDE DEF s
    <2>1. Len(s) \in Nat /\ Len(s) >= 1 /\ u = s[1] /\ Tail(s) \in Seq(Updates)
        BY <1>3
    <2>2. u \in Updates
        BY <1>3, <2>1
    <2>3. Len(Tail(s)) = Len(s) - 1
        BY <1>3
    <2>4. Tail(s) = << >> <=> Len(Tail(s)) = 0
        BY <2>1, EmptySeq
    <2> QED
        BY <2>1, <2>2, <2>3, <2>4
<1>5. /\ c.op \in {"set", "clear"} /\ loaded[h] = Word(u.reg)
      /\ u.plain => u.mask = 0 .. FIELDS - 1
      /\ AllBits(s) \subseteq c.effect
      /\ c.op = "set" => msip \cup AllBits(s) = want \cup c.effect
      /\ c.op = "clear" => msip = want /\ c.effect = {h} /\ s = One(h)
    BY <1>1, <1>2, <1>4 DEF CallRight, UpdatesRight
<1>6. AllBits(s) = bits \cup AllBits(Tail(s))
    <2> HIDE DEF s
    <2> QED
        BY <1>3, AllBitsTail
<1>7. /\ pc'[h] = IF last THEN "release" ELSE "load"
      /\ \A g \in Harts \ {h} : call'[g] = call[g] /\ pc'[g] = pc[g]
      /\ call'[h] = [call[h] EXCEPT !.updates = Tail(@)]
    BY <1>0, <1>1 DEF PcOK, CallOK
<1>8. s = One(0) \/ s = One(h) => last
    BY BitsOfOne, HartNumbers
<1>9. CASE c.op = "clear"
    <2>1. bits = {h} /\ last
        BY <1>5, <1>9, BitsOfOne
    <2>2. new = Word(u.reg) \ {h}
        <3>1. ~u.plain
            BY <1>4, <1>5, <1>9, BitsOfOne
        <3> QED
            BY <1>5, <1>9, <2>1, <3>1
    <2>3. msip' = msip \ {h}
        <3> DEFINE w == Word(u.reg)
        <3>1. w \subseteq msip /\ (h \in msip => h \in w)
            <4>1. Register(h) = u.reg
                BY <1>4, <1>5, <1>9 DEF One
            <4> QED
                BY <4>1 DEF Word
        <3>2. msip' = (msip \ w) \cup (w \ {h})
            BY <1>1, <2>2
        <3> HIDE DEF w
        <3> QED
            BY <3>1, <3>2
    <2>4. want' = want \ {h}
        BY <1>1, <1>5, <1>9, <2>1
    <2> QED
        BY <1>1, <1>2, <1>5, <1>7, <1>8, <1>9, <2>1, <2>3, <2>4
<1>10. CASE c.op = "set"
    <2>1. new = IF u.plain THEN bits ELSE Word(u.reg) \cup bits
        BY <1>5, <1>10
    <2>2. msip' = msip \cup bits
        <3>1. u.plain => Word(u.reg) \subseteq bits
            BY <1>0, <1>4, <1>5, BitsOfFull DEF Word, WordsOK
        <3>2. Word(u.reg) \subseteq msip
            BY DEF Word
        <3> HIDE DEF new, u, bits
        <3> QED
            BY <1>1, <2>1, <3>1, <3>2
    <2>3. msip' \cup AllBits(Tail(s)) = want \cup c.effect /\ bits \subseteq c.effect
        <3> HIDE DEF bits
        <3> QED
            BY <1>5, <1>6, <1>10, <2>2
    <2>4. last => AllBits(Tail(s)) = {}
        BY <1>4 DEF AllBits
    <2>5. last => want' = want \cup c.effect
        BY <1>1, <1>10
    <2>6. ~last => want' = want
        BY <1>1
    <2>7. last => AllBits(s) = bits
        BY <1>6, <2>4
    <2>8. last => msip' = msip \cup c.effect
        BY <2>2, <2>3, <2>4
    <2> QED
        BY <1>1, <1>2, <1>4, <1>5, <1>7, <1>8, <1>10, <2>2, <2>3, <2>4, <2>5, <2>6, <2>8
<1> QED
    BY <1>5, <1>9, <1>10

\* The steps of the CLINT functions keep the lock and the interrupts right.
LEMMA SharedCallsRight ==
    ASSUME IInv, NEW h \in Harts, Shared(h)
    PROVE  LockRight' /\ InterruptsKept' /\ CallsRight'
<1>0. PcOK /\ CallOK /\ LockRight /\ InterruptsKept /\ CallsRight
    BY DEF IInv, TypeOK
<1> USE <1>0
<1>1. ASSUME NEW g \in Harts, InCall(g), pc'[g] = pc[g], call'[g] = call[g],
             loaded'[g] = loaded[g], targets' = targets,
             pc[g] \in Critical => msip' = msip /\ want' = want
      PROVE  CallRight(g)' /\ UpdatesRight(g)'
    BY <1>1, CallFrame DEF CallsRight
<1>2. CASE Acquire(h)
    <2>1. /\ lock = 0 /\ lock' = 1 /\ pc[h] = "acquire" /\ pc'[h] = "load"
          /\ \A g \in Harts \ {h} : pc'[g] = pc[g]
          /\ UNCHANGED <<msip, want, call, loaded, targets>>
        BY <1>2 DEF Acquire, Goto, PcOK
    <2>2. \A g \in Harts : pc[g] \notin Critical
        BY <2>1 DEF LockRight
    <2>3. LockRight' /\ InterruptsKept'
        BY <2>1, <2>2 DEF LockRight, InterruptsKept
    <2>4. CallRight(h) /\ UpdatesRight(h) /\ msip = want
        BY <2>1 DEF CallsRight, InCall, InterruptsKept
    <2>5. CallRight(h)'
        BY <2>1, <2>4 DEF CallRight
    <2>6. UpdatesRight(h)'
        <3>1. AllBits(call'[h].updates) = AllBits(call[h].updates)
            BY <2>1
        <3> QED
            BY <2>1, <2>4, <3>1 DEF UpdatesRight
    <2>7. \A g \in Harts \ {h} : InCall(g)' => CallRight(g)' /\ UpdatesRight(g)'
        BY <1>1, <2>1 DEF InCall
    <2> QED
        BY <2>3, <2>5, <2>6, <2>7 DEF CallsRight
<1>3. CASE Load(h)
    <2>1. /\ pc[h] = "load" /\ pc'[h] = "store"
          /\ \A g \in Harts \ {h} : pc'[g] = pc[g] /\ loaded'[g] = loaded[g]
          /\ loaded'[h] = Word(Head(call[h].updates).reg)
          /\ UNCHANGED <<lock, msip, want, call, targets>>
        BY <1>3 DEF Load, Goto, PcOK, CallOK
    <2>2. \A g \in Harts : pc'[g] \in Critical => pc[g] \in Critical
        BY <2>1 DEF Critical
    <2>3. LockRight' /\ InterruptsKept'
        BY <2>1, <2>2 DEF LockRight, InterruptsKept
    <2>4. CallRight(h) /\ UpdatesRight(h)
        BY <2>1 DEF CallsRight, InCall, Critical
    <2>5. CallRight(h)'
        BY <2>1, <2>4 DEF CallRight
    <2>6. UpdatesRight(h)'
        <3>1. AllBits(call'[h].updates) = AllBits(call[h].updates)
            BY <2>1
        <3>2. Word(Head(call[h].updates).reg)' = Word(Head(call[h].updates).reg)
            BY <2>1 DEF Word
        <3> QED
            BY <2>1, <2>4, <3>1, <3>2 DEF UpdatesRight
    <2>7. \A g \in Harts \ {h} : InCall(g)' => CallRight(g)' /\ UpdatesRight(g)'
        BY <1>1, <2>1 DEF InCall
    <2> QED
        BY <2>3, <2>5, <2>6, <2>7 DEF CallsRight
<1>4. CASE Store(h)
    <2> DEFINE s == call[h].updates
    <2>1. /\ pc[h] = "store" /\ lock = 1 /\ pc'[h] \in {"load", "release"}
          /\ \A g \in Harts \ {h} : call'[g] = call[g] /\ pc'[g] = pc[g]
          /\ call'[h] = [call[h] EXCEPT !.updates = Tail(@)]
        BY <1>4, StoreEffect
    <2>2. UNCHANGED <<lock, loaded, targets>>
        BY <1>4 DEF Store
    <2>3. \A g \in Harts : pc'[g] \in Critical => pc[g] \in Critical
        BY <2>1 DEF Critical
    <2>4. \A g \in Harts \ {h} : pc[g] \notin Critical
        BY <2>1 DEF LockRight, Critical
    <2>5. LockRight' /\ InterruptsKept'
        BY <2>1, <2>2, <2>3 DEF LockRight, InterruptsKept
    <2>6. CallRight(h) /\ UpdatesRight(h) /\ call[h] \in CallTypes
        BY <2>1 DEF CallsRight, InCall, Critical, CallOK
    <2>7. /\ call'[h].then = call[h].then /\ call'[h].op = call[h].op
          /\ call'[h].effect = call[h].effect /\ call'[h].updates = Tail(s)
        BY <2>1, <2>6 DEF CallTypes
    <2>8. s = One(0) \/ s = One(h) => pc'[h] = "release"
        BY <1>4, StoreEffect
    <2>9. CallRight(h)'
        BY <2>1, <2>2, <2>6, <2>7, <2>8 DEF CallRight
    <2>10. UpdatesRight(h)'
        <3>1. CASE pc'[h] = "release"
            <4>1. msip' = want'
                BY <1>4, <3>1, StoreEffect
            <4> QED
                BY <3>1, <4>1 DEF UpdatesRight
        <3>2. CASE pc'[h] = "load"
            <4>1. call[h].op = "set"
                BY <1>4, <3>2, StoreEffect
            <4>2. /\ want' = want /\ Tail(s) # << >>
                  /\ msip' \cup AllBits(Tail(s)) = want \cup call[h].effect
                BY <1>4, <3>2, <4>1, StoreEffect
            <4>3. s \in Seq(Updates) /\ s # << >>
                BY <2>1, <2>6 DEF CallTypes, UpdatesRight
            <4>4. AllBits(Tail(s)) \subseteq AllBits(s)
                <5> HIDE DEF s
                <5> QED
                    BY <4>3, AllBitsTail
            <4>5. \A i \in 1 .. Len(Tail(s)) : i + 1 \in 1 .. Len(s) /\ Tail(s)[i] = s[i + 1]
                <5> HIDE DEF s
                <5> QED
                    BY <4>3
            <4>6. \A i \in 1 .. Len(s) : s[i].plain => s[i].mask = 0 .. FIELDS - 1
                BY <2>1, <2>6 DEF UpdatesRight
            <4>7. \A i \in 1 .. Len(Tail(s)) : Tail(s)[i].plain => Tail(s)[i].mask = 0 .. FIELDS - 1
                <5> HIDE DEF s
                <5> QED
                    BY <4>5, <4>6
            <4>8. AllBits(s) \subseteq call[h].effect
                BY <2>1, <2>6 DEF UpdatesRight
            <4> QED
                BY <2>7, <3>2, <4>1, <4>2, <4>4, <4>7, <4>8 DEF UpdatesRight
        <3> QED
            BY <2>1, <3>1, <3>2
    <2>11. \A g \in Harts \ {h} : InCall(g)' => CallRight(g)' /\ UpdatesRight(g)'
        BY <1>1, <2>1, <2>2, <2>4 DEF InCall
    <2> QED
        BY <2>5, <2>9, <2>10, <2>11 DEF CallsRight
<1>5. CASE Release(h)
    <2>1. /\ pc[h] = "release" /\ lock' = 0 /\ pc'[h] = call[h].then
          /\ \A g \in Harts \ {h} : pc'[g] = pc[g]
          /\ UNCHANGED <<msip, want, call, loaded, targets>>
        BY <1>5 DEF Release, Goto, PcOK
    <2>2. \A g \in Harts \ {h} : pc[g] \notin Critical
        BY <2>1 DEF LockRight, Critical
    <2>3. pc'[h] \notin Critical \cup {"acquire"}
        BY <2>1, CallTarget DEF InCall, Critical
    <2>4. LockRight'
        BY <2>1, <2>2, <2>3 DEF LockRight
    <2>5. InterruptsKept'
        BY <2>1 DEF InterruptsKept, CallsRight, UpdatesRight, InCall, Critical
    <2>6. \A g \in Harts \ {h} : InCall(g)' => CallRight(g)' /\ UpdatesRight(g)'
        BY <1>1, <2>1 DEF InCall
    <2> QED
        BY <2>3, <2>4, <2>5, <2>6 DEF CallsRight, InCall
<1> QED
    BY <1>2, <1>3, <1>4, <1>5 DEF Shared

\* So do all other steps.
LEMMA NextCallsRight ==
    IInv /\ [Next]_vars => LockRight' /\ InterruptsKept' /\ CallsRight'
<1> SUFFICES ASSUME IInv, [Next]_vars PROVE LockRight' /\ InterruptsKept' /\ CallsRight'
    OBVIOUS
<1>0. PcOK /\ CallOK /\ LockRight /\ InterruptsKept /\ CallsRight
    BY DEF IInv, TypeOK
<1> USE <1>0, HartNumbers
<1>1. ASSUME NEW h \in Harts, Shared(h) PROVE LockRight' /\ InterruptsKept' /\ CallsRight'
    BY <1>1, SharedCallsRight
<1>2. ASSUME NEW h \in Snitches, Woken(h) PROVE LockRight' /\ InterruptsKept' /\ CallsRight'
    <2>1. /\ Begin(h, "parked", "clear", One(h), {h}, "elect")
          /\ UNCHANGED <<lock, msip, want, loaded, targets>>
        BY <1>2 DEF Woken, ClearOne
    <2>2. /\ pc'[h] = "acquire"
          /\ call'[h] = [op |-> "clear", updates |-> One(h), then |-> "elect", effect |-> {h}]
          /\ \A g \in Harts \ {h} : pc'[g] = pc[g] /\ call'[g] = call[g]
        BY <2>1, BeginEffect
    <2>3. CallRight(h)' /\ UpdatesRight(h)'
        BY <2>2, BitsOfOne DEF CallRight, UpdatesRight
    <2> QED
        BY <2>1, <2>2, <2>3, BeginCalls
<1>3. ASSUME NEW h \in Snitches, ReturnToHost(h)
      PROVE  LockRight' /\ InterruptsKept' /\ CallsRight'
    <2>1. /\ Begin(h, "return", "set", One(0), {0}, "parked")
          /\ UNCHANGED <<lock, msip, want, loaded, targets>>
        BY <1>3 DEF ReturnToHost, SetOne
    <2>2. /\ pc'[h] = "acquire"
          /\ call'[h] = [op |-> "set", updates |-> One(0), then |-> "parked", effect |-> {0}]
          /\ \A g \in Harts \ {h} : pc'[g] = pc[g] /\ call'[g] = call[g]
        BY <2>1, BeginEffect
    <2>3. CallRight(h)' /\ UpdatesRight(h)'
        BY <2>2, BitsOfOne DEF CallRight, UpdatesRight
    <2> QED
        BY <2>1, <2>2, <2>3, BeginCalls
<1>4. ASSUME NEW s \in Seq(Updates), NEW T \in SUBSET Harts, targets' = T,
             Begin(0, "start", "set", s, T, "woken"), UNCHANGED <<lock, msip, want, loaded>>,
             s # << >>, AllBits(s) = T,
             \A i \in 1 .. Len(s) : s[i].plain => s[i].mask = 0 .. FIELDS - 1
      PROVE  LockRight' /\ InterruptsKept' /\ CallsRight'
    <2>1. /\ pc[0] = "start" /\ pc'[0] = "acquire"
          /\ call'[0] = [op |-> "set", updates |-> s, then |-> "woken", effect |-> T]
          /\ \A g \in Harts \ {0} : pc'[g] = pc[g] /\ call'[g] = call[g]
        BY <1>4, BeginEffect
    <2>2. CallRight(0)' /\ UpdatesRight(0)'
        BY <1>4, <2>1 DEF CallRight, UpdatesRight
    <2> QED
        BY <1>4, <2>1, <2>2, BeginCalls
<1>5. ASSUME NEW sel \in WakeUps, WakeUp(sel)
      PROVE  LockRight' /\ InterruptsKept' /\ CallsRight'
    <2> DEFINE s == StridedUpdates(sel[1], sel[2], sel[3])
               T == Selected(sel[1], sel[2], sel[3])
    <2>1. /\ s \in Seq(Updates) /\ s # << >> /\ AllBits(s) = T /\ T \in SUBSET Harts
          /\ \A i \in 1 .. Len(s) : s[i].plain => s[i].mask = 0 .. FIELDS - 1
        BY WakeUpTypes, StridedUpdatesRight
    <2>2. /\ Begin(0, "start", "set", s, T, "woken") /\ targets' = T
          /\ UNCHANGED <<lock, msip, want, loaded>>
        BY <1>5 DEF WakeUp
    <2> HIDE DEF s, T
    <2> QED
        BY <1>4, <2>1, <2>2
<1>6. ASSUME NEW g \in Snitches, WakeUpOne(g)
      PROVE  LockRight' /\ InterruptsKept' /\ CallsRight'
    <2>1. /\ One(g) \in Seq(Updates) /\ One(g) # << >> /\ AllBits(One(g)) = {g}
          /\ {g} \in SUBSET Harts
          /\ \A i \in 1 .. Len(One(g)) : One(g)[i].plain => One(g)[i].mask = 0 .. FIELDS - 1
        BY BitsOfOne
    <2>2. /\ Begin(0, "start", "set", One(g), {g}, "woken") /\ targets' = {g}
          /\ UNCHANGED <<lock, msip, want, loaded>>
        BY <1>6 DEF WakeUpOne, SetOne
    <2> QED
        BY <1>4, <2>1, <2>2
<1>7. ASSUME ClearDone PROVE LockRight' /\ InterruptsKept' /\ CallsRight'
    <2>1. /\ Begin(0, "done", "clear", One(0), {0}, "start")
          /\ UNCHANGED <<lock, msip, want, loaded, targets>>
        BY <1>7 DEF ClearDone, ClearOne
    <2>2. /\ pc'[0] = "acquire"
          /\ call'[0] = [op |-> "clear", updates |-> One(0), then |-> "start", effect |-> {0}]
          /\ \A g \in Harts \ {0} : pc'[g] = pc[g] /\ call'[g] = call[g]
        BY <2>1, BeginEffect
    <2>3. CallRight(0)' /\ UpdatesRight(0)'
        BY <2>2, BitsOfOne DEF CallRight, UpdatesRight
    <2> QED
        BY <2>1, <2>2, <2>3, BeginCalls
<1>8. ASSUME NEW h \in Snitches, Elect(h) \/ ResetMutex(h)
      PROVE  LockRight' /\ InterruptsKept' /\ CallsRight'
    <2>1. \A g \in Harts : pc'[g] \in Critical \cup {"acquire"} => pc'[g] = pc[g]
        BY <1>8 DEF Elect, ResetMutex, Goto, PcOK, Critical
    <2> QED
        BY <1>8, <2>1, QuietCalls DEF Elect, ResetMutex
<1>9. ASSUME \/ \E i \in Intervals : ReadTime(i)
             \/ ProgramTimer \/ EnableTimer \/ NoWait \/ Wfi \/ TestTimer \/ DisableTimer
             \/ ClearTimer \/ TestDone
      PROVE  LockRight' /\ InterruptsKept' /\ CallsRight'
    <2>1. \A g \in Harts : pc'[g] \in Critical \cup {"acquire"} => pc'[g] = pc[g]
        BY <1>9 DEF ReadTime, ProgramTimer, EnableTimer, NoWait, Wfi, TestTimer, DisableTimer,
            ClearTimer, TestDone, Goto, PcOK, Critical
    <2>2. UNCHANGED <<lock, msip, want, call, loaded, targets>>
        BY <1>9 DEF ReadTime, ProgramTimer, EnableTimer, NoWait, Wfi, TestTimer, DisableTimer,
            ClearTimer, TestDone
    <2> QED
        BY <2>1, <2>2, QuietCalls
<1>10. CASE Tick \/ UNCHANGED vars
    BY <1>10, QuietCalls DEF Tick, vars
<1> QED
    BY <1>1, <1>2, <1>3, <1>5, <1>6, <1>7, <1>8, <1>9, <1>10 DEF Next, Host, Snitch

\* A Snitch hart that has nothing to do with the round is parked.
LEMMA ParkedOtherwise ==
    ASSUME IInv, NEW h \in Snitches, h \notin Pending, h \notin Directors
    PROVE  pc[h] = "parked"
<1>1. pc[h] \in SnitchLocations
    BY HartNumbers DEF IInv, TypeOK, PcOK, Locations
<1>2. InCall(h) => call[h].then \in {"elect", "parked"}
    BY HartNumbers, CallTarget
<1> QED
    BY <1>1, <1>2 DEF Pending, Directors, SnitchLocations, InCall

\* A step that changes nothing the phases speak of but the place of the hart
\* that returns to the host.
LEMMA SamePhase ==
    ASSUME Phases, Pending' = Pending, Directors' = Directors,
           HostIdle' <=> HostIdle, HostWaking' <=> HostWaking, mutex' = mutex,
           targets' = targets, 0 \in msip' <=> 0 \in msip,
           \A d \in Directors :
               pc'[d] = pc[d] \/ {pc[d], pc'[d]} \subseteq {"return", "acquire", "load", "store"}
    PROVE  Phases'
<1>1. CASE Idle
    BY <1>1 DEF Idle, Phases
<1>2. CASE Working
    BY <1>2 DEF Working, Phases
<1>3. CASE Elected
    BY <1>3 DEF Elected, Phases
<1>4. CASE Returning
    BY <1>4 DEF Returning, Phases
<1>5. CASE Done
    BY <1>5 DEF Done, Phases
<1> QED
    BY <1>1, <1>2, <1>3, <1>4, <1>5 DEF Phases

\* A step of the host outside its calls to the CLINT functions.
LEMMA HostLocal ==
    ASSUME IInv, UNCHANGED <<msip, call, mutex, targets>>,
           \A g \in Snitches : pc'[g] = pc[g],
           \/ pc'[0] = pc[0]
           \/ {pc[0], pc'[0]} \subseteq HostLocations \ (Critical \cup {"start", "acquire"}),
           pc'[0] = "done" => 0 \in msip
    PROVE  RoundRight'
<1>0. RoundRight
    BY DEF IInv
<1>1. (HostIdle' <=> HostIdle) /\ (HostWaking' <=> HostWaking)
    BY DEF HostIdle, HostWaking, Critical
<1>2. Pending' = Pending /\ Directors' = Directors
    BY <1>1 DEF Pending, Directors, InCall
<1>3. Phases'
    BY <1>0, <1>1, <1>2, SamePhase DEF RoundRight, Directors
<1>4. InterruptStays'
    BY <1>0 DEF RoundRight, InterruptStays, InCall
<1>5. TargetsParked'
    <2>1. HostWaking => pc'[0] = pc[0]
        BY DEF HostWaking, Critical
    <2> QED
        BY <1>0, <1>1, <1>2, <2>1 DEF RoundRight, TargetsParked
<1>6. HostCalled'
    BY <1>0 DEF RoundRight, HostCalled, Critical
<1> QED
    BY <1>3, <1>4, <1>5, <1>6 DEF RoundRight

\* A Snitch hart in the CLINT functions.
LEMMA SnitchSharedRound ==
    ASSUME IInv, NEW h \in Snitches, Shared(h)
    PROVE  RoundRight'
<1>0. /\ PcOK /\ CallOK /\ LockRight /\ CallsRight /\ Phases
      /\ InterruptStays /\ TargetsParked /\ HostCalled
    BY DEF IInv, TypeOK, RoundRight
<1>h. h \in Harts /\ h # 0 /\ 0 \in Harts
    BY HartNumbers
<1> USE <1>0, <1>h
<1>1. CASE Acquire(h) \/ Load(h)
    <2>1. /\ \/ pc[h] = "acquire" /\ pc'[h] = "load" /\ lock = 0
             \/ pc[h] = "load" /\ pc'[h] = "store"
          /\ \A g \in Harts \ {h} : pc'[g] = pc[g]
          /\ UNCHANGED <<msip, call, mutex, targets>>
        BY <1>1 DEF Acquire, Load, Goto, PcOK
    <2>2. ~HostWaking
        <3>1. ASSUME HostWaking PROVE FALSE
            <4>1. pc[h] = "acquire" /\ pc[0] # "acquire"
                BY <2>1, <3>1 DEF TargetsParked
            <4>2. pc[0] \in Critical
                BY <3>1, <4>1 DEF HostWaking, Critical
            <4> QED
                BY <2>1, <4>1, <4>2 DEF LockRight
        <3> QED
            BY <3>1
    <2>3. (HostIdle' <=> HostIdle) /\ ~HostWaking'
        BY <2>1, <2>2 DEF HostIdle, HostWaking
    <2>4. InCall(h) /\ InCall(h)' /\ \A g \in Harts \ {h} : InCall(g)' <=> InCall(g)
        BY <2>1 DEF InCall, Critical
    <2>5. Pending' = Pending /\ Directors' = Directors
        BY <2>1, <2>2, <2>3, <2>4, HartNumbers DEF Pending, Directors
    <2>6. Phases'
        BY <2>1, <2>2, <2>3, <2>5, SamePhase, HartNumbers DEF Directors
    <2>7. InterruptStays'
        BY <2>1, <2>4, HartNumbers DEF InterruptStays
    <2>8. TargetsParked' /\ HostCalled'
        BY <2>1, <2>3 DEF TargetsParked, HostCalled
    <2> QED
        BY <2>6, <2>7, <2>8 DEF RoundRight
<1>2. CASE Store(h)
    <2>1. /\ pc[h] = "store" /\ call'[h] = [call[h] EXCEPT !.updates = Tail(@)]
          /\ \A g \in Harts \ {h} : call'[g] = call[g] /\ pc'[g] = pc[g]
        BY <1>2, StoreEffect
    <2>2. UNCHANGED <<mutex, targets>>
        BY <1>2 DEF Store
    <2>3. call'[h].then = call[h].then
        <3>1. call[h] \in CallTypes
            BY DEF CallOK
        <3> QED
            BY <2>1, <3>1 DEF CallTypes
    <2>4. InCall(h) /\ CallRight(h)
        BY <2>1 DEF InCall, Critical, CallsRight
    <2>5. pc'[h] = "release" /\ InCall(h)'
        <3>1. call[h].updates = One(h) \/ call[h].updates = One(0)
            BY <2>1, <2>4 DEF CallRight
        <3>2. pc'[h] = "release"
            BY <1>2, <3>1, StoreEffect
        <3> QED
            BY <3>2 DEF InCall, Critical
    <2>6. ~HostWaking /\ ~HostWaking' /\ (HostIdle' <=> HostIdle)
        <3>1. ~HostWaking
            BY <2>1 DEF TargetsParked
        <3> QED
            BY <2>1, <3>1 DEF HostWaking, HostIdle
    <2>7. \A g \in Harts : InCall(g)' <=> InCall(g)
        BY <2>1, <2>4, <2>5 DEF InCall
    <2>8. CASE call[h].then = "elect"
        <3>1. msip' = msip \ {h}
            BY <1>2, <2>4, <2>8, StoreEffect DEF CallRight
        <3>2. Pending' = Pending
            <4>1. \A g \in Snitches \ {h} : g \in Pending' <=> g \in Pending
                BY <2>1, <2>6, <2>7, <3>1, HartNumbers DEF Pending
            <4>2. h \in Pending /\ h \in Pending'
                BY <2>3, <2>4, <2>5, <2>8 DEF Pending
            <4> QED
                BY <4>1, <4>2 DEF Pending
        <3>3. Directors' = Directors /\ h \notin Directors
            BY <2>1, <2>3, <2>5, <2>7, <2>8, HartNumbers DEF Directors
        <3>4. Phases'
            BY <2>1, <2>2, <2>6, <3>1, <3>2, <3>3, SamePhase, HartNumbers DEF Directors
        <3>5. InterruptStays'
            BY <2>1, <2>7, <3>1, HartNumbers DEF InterruptStays
        <3>6. TargetsParked' /\ HostCalled'
            BY <2>1, <2>6, <3>1 DEF TargetsParked, HostCalled
        <3> QED
            BY <3>4, <3>5, <3>6 DEF RoundRight
    <2>9. CASE call[h].then = "parked"
        <3>1. msip' = msip \cup {0}
            BY <1>2, <2>4, <2>5, <2>9, StoreEffect DEF CallRight
        <3>2. h \in Directors
            BY <2>4, <2>9 DEF Directors
        <3>3. /\ ~HostIdle /\ Pending = {} /\ mutex = 0 /\ Directors = {h}
            BY <2>1, <3>2 DEF Phases, Idle, Working, Elected, Returning, Done
        <3>4. Pending' = Pending
            BY <2>1, <2>3, <2>6, <2>7, <2>5, <3>1, HartNumbers DEF Pending
        <3>5. Directors' = Directors
            BY <2>1, <2>3, <2>5, <2>7, <2>9, HartNumbers DEF Directors
        <3>6. Done'
            BY <2>2, <2>5, <2>6, <3>1, <3>3, <3>4, <3>5 DEF Done
        <3>7. InterruptStays'
            <4>1. h \notin msip
                BY <2>1, <3>3 DEF Pending
            <4> QED
                BY <2>1, <2>7, <3>1, <4>1, HartNumbers DEF InterruptStays
        <3>8. TargetsParked' /\ HostCalled'
            BY <2>6, <3>1 DEF TargetsParked, HostCalled
        <3> QED
            BY <3>6, <3>7, <3>8 DEF RoundRight, Phases
    <2> QED
        BY <2>4, <2>8, <2>9, CallTarget
<1>3. CASE Release(h)
    <2>1. /\ pc[h] = "release" /\ pc'[h] = call[h].then
          /\ \A g \in Harts \ {h} : pc'[g] = pc[g]
          /\ UNCHANGED <<msip, call, mutex, targets>>
        BY <1>3 DEF Release, Goto, PcOK
    <2>2. InCall(h) /\ call[h].then \in {"elect", "parked"}
        BY <2>1, CallTarget DEF InCall, Critical
    <2>3. ~HostWaking /\ ~HostWaking' /\ (HostIdle' <=> HostIdle)
        <3>1. ~HostWaking
            BY <2>1 DEF TargetsParked
        <3> QED
            BY <2>1, <3>1 DEF HostWaking, HostIdle
    <2>4. ~InCall(h)' /\ \A g \in Harts \ {h} : InCall(g)' <=> InCall(g)
        BY <2>1, <2>2 DEF InCall, Critical
    <2>5. h \notin msip
        BY <2>1 DEF InterruptStays
    <2>6. InterruptStays'
        BY <2>1, <2>4, <2>5, HartNumbers DEF InterruptStays
    <2>7. TargetsParked' /\ HostCalled'
        BY <2>1, <2>3 DEF TargetsParked, HostCalled
    <2>8. CASE call[h].then = "elect"
        <3>1. Pending' = Pending
            BY <2>1, <2>2, <2>3, <2>4, <2>8, HartNumbers DEF Pending
        <3>2. Directors' = Directors /\ h \notin Directors
            BY <2>1, <2>2, <2>4, <2>8, HartNumbers DEF Directors
        <3>3. Phases'
            BY <2>1, <2>3, <3>1, <3>2, SamePhase, HartNumbers DEF Directors
        <3> QED
            BY <2>6, <2>7, <3>3 DEF RoundRight
    <2>9. CASE call[h].then = "parked"
        <3>1. h \in Directors
            BY <2>2, <2>9 DEF Directors
        <3>2. Done
            BY <2>1, <3>1 DEF Phases, Idle, Working, Elected, Returning
        <3>3. Pending' = Pending
            BY <2>1, <2>2, <2>3, <2>4, <2>5, <2>9, HartNumbers DEF Pending
        <3>4. Directors' \subseteq Directors \ {h}
            BY <2>1, <2>4, <2>9, HartNumbers DEF Directors
        <3>5. Done'
            BY <2>1, <2>3, <3>2, <3>3, <3>4, HartNumbers DEF Done, Directors
        <3> QED
            BY <2>6, <2>7, <3>5 DEF RoundRight, Phases
    <2> QED
        BY <2>2, <2>8, <2>9
<1> QED
    BY <1>1, <1>2, <1>3 DEF Shared

\* The host in the CLINT functions.
LEMMA HostSharedRound == ASSUME IInv, Shared(0) PROVE RoundRight'
<1>0. /\ PcOK /\ CallOK /\ WordsOK /\ LockRight /\ CallsRight /\ Phases
      /\ InterruptStays /\ TargetsParked /\ HostCalled
    BY DEF IInv, TypeOK, RoundRight
<1> USE <1>0, HartNumbers
<1>1. CASE Acquire(0) \/ Load(0)
    <2>1. /\ pc[0] \in {"acquire", "load"} /\ pc'[0] \in {"load", "store"}
          /\ \A g \in Snitches : pc'[g] = pc[g]
          /\ UNCHANGED <<msip, call, mutex, targets>>
        BY <1>1 DEF Acquire, Load, Goto, PcOK
    <2>2. (HostIdle' <=> HostIdle) /\ (HostWaking' <=> HostWaking)
        BY <2>1 DEF HostIdle, HostWaking
    <2>3. Pending' = Pending /\ Directors' = Directors
        BY <2>1, <2>2 DEF Pending, Directors, InCall
    <2>4. Phases'
        BY <2>1, <2>2, <2>3, SamePhase DEF Directors
    <2>5. InterruptStays' /\ HostCalled'
        BY <2>1 DEF InterruptStays, InCall, HostCalled
    <2>6. TargetsParked'
        BY <2>1, <2>2, <2>3 DEF TargetsParked
    <2> QED
        BY <2>4, <2>5, <2>6 DEF RoundRight
<1>2. CASE Store(0)
    <2>1. /\ pc[0] = "store" /\ call'[0] = [call[0] EXCEPT !.updates = Tail(@)]
          /\ pc'[0] \in {"load", "release"}
          /\ \A g \in Snitches : call'[g] = call[g] /\ pc'[g] = pc[g]
        BY <1>2, StoreEffect
    <2>2. UNCHANGED <<mutex, targets>>
        BY <1>2 DEF Store
    <2>3. call'[0].then = call[0].then
        <3>1. call[0] \in CallTypes
            BY DEF CallOK
        <3> QED
            BY <2>1, <3>1 DEF CallTypes
    <2>4. InCall(0) /\ CallRight(0)
        BY <2>1 DEF InCall, Critical, CallsRight
    <2>5. \A g \in Snitches : InCall(g)' <=> InCall(g)
        BY <2>1 DEF InCall
    <2>6. Directors' = Directors
        BY <2>1, <2>5 DEF Directors
    <2>7. CASE call[0].then = "woken"
        <3>1. HostWaking /\ ~HostIdle /\ ~HostIdle' /\ (HostWaking' <=> pc'[0] = "load")
            BY <2>1, <2>3, <2>7 DEF HostWaking, HostIdle
        <3>2. /\ mutex = 0 /\ Pending = targets
              /\ \A h \in Snitches :
                    pc[h] = "parked" \/ (pc[h] = "acquire" /\ call[h].then = "elect")
            BY <3>1 DEF TargetsParked
        <3>3. call[0].op = "set" /\ call[0].effect = targets /\ targets \subseteq Snitches
            BY <2>4, <2>7 DEF CallRight, WordsOK
        <3>4. /\ msip \subseteq msip' /\ msip' \subseteq msip \cup targets
              /\ pc'[0] = "release" => msip' = msip \cup targets
            BY <1>2, <3>3, StoreEffect
        <3>5. Pending' = targets
            <4>1. \A h \in Snitches : h \in Pending <=> h \in targets
                BY <3>2
            <4>2. \A h \in Snitches \ targets : h \notin Pending'
                BY <2>1, <2>2, <2>5, <3>4, <4>1 DEF Pending
            <4>3. CASE pc'[0] = "load"
                BY <2>2, <3>1, <3>3, <4>2, <4>3 DEF Pending
            <4>4. CASE pc'[0] = "release"
                BY <3>3, <3>4, <4>2, <4>4 DEF Pending
            <4> QED
                BY <2>1, <4>3, <4>4
        <3>6. 0 \in msip' <=> 0 \in msip
            BY <3>3, <3>4
        <3>7. Working
            BY <3>1 DEF Phases, Idle, Elected, Returning, Done
        <3>8. Working'
            BY <2>2, <2>6, <3>1, <3>2, <3>5, <3>6, <3>7 DEF Working
        <3>9. InterruptStays'
            <4>1. \A h \in Snitches : pc[h] = "parked" \/ (InCall(h) /\ call[h].then = "elect")
                BY <3>2 DEF InCall
            <4> QED
                BY <2>1, <2>5, <3>2, <4>1 DEF InterruptStays
        <3>10. TargetsParked'
            <4>1. pc'[0] # "acquire"
                BY <2>1
            <4> QED
                BY <2>1, <2>2, <3>2, <3>5, <4>1 DEF TargetsParked
        <3>11. HostCalled'
            BY <2>1, <2>3, <2>7 DEF HostCalled
        <3> QED
            BY <3>8, <3>9, <3>10, <3>11 DEF RoundRight, Phases
    <2>8. CASE call[0].then = "start"
        <3>1. msip' = msip \ {0} /\ pc'[0] = "release"
            BY <1>2, <2>4, <2>8, StoreEffect DEF CallRight
        <3>2. 0 \in msip
            BY <2>1, <2>8 DEF HostCalled
        <3>3. Done
            BY <3>2 DEF Phases, Idle, Working, Elected, Returning
        <3>4. Directors = {}
            <4>1. \A g \in Snitches : pc[g] # "release"
                BY <2>1 DEF LockRight, Critical
            <4> QED
                BY <3>3, <4>1 DEF Done, Directors
        <3>5. HostIdle' /\ ~HostWaking' /\ ~HostWaking
            BY <2>3, <2>8, <3>1 DEF HostIdle, HostWaking
        <3>6. Pending' = {}
            <4>1. \A h \in Snitches : h \notin Pending
                BY <3>3 DEF Done
            <4> QED
                BY <2>1, <2>5, <3>1, <3>5, <4>1 DEF Pending
        <3>7. Idle'
            BY <2>2, <2>6, <3>1, <3>3, <3>4, <3>5, <3>6 DEF Idle, Done
        <3>8. InterruptStays'
            BY <2>1, <2>5, <3>1 DEF InterruptStays
        <3>9. TargetsParked' /\ HostCalled'
            BY <3>1, <3>5 DEF TargetsParked, HostCalled
        <3> QED
            BY <3>7, <3>8, <3>9 DEF RoundRight, Phases
    <2> QED
        BY <2>4, <2>7, <2>8, CallTarget
<1>3. CASE Release(0)
    <2>1. /\ pc[0] = "release" /\ pc'[0] = call[0].then
          /\ \A g \in Snitches : pc'[g] = pc[g]
          /\ UNCHANGED <<msip, call, mutex, targets>>
        BY <1>3 DEF Release, Goto, PcOK
    <2>2. call[0].then \in {"woken", "start"}
        BY <2>1, CallTarget DEF InCall, Critical
    <2>3. (HostIdle' <=> HostIdle) /\ ~HostWaking /\ ~HostWaking'
        BY <2>1, <2>2 DEF HostIdle, HostWaking
    <2>4. Pending' = Pending /\ Directors' = Directors
        BY <2>1, <2>3 DEF Pending, Directors, InCall
    <2>5. Phases'
        BY <2>1, <2>3, <2>4, SamePhase DEF Directors
    <2>6. InterruptStays' /\ HostCalled' /\ TargetsParked'
        BY <2>1, <2>2, <2>3 DEF InterruptStays, InCall, HostCalled, TargetsParked
    <2> QED
        BY <2>5, <2>6 DEF RoundRight
<1> QED
    BY <1>1, <1>2, <1>3 DEF Shared

\* The host wakes the harts T: nothing was pending, and now they are.
LEMMA BeginRound ==
    ASSUME IInv, NEW s, NEW T \in SUBSET Snitches,
           Begin(0, "start", "set", s, T, "woken"), targets' = T, UNCHANGED <<msip, mutex>>
    PROVE  RoundRight'
<1>0. PcOK /\ CallOK /\ WordsOK /\ Phases /\ InterruptStays
    BY DEF IInv, TypeOK, RoundRight
<1> USE <1>0, HartNumbers
<1>1. /\ pc[0] = "start" /\ pc'[0] = "acquire"
      /\ call'[0].then = "woken"
      /\ \A g \in Snitches : pc'[g] = pc[g] /\ call'[g] = call[g]
    <2>1. /\ pc[0] = "start" /\ pc'[0] = "acquire"
          /\ call'[0] = [op |-> "set", updates |-> s, then |-> "woken", effect |-> T]
          /\ \A g \in Harts \ {0} : pc'[g] = pc[g] /\ call'[g] = call[g]
        BY BeginEffect
    <2> QED
        BY <2>1
<1>2. Idle
    BY <1>1 DEF Phases, Idle, Working, Elected, Returning, Done, HostIdle
<1>3. HostWaking' /\ ~HostIdle'
    BY <1>1 DEF HostWaking, HostIdle
<1>4. \A g \in Snitches : pc[g] = "parked" /\ g \notin msip
    BY <1>2, ParkedOtherwise DEF Idle, Pending
<1>5. Directors' = {}
    BY <1>1, <1>4 DEF Directors, InCall, Critical
<1>6. Pending' = T
    BY <1>1, <1>3, <1>4 DEF Pending, InCall, Critical
<1>7. IsFiniteSet(T) /\ Cardinality(T) \in Nat
    <2>1. IsFiniteSet(Snitches)
        BY FS_Interval DEF Snitches
    <2> QED
        BY <2>1, FS_Subset, FS_CardinalityType
<1>8. Working'
    BY <1>2, <1>3, <1>5, <1>6, <1>7 DEF Working, Idle
<1>9. InterruptStays' /\ HostCalled'
    BY <1>1, <1>4 DEF InterruptStays, HostCalled
<1>10. TargetsParked'
    BY <1>1, <1>2, <1>4, <1>6 DEF TargetsParked, Idle
<1> QED
    BY <1>8, <1>9, <1>10 DEF RoundRight, Phases

\* elect_director: the counter counts the harts that have passed it.
LEMMA ElectRound == ASSUME IInv, NEW h \in Snitches, Elect(h) PROVE RoundRight'
<1>0. /\ PcOK /\ CallOK /\ WordsOK /\ Phases /\ InterruptStays /\ TargetsParked /\ HostCalled
    BY DEF IInv, TypeOK, RoundRight
<1> USE <1>0, HartNumbers
<1>1. /\ pc[h] = "elect" /\ mutex' = mutex + 1
      /\ pc'[h] = IF mutex = Cardinality(targets) - 1 THEN "elected" ELSE "parked"
      /\ \A g \in Harts \ {h} : pc'[g] = pc[g]
      /\ UNCHANGED <<msip, call, targets>>
    BY DEF Elect, Goto, PcOK
<1>2. h \in Pending /\ h \notin msip
    BY <1>1 DEF Pending, InterruptStays
<1>3. ~HostWaking /\ ~HostWaking' /\ (HostIdle' <=> HostIdle)
    <2>1. ~HostWaking
        BY <1>1 DEF TargetsParked
    <2> QED
        BY <1>1, <2>1 DEF HostWaking, HostIdle
<1>4. Working
    BY <1>2 DEF Phases, Idle, Elected, Returning, Done
<1>5. ~InCall(h)' /\ \A g \in Snitches \ {h} : InCall(g)' <=> InCall(g)
    BY <1>1 DEF InCall, Critical
<1>6. Pending' = Pending \ {h}
    BY <1>1, <1>2, <1>3, <1>5 DEF Pending
<1>7. IsFiniteSet(Pending) /\ Cardinality(Pending) \in Nat
      /\ IsFiniteSet(targets) /\ Cardinality(targets) \in Nat
    <2>1. IsFiniteSet(Snitches) /\ Pending \subseteq Snitches /\ targets \subseteq Snitches
        BY FS_Interval DEF Snitches, Pending, WordsOK
    <2> QED
        BY <2>1, FS_Subset, FS_CardinalityType
<1>8. Cardinality(Pending') = Cardinality(Pending) - 1 /\ Cardinality(Pending) >= 1
    <2>1. Cardinality(Pending \ {h}) = Cardinality(Pending) - 1
        BY <1>2, <1>7, FS_RemoveElement
    <2>2. IsFiniteSet(Pending \ {h})
        BY <1>7, FS_Subset
    <2>3. Cardinality(Pending \ {h}) \in Nat
        BY <2>2, FS_CardinalityType
    <2> QED
        BY <1>6, <1>7, <2>1, <2>3
<1>9. InterruptStays' /\ HostCalled' /\ TargetsParked'
    <2>1. InterruptStays'
        BY <1>1, <1>2, <1>5 DEF InterruptStays
    <2> QED
        BY <1>1, <1>3, <2>1 DEF HostCalled, TargetsParked
<1>10. CASE mutex = Cardinality(targets) - 1
    <2>1. Cardinality(Pending) = 1
        BY <1>4, <1>7, <1>10 DEF Working, WordsOK
    <2>2. Pending' = {}
        <3>1. IsFiniteSet(Pending') /\ Cardinality(Pending') = 0
            BY <1>6, <1>7, <1>8, <2>1, FS_Subset
        <3> QED
            BY <3>1, FS_EmptySet
    <2>3. Directors' = {h} /\ pc'[h] = "elected"
        BY <1>1, <1>4, <1>5, <1>10 DEF Working, Directors
    <2>4. Elected'
        BY <1>1, <1>3, <1>4, <2>2, <2>3 DEF Elected, Working
    <2> QED
        BY <1>9, <2>4 DEF RoundRight, Phases
<1>11. CASE mutex # Cardinality(targets) - 1
    <2>1. Directors' = {}
        BY <1>1, <1>4, <1>5, <1>11 DEF Working, Directors
    <2>2. mutex' + Cardinality(Pending') = Cardinality(targets')
        BY <1>1, <1>4, <1>7, <1>8 DEF Working, WordsOK
    <2>3. Working'
        BY <1>1, <1>3, <1>4, <2>1, <2>2 DEF Working
    <2> QED
        BY <1>9, <2>3 DEF RoundRight, Phases
<1> QED
    BY <1>10, <1>11

\* Every step keeps the round in one of its phases.
LEMMA NextRoundRight == IInv /\ [Next]_vars => RoundRight'
<1> SUFFICES ASSUME IInv, [Next]_vars PROVE RoundRight'
    OBVIOUS
<1>0. /\ PcOK /\ CallOK /\ WordsOK /\ Phases /\ InterruptStays /\ TargetsParked /\ HostCalled
    BY DEF IInv, TypeOK, RoundRight
<1> USE <1>0, HartNumbers
<1>1. ASSUME NEW h \in Snitches, Woken(h) PROVE RoundRight'
    <2>1. /\ Begin(h, "parked", "clear", One(h), {h}, "elect") /\ h \in msip
          /\ UNCHANGED <<msip, mutex, targets>>
        BY <1>1 DEF Woken, ClearOne
    <2>2. /\ pc[h] = "parked" /\ pc'[h] = "acquire"
          /\ call'[h] = [op |-> "clear", updates |-> One(h), then |-> "elect", effect |-> {h}]
          /\ \A g \in Harts \ {h} : pc'[g] = pc[g] /\ call'[g] = call[g]
        BY <2>1, BeginEffect
    <2>3. call'[h].then = "elect" /\ InCall(h)' /\ ~InCall(h)
          /\ \A g \in Harts \ {h} : InCall(g)' <=> InCall(g)
        BY <2>2 DEF InCall, Critical
    <2>4. (HostIdle' <=> HostIdle) /\ (HostWaking' <=> HostWaking)
        BY <2>2 DEF HostIdle, HostWaking
    <2>5. Pending' = Pending /\ Directors' = Directors /\ h \notin Directors
        BY <2>1, <2>2, <2>3, <2>4 DEF Pending, Directors
    <2>6. Phases'
        BY <2>1, <2>2, <2>4, <2>5, SamePhase DEF Directors
    <2>7. InterruptStays'
        BY <2>1, <2>2, <2>3 DEF InterruptStays
    <2>8. TargetsParked' /\ HostCalled'
        BY <2>1, <2>2, <2>3, <2>4, <2>5 DEF TargetsParked, HostCalled
    <2> QED
        BY <2>6, <2>7, <2>8 DEF RoundRight
<1>2. ASSUME NEW h \in Snitches, ResetMutex(h) PROVE RoundRight'
    <2>1. /\ pc[h] = "elected" /\ pc'[h] = "return" /\ mutex' = 0
          /\ \A g \in Harts \ {h} : pc'[g] = pc[g]
          /\ UNCHANGED <<msip, call, targets>>
        BY <1>2 DEF ResetMutex, Goto, PcOK
    <2>2. h \in Directors
        BY <2>1 DEF Directors
    <2>3. Elected /\ Directors = {h}
        BY <2>1, <2>2 DEF Phases, Idle, Working, Elected, Returning, Done
    <2>4. \A g \in Harts : InCall(g)' <=> InCall(g)
        BY <2>1 DEF InCall, Critical
    <2>5. (HostIdle' <=> HostIdle) /\ (HostWaking' <=> HostWaking)
        BY <2>1 DEF HostIdle, HostWaking
    <2>6. Pending' = Pending /\ Directors' = Directors
        BY <2>1, <2>4, <2>5 DEF Pending, Directors
    <2>7. Returning'
        BY <2>1, <2>3, <2>5, <2>6 DEF Returning, Elected
    <2>8. InterruptStays'
        BY <2>1, <2>4 DEF InterruptStays
    <2>9. TargetsParked' /\ HostCalled'
        BY <2>1, <2>3, <2>5 DEF TargetsParked, HostCalled, Elected
    <2> QED
        BY <2>7, <2>8, <2>9 DEF RoundRight, Phases
<1>3. ASSUME NEW h \in Snitches, ReturnToHost(h) PROVE RoundRight'
    <2>1. /\ Begin(h, "return", "set", One(0), {0}, "parked")
          /\ UNCHANGED <<msip, mutex, targets>>
        BY <1>3 DEF ReturnToHost, SetOne
    <2>2. /\ pc[h] = "return" /\ pc'[h] = "acquire"
          /\ call'[h] = [op |-> "set", updates |-> One(0), then |-> "parked", effect |-> {0}]
          /\ \A g \in Harts \ {h} : pc'[g] = pc[g] /\ call'[g] = call[g]
        BY <2>1, BeginEffect
    <2>3. call'[h].then = "parked" /\ InCall(h)' /\ ~InCall(h)
          /\ \A g \in Harts \ {h} : InCall(g)' <=> InCall(g)
        BY <2>2 DEF InCall, Critical
    <2>4. (HostIdle' <=> HostIdle) /\ (HostWaking' <=> HostWaking)
        BY <2>2 DEF HostIdle, HostWaking
    <2>5. Pending' = Pending /\ Directors' = Directors
        BY <2>1, <2>2, <2>3, <2>4 DEF Pending, Directors
    <2>6. Phases'
        BY <2>1, <2>2, <2>4, <2>5, SamePhase DEF Directors
    <2>7. h \notin msip
        BY <2>2 DEF InterruptStays, InCall, Critical
    <2>8. InterruptStays'
        BY <2>1, <2>2, <2>3, <2>7 DEF InterruptStays
    <2>9. ~HostWaking
        BY <2>2 DEF TargetsParked
    <2>10. TargetsParked' /\ HostCalled'
        BY <2>1, <2>2, <2>4, <2>9 DEF TargetsParked, HostCalled
    <2> QED
        BY <2>6, <2>8, <2>10 DEF RoundRight
<1>4. ASSUME NEW sel \in WakeUps, WakeUp(sel) PROVE RoundRight'
    BY <1>4, WakeUpTypes, BeginRound DEF WakeUp
<1>5. ASSUME NEW g \in Snitches, WakeUpOne(g) PROVE RoundRight'
    BY <1>5, BeginRound DEF WakeUpOne, SetOne
<1>6. ASSUME ClearDone PROVE RoundRight'
    <2>1. /\ Begin(0, "done", "clear", One(0), {0}, "start")
          /\ UNCHANGED <<msip, mutex, targets>>
        BY <1>6 DEF ClearDone, ClearOne
    <2>2. /\ pc[0] = "done" /\ pc'[0] = "acquire"
          /\ call'[0] = [op |-> "clear", updates |-> One(0), then |-> "start", effect |-> {0}]
          /\ \A g \in Harts \ {0} : pc'[g] = pc[g] /\ call'[g] = call[g]
        BY <2>1, BeginEffect
    <2>3. call'[0].then = "start" /\ 0 \in msip
        BY <2>2 DEF HostCalled
    <2>4. ~HostIdle /\ ~HostIdle' /\ ~HostWaking /\ ~HostWaking'
        BY <2>2, <2>3 DEF HostIdle, HostWaking
    <2>5. Pending' = Pending /\ Directors' = Directors
        BY <2>1, <2>2, <2>4 DEF Pending, Directors, InCall
    <2>6. Phases'
        BY <2>1, <2>2, <2>4, <2>5, SamePhase DEF Directors
    <2>7. InterruptStays'
        BY <2>1, <2>2 DEF InterruptStays, InCall
    <2>8. TargetsParked' /\ HostCalled'
        BY <2>1, <2>3, <2>4 DEF TargetsParked, HostCalled
    <2> QED
        BY <2>6, <2>7, <2>8 DEF RoundRight
<1>7. ASSUME \/ \E i \in Intervals : ReadTime(i)
             \/ ProgramTimer \/ EnableTimer \/ NoWait \/ Wfi \/ TestTimer \/ DisableTimer
             \/ ClearTimer \/ TestDone
      PROVE  RoundRight'
    <2> DEFINE Local == {"woken", "program", "enable", "delay wfi", "delay test", "disable",
                         "clear timer", "done wfi", "done test", "done"}
    <2>1. /\ pc[0] \in Local /\ pc'[0] \in Local
          /\ pc'[0] = "done" => 0 \in msip
          /\ \A g \in Snitches : pc'[g] = pc[g]
        BY <1>7 DEF ReadTime, ProgramTimer, EnableTimer, NoWait, Wfi, TestTimer, DisableTimer,
            ClearTimer, TestDone, Goto, PcOK
    <2>2. UNCHANGED <<msip, call, mutex, targets>>
        BY <1>7 DEF ReadTime, ProgramTimer, EnableTimer, NoWait, Wfi, TestTimer, DisableTimer,
            ClearTimer, TestDone
    <2>3. Local \subseteq HostLocations \ (Critical \cup {"start", "acquire"})
        BY DEF HostLocations, Critical
    <2> QED
        BY <2>1, <2>2, <2>3, HostLocal
<1>8. CASE Tick \/ UNCHANGED vars
    BY <1>8, HostLocal DEF Tick, vars, HostCalled
<1> QED
    BY <1>1, <1>2, <1>3, <1>4, <1>5, <1>6, <1>7, <1>8, SnitchSharedRound, HostSharedRound,
        ElectRound DEF Next, Host, Snitch

\* Nobody has been woken yet.
LEMMA InitIInv == Init => IInv
<1> SUFFICES ASSUME Init PROVE IInv
    OBVIOUS
<1> USE HartNumbers DEF Init
<1>1. PcOK
    BY DEF PcOK, Locations, HostLocations, SnitchLocations
<1>2. NoCall \in CallTypes
    BY EmptySeq DEF NoCall, CallTypes
<1>3. TypeOK
    BY <1>1, <1>2 DEF TypeOK, CallOK, WordsOK, TimerTypes
<1>4. TimerRight
    BY DEF TimerRight, DelayKept
<1>5. LockRight /\ InterruptsKept /\ CallsRight
    BY DEF LockRight, InterruptsKept, CallsRight, InCall, Critical
<1>6. Pending = {} /\ Directors = {} /\ HostIdle /\ ~HostWaking
    BY DEF Pending, Directors, HostIdle, HostWaking, InCall, Critical
<1>7. RoundRight
    BY <1>6 DEF RoundRight, InterruptStays, TargetsParked, HostCalled, Phases, Idle
<1> QED
    BY <1>3, <1>4, <1>5, <1>7 DEF IInv

-----------------------------------------------------------------------------
\* The lock, the interrupts, the delay and the round stay consistent, however
\* the host and the harts interleave.
THEOREM Invariance == Spec => []IInv
<1>1. IInv /\ [Next]_vars => IInv'
    BY NextTypeOK, NextTimerRight, NextCallsRight, NextRoundRight DEF IInv
<1> QED
    BY <1>1, InitIInv, PTL DEF Spec

\* Every variable has its type: only harts are ever pending, and the counter
\* of elect_director is a number.
THEOREM TypeCorrect == Spec => []TypeOK
<1>1. IInv => TypeOK
    BY DEF IInv
<1> QED
    BY <1>1, Invariance, PTL

\* No software interrupt is lost or made up by the read-modify-write of the
\* CLINT registers, strided wake-ups included, for every layout of the
\* registers.
THEOREM NoInterruptLost == Spec => []InterruptsKept
<1>1. IInv => InterruptsKept
    BY DEF IInv
<1> QED
    BY <1>1, Invariance, PTL

\* delay_ns falls short of its nanoseconds by less than one RTC period, for
\* every period and every set of intervals.
THEOREM NoEarlyReturn == Spec => []DelayHonoured
<1>1. ASSUME IInv, pc[0] = "disable"
      PROVE  timer.interval < (timer.elapsed + 1) * RTC_PERIOD
    <2>1. timer.interval \in Nat /\ timer.elapsed \in Nat
        BY <1>1 DEF IInv, TypeOK, TimerTypes
    <2>2. Periods(timer.interval) <= timer.elapsed
        BY <1>1 DEF IInv, TimerRight, DelayKept
    <2>3. /\ Periods(timer.interval) \in Nat
          /\ timer.interval < (Periods(timer.interval) + 1) * RTC_PERIOD
        BY <2>1, PeriodsBelow
    <2>4. RTC_PERIOD \in Nat
        BY HostAssumption
    <2> DEFINE p == Periods(timer.interval)
               e == timer.elapsed
    <2>5. (p + 1) * RTC_PERIOD <= (e + 1) * RTC_PERIOD
        <3>1. p + 1 \in Nat /\ e + 1 \in Nat /\ p + 1 <= e + 1
            BY <2>1, <2>2, <2>3
        <3> HIDE DEF p, e
        <3> QED
            BY <2>4, <3>1, TimesMonotonic
    <2>6. (p + 1) * RTC_PERIOD \in Nat /\ (e + 1) * RTC_PERIOD \in Nat
        BY <2>1, <2>3, <2>4
    <2> QED
        BY <2>1, <2>3, <2>5, <2>6
<1>2. IInv => DelayHonoured
    BY <1>1 DEF DelayHonoured
<1> QED
    BY <1>2, Invariance, PTL

\* When the host is interrupted, every hart it has woken has cleared its own
\* interrupt and is past elect_director, for every number of harts.
THEOREM LastElected == Spec => []AllTookPart
<1>1. ASSUME IInv PROVE AllTookPart
    <2>1. 0 \in msip => Pending = {}
        BY <1>1 DEF IInv, RoundRight, Phases, Idle, Working, Elected, Returning, Done
    <2> QED
        BY <1>1, <2>1 DEF AllTookPart, Pending, IInv, TypeOK, WordsOK
<1> QED
    BY <1>1, Invariance, PTL

=============================================================================
