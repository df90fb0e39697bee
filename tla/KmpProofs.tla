------------------------------ MODULE KmpProofs ------------------------------
(***************************************************************************)
(* Proofs about the OpenMP entry points, for every number of threads,      *)
(* forks and loops.                                                        *)
(***************************************************************************)
EXTENDS Kmp, TLAPS

-----------------------------------------------------------------------------
(* Multiplication and division, where the provers need help.               *)

\* Multiplying by a natural number keeps the order.
LEMMA TimesMonotonic ==
    ASSUME NEW a \in Int, NEW b \in Int, NEW c \in Nat, a <= b
    PROVE  a * c <= b * c
OBVIOUS

\* The distributive laws.
LEMMA Distribute ==
    ASSUME NEW a \in Int, NEW b \in Int, NEW c \in Int
    PROVE  /\ (a + b) * c = a * c + b * c
           /\ (a - b) * c = a * c - b * c
           /\ a * (b + c) = a * b + a * c
           /\ a * (b - c) = a * b - a * c
OBVIOUS

\* Multiplication is associative and commutative.
LEMMA Associate ==
    ASSUME NEW a \in Int, NEW b \in Int, NEW c \in Int
    PROVE  /\ (a * b) * c = a * (b * c)
           /\ a * b = b * a
OBVIOUS

\* Quotient and remainder of a division by a positive number.
LEMMA Division ==
    ASSUME NEW x \in Int, NEW d \in Nat \ {0}
    PROVE  /\ x \div d \in Int
           /\ x % d \in 0 .. d - 1
           /\ x = d * (x \div d) + (x % d)
OBVIOUS

\* Quotient and remainder are determined by that.
LEMMA DivisionUnique ==
    ASSUME NEW d \in Nat \ {0}, NEW q \in Int, NEW r \in 0 .. d - 1
    PROVE  /\ (d * q + r) \div d = q
           /\ (d * q + r) % d = r
<1> DEFINE x == d * q + r
           p == x \div d
<1>1. x \in Int /\ p \in Int /\ x % d \in 0 .. d - 1 /\ x = d * p + (x % d)
    BY Division
<1> HIDE DEF x, p
<1>2. d * (p - q) = r - (x % d)
    <2>1. d * (p - q) = d * p - d * q
        BY <1>1, Distribute
    <2> QED
        BY <1>1, <2>1 DEF x
<1>3. ~ (p - q >= 1)
    <2> SUFFICES ASSUME p - q >= 1 PROVE FALSE
        OBVIOUS
    <2>1. 1 * d <= (p - q) * d
        BY <1>1, TimesMonotonic
    <2>2. (p - q) * d = d * (p - q) /\ 1 * d = d
        BY <1>1, Associate
    <2> QED
        BY <1>1, <1>2, <2>1, <2>2
<1>4. ~ (p - q <= -1)
    <2> SUFFICES ASSUME p - q <= -1 PROVE FALSE
        OBVIOUS
    <2>1. (p - q) * d <= (-1) * d
        BY <1>1, TimesMonotonic
    <2>2. (p - q) * d = d * (p - q) /\ (-1) * d = -d
        BY <1>1, Associate
    <2> QED
        BY <1>1, <1>2, <2>1, <2>2
<1>5. p = q
    BY <1>1, <1>3, <1>4
<1> QED
    BY <1>1, <1>5 DEF x, p

\* A quotient of natural numbers is a natural number.
LEMMA QuotientNat ==
    ASSUME NEW x \in Nat, NEW d \in Nat \ {0}
    PROVE  x \div d \in Nat
<1>1. x \div d \in Int /\ x % d \in 0 .. d - 1 /\ x = d * (x \div d) + (x % d)
    BY Division
<1>2. ~ (x \div d <= -1)
    <2> SUFFICES ASSUME x \div d <= -1 PROVE FALSE
        OBVIOUS
    <2>1. (x \div d) * d <= (-1) * d
        BY <1>1, TimesMonotonic
    <2>2. (x \div d) * d = d * (x \div d) /\ (-1) * d = -d
        BY <1>1, Associate
    <2> QED
        BY <1>1, <2>1, <2>2
<1> QED
    BY <1>1, <1>2

\* Division of natural numbers.
LEMMA NatDivision ==
    ASSUME NEW x \in Nat, NEW d \in Nat, d # 0
    PROVE  /\ x \div d \in Nat
           /\ x % d \in 0 .. d - 1
           /\ x = d * (x \div d) + (x % d)
<1>1. x \div d \in Nat
    BY QuotientNat
<1>2. x % d \in 0 .. d - 1 /\ x = d * (x \div d) + (x % d)
    BY Division
<1> QED
    BY <1>1, <1>2

-----------------------------------------------------------------------------
(* The blocks of kmp_sch_static: u is the upper bound of the loop, n the    *)
(* number of threads.                                                      *)

Every(u, n) == (u + 1) \div n
Over(u, n) == (u + 1) % n

\* The first iteration of thread t; that of thread n is one past the loop.
First(u, n, t) == t * Every(u, n) + (IF t < Over(u, n) THEN t ELSE Over(u, n))

\* The numbers the blocks are made of.
LEMMA BlockTypes ==
    ASSUME NEW u \in Nat, NEW n \in Nat \ {0}
    PROVE  /\ Every(u, n) \in Nat
           /\ Over(u, n) \in 0 .. n - 1
           /\ u + 1 = n * Every(u, n) + Over(u, n)
           /\ \A t \in Nat : First(u, n, t) \in Nat
<1>1. /\ Every(u, n) \in Nat
      /\ Over(u, n) \in 0 .. n - 1
      /\ u + 1 = n * Every(u, n) + Over(u, n)
    <2>1. u + 1 \in Nat /\ u + 1 \in Int /\ n \in Int
        OBVIOUS
    <2>2. (u + 1) \div n \in Nat
        BY <2>1, QuotientNat
    <2>3. (u + 1) % n \in 0 .. n - 1 /\ u + 1 = n * ((u + 1) \div n) + ((u + 1) % n)
        BY <2>1, Division
    <2> QED
        BY <2>2, <2>3 DEF Every, Over
<1>2. \A t \in Nat : t * Every(u, n) \in Nat
    BY <1>1
<1> QED
    BY <1>1, <1>2 DEF First

\* One of the leftOver threads has an iteration more than the others.
LEMMA FirstNext ==
    ASSUME NEW u \in Nat, NEW n \in Nat \ {0}, NEW t \in Nat
    PROVE  First(u, n, t + 1) =
               First(u, n, t) + (IF t < Over(u, n) THEN Every(u, n) + 1 ELSE Every(u, n))
<1>1. Every(u, n) \in Nat /\ Over(u, n) \in Nat
    BY BlockTypes
<1>2. (t + 1) * Every(u, n) = t * Every(u, n) + Every(u, n) /\ t * Every(u, n) \in Nat
    BY <1>1, Distribute
<1> QED
    BY <1>1, <1>2 DEF First

\* The blocks follow one another from 0 to the upper bound.
LEMMA FirstMonotonic ==
    ASSUME NEW u \in Nat, NEW n \in Nat \ {0}, NEW s \in Nat, NEW t \in Nat, s <= t
    PROVE  First(u, n, s) <= First(u, n, t)
<1>1. Every(u, n) \in Nat /\ Over(u, n) \in Nat
    BY BlockTypes
<1>2. s * Every(u, n) <= t * Every(u, n) /\ s * Every(u, n) \in Nat /\ t * Every(u, n) \in Nat
    BY <1>1, TimesMonotonic
<1> QED
    BY <1>1, <1>2 DEF First

\* The first block begins at 0 and the last one ends at the upper bound.
LEMMA FirstEnds ==
    ASSUME NEW u \in Nat, NEW n \in Nat \ {0}
    PROVE  First(u, n, 0) = 0 /\ First(u, n, n) = u + 1
<1>1. /\ Every(u, n) \in Nat
      /\ Over(u, n) \in 0 .. n - 1
      /\ u + 1 = n * Every(u, n) + Over(u, n)
    BY BlockTypes
<1>2. 0 * Every(u, n) = 0
    BY <1>1
<1> QED
    BY <1>1, <1>2 DEF First

\* Every iteration is in the block of some thread.
LEMMA InSomeBlock ==
    ASSUME NEW u \in Nat, NEW n \in Nat \ {0}, NEW i \in 0 .. u
    PROVE  \E t \in 0 .. n - 1 : First(u, n, t) <= i /\ i < First(u, n, t + 1)
<1> DEFINE e == Every(u, n)
           r == Over(u, n)
<1>1. e \in Nat /\ r \in 0 .. n - 1 /\ u + 1 = n * e + r
    BY BlockTypes
<1>2. \A t \in Nat : /\ First(u, n, t) = t * e + (IF t < r THEN t ELSE r)
                     /\ First(u, n, t + 1) = First(u, n, t) + (IF t < r THEN e + 1 ELSE e)
    BY FirstNext DEF First
<1> HIDE DEF e, r
<1>3. ASSUME i < r * (e + 1)
      PROVE  \E t \in 0 .. n - 1 : First(u, n, t) <= i /\ i < First(u, n, t + 1)
    <2> DEFINE t == i \div (e + 1)
    <2>1. t \in Nat /\ i % (e + 1) \in 0 .. e /\ i = (e + 1) * t + (i % (e + 1))
        <3>1. e + 1 \in Nat \ {0} /\ i \in Nat /\ i \in Int /\ (e + 1) - 1 = e
            BY <1>1
        <3>2. i \div (e + 1) \in Nat
            BY <3>1, QuotientNat
        <3>3. i % (e + 1) \in 0 .. (e + 1) - 1 /\ i = (e + 1) * (i \div (e + 1)) + (i % (e + 1))
            BY <3>1, Division
        <3> QED
            BY <3>1, <3>2, <3>3
    <2> HIDE DEF t
    <2>2. t < r
        <3> SUFFICES ASSUME r <= t PROVE FALSE
            BY <1>1, <2>1
        <3>1. r * (e + 1) <= t * (e + 1) /\ t * (e + 1) = (e + 1) * t
            BY <1>1, <2>1, TimesMonotonic, Associate
        <3>2. r * (e + 1) \in Nat /\ (e + 1) * t \in Nat
            BY <1>1, <2>1
        <3> QED
            BY <1>3, <2>1, <3>1, <3>2
    <2>3. (e + 1) * t = t * e + t /\ t * e \in Nat
        BY <1>1, <2>1, Distribute
    <2>4. First(u, n, t) = t * e + t /\ First(u, n, t + 1) = t * e + t + (e + 1)
        BY <1>1, <1>2, <2>1, <2>2, <2>3
    <2>5. t \in 0 .. n - 1 /\ First(u, n, t) <= i /\ i < First(u, n, t + 1)
        BY <1>1, <2>1, <2>2, <2>3, <2>4
    <2> QED
        BY <2>5
<1>4. ASSUME ~ (i < r * (e + 1))
      PROVE  \E t \in 0 .. n - 1 : First(u, n, t) <= i /\ i < First(u, n, t + 1)
    <2>1. r * (e + 1) = r * e + r /\ r * e \in Nat
        BY <1>1, Distribute
    <2>2. e # 0
        <3> SUFFICES ASSUME e = 0 PROVE FALSE
            OBVIOUS
        <3>1. n * e = 0 /\ r * e = 0
            BY <1>1
        <3> QED
            BY <1>1, <1>4, <2>1, <3>1
    <2> DEFINE x == i - (r * e + r)
               q == x \div e
               t == r + q
    <2>3. x \in Nat
        BY <1>1, <1>4, <2>1
    <2>4. q \in Nat /\ x % e \in 0 .. e - 1 /\ x = e * q + (x % e)
        <3> HIDE DEF x
        <3>1. e \in Nat \ {0} /\ x \in Int
            BY <1>1, <2>2, <2>3
        <3>2. x \div e \in Nat
            BY <2>3, <3>1, QuotientNat
        <3>3. x % e \in 0 .. e - 1 /\ x = e * (x \div e) + (x % e)
            BY <3>1, Division
        <3> QED
            BY <3>2, <3>3
    <2>5. t * e = r * e + q * e /\ q * e = e * q /\ q * e \in Nat
        BY <1>1, <2>4, Distribute, Associate
    <2>6. t \in Nat /\ ~ (t < r)
        BY <1>1, <2>4
    <2>7. First(u, n, t) = t * e + r /\ First(u, n, t + 1) = t * e + r + e
        <3> HIDE DEF t
        <3> QED
            BY <1>1, <1>2, <2>6
    <2> HIDE DEF q, t
    <2>8. First(u, n, t) <= i /\ i < First(u, n, t + 1)
        BY <1>1, <2>1, <2>3, <2>4, <2>5, <2>7 DEF x
    <2>9. t < n
        <3> SUFFICES ASSUME n <= t PROVE FALSE
            BY <1>1, <2>6
        <3>1. n * e <= t * e /\ n * e \in Nat /\ t * e \in Nat
            BY <1>1, <2>6, TimesMonotonic
        <3> QED
            BY <1>1, <2>7, <2>8, <3>1
    <2> QED
        BY <2>6, <2>8, <2>9
<1> QED
    BY <1>3, <1>4

-----------------------------------------------------------------------------
(* The chunks of kmp_sch_static_chunked: c is the chunk, n the number of    *)
(* threads.                                                                *)

\* A positive factor can be cancelled.
LEMMA Cancel ==
    ASSUME NEW c \in Nat \ {0}, NEW a \in Int, NEW b \in Int, c * a = c * b
    PROVE  a = b
<1>1. c * a + 0 = c * a /\ c * b + 0 = c * b /\ 0 \in 0 .. c - 1
    OBVIOUS
<1>2. (c * a + 0) \div c = a /\ (c * b + 0) \div c = b
    BY <1>1, DivisionUnique
<1> QED
    BY <1>1, <1>2

\* Chunk q of the loop goes to thread q % n, in its round q \div n.
LEMMA ChunkRound ==
    ASSUME NEW c \in Nat \ {0}, NEW n \in Nat \ {0}, NEW t \in 0 .. n - 1,
           NEW k \in Nat, NEW i \in Nat,
           c * t + k * (c * n) <= i, i <= (c * t + c - 1) + k * (c * n)
    PROVE  (i \div c) % n = t
<1> DEFINE q == n * k + t
           m == i - c * q
<1>1. n * k \in Int /\ q \in Int /\ c * q \in Int /\ c * t \in Int /\ c * n \in Int
      /\ k * (c * n) \in Int
    OBVIOUS
<1>2. c * q = k * (c * n) + c * t
    <2>1. c * q = c * (n * k) + c * t
        BY <1>1, Distribute
    <2>2. c * (n * k) = (c * n) * k /\ (c * n) * k = k * (c * n)
        BY <1>1, Associate
    <2> QED
        BY <2>1, <2>2
<1> HIDE DEF q
<1>3. m \in 0 .. c - 1 /\ i = c * q + m
    BY <1>1, <1>2
<1> HIDE DEF m
<1>4. i \div c = q
    BY <1>1, <1>3, DivisionUnique
<1>5. q % n = t
    BY <1>1, DivisionUnique DEF q
<1> QED
    BY <1>4, <1>5

\* The thread a chunk goes to meets every iteration of it.
LEMMA ChunkMet ==
    ASSUME NEW c \in Nat \ {0}, NEW n \in Nat \ {0}, NEW u \in Nat, NEW i \in 0 .. u
    PROVE  \E k \in 0 .. (u \div (c * n)) :
               /\ c * ((i \div c) % n) + k * (c * n) <= i
               /\ i <= (c * ((i \div c) % n) + c - 1) + k * (c * n)
<1> DEFINE q == i \div c
           t == q % n
           k == q \div n
           K == u \div (c * n)
<1>1. c * n \in Nat \ {0}
    <2>1. 1 * n <= c * n /\ c * n \in Nat /\ 1 * n = n
        BY TimesMonotonic
    <2> QED
        BY <2>1
<1>2. q \in Nat /\ i % c \in 0 .. c - 1 /\ i = c * q + (i % c)
    <2>1. i \in Nat
        OBVIOUS
    <2> QED
        BY <2>1, NatDivision
<1>3. k \in Nat /\ t \in 0 .. n - 1 /\ q = n * k + t
    <2> HIDE DEF q
    <2> QED
        BY <1>2, NatDivision
<1>4. K \in Nat /\ u % (c * n) \in 0 .. (c * n) - 1 /\ u = (c * n) * K + (u % (c * n))
    <2> DEFINE d == c * n
    <2>1. d \in Nat \ {0}
        BY <1>1
    <2> HIDE DEF d
    <2>2. /\ u \div d \in Nat
          /\ u % d \in 0 .. d - 1 /\ u = d * (u \div d) + (u % d)
        BY <2>1, NatDivision
    <2> QED
        BY <2>2 DEF d
<1> HIDE DEF q, t, k, K
<1>5. c * q = k * (c * n) + c * t /\ k * (c * n) \in Nat /\ c * t \in Nat
    <2>1. n * k \in Int /\ c * n \in Int
        BY <1>3
    <2>2. c * (n * k + t) = c * (n * k) + c * t
        BY <1>3, <2>1, Distribute
    <2>3. c * (n * k) = (c * n) * k /\ (c * n) * k = k * (c * n)
        BY <1>3, <2>1, Associate
    <2>4. k * (c * n) \in Nat /\ c * t \in Nat
        BY <1>1, <1>3
    <2> QED
        BY <1>3, <2>2, <2>3, <2>4
<1>6. k <= K
    <2> SUFFICES ASSUME K + 1 <= k PROVE FALSE
        BY <1>3, <1>4
    <2>1. (K + 1) * (c * n) <= k * (c * n)
        BY <1>1, <1>3, <1>4, TimesMonotonic
    <2>2. (K + 1) * (c * n) = K * (c * n) + 1 * (c * n) /\ K * (c * n) = (c * n) * K
        BY <1>1, <1>4, Distribute, Associate
    <2>3. 1 * (c * n) = c * n /\ (c * n) * K \in Int
        BY <1>1, <1>4
    <2> QED
        BY <1>1, <1>2, <1>4, <1>5, <2>1, <2>2, <2>3
<1>7. c * t + k * (c * n) <= i /\ i <= (c * t + c - 1) + k * (c * n)
    BY <1>2, <1>5
<1>8. k \in 0 .. K
    BY <1>3, <1>4, <1>6
<1> QED
    BY <1>7, <1>8 DEF q, t, K

\* The distance of the last chunk from the first one of thread t, in rounds.
LastDistance(u, c, n, t) == Rem((u - Rem(u, c)) - c * t, c * n)

\* The remainder the code computes tells whether the last chunk is one of
\* thread t.
LEMMA LastChunk ==
    ASSUME NEW c \in Nat \ {0}, NEW n \in Nat \ {0}, NEW u \in Nat, NEW t \in 0 .. n - 1
    PROVE  LastDistance(u, c, n, t) = 0 <=> (u \div c) % n = t
<1> DEFINE q == u \div c
           d == c * n
           x == (u - Rem(u, c)) - c * t
<1>1. q \in Nat
    BY QuotientNat
<1>2. c * q \in Nat /\ c * t \in Nat /\ d \in Nat /\ d # 0
    <2>1. 1 * n <= c * n /\ 1 * n = n
        BY TimesMonotonic
    <2>2. c * n \in Nat
        OBVIOUS
    <2>3. d \in Nat /\ d # 0
        BY <2>1, <2>2
    <2> HIDE DEF q, d
    <2> QED
        BY <1>1, <2>3
<1>3. x = c * (q - t) /\ x \in Int
    <2>1. u - Rem(u, c) = c * q
        BY <1>2 DEF Rem, Quot
    <2> HIDE DEF q
    <2>2. c * (q - t) = c * q - c * t
        BY <1>1, Distribute
    <2> QED
        BY <1>2, <2>1, <2>2
<1> HIDE DEF q, x
<1>4. ASSUME q >= t
      PROVE  Rem(x, d) = 0 <=> q % n = t
    <2>1. x >= 0
        BY <1>1, <1>2, <1>3, <1>4
    <2>2. Rem(x, d) = x - d * (x \div d)
        BY <2>1 DEF Rem, Quot
    <2> DEFINE z == x \div d
    <2>3. z \in Int /\ d * z \in Int
        <3> HIDE DEF d
        <3> QED
            BY <1>2, <1>3, <2>1, NatDivision
    <2> HIDE DEF z
    <2>4. ASSUME Rem(x, d) = 0 PROVE q % n = t
        <3>1. c * (q - t) = d * z
            BY <1>2, <1>3, <2>2, <2>3, <2>4 DEF z
        <3>2. d * z = c * (n * z) /\ n * z \in Int
            BY <2>3, Associate
        <3>3. q - t = n * z
            BY <1>1, <3>1, <3>2, Cancel
        <3>4. q = n * z + t
            BY <1>1, <3>2, <3>3
        <3> QED
            BY <2>3, <3>4, DivisionUnique
    <2>5. ASSUME q % n = t PROVE Rem(x, d) = 0
        <3> DEFINE y == q \div n
        <3>1. y \in Int /\ q = n * y + t
            BY <1>1, <2>5, Division
        <3> HIDE DEF y
        <3>2. q - t = n * y /\ n * y \in Int
            BY <3>1
        <3>3. c * (n * y) = d * y
            BY <3>1, Associate
        <3>4. x = d * y + 0 /\ d * y \in Int
            BY <1>2, <1>3, <3>1, <3>2, <3>3
        <3>5. x \div d = y
            <4> HIDE DEF d
            <4>1. d \in Nat \ {0} /\ 0 \in 0 .. d - 1
                BY <1>2
            <4> QED
                BY <3>1, <3>4, <4>1, DivisionUnique
        <3> QED
            BY <2>2, <3>4, <3>5
    <2> QED
        BY <2>4, <2>5
<1>5. ASSUME ~ (q >= t)
      PROVE  Rem(x, d) = 0 <=> q % n = t
    <2>1. q \in 0 .. n - 1 /\ n * 0 + q = q
        BY <1>1, <1>5
    <2>2. q % n = q
        BY <2>1, DivisionUnique
    <2>3. /\ (t - q) * c <= (n - 1) * c /\ 1 * c <= (t - q) * c
          /\ (n - 1) * c = n * c - 1 * c /\ n * c = c * n /\ 1 * c = c
          /\ (t - q) * c = c * (t - q) /\ c * (t - q) = c * t - c * q
          /\ c * (q - t) = c * q - c * t
        BY <1>1, <1>5, TimesMonotonic, Distribute, Associate
    <2>4. -x \in 1 .. d - 1 /\ ~ (x >= 0)
        BY <1>2, <1>3, <2>3
    <2>5. (-x) \div d = 0
        <3> HIDE DEF d
        <3>1. d \in Nat \ {0} /\ -x \in 0 .. d - 1 /\ d * 0 + (-x) = -x
            BY <1>2, <1>3, <2>4
        <3> QED
            BY <3>1, DivisionUnique
    <2>6. Rem(x, d) = x
        <3>1. Quot(x, d) = 0
            BY <2>4, <2>5 DEF Quot
        <3>2. d * 0 = 0
            BY <1>2
        <3> QED
            BY <1>3, <3>1, <3>2 DEF Rem
    <2> QED
        BY <1>1, <1>5, <2>2, <2>4, <2>6
<1> QED
    BY <1>4, <1>5 DEF LastDistance, x, q

-----------------------------------------------------------------------------
(* What static_init returns, in integers.                                  *)

Half == W \div 2

\* The loops that compilers hand over, which count from 0 in steps of 1, with
\* bounds that a signed word holds; a word also holds the number of threads
\* and one round of chunks.
LoopsFit ==
    /\ W \in Nat
    /\ Teams \subseteq 1 .. Half
    /\ Loops \subseteq [sched : {"static", "static_chunked"}, lower : {0},
                        upper : 0 .. Half - 1, incr : {1}, chunk : Nat \ {0},
                        unsigned : BOOLEAN]
    /\ \A l \in Loops, n \in Teams :
           l.sched = "static_chunked" => l.chunk * n < Half

Block(u, n, t) ==
    [lower |-> First(u, n, t), upper |-> First(u, n, t + 1) - 1, stride |-> u + 1,
     last |-> First(u, n, t + 1) - 1 = u /\ First(u, n, t) <= u]

Chunks(u, c, n, t) ==
    [lower |-> c * t, upper |-> c * t + c - 1, stride |-> c * n,
     last |-> (u \div c) % n = t]

\* What each thread gets, without the arithmetic of words.
Share(l, n, t) ==
    IF l.sched = "static_chunked" THEN Chunks(l.upper, l.chunk, n, t)
    ELSE Block(l.upper, n, t)

\* The inductive invariant of the shares.
SharesInv ==
    /\ numThreads \in Teams
    /\ loop \in Loops
    /\ DOMAIN share = Threads
    /\ \A t \in Threads : share[t] = <<>> \/ share[t] = Share(loop, numThreads, t)

\* Words are not converted within the range of a signed word.
LEMMA WordIdentity ==
    ASSUME W \in Nat, NEW x \in 0 .. Half - 1
    PROVE  Int32(x) = x /\ Uint32(x) = x
<1>1. Half \in Nat /\ W = 2 * Half + (W % 2) /\ W % 2 \in 0 .. 1
    BY NatDivision DEF Half
<1>2. W \in Nat \ {0} /\ x + Half \in 0 .. W - 1 /\ x \in 0 .. W - 1
    BY <1>1
<1>3. (W * 0 + (x + Half)) % W = x + Half /\ (W * 0 + x) % W = x
    <2>1. 0 \in Int
        OBVIOUS
    <2>2. \A y \in 0 .. W - 1 : (W * 0 + y) % W = y
        BY <1>2, <2>1, DivisionUnique
    <2> QED
        BY <1>2, <2>2
<1>4. W * 0 + (x + Half) = x + Half /\ W * 0 + x = x
    BY <1>1, <1>2
<1> QED
    BY <1>1, <1>3, <1>4 DEF Int32, Uint32, Half

\* The fields of a loop.
LEMMA LoopTypes ==
    ASSUME LoopsFit, NEW l \in Loops
    PROVE  /\ l.sched \in {"static", "static_chunked"}
           /\ l.lower = 0 /\ l.incr = 1 /\ l.unsigned \in BOOLEAN
           /\ l.upper \in 0 .. Half - 1 /\ l.upper \in Nat
           /\ l.chunk \in Nat \ {0}
           /\ l = [sched |-> l.sched, lower |-> 0, upper |-> l.upper, incr |-> 1,
                   chunk |-> l.chunk, unsigned |-> l.unsigned]
           /\ Half \in Nat
<1>1. Half \in Nat
    BY NatDivision DEF LoopsFit, Half
<1>2. l \in [sched : {"static", "static_chunked"}, lower : {0},
             upper : 0 .. Half - 1, incr : {1}, chunk : Nat \ {0}, unsigned : BOOLEAN]
    BY DEF LoopsFit
<1> QED
    BY <1>1, <1>2

\* The blocks of the static schedule.
LEMMA StaticValue ==
    ASSUME LoopsFit, numThreads \in Teams, NEW l \in Loops, NEW t \in Threads
    PROVE  Static(l, t) = Block(l.upper, numThreads, t)
<1> DEFINE n == numThreads
           u == l.upper
           e == Every(u, n)
           r == Over(u, n)
           F(s) == First(u, n, s)
<1>1. /\ n \in Nat \ {0} /\ n <= Half /\ t \in 0 .. n - 1 /\ t \in Nat
      /\ u \in Nat /\ u \in 0 .. Half - 1 /\ Half \in Nat /\ W \in Nat
      /\ l.lower = 0 /\ l.incr = 1
    BY LoopTypes DEF LoopsFit, Threads
<1>2. Uint32(Quot(l.upper - l.lower, l.incr) + 1) = u + 1
    <2>1. Quot(u, 1) = u
        BY <1>1 DEF Quot
    <2>2. W = 2 * Half + (W % 2) /\ W % 2 \in 0 .. 1
        BY <1>1, NatDivision DEF Half
    <2>3. W \in Nat \ {0} /\ u + 1 \in 0 .. W - 1 /\ W * 0 + (u + 1) = u + 1
        BY <1>1, <2>2
    <2>4. (u + 1) % W = u + 1
        BY <2>3, DivisionUnique
    <2> QED
        BY <1>1, <2>1, <2>4 DEF Uint32
<1>3. /\ e \in Nat /\ r \in 0 .. n - 1 /\ u + 1 = n * e + r
      /\ F(t) \in Nat /\ F(t + 1) \in Nat
    <2>1. t + 1 \in Nat
        BY <1>1
    <2> HIDE DEF n, u
    <2> QED
        BY <1>1, <2>1, BlockTypes
<1>4. /\ (u + 1) \div n = e
      /\ (u + 1) - e * n = r
    <2>1. e * n = n * e /\ n * e \in Nat
        BY <1>1, <1>3, Associate
    <2> QED
        BY <1>1, <1>3, <2>1 DEF Every
<1>5. /\ F(t) = t * e + (IF t < r THEN t ELSE r)
      /\ F(t + 1) = F(t) + (IF t < r THEN e + 1 ELSE e)
    BY <1>1, FirstNext DEF First
<1>6. F(t + 1) <= u + 1
    BY <1>1, FirstMonotonic, FirstEnds
<1> DEFINE chunk == IF t < r THEN e + 1 ELSE e
           low   == IF t < r THEN l.lower + t * chunk * l.incr
                             ELSE l.lower + t * chunk * l.incr + r
<1>7. Static(l, t) =
        LET plower == Int32(low)
            pupper == Int32(plower + chunk * l.incr - l.incr)
        IN  [lower |-> plower, upper |-> pupper, stride |-> u + 1,
             last |-> pupper = u /\ plower <= u]
    BY <1>2, <1>4 DEF Static
<1> HIDE DEF e, r, F, u, n
<1>8. t * chunk * 1 = t * chunk /\ t * chunk \in Nat /\ chunk \in Nat /\ chunk * 1 = chunk
    BY <1>1, <1>3
<1>9. low = F(t)
    <2>1. ASSUME t < r PROVE low = F(t)
        <3>1. t * (e + 1) = t * e + t * 1 /\ t * 1 = t
            BY <1>1, <1>3, Distribute
        <3>2. t * e \in Nat
            BY <1>1, <1>3
        <3> QED
            BY <1>1, <1>3, <1>5, <1>8, <2>1, <3>1, <3>2
    <2>2. ASSUME ~ (t < r) PROVE low = F(t)
        <3>1. t * e \in Nat
            BY <1>1, <1>3
        <3> QED
            BY <1>1, <1>3, <1>5, <1>8, <2>2, <3>1
    <2> QED
        BY <2>1, <2>2
<1>10. F(t) \in 0 .. Half - 1
    <2>1. ASSUME F(t) = u + 1 PROVE u + 1 < Half
        <3>1. chunk = 0
            BY <1>1, <1>3, <1>5, <1>6, <1>8, <2>1
        <3>2. e = 0 /\ n * e = 0
            BY <1>1, <1>3, <3>1
        <3> QED
            BY <1>1, <1>3, <3>2
    <2>2. F(t) <= u + 1
        BY <1>1, <1>3, <1>5, <1>6, <1>8
    <2> QED
        BY <1>1, <1>3, <2>1, <2>2
<1>11. F(t) + chunk - 1 = F(t + 1) - 1
    BY <1>3, <1>5, <1>8
<1>12. Int32(low) = F(t) /\ Int32(Int32(low) + chunk * l.incr - l.incr) = F(t + 1) - 1
    <2>1. Int32(F(t)) = F(t)
        BY <1>1, <1>10, WordIdentity
    <2>2. ASSUME F(t + 1) >= 1 PROVE Int32(F(t + 1) - 1) = F(t + 1) - 1
        <3>1. F(t + 1) - 1 \in 0 .. Half - 1
            BY <1>1, <1>3, <1>6, <2>2
        <3> QED
            BY <1>1, <3>1, WordIdentity
    <2>3. F(t + 1) >= 1
        <3> SUFFICES ASSUME F(t + 1) = 0 PROVE FALSE
            BY <1>3
        <3>1. chunk = 0 /\ t * e + (IF t < r THEN t ELSE r) = 0 /\ t * e \in Nat
            BY <1>1, <1>3, <1>5, <1>8
        <3>2. e = 0 /\ ~ (t < r) /\ r = 0
            BY <1>1, <1>3, <3>1
        <3>3. n * e = 0
            BY <1>1, <3>2
        <3> QED
            BY <1>1, <1>3, <3>2, <3>3
    <2> QED
        BY <1>1, <1>8, <1>9, <1>11, <2>1, <2>2, <2>3
<1> HIDE DEF low, chunk
<1> QED
    BY <1>7, <1>12 DEF Block, F, u, n

\* The chunks of the chunked schedule.
LEMMA ChunkedValue ==
    ASSUME LoopsFit, numThreads \in Teams, NEW l \in Loops, NEW t \in Threads,
           l.sched = "static_chunked"
    PROVE  StaticChunked(l, t) = Chunks(l.upper, l.chunk, numThreads, t)
<1>0. PICK n \in Teams : n = numThreads
    OBVIOUS
<1> DEFINE u == l.upper
           c == l.chunk
<1>1. /\ n \in Nat \ {0} /\ t \in 0 .. n - 1 /\ t \in Nat
      /\ u \in Nat /\ u \in 0 .. Half - 1 /\ Half \in Nat /\ W \in Nat
      /\ l.lower = 0 /\ l.incr = 1 /\ c \in Nat \ {0} /\ c * n < Half
    BY <1>0, LoopTypes DEF LoopsFit, Threads
<1> HIDE DEF u, c
<1>2. /\ c * t \in Nat /\ c * n \in Nat /\ 1 * c = c
      /\ (t + 1) * c <= n * c /\ (t + 1) * c = t * c + 1 * c
      /\ t * c = c * t /\ n * c = c * n
    BY <1>1, TimesMonotonic, Distribute, Associate
<1>3. /\ c \in 0 .. Half - 1 /\ c * n \in 0 .. Half - 1
      /\ c * t \in 0 .. Half - 1 /\ c * t + c - 1 \in 0 .. Half - 1
    BY <1>1, <1>2
<1>4. /\ Int32(c) = c /\ Int32(c * n) = c * n
      /\ Int32(c * t) = c * t /\ Int32(c * t + c - 1) = c * t + c - 1
    BY <1>1, <1>3, WordIdentity
<1>5. Int32(l.incr * l.chunk) = c
    BY <1>1, <1>2, <1>4 DEF c
<1>6. Int32(l.lower + c * t) = c * t
    BY <1>1, <1>2, <1>4
<1>7. StaticChunked(l, t) =
        [lower |-> c * t, upper |-> c * t + c - 1, stride |-> c * n,
         last |-> LastDistance(u, c, n, t) = 0]
    BY <1>0, <1>1, <1>4, <1>5, <1>6 DEF StaticChunked, LastDistance, u
<1>8. LastDistance(u, c, n, t) = 0 <=> (u \div c) % n = t
    BY <1>1, LastChunk
<1> QED
    BY <1>0, <1>7, <1>8 DEF Chunks, u, c

\* The bounds of a share are within the range of a signed word.
LEMMA ShareTypes ==
    ASSUME LoopsFit, NEW n \in Teams, NEW l \in Loops, NEW t \in 0 .. n - 1
    PROVE  /\ Share(l, n, t).lower \in 0 .. Half - 1
           /\ Share(l, n, t).upper \in 0 .. Half - 1
<1> DEFINE u == l.upper
           c == l.chunk
<1>1. /\ n \in Nat \ {0} /\ n <= Half /\ t \in Nat
      /\ u \in Nat /\ u \in 0 .. Half - 1 /\ Half \in Nat
      /\ c \in Nat \ {0} /\ l.sched \in {"static", "static_chunked"}
      /\ l.sched = "static_chunked" => c * n < Half
    BY LoopTypes DEF LoopsFit
<1> HIDE DEF u, c
<1>2. ASSUME l.sched = "static_chunked"
      PROVE  /\ c * t \in 0 .. Half - 1
             /\ c * t + c - 1 \in 0 .. Half - 1
    <2>1. /\ c * t \in Nat /\ c * n \in Nat /\ 1 * c = c
          /\ (t + 1) * c <= n * c /\ (t + 1) * c = t * c + 1 * c
          /\ t * c = c * t /\ n * c = c * n
        BY <1>1, TimesMonotonic, Distribute, Associate
    <2> QED
        BY <1>1, <1>2, <2>1
<1>3. /\ First(u, n, t) \in 0 .. Half - 1
      /\ First(u, n, t + 1) - 1 \in 0 .. Half - 1
    <2> DEFINE e == Every(u, n)
               r == Over(u, n)
    <2>1. /\ e \in Nat /\ r \in 0 .. n - 1 /\ u + 1 = n * e + r
          /\ First(u, n, t) \in Nat /\ First(u, n, t + 1) \in Nat
        <3>1. t + 1 \in Nat
            BY <1>1
        <3> QED
            BY <1>1, <3>1, BlockTypes
    <2>2. /\ First(u, n, t) = t * e + (IF t < r THEN t ELSE r)
          /\ First(u, n, t + 1) = First(u, n, t) + (IF t < r THEN e + 1 ELSE e)
        BY <1>1, FirstNext DEF First
    <2>3. First(u, n, t + 1) <= u + 1
        BY <1>1, FirstMonotonic, FirstEnds
    <2> HIDE DEF e, r
    <2>4. ASSUME e = 0 PROVE r = u + 1 /\ t * e = 0
        BY <1>1, <2>1, <2>4
    <2>5. t * e \in Nat
        BY <1>1, <2>1
    <2> QED
        BY <1>1, <2>1, <2>2, <2>3, <2>4, <2>5
<1> QED
    BY <1>1, <1>2, <1>3 DEF Share, Block, Chunks, u, c

\* Both entry points return the share.
LEMMA StaticInitValue ==
    ASSUME LoopsFit, numThreads \in Teams, NEW l \in Loops, NEW t \in Threads
    PROVE  StaticInit(l, t) = Share(l, numThreads, t)
BY StaticValue, ChunkedValue, LoopTypes DEF StaticInit, Share

\* The unsigned one neither changes the bounds of the loop nor those of the
\* share.
LEMMA UnsignedValue ==
    ASSUME LoopsFit, numThreads \in Teams, loop \in Loops, NEW t \in Threads
    PROVE  LET l == [loop EXCEPT !.lower = Int32(@), !.upper = Int32(@)]
               s == StaticInit(l, t)
           IN  [s EXCEPT !.lower = Uint32(@), !.upper = Uint32(@)]
                 = Share(loop, numThreads, t)
<1> DEFINE l == [loop EXCEPT !.lower = Int32(@), !.upper = Int32(@)]
           s == Share(loop, numThreads, t)
<1>1. l = loop
    <2>1. /\ loop.lower = 0 /\ loop.upper \in 0 .. Half - 1 /\ 0 \in 0 .. Half - 1
          /\ W \in Nat /\ Half \in Nat
        BY LoopTypes DEF LoopsFit
    <2>2. Int32(loop.lower) = loop.lower /\ Int32(loop.upper) = loop.upper
        BY <2>1, WordIdentity
    <2>3. loop \in [sched : {"static", "static_chunked"}, lower : {0},
             upper : 0 .. Half - 1, incr : {1}, chunk : Nat \ {0}, unsigned : BOOLEAN]
        BY DEF LoopsFit
    <2> QED
        BY <2>2, <2>3
<1>2. StaticInit(l, t) = s
    BY <1>1, StaticInitValue
<1>3. Uint32(s.lower) = s.lower /\ Uint32(s.upper) = s.upper
    <2>1. numThreads \in Nat \ {0} /\ t \in 0 .. numThreads - 1 /\ W \in Nat
        BY DEF LoopsFit, Threads
    <2>2. s.lower \in 0 .. Half - 1 /\ s.upper \in 0 .. Half - 1
        BY <2>1, ShareTypes
    <2> HIDE DEF s
    <2> QED
        BY <2>1, <2>2, WordIdentity
<1>4. [s EXCEPT !.lower = Uint32(@), !.upper = Uint32(@)] = s
    BY <1>3 DEF Share, Block, Chunks
<1> QED
    BY <1>2, <1>4

-----------------------------------------------------------------------------
(* The shares.                                                             *)

\* A share is a record.
LEMMA ShareNotEmpty ==
    ASSUME NEW l, NEW n, NEW t
    PROVE  Share(l, n, t) # <<>>
<1>1. "lower" \in DOMAIN Share(l, n, t)
    BY DEF Share, Block, Chunks
<1>2. "lower" \notin DOMAIN <<>>
    OBVIOUS
<1> QED
    BY <1>1, <1>2

\* The iterations thread t is to carry out.
Owned(l, n, t) ==
    IF l.sched = "static_chunked"
    THEN {i \in 0 .. l.upper : (i \div l.chunk) % n = t}
    ELSE First(l.upper, n, t) .. First(l.upper, n, t + 1) - 1

\* They are those of the loop that Mine collects.
LEMMA MineOwned ==
    ASSUME LoopsFit, SharesInv, NEW t \in Threads
    PROVE  Mine(t) = IF share[t] = <<>> THEN {} ELSE Owned(loop, numThreads, t)
<1>1. CASE share[t] = <<>>
    BY <1>1 DEF Mine
<1>2. CASE share[t] # <<>>
    <2>0. PICK n \in Teams : n = numThreads
        BY DEF SharesInv
    <2>1. PICK l \in Loops : l = loop
        BY DEF SharesInv
    <2> DEFINE u == l.upper
               c == l.chunk
    <2>2. /\ n \in Nat \ {0} /\ t \in 0 .. n - 1 /\ t \in Nat /\ t + 1 \in Nat
          /\ u \in Nat /\ c \in Nat \ {0} /\ l.incr = 1
          /\ l.sched \in {"static", "static_chunked"}
        BY <2>0, LoopTypes DEF LoopsFit, Threads
    <2>3. share[t] = Share(l, n, t)
        BY <1>2, <2>0, <2>1 DEF SharesInv
    <2>4. \A x \in Int : x % 1 = 0
        OBVIOUS
    <2>5. CASE l.sched = "static_chunked"
        <3>1. /\ share[t].lower = c * t /\ share[t].upper = c * t + c - 1
              /\ share[t].stride = c * n
            BY <2>3, <2>5 DEF Share, Chunks
        <3> DEFINE K == 0 .. (u \div (c * n))
                   Walk(k) == {i \in (c * t + k * (c * n)) .. ((c * t + c - 1) + k * (c * n)) :
                                 i <= u /\ (i - (c * t + k * (c * n))) % 1 = 0}
        <3>2. Mine(t) = UNION {Walk(k) : k \in K}
            BY <1>2, <2>1, <2>2, <2>5, <3>1 DEF Mine
        <3>3. c * t \in Nat /\ c * n \in Nat /\ c * n # 0
            <4> HIDE DEF u, c
            <4>1. 1 * n <= c * n /\ 1 * n = n
                BY <2>2, TimesMonotonic
            <4>2. c * n \in Nat /\ c * t \in Nat
                BY <2>2
            <4> QED
                BY <2>2, <4>1, <4>2
        <3>4. K \subseteq Nat
            OBVIOUS
        <3> HIDE DEF u, c, K
        <3>5. ASSUME NEW k \in K, NEW i \in Walk(k)
              PROVE  i \in 0 .. u /\ (i \div c) % n = t
            <4>1. k * (c * n) \in Nat /\ k \in Nat
                BY <3>3, <3>4
            <4>2. i \in Nat /\ i <= u /\ c * t + k * (c * n) <= i
                  /\ i <= (c * t + c - 1) + k * (c * n)
                BY <2>2, <3>3, <3>5, <4>1
            <4> QED
                BY <2>2, <4>1, <4>2, ChunkRound
        <3>6. ASSUME NEW i \in 0 .. u, (i \div c) % n = t
              PROVE  \E k \in K : i \in Walk(k)
            <4>1. PICK k \in K : /\ c * t + k * (c * n) <= i
                                 /\ i <= (c * t + c - 1) + k * (c * n)
                BY <2>2, <3>6, ChunkMet DEF K
            <4>2. k * (c * n) \in Nat /\ i \in Int
                BY <2>2, <3>3, <3>4
            <4>3. i \in Walk(k)
                BY <2>2, <2>4, <3>3, <4>1, <4>2
            <4> QED
                BY <4>3
        <3>7. Mine(t) = {i \in 0 .. u : (i \div c) % n = t}
            <4> HIDE DEF Walk
            <4> QED
                BY <3>2, <3>5, <3>6
        <3> QED
            BY <1>2, <2>0, <2>1, <2>5, <3>7 DEF Owned, u, c
    <2>6. CASE l.sched = "static"
        <3> DEFINE F(s) == First(u, n, s)
        <3>1. /\ share[t].lower = F(t) /\ share[t].upper = F(t + 1) - 1
              /\ share[t].stride = u + 1
            BY <2>3, <2>6 DEF Share, Block
        <3>2. F(t) \in Nat /\ F(t + 1) \in Nat /\ F(t + 1) <= u + 1
            <4> HIDE DEF u
            <4>1. t + 1 <= n /\ n \in Nat
                BY <2>2
            <4>2. F(t) \in Nat /\ F(t + 1) \in Nat
                BY <2>2, BlockTypes
            <4>3. F(t + 1) <= F(n)
                BY <2>2, <4>1, FirstMonotonic
            <4>4. F(n) = u + 1
                BY <2>2, FirstEnds
            <4> QED
                BY <4>2, <4>3, <4>4
        <3> HIDE DEF F
        <3> DEFINE Walk(k) == {i \in (F(t) + k * (u + 1)) .. ((F(t + 1) - 1) + k * (u + 1)) :
                                 i <= u /\ (i - (F(t) + k * (u + 1))) % 1 = 0}
        <3>3. Mine(t) = Walk(0)
            <4>1. Mine(t) = UNION {Walk(k) : k \in {0}}
                BY <1>2, <2>1, <2>2, <2>6, <3>1 DEF Mine
            <4> HIDE DEF Walk
            <4> QED
                BY <4>1
        <3>4. 0 * (u + 1) = 0
            BY <2>2
        <3>5. Mine(t) = F(t) .. F(t + 1) - 1
            BY <2>2, <2>4, <3>2, <3>3, <3>4
        <3> QED
            BY <1>2, <2>0, <2>1, <2>6, <3>5 DEF Owned, F
    <2> QED
        BY <2>2, <2>5, <2>6
<1> QED
    BY <1>1, <1>2

\* The iterations of the loop are divided among the threads, and the last
\* flag goes with the last of them.
LEMMA OwnedPartition ==
    ASSUME LoopsFit, NEW n \in Teams, NEW l \in Loops
    PROVE  /\ \A t \in 0 .. n - 1 : Owned(l, n, t) \subseteq 0 .. l.upper
           /\ \A s, t \in 0 .. n - 1 : s # t => Owned(l, n, s) \cap Owned(l, n, t) = {}
           /\ \A i \in 0 .. l.upper : \E t \in 0 .. n - 1 : i \in Owned(l, n, t)
           /\ \A t \in 0 .. n - 1 : Share(l, n, t).last <=> l.upper \in Owned(l, n, t)
<1> DEFINE u == l.upper
           c == l.chunk
<1>1. /\ n \in Nat \ {0} /\ u \in Nat /\ c \in Nat \ {0}
      /\ l.sched \in {"static", "static_chunked"}
    BY LoopTypes DEF LoopsFit
<1>2. CASE l.sched = "static_chunked"
    <2>1. \A t : Owned(l, n, t) = {i \in 0 .. u : (i \div c) % n = t}
        BY <1>2 DEF Owned
    <2>2. \A t : Share(l, n, t).last <=> (u \div c) % n = t
        BY <1>2 DEF Share, Chunks
    <2> HIDE DEF u, c
    <2>3. \A i \in 0 .. u : (i \div c) % n \in 0 .. n - 1
        <3> TAKE i \in 0 .. u
        <3>1. i \in Nat
            BY <1>1
        <3>2. i \div c \in Nat
            BY <1>1, <3>1, NatDivision
        <3> QED
            BY <1>1, <3>2, NatDivision
    <2>4. u \in 0 .. u
        BY <1>1
    <2> QED
        BY <2>1, <2>2, <2>3, <2>4 DEF u
<1>3. CASE l.sched = "static"
    <2> DEFINE F(t) == First(u, n, t)
    <2>1. \A t : Owned(l, n, t) = F(t) .. F(t + 1) - 1
        BY <1>3 DEF Owned
    <2>2. \A t : Share(l, n, t).last <=> F(t + 1) - 1 = u /\ F(t) <= u
        BY <1>3 DEF Share, Block
    <2> HIDE DEF u
    <2>3. \A t \in Nat : F(t) \in Nat
        BY <1>1, BlockTypes
    <2>4. \A s, t \in Nat : s <= t => F(s) <= F(t)
        BY <1>1, FirstMonotonic
    <2>5. F(n) = u + 1
        BY <1>1, FirstEnds
    <2>6. \A i \in 0 .. u : \E t \in 0 .. n - 1 : F(t) <= i /\ i < F(t + 1)
        BY <1>1, InSomeBlock
    <2> HIDE DEF F
    <2>7. \A t \in 0 .. n - 1 : /\ t \in Nat /\ t + 1 \in Nat /\ n \in Nat /\ t + 1 <= n
                                /\ F(t) \in Nat /\ F(t + 1) \in Nat /\ F(t + 1) <= u + 1
        BY <1>1, <2>3, <2>4, <2>5
    <2>8. ASSUME NEW s \in 0 .. n - 1, NEW t \in 0 .. n - 1, s < t
          PROVE  (F(s) .. F(s + 1) - 1) \cap (F(t) .. F(t + 1) - 1) = {}
        <3>1. F(s + 1) <= F(t)
            BY <2>4, <2>7, <2>8
        <3> QED
            BY <2>7, <3>1
    <2>9. \A t \in 0 .. n - 1 : F(t) .. F(t + 1) - 1 \subseteq 0 .. u
        BY <1>1, <2>7
    <2>10. \A s, t \in 0 .. n - 1 :
               s # t => (F(s) .. F(s + 1) - 1) \cap (F(t) .. F(t + 1) - 1) = {}
        <3> TAKE s, t \in 0 .. n - 1
        <3> HAVE s # t
        <3>1. s < t \/ t < s
            BY <1>1
        <3> QED
            BY <2>8, <3>1
    <2>11. \A i \in 0 .. u : \E t \in 0 .. n - 1 : i \in F(t) .. F(t + 1) - 1
        BY <1>1, <2>6, <2>7
    <2>12. \A t \in 0 .. n - 1 :
               (F(t + 1) - 1 = u /\ F(t) <= u) <=> u \in F(t) .. F(t + 1) - 1
        BY <1>1, <2>7
    <2>13. \A t \in 0 .. n - 1 : Owned(l, n, t) \subseteq 0 .. u
        BY <2>1, <2>9
    <2>14. \A s, t \in 0 .. n - 1 : s # t => Owned(l, n, s) \cap Owned(l, n, t) = {}
        BY <2>1, <2>10
    <2>15. \A i \in 0 .. u : \E t \in 0 .. n - 1 : i \in Owned(l, n, t)
        BY <2>1, <2>11
    <2>16. \A t \in 0 .. n - 1 : Share(l, n, t).last <=> u \in Owned(l, n, t)
        BY <2>1, <2>2, <2>12
    <2> QED
        BY <2>13, <2>14, <2>15, <2>16 DEF u
<1> QED
    BY <1>1, <1>2, <1>3

\* Whatever the order in which threads ask, each gets its share of the loop
\* of the current region.
LEMMA SharesInvariance == LoopsFit => (Spec => []SharesInv)
<1> SUFFICES ASSUME LoopsFit PROVE Spec => []SharesInv
    OBVIOUS
<1>1. Init => SharesInv
    BY DEF Init, SharesInv
<1>2. ASSUME SharesInv, [Next]_vars PROVE SharesInv'
    <2> USE <1>2 DEF SharesInv
    <2>1. ASSUME NEW a \in Argcs, ForkCall(a) PROVE SharesInv'
        BY <2>1 DEF ForkCall, Threads
    <2>2. ASSUME SetTeam \/ Join PROVE SharesInv'
        BY <2>2 DEF SetTeam, Join, Threads
    <2>3. ASSUME NEW t \in Threads, Wrapper(t) PROVE SharesInv'
        BY <2>3 DEF Wrapper, Threads
    <2>4. ASSUME NEW t \in Threads, StaticInit4(t) PROVE SharesInv'
        <3>1. share' = [share EXCEPT ![t] = Share(loop, numThreads, t)]
            BY <2>4, StaticInitValue DEF StaticInit4
        <3> QED
            BY <2>4, <3>1 DEF StaticInit4, Threads
    <2>5. ASSUME NEW t \in Threads, StaticInit4u(t) PROVE SharesInv'
        <3>1. share' = [share EXCEPT ![t] = Share(loop, numThreads, t)]
            BY <2>5, UnsignedValue DEF StaticInit4u
        <3> QED
            BY <2>5, <3>1 DEF StaticInit4u, Threads
    <2>6. CASE UNCHANGED vars
        BY <2>6 DEF vars, Threads
    <2> QED
        BY <1>2, <2>1, <2>2, <2>3, <2>4, <2>5, <2>6 DEF Next
<1> QED
    BY <1>1, <1>2, PTL DEF Spec

\* Static scheduling divides the loop: no iteration is carried out twice or
\* left out, for every number of threads, every length of the loop and every
\* chunk that fit a word, signed and unsigned, also with fewer iterations
\* than threads.
THEOREM LoopShared == LoopsFit => (Spec => []SharesPartition)
<1> SUFFICES ASSUME LoopsFit PROVE Spec => []SharesPartition
    OBVIOUS
<1>1. ASSUME SharesInv PROVE SharesPartition
    <2> USE <1>1
    <2>1. numThreads \in Teams /\ loop \in Loops /\ Threads = 0 .. numThreads - 1
        BY DEF SharesInv, Threads
    <2>2. Iterations = 0 .. loop.upper
        <3>1. loop.lower = 0 /\ loop.incr = 1 /\ loop.upper \in Nat
            BY <2>1, LoopTypes
        <3>2. \A x \in Int : (x - 0) % 1 = 0
            OBVIOUS
        <3> QED
            BY <3>1, <3>2 DEF Iterations
    <2> DEFINE O(t) == Owned(loop, numThreads, t)
    <2>3. /\ \A t \in Threads : O(t) \subseteq Iterations
          /\ \A s, t \in Threads : s # t => O(s) \cap O(t) = {}
          /\ \A i \in Iterations : \E t \in Threads : i \in O(t)
        BY <2>1, <2>2, OwnedPartition
    <2>4. \A t \in Threads : Mine(t) = IF share[t] = <<>> THEN {} ELSE O(t)
        BY MineOwned
    <2> HIDE DEF O
    <2>5. AllShared => UNION {Mine(t) : t \in Threads} = Iterations
        BY <2>3, <2>4 DEF AllShared
    <2> QED
        BY <2>3, <2>4, <2>5 DEF SharesPartition
<1> QED
    BY <1>1, SharesInvariance, PTL

\* The flag for lastprivate variables is set for the thread that carries out
\* the last iteration, and for no other.
THEOREM LastFlag == LoopsFit => (Spec => []LastFlagRight)
<1> SUFFICES ASSUME LoopsFit PROVE Spec => []LastFlagRight
    OBVIOUS
<1>1. ASSUME SharesInv PROVE LastFlagRight
    <2> SUFFICES ASSUME NEW t \in Threads, share[t] # <<>>
                 PROVE  share[t].last <=> \E i \in Mine(t) : i + loop.incr > loop.upper
        BY DEF LastFlagRight
    <2> USE <1>1
    <2>1. numThreads \in Teams /\ loop \in Loops /\ t \in 0 .. numThreads - 1
        BY DEF SharesInv, Threads
    <2>2. loop.incr = 1 /\ loop.upper \in Nat
        BY <2>1, LoopTypes
    <2>3. Mine(t) = Owned(loop, numThreads, t) /\ share[t] = Share(loop, numThreads, t)
        BY MineOwned DEF SharesInv
    <2>4. /\ Owned(loop, numThreads, t) \subseteq 0 .. loop.upper
          /\ Share(loop, numThreads, t).last <=> loop.upper \in Owned(loop, numThreads, t)
        BY <2>1, OwnedPartition
    <2>5. \A i \in 0 .. loop.upper : i + 1 > loop.upper <=> i = loop.upper
        BY <2>2
    <2> QED
        BY <2>2, <2>3, <2>4, <2>5
<1> QED
    BY <1>1, SharesInvariance, PTL

-----------------------------------------------------------------------------
(* The microtask and its arguments.                                        *)

\* Numbers of arguments that a case of the switch is for and that fit the
\* block behind the function in its first word.
ArgsFit ==
    /\ KMP_FORK_MAX_NARGS \in Nat
    /\ \A a \in Argcs : a \in 0 .. MaxArgc /\ a < KMP_FORK_MAX_NARGS

\* The switch makes calls with at least the arguments of the fork, and reads
\* no word past the largest case, although it runs on from 8, 9, 10 and 11.
LEMMA CallsLongEnough ==
    ASSUME NEW a \in 0 .. MaxArgc
    PROVE  /\ Len(CallsWithArity(a)) \in Nat
           /\ \A k \in 1 .. Len(CallsWithArity(a)) : CallsWithArity(a)[k] \in a .. MaxArgc
<1> USE DEF MaxArgc
<1>1. ASSUME a \in (0 .. 7) \cup {MaxArgc} PROVE CallsWithArity(a) = <<a>>
    BY <1>1 DEF CallsWithArity
<1>2. ASSUME a \in 8 .. 11
      PROVE  /\ CallsWithArity(a) = [i \in 1 .. (MaxArgc - a + 1) |-> a + i - 1]
             /\ MaxArgc - a + 1 \in Nat
    BY <1>2 DEF CallsWithArity
<1>3. CASE a \in (0 .. 7) \cup {MaxArgc}
    BY <1>1, <1>3
<1>4. CASE a \in 8 .. 11
    <2>1. Len(CallsWithArity(a)) = MaxArgc - a + 1
        BY <1>2, <1>4
    <2>2. \A k \in 1 .. (MaxArgc - a + 1) : CallsWithArity(a)[k] = a + k - 1
        BY <1>2, <1>4
    <2> QED
        BY <1>2, <1>4, <2>1, <2>2
<1> QED
    BY <1>3, <1>4

\* Every call in the sequence s begins with the arguments of fork f.
BeginWith(s, f, n) ==
    \A k \in 1 .. Len(s) : n <= Len(s[k]) /\ \A i \in 1 .. n : s[k][i] = Arg(f, i)

\* The inductive invariant of the arguments: the block holds those of the
\* current fork until the next one, although the team's size is written
\* behind it.
ArgsInv ==
    /\ numThreads \in Teams
    /\ fork \in Nat
    /\ argc \in Argcs \cup {0}
    /\ pc \in {"idle", "team", "run"}
    /\ DOMAIN mem = Words /\ DOMAIN calls = Threads
    /\ pc # "idle" => argc \in Argcs /\ \A w \in 0 .. argc : mem[w] = Arg(fork, w)
    /\ pc = "run" => \A t \in Threads : BeginWith(calls[t], fork, argc)

\* Every call of the microtask, also those of the cases without break, gets
\* the arguments of its own fork, for every block and every number of
\* arguments that leave its first word to the function.
THEOREM ArgsArrive == ArgsFit => (Spec => []ArgsDelivered)
<1> SUFFICES ASSUME ArgsFit PROVE Spec => []ArgsDelivered
    OBVIOUS
<1>1. Init => ArgsInv
    BY DEF Init, ArgsInv
<1>2. ASSUME ArgsInv, [Next]_vars PROVE ArgsInv'
    <2> USE <1>2 DEF ArgsInv
    <2>1. ASSUME NEW a \in Argcs, ForkCall(a) PROVE ArgsInv'
        <3>1. a \in Nat /\ 0 .. a \subseteq Words /\ fork + 1 \in Nat
            BY DEF ArgsFit, Words, MaxArgc
        <3>2. /\ mem' = [w \in Words |-> IF w <= a THEN Arg(fork + 1, w) ELSE mem[w]]
              /\ fork' = fork + 1 /\ argc' = a /\ pc' = "team"
              /\ UNCHANGED <<numThreads, calls>>
            BY <2>1 DEF ForkCall, StoreArgs
        <3>3. \A w \in 0 .. a : mem'[w] = Arg(fork + 1, w)
            BY <3>1, <3>2
        <3> QED
            BY <3>1, <3>2, <3>3 DEF Threads, Arg
    <2>2. ASSUME SetTeam PROVE ArgsInv'
        <3>1. argc \in Argcs
            BY <2>2 DEF SetTeam
        <3>2. \A w \in 0 .. argc : w # NbThreads /\ w \in Words
            BY <3>1 DEF ArgsFit, NbThreads, Words, MaxArgc
        <3>3. /\ DOMAIN mem' = Words
              /\ \A w \in 0 .. argc : mem'[w] = mem[w]
            BY <2>2, <3>2 DEF SetTeam
        <3>4. /\ calls' = [t \in Threads |-> <<>>] /\ pc' = "run"
              /\ UNCHANGED <<numThreads, fork, argc>>
            BY <2>2 DEF SetTeam
        <3>5. \A t \in Threads' : BeginWith(calls'[t], fork', argc')
            BY <3>4 DEF Threads, BeginWith
        <3> QED
            BY <2>2, <3>1, <3>3, <3>4, <3>5 DEF SetTeam, Threads, Arg
    <2>3. ASSUME NEW t \in Threads, Wrapper(t) PROVE ArgsInv'
        <3> DEFINE arities == CallsWithArity(argc)
                   new == [k \in 1 .. Len(arities) |-> [i \in 1 .. arities[k] |-> mem[i]]]
        <3>1. /\ argc \in Argcs /\ argc \in 0 .. MaxArgc
              /\ \A w \in 0 .. argc : mem[w] = Arg(fork, w)
            BY <2>3 DEF Wrapper, ArgsFit
        <3>2. /\ Len(arities) \in Nat
              /\ \A k \in 1 .. Len(arities) : arities[k] \in argc .. MaxArgc
            BY <3>1, CallsLongEnough
        <3>3. BeginWith(new, fork, argc)
            <4> HIDE DEF arities
            <4>1. Len(new) = Len(arities)
                BY <3>2
            <4>2. ASSUME NEW k \in 1 .. Len(arities)
                  PROVE  argc <= Len(new[k]) /\ \A i \in 1 .. argc : new[k][i] = Arg(fork, i)
                <5>1. arities[k] \in Nat /\ argc <= arities[k] /\ argc \in Nat
                    BY <3>1, <3>2 DEF MaxArgc
                <5>2. new[k] = [i \in 1 .. arities[k] |-> mem[i]]
                    OBVIOUS
                <5>3. Len(new[k]) = arities[k]
                    BY <5>1, <5>2
                <5>4. \A i \in 1 .. argc : new[k][i] = mem[i] /\ mem[i] = Arg(fork, i)
                    BY <3>1, <5>1, <5>2
                <5> QED
                    BY <5>1, <5>3, <5>4
            <4> HIDE DEF new
            <4> QED
                BY <4>1, <4>2 DEF BeginWith
        <3>4. /\ calls' = [calls EXCEPT ![t] = new] /\ pc = "run"
              /\ UNCHANGED <<numThreads, mem, fork, argc, pc>>
            BY <2>3 DEF Wrapper
        <3> HIDE DEF new, arities
        <3>5. \A s \in Threads : BeginWith(calls'[s], fork, argc)
            BY <3>3, <3>4
        <3>6. DOMAIN calls' = Threads
            BY <3>4
        <3>7. \A s \in Threads' : BeginWith(calls'[s], fork', argc')
            BY <3>4, <3>5 DEF Threads
        <3> QED
            BY <3>1, <3>4, <3>6, <3>7 DEF Threads, Arg
    <2>4. ASSUME UNCHANGED <<numThreads, mem, fork, argc, calls>>,
                 pc' = "idle" \/ pc' = pc
          PROVE  ArgsInv'
        <3>1. Threads' = Threads
            BY <2>4 DEF Threads
        <3>2. pc' = "run" => \A t \in Threads : BeginWith(calls'[t], fork', argc')
            BY <2>4
        <3> QED
            BY <2>4, <3>1, <3>2 DEF Arg
    <2>5. ASSUME NEW t \in Threads, StaticInit4(t) \/ StaticInit4u(t) PROVE ArgsInv'
        BY <2>4, <2>5 DEF StaticInit4, StaticInit4u
    <2>6. ASSUME Join \/ UNCHANGED vars PROVE ArgsInv'
        BY <2>4, <2>6 DEF Join, vars
    <2> QED
        BY <1>2, <2>1, <2>2, <2>3, <2>5, <2>6 DEF Next
<1>3. ArgsInv => ArgsDelivered
    BY DEF ArgsInv, ArgsDelivered, BeginWith
<1> QED
    BY <1>1, <1>2, <1>3, PTL DEF Spec

=============================================================================
