---------------------------- MODULE LayersProofs ----------------------------
(***************************************************************************)
(* Proofs about the tiled layers, for every number of clusters, compute     *)
(* cores, rows, columns, channels and tiles.                                *)
(*                                                                         *)
(* The cores of a cluster share nothing but barriers, and each has its own  *)
(* copy of the buffer index.  A position of a program is therefore known    *)
(* by two numbers: its phase, the barriers before it, and its turn, the     *)
(* operations before it that toggle the index.  Aligned says of a compute   *)
(* core's program and the DM core's what these numbers have to be.          *)
(***************************************************************************)
EXTENDS Layers, FiniteSetTheorems, WellFoundedInduction, TLAPS

Syncs == {"barrier"}
Blocking == {"barrier", "global"}
Kernels == {"batchnorm", "maxpool", "gemm"}
Fills == {"load", "load_ofmap", "im2col"}
Stores == {"store_prev", "store_last"}
Toggling == Kernels \cup {"store_prev"}

IsSequence(s) == \E S : s \in Seq(S)

\* The operations of kind O before position i of s, and in all of s.
OpsBefore(s, i, O) == {j \in 1 .. i - 1 : s[j].op \in O}
Count(s, i, O) == Cardinality(OpsBefore(s, i, O))
Total(s, O) == Count(s, Len(s) + 1, O)

\* The position in s \o t of position j of t.
After(s, j) == Len(s) + j

Phase(s, i) == Count(s, i, Syncs)
Turn(s, i) == Count(s, i, Toggling)

----------------------------------------------------------------------------
(* Sequences.                                                              *)

\* What is used of sequences: their domain, and where the elements of a
\* concatenation are.
LEMMA SequenceFacts ==
    ASSUME NEW s, IsSequence(s)
    PROVE  Len(s) \in Nat /\ DOMAIN s = 1 .. Len(s) /\ s = [i \in 1 .. Len(s) |-> s[i]]
<1>1. PICK S : s \in Seq(S)
    BY DEF IsSequence
<1> QED
    BY <1>1

\* The elements of a concatenation are those of its parts.
LEMMA ConcatFacts ==
    ASSUME NEW s, NEW t, IsSequence(s), IsSequence(t)
    PROVE  /\ IsSequence(s \o t)
           /\ Len(s) \in Nat /\ Len(t) \in Nat
           /\ Len(s \o t) = Len(s) + Len(t)
           /\ \A i \in 1 .. Len(s) : (s \o t)[i] = s[i]
           /\ \A j \in 1 .. Len(t) : (s \o t)[Len(s) + j] = t[j]
           /\ \A i \in 1 .. Len(s \o t) :
                  i \in 1 .. Len(s) \/ \E j \in 1 .. Len(t) : i = Len(s) + j
<1>1. PICK S : s \in Seq(S)
    BY DEF IsSequence
<1>2. PICK T : t \in Seq(T)
    BY DEF IsSequence
<1>3. s \in Seq(S \cup T) /\ t \in Seq(S \cup T)
    BY <1>1, <1>2
<1>4. /\ s \o t \in Seq(S \cup T)
      /\ Len(s) \in Nat /\ Len(t) \in Nat
      /\ Len(s \o t) = Len(s) + Len(t)
      /\ \A i \in 1 .. Len(s) : (s \o t)[i] = s[i]
      /\ \A j \in 1 .. Len(t) : (s \o t)[Len(s) + j] = t[j]
    BY <1>3
<1>5. \A i \in 1 .. Len(s \o t) :
          i \in 1 .. Len(s) \/ \E j \in 1 .. Len(t) : i = Len(s) + j
    <2> TAKE i \in 1 .. Len(s \o t)
    <2> SUFFICES ASSUME i \notin 1 .. Len(s) PROVE \E j \in 1 .. Len(t) : i = Len(s) + j
        OBVIOUS
    <2>1. i - Len(s) \in 1 .. Len(t) /\ i = Len(s) + (i - Len(s))
        BY <1>4
    <2> QED
        BY <2>1
<1> QED
    BY <1>4, <1>5 DEF IsSequence

\* Concatenation is associative, and the empty sequence changes nothing.
LEMMA ConcatAssoc ==
    ASSUME NEW s, NEW t, NEW u, IsSequence(s), IsSequence(t), IsSequence(u)
    PROVE  (s \o t) \o u = s \o (t \o u)
<1>1. PICK S : s \in Seq(S)
    BY DEF IsSequence
<1>2. PICK T : t \in Seq(T)
    BY DEF IsSequence
<1>3. PICK U : u \in Seq(U)
    BY DEF IsSequence
<1> DEFINE V == S \cup T \cup U
<1>4. s \in Seq(V) /\ t \in Seq(V) /\ u \in Seq(V)
    BY <1>1, <1>2, <1>3
<1> HIDE DEF V
<1> QED
    BY <1>4

\* Nothing before or after a sequence.
LEMMA ConcatEmpty ==
    ASSUME NEW s, IsSequence(s)
    PROVE  s \o << >> = s /\ << >> \o s = s
<1>1. PICK S : s \in Seq(S)
    BY DEF IsSequence
<1> QED
    BY <1>1

\* The empty program part.
LEMMA EmptySequence == IsSequence(<< >>) /\ Len(<< >>) = 0
<1>1. << >> \in Seq({})
    OBVIOUS
<1> QED
    BY <1>1 DEF IsSequence

\* A single operation.
LEMMA OpSequence ==
    ASSUME NEW o, NEW it
    PROVE  IsSequence(Op(o, it)) /\ Len(Op(o, it)) = 1 /\ Op(o, it)[1].op = o
<1> DEFINE r == [op |-> o, it |-> it]
<1>1. r.op = o
    OBVIOUS
<1> HIDE DEF r
<1>2. <<r>> \in Seq({r}) /\ Len(<<r>>) = 1 /\ <<r>>[1] = r
    OBVIOUS
<1>3. Op(o, it) = <<r>>
    BY DEF Op, r
<1> QED
    BY <1>1, <1>2, <1>3 DEF IsSequence

\* A function on 1 .. n is a sequence.
LEMMA FunctionSequence ==
    ASSUME NEW n \in Nat, NEW f, f = [i \in 1 .. n |-> f[i]]
    PROVE  IsSequence(f) /\ Len(f) = n
<1> DEFINE S == {f[i] : i \in 1 .. n}
<1>1. f \in [1 .. n -> S]
    OBVIOUS
<1> HIDE DEF S
<1>2. f \in Seq(S) /\ Len(f) = n
    BY <1>1
<1> QED
    BY <1>2 DEF IsSequence

----------------------------------------------------------------------------
(* Counting operations.                                                    *)

\* Counts are natural numbers.
LEMMA CountFinite ==
    ASSUME NEW s, NEW i \in Nat, NEW O
    PROVE  IsFiniteSet(OpsBefore(s, i, O)) /\ Count(s, i, O) \in Nat
<1>1. IsFiniteSet(1 .. i - 1)
    BY FS_Interval
<1>2. OpsBefore(s, i, O) \subseteq 1 .. i - 1
    BY DEF OpsBefore
<1>3. IsFiniteSet(OpsBefore(s, i, O))
    BY <1>1, <1>2, FS_Subset
<1> QED
    BY <1>3, FS_CardinalityType DEF Count

\* Nothing lies before the first position.
LEMMA CountStart == \A s, O : Count(s, 1, O) = 0
<1> TAKE s, O
<1>1. OpsBefore(s, 1, O) = {}
    BY DEF OpsBefore
<1> QED
    BY <1>1, FS_EmptySet DEF Count

\* One position on, one operation more is behind.
LEMMA CountStep ==
    ASSUME NEW s, NEW i \in Nat \ {0}, NEW O
    PROVE  Count(s, i + 1, O) = Count(s, i, O) + IF s[i].op \in O THEN 1 ELSE 0
<1> DEFINE S == OpsBefore(s, i, O)
           T == OpsBefore(s, i + 1, O)
<1>1. IsFiniteSet(S) /\ Count(s, i, O) = Cardinality(S) /\ Count(s, i + 1, O) = Cardinality(T)
    BY CountFinite DEF Count
<1>2. i \notin S /\ T = IF s[i].op \in O THEN S \cup {i} ELSE S
    BY DEF OpsBefore
<1>3. Cardinality(S) \in Nat
    BY <1>1, FS_CardinalityType
<1> HIDE DEF S, T
<1>4. Cardinality(S \cup {i}) = Cardinality(S) + 1
    BY <1>1, <1>2, FS_AddElement
<1> QED
    BY <1>1, <1>2, <1>3, <1>4

\* Counts grow along a sequence.
LEMMA CountMonotone ==
    ASSUME NEW s, NEW i \in Nat, NEW k \in Nat, i <= k, NEW O
    PROVE  Count(s, i, O) <= Count(s, k, O)
<1>1. OpsBefore(s, i, O) \subseteq OpsBefore(s, k, O)
    BY DEF OpsBefore
<1> QED
    BY <1>1, CountFinite, FS_Subset DEF Count

\* Counts in either part of a concatenation.
LEMMA CountConcat ==
    ASSUME NEW s, NEW t, IsSequence(s), IsSequence(t), NEW O
    PROVE  /\ \A i \in 1 .. Len(s) + 1 : Count(s \o t, i, O) = Count(s, i, O)
           /\ \A j \in 1 .. Len(t) + 1 : Count(s \o t, Len(s) + j, O) = Total(s, O) + Count(t, j, O)
           /\ Total(s \o t, O) = Total(s, O) + Total(t, O)
<1> USE ConcatFacts
<1>1. ASSUME NEW i \in 1 .. Len(s) + 1
      PROVE  Count(s \o t, i, O) = Count(s, i, O)
    <2>1. \A j \in 1 .. i - 1 : (s \o t)[j] = s[j]
        OBVIOUS
    <2>2. OpsBefore(s \o t, i, O) = OpsBefore(s, i, O)
        BY <2>1 DEF OpsBefore
    <2> QED
        BY <2>2 DEF Count
<1>2. ASSUME NEW j \in 1 .. Len(t) + 1
      PROVE  Count(s \o t, Len(s) + j, O) = Total(s, O) + Count(t, j, O)
    <2> DEFINE A == OpsBefore(s, Len(s) + 1, O)
               B == OpsBefore(t, j, O)
               f == [k \in B |-> Len(s) + k]
               C == {Len(s) + k : k \in B}
               D == OpsBefore(s \o t, Len(s) + j, O)
    <2>0. /\ B \subseteq 1 .. j - 1 /\ A \subseteq 1 .. Len(s)
          /\ Len(s) \in Nat /\ Len(s) + 1 \in Nat /\ j \in Nat
        BY DEF OpsBefore
    <2>1. /\ IsFiniteSet(A) /\ IsFiniteSet(B)
          /\ Cardinality(A) = Total(s, O) /\ Cardinality(B) = Count(t, j, O)
        BY <2>0, CountFinite DEF Count, Total
    <2>2. f \in Bijection(B, C)
        <3> HIDE DEF B
        <3>1. /\ DOMAIN f = B /\ f \in [B -> C]
              /\ \A k \in B : k \in Nat /\ f[k] = Len(s) + k
            BY <2>0
        <3>2. \A a, b \in B : f[a] = f[b] => a = b
            BY <2>0, <3>1
        <3>3. \A c \in C : \E k \in B : f[k] = c
            BY <3>1
        <3> HIDE DEF f, C
        <3> QED
            BY <3>1, <3>2, <3>3 DEF Bijection, Injection, Surjection, IsInjective
    <2>3. IsFiniteSet(C) /\ Cardinality(C) = Cardinality(B)
        <3> HIDE DEF B, C, f
        <3> QED
            BY <2>1, <2>2, FS_Bijection DEF ExistsBijection
    <2>4. A \cap C = {}
        <3> HIDE DEF A, B
        <3> QED
            BY <2>0
    <2>5. D = A \cup C
        <3>1. A \subseteq D
            BY DEF OpsBefore
        <3>2. C \subseteq D
            BY DEF OpsBefore
        <3>3. ASSUME NEW k \in D PROVE k \in A \cup C
            <4>1. CASE k \in 1 .. Len(s)
                BY <4>1 DEF OpsBefore
            <4>2. CASE k \notin 1 .. Len(s)
                <5>1. k - Len(s) \in 1 .. j - 1 /\ k - Len(s) \in 1 .. Len(t) /\ k = Len(s) + (k - Len(s))
                    BY <4>2 DEF OpsBefore
                <5>2. (s \o t)[k] = t[k - Len(s)]
                    BY <5>1
                <5>3. k - Len(s) \in B
                    BY <5>1, <5>2 DEF OpsBefore
                <5> HIDE DEF B
                <5> QED
                    BY <5>1, <5>3
            <4> QED
                BY <4>1, <4>2
        <3> QED
            BY <3>1, <3>2, <3>3
    <2>6. Cardinality(D) = Cardinality(A) + Cardinality(C)
        <3> HIDE DEF A, C, D
        <3>1. Cardinality(A \cap C) = 0
            BY <2>4, FS_EmptySet
        <3>2. Cardinality(A) \in Nat /\ Cardinality(C) \in Nat
            BY <2>1, <2>3, FS_CardinalityType
        <3>3. Cardinality(A \cup C) = Cardinality(A) + Cardinality(C) - Cardinality(A \cap C)
            BY <2>1, <2>3, FS_Union
        <3> QED
            BY <2>5, <3>1, <3>2, <3>3
    <2> QED
        BY <2>1, <2>3, <2>6 DEF Count
<1>3. Total(s \o t, O) = Total(s, O) + Total(t, O)
    <2>1. Len(s \o t) + 1 = Len(s) + (Len(t) + 1)
        OBVIOUS
    <2> QED
        BY <1>2, <2>1 DEF Total
<1> QED
    BY <1>1, <1>2, <1>3

\* Phases and turns of the positions in either part of s \o t.
Joins(s, t) ==
    /\ Total(s, Syncs) \in Nat /\ Total(t, Syncs) \in Nat
    /\ Total(s, Toggling) \in Nat /\ Total(t, Toggling) \in Nat
    /\ Total(s \o t, Syncs) = Total(s, Syncs) + Total(t, Syncs)
    /\ Total(s \o t, Toggling) = Total(s, Toggling) + Total(t, Toggling)
    /\ \A i \in 1 .. Len(s) :
          /\ (s \o t)[i] = s[i]
          /\ Phase(s \o t, i) = Phase(s, i) /\ Turn(s \o t, i) = Turn(s, i)
          /\ Phase(s, i) \in Nat /\ Turn(s, i) \in Nat /\ Phase(s, i) <= Total(s, Syncs)
          /\ s[i].op \in Syncs => Phase(s, i) < Total(s, Syncs)
    /\ \A j \in 1 .. Len(t) :
          /\ (s \o t)[After(s, j)] = t[j]
          /\ Phase(s \o t, After(s, j)) = Total(s, Syncs) + Phase(t, j)
          /\ Turn(s \o t, After(s, j)) = Total(s, Toggling) + Turn(t, j)
          /\ Phase(t, j) \in Nat /\ Turn(t, j) \in Nat

\* Joins holds of all sequences.
LEMMA Positions ==
    ASSUME NEW s, NEW t, IsSequence(s), IsSequence(t)
    PROVE  Joins(s, t)
<1>1. /\ Len(s) \in Nat /\ Len(t) \in Nat
      /\ \A i \in 1 .. Len(s) : (s \o t)[i] = s[i]
      /\ \A j \in 1 .. Len(t) : (s \o t)[Len(s) + j] = t[j]
    BY ConcatFacts
<1>2. /\ \A i \in 1 .. Len(s) + 1 : Count(s \o t, i, Syncs) = Count(s, i, Syncs)
      /\ \A j \in 1 .. Len(t) + 1 :
             Count(s \o t, Len(s) + j, Syncs) = Total(s, Syncs) + Count(t, j, Syncs)
      /\ Total(s \o t, Syncs) = Total(s, Syncs) + Total(t, Syncs)
    BY CountConcat
<1>3. /\ \A i \in 1 .. Len(s) + 1 : Count(s \o t, i, Toggling) = Count(s, i, Toggling)
      /\ \A j \in 1 .. Len(t) + 1 :
             Count(s \o t, Len(s) + j, Toggling) = Total(s, Toggling) + Count(t, j, Toggling)
      /\ Total(s \o t, Toggling) = Total(s, Toggling) + Total(t, Toggling)
    BY CountConcat
<1>4. \A x, O : \A i \in Nat : Count(x, i, O) \in Nat
    BY CountFinite
<1>5. /\ Total(s, Syncs) \in Nat /\ Total(t, Syncs) \in Nat
      /\ Total(s, Toggling) \in Nat /\ Total(t, Toggling) \in Nat
    BY <1>1, <1>4 DEF Total
<1>6. \A i \in 1 .. Len(s) : Count(s, i, Syncs) <= Total(s, Syncs)
    <2> TAKE i \in 1 .. Len(s)
    <2>1. i \in Nat /\ Len(s) + 1 \in Nat /\ i <= Len(s) + 1
        BY <1>1
    <2> QED
        BY <2>1, CountMonotone DEF Total
<1>7. ASSUME NEW i \in 1 .. Len(s)
      PROVE  /\ (s \o t)[i] = s[i]
             /\ Phase(s \o t, i) = Phase(s, i) /\ Turn(s \o t, i) = Turn(s, i)
             /\ Phase(s, i) \in Nat /\ Turn(s, i) \in Nat /\ Phase(s, i) <= Total(s, Syncs)
             /\ s[i].op \in Syncs => Phase(s, i) < Total(s, Syncs)
    <2>1. s[i].op \in Syncs => Phase(s, i) < Total(s, Syncs)
        <3>1. i \in Nat \ {0} /\ i + 1 \in Nat /\ Len(s) + 1 \in Nat /\ i + 1 <= Len(s) + 1
            BY <1>1
        <3>2. Count(s, i + 1, Syncs) = Count(s, i, Syncs) + IF s[i].op \in Syncs THEN 1 ELSE 0
            BY <3>1, CountStep
        <3>3. Count(s, i + 1, Syncs) <= Total(s, Syncs)
            BY <3>1, CountMonotone DEF Total
        <3> QED
            BY <1>4, <1>5, <3>1, <3>2, <3>3 DEF Phase
    <2> QED
        BY <1>1, <1>2, <1>3, <1>4, <1>6, <2>1 DEF Phase, Turn
<1>8. ASSUME NEW j \in 1 .. Len(t)
      PROVE  /\ (s \o t)[After(s, j)] = t[j]
             /\ Phase(s \o t, After(s, j)) = Total(s, Syncs) + Phase(t, j)
             /\ Turn(s \o t, After(s, j)) = Total(s, Toggling) + Turn(t, j)
             /\ Phase(t, j) \in Nat /\ Turn(t, j) \in Nat
    BY <1>1, <1>2, <1>3, <1>4 DEF Phase, Turn, After
<1> QED
    BY <1>2, <1>3, <1>5, <1>7, <1>8 DEF Joins

----------------------------------------------------------------------------
(* Programs that match.                                                    *)

\* s is the part of a compute core's program that goes with the part t of
\* the DM core's: they have the same barriers and toggle the buffer index as
\* often, and while s works on a half, t fills only the other and stores only
\* the other.  The rest is what putting parts one after the other needs.
Aligned(s, t) ==
    /\ IsSequence(s) /\ IsSequence(t)
    /\ Total(s, Syncs) = Total(t, Syncs)
    /\ Total(s, Toggling) = Total(t, Toggling)
    /\ Total(s, Syncs) = 0 => Total(s, Toggling) = 0
    /\ \A i \in 1 .. Len(s) : s[i].op \in Kernels =>
          /\ Phase(s, i) > 0
          /\ Phase(s, i) = Total(s, Syncs) => Turn(s, i) = Total(s, Toggling) - 1
          /\ \A j \in 1 .. Len(t) : Phase(t, j) = Phase(s, i) =>
                /\ t[j].op \in Fills => Turn(t, j) = Turn(s, i) + 1
                /\ t[j].op \in Stores => t[j].op = "store_prev" /\ Turn(t, j) = Turn(s, i)
    /\ \A j \in 1 .. Len(t) :
          /\ t[j].op \notin Kernels
          /\ Phase(t, j) = 0 => t[j].op \notin Stores /\ Turn(t, j) = 0

\* Parts that match can be put one after the other.
LEMMA AlignedConcat ==
    ASSUME NEW s, NEW t, NEW u, NEW v, Aligned(s, t), Aligned(u, v)
    PROVE  Aligned(s \o u, t \o v)
<1>1. /\ IsSequence(s) /\ IsSequence(t) /\ IsSequence(u) /\ IsSequence(v)
      /\ IsSequence(s \o u) /\ IsSequence(t \o v)
      /\ Len(s) \in Nat /\ Len(t) \in Nat
    BY ConcatFacts DEF Aligned
<1>0. Joins(s, u) /\ Joins(t, v)
    BY <1>1, Positions
<1>2. /\ Total(s \o u, Syncs) = Total(s, Syncs) + Total(u, Syncs)
      /\ Total(t \o v, Syncs) = Total(t, Syncs) + Total(v, Syncs)
      /\ Total(s \o u, Toggling) = Total(s, Toggling) + Total(u, Toggling)
      /\ Total(t \o v, Toggling) = Total(t, Toggling) + Total(v, Toggling)
      /\ \A x \in {s, t, u, v} : Total(x, Syncs) \in Nat /\ Total(x, Toggling) \in Nat
    BY <1>0 DEF Joins
<1>3. ASSUME NEW i \in 1 .. Len(s)
      PROVE  /\ (s \o u)[i] = s[i]
             /\ Phase(s \o u, i) = Phase(s, i) /\ Turn(s \o u, i) = Turn(s, i)
             /\ Phase(s, i) \in Nat /\ Turn(s, i) \in Nat /\ Phase(s, i) <= Total(s, Syncs)
             /\ s[i].op \in Syncs => Phase(s, i) < Total(s, Syncs)
    BY <1>0 DEF Joins
<1>4. ASSUME NEW i \in 1 .. Len(u)
      PROVE  /\ (s \o u)[After(s, i)] = u[i]
             /\ Phase(s \o u, After(s, i)) = Total(s, Syncs) + Phase(u, i)
             /\ Turn(s \o u, After(s, i)) = Total(s, Toggling) + Turn(u, i)
             /\ Phase(u, i) \in Nat /\ Turn(u, i) \in Nat
    BY <1>0 DEF Joins
<1>5. ASSUME NEW j \in 1 .. Len(t)
      PROVE  /\ (t \o v)[j] = t[j]
             /\ Phase(t \o v, j) = Phase(t, j) /\ Turn(t \o v, j) = Turn(t, j)
             /\ Phase(t, j) \in Nat /\ Turn(t, j) \in Nat /\ Phase(t, j) <= Total(t, Syncs)
             /\ t[j].op \in Syncs => Phase(t, j) < Total(t, Syncs)
    BY <1>0 DEF Joins
<1>6. ASSUME NEW j \in 1 .. Len(v)
      PROVE  /\ (t \o v)[After(t, j)] = v[j]
             /\ Phase(t \o v, After(t, j)) = Total(t, Syncs) + Phase(v, j)
             /\ Turn(t \o v, After(t, j)) = Total(t, Toggling) + Turn(v, j)
             /\ Phase(v, j) \in Nat /\ Turn(v, j) \in Nat
    BY <1>0 DEF Joins
<1>7. /\ Total(s \o u, Syncs) = Total(t \o v, Syncs)
      /\ Total(s \o u, Toggling) = Total(t \o v, Toggling)
      /\ Total(s \o u, Syncs) = 0 => Total(s \o u, Toggling) = 0
    BY <1>2 DEF Aligned
<1>8. \A j \in 1 .. Len(t \o v) :
          j \in 1 .. Len(t) \/ \E k \in 1 .. Len(v) : j = After(t, k)
    BY <1>1, ConcatFacts DEF After
<1>9. \A i \in 1 .. Len(s \o u) :
          i \in 1 .. Len(s) \/ \E k \in 1 .. Len(u) : i = After(s, k)
    BY <1>1, ConcatFacts DEF After
<1>10. ASSUME NEW j \in 1 .. Len(t \o v)
       PROVE  /\ (t \o v)[j].op \notin Kernels
              /\ Phase(t \o v, j) = 0 => (t \o v)[j].op \notin Stores /\ Turn(t \o v, j) = 0
    <2>1. CASE j \in 1 .. Len(t)
        BY <2>1, <1>5 DEF Aligned
    <2>2. ASSUME NEW k \in 1 .. Len(v), j = After(t, k)
          PROVE  /\ (t \o v)[j].op \notin Kernels
                 /\ Phase(t \o v, j) = 0 => (t \o v)[j].op \notin Stores /\ Turn(t \o v, j) = 0
        <3>1. /\ (t \o v)[j] = v[k]
              /\ Phase(t \o v, j) = Total(t, Syncs) + Phase(v, k)
              /\ Turn(t \o v, j) = Total(t, Toggling) + Turn(v, k)
              /\ Phase(v, k) \in Nat
            BY <2>2, <1>6
        <3>2. v[k].op \notin Kernels /\ (Phase(v, k) = 0 => v[k].op \notin Stores /\ Turn(v, k) = 0)
            BY DEF Aligned
        <3>3. Total(t, Syncs) = 0 => Total(t, Toggling) = 0
            BY DEF Aligned
        <3>4. PICK a \in Nat, b \in Nat : a = Total(t, Syncs) /\ b = Phase(v, k)
            BY <3>1, <1>2
        <3>5. Phase(t \o v, j) = 0 => a = 0 /\ b = 0
            BY <3>1, <3>4
        <3>6. Phase(t \o v, j) = 0 => Turn(t \o v, j) = 0 + 0
            BY <3>1, <3>2, <3>3, <3>4, <3>5
        <3> QED
            BY <3>1, <3>2, <3>4, <3>5, <3>6
    <2> QED
        BY <1>8, <2>1, <2>2
<1> DEFINE w == s \o u
           x == t \o v
           Good(i) ==
               /\ Phase(w, i) > 0
               /\ Phase(w, i) = Total(w, Syncs) => Turn(w, i) = Total(w, Toggling) - 1
               /\ \A j \in 1 .. Len(x) : Phase(x, j) = Phase(w, i) =>
                     /\ x[j].op \in Fills => Turn(x, j) = Turn(w, i) + 1
                     /\ x[j].op \in Stores => x[j].op = "store_prev" /\ Turn(x, j) = Turn(w, i)
<1>11. ASSUME NEW i \in 1 .. Len(s), s[i].op \in Kernels PROVE Good(i)
    <2>1. /\ Phase(w, i) > 0
          /\ Phase(w, i) = Total(w, Syncs) => Turn(w, i) = Total(w, Toggling) - 1
        BY <1>2, <1>3, <1>11 DEF Aligned
    <2>2. ASSUME NEW j \in 1 .. Len(t), Phase(x, j) = Phase(w, i)
          PROVE  /\ x[j].op \in Fills => Turn(x, j) = Turn(w, i) + 1
                 /\ x[j].op \in Stores => x[j].op = "store_prev" /\ Turn(x, j) = Turn(w, i)
        BY <2>2, <1>3, <1>5, <1>11 DEF Aligned
    <2>3. ASSUME NEW k \in 1 .. Len(v), NEW j, j = After(t, k), Phase(x, j) = Phase(w, i)
          PROVE  /\ x[j].op \in Fills => Turn(x, j) = Turn(w, i) + 1
                 /\ x[j].op \notin Stores
        <3>1. Phase(v, k) = 0 /\ Phase(s, i) = Total(s, Syncs)
            BY <2>3, <1>2, <1>3, <1>6 DEF Aligned
        <3>2. v[k].op \notin Stores /\ Turn(v, k) = 0 /\ Turn(s, i) = Total(s, Toggling) - 1
            BY <3>1, <1>11 DEF Aligned
        <3> QED
            <4>1. x[j] = v[k] /\ Turn(x, j) = Total(t, Toggling) + Turn(v, k)
                BY <2>3, <1>6
            <4>2. Turn(w, i) = Turn(s, i) /\ Total(s, Toggling) = Total(t, Toggling)
                BY <1>3 DEF Aligned
            <4> QED
                BY <3>2, <4>1, <4>2, <1>2
    <2> HIDE DEF w, x
    <2> QED
        BY <1>8, <2>1, <2>2, <2>3 DEF x
<1>12. ASSUME NEW k \in 1 .. Len(u), NEW i, i = After(s, k), u[k].op \in Kernels PROVE Good(i)
    <2>1. /\ Phase(w, i) > 0
          /\ Phase(w, i) = Total(w, Syncs) => Turn(w, i) = Total(w, Toggling) - 1
        BY <1>2, <1>4, <1>12 DEF Aligned
    <2>2. ASSUME NEW j \in 1 .. Len(t) PROVE Phase(x, j) # Phase(w, i)
        BY <1>2, <1>4, <1>5, <1>12 DEF Aligned
    <2>3. ASSUME NEW h \in 1 .. Len(v), NEW j, j = After(t, h), Phase(x, j) = Phase(w, i)
          PROVE  /\ x[j].op \in Fills => Turn(x, j) = Turn(w, i) + 1
                 /\ x[j].op \in Stores => x[j].op = "store_prev" /\ Turn(x, j) = Turn(w, i)
        <3>1. Phase(v, h) = Phase(u, k)
            BY <2>3, <1>2, <1>4, <1>6, <1>12 DEF Aligned
        <3>2. /\ v[h].op \in Fills => Turn(v, h) = Turn(u, k) + 1
              /\ v[h].op \in Stores => v[h].op = "store_prev" /\ Turn(v, h) = Turn(u, k)
            BY <3>1, <1>12 DEF Aligned
        <3> QED
            <4>1. x[j] = v[h] /\ Turn(x, j) = Total(t, Toggling) + Turn(v, h)
                BY <2>3, <1>6
            <4>2. Turn(w, i) = Total(s, Toggling) + Turn(u, k) /\ Turn(u, k) \in Nat
                BY <1>4, <1>12
            <4>3. Total(s, Toggling) = Total(t, Toggling) /\ Total(t, Toggling) \in Nat
                BY <1>2 DEF Aligned
            <4> HIDE DEF w, x
            <4> QED
                BY <3>2, <4>1, <4>2, <4>3
    <2> HIDE DEF w, x
    <2> QED
        BY <1>8, <2>1, <2>2, <2>3 DEF x
<1>13. ASSUME NEW i \in 1 .. Len(w), w[i].op \in Kernels PROVE Good(i)
    <2> HIDE DEF Good
    <2> QED
        BY <1>3, <1>4, <1>9, <1>11, <1>12, <1>13
<1> QED
    BY <1>1, <1>7, <1>10, <1>13 DEF Aligned

\* The counts of a sequence of one or two operations.
LEMMA ShortCounts ==
    ASSUME NEW s, IsSequence(s), NEW O
    PROVE  /\ Len(s) = 0 => Total(s, O) = 0
           /\ Count(s, 1, O) = 0
           /\ Count(s, 2, O) = IF s[1].op \in O THEN 1 ELSE 0
           /\ Len(s) = 1 => Total(s, O) = IF s[1].op \in O THEN 1 ELSE 0
           /\ Len(s) = 2 => Total(s, O) = (IF s[1].op \in O THEN 1 ELSE 0)
                                           + (IF s[2].op \in O THEN 1 ELSE 0)
<1>1. Count(s, 1, O) = 0
    BY CountStart
<1>2. Count(s, 1 + 1, O) = Count(s, 1, O) + IF s[1].op \in O THEN 1 ELSE 0
    BY CountStep
<1>3. Count(s, 2 + 1, O) = Count(s, 2, O) + IF s[2].op \in O THEN 1 ELSE 0
    BY CountStep
<1>4. Count(s, 2, O) = IF s[1].op \in O THEN 1 ELSE 0
    BY <1>1, <1>2
<1>5. Count(s, 3, O) = (IF s[1].op \in O THEN 1 ELSE 0) + (IF s[2].op \in O THEN 1 ELSE 0)
    BY <1>3, <1>4
<1>6. /\ Len(s) = 0 => Len(s) + 1 = 1
      /\ Len(s) = 1 => Len(s) + 1 = 2
      /\ Len(s) = 2 => Len(s) + 1 = 3
    <2>1. PICK n \in Nat : n = Len(s)
        BY SequenceFacts
    <2>2. (n = 0 => n + 1 = 1) /\ (n = 1 => n + 1 = 2) /\ (n = 2 => n + 1 = 3)
        OBVIOUS
    <2> QED
        BY <2>1, <2>2
<1> QED
    BY <1>1, <1>4, <1>5, <1>6 DEF Total

\* An operation that neither is a barrier, nor toggles, nor stores, may
\* stand anywhere, also opposite of nothing.
LEMMA AlignedNothing == Aligned(<< >>, << >>)
<1>1. IsSequence(<< >>) /\ Len(<< >>) = 0
    BY EmptySequence
<1>2. Total(<< >>, Syncs) = 0 /\ Total(<< >>, Toggling) = 0
    BY <1>1, ShortCounts
<1>3. 1 .. 0 = {}
    OBVIOUS
<1> QED
    BY <1>1, <1>2, <1>3 DEF Aligned

\* An operation that does not matter here, opposite of nothing.
LEMMA AlignedPlain ==
    ASSUME NEW o, NEW it, o \notin Syncs, o \notin Toggling, o \notin Stores
    PROVE  Aligned(Op(o, it), << >>) /\ Aligned(<< >>, Op(o, it))
<1> DEFINE s == Op(o, it)
           e == << >>
<1>1. IsSequence(s) /\ Len(s) = 1 /\ s[1].op = o
    BY OpSequence
<1>2. IsSequence(e) /\ Len(e) = 0
    BY EmptySequence
<1> HIDE DEF s, e
<1>3. Total(s, Syncs) = 0 /\ Total(s, Toggling) = 0 /\ Total(e, Syncs) = 0 /\ Total(e, Toggling) = 0
    BY <1>1, <1>2, ShortCounts
<1>4. Phase(s, 1) = 0 /\ Turn(s, 1) = 0
    BY CountStart DEF Phase, Turn
<1>5. 1 .. 0 = {} /\ 1 .. 1 = {1}
    OBVIOUS
<1>6. o \notin Kernels
    BY DEF Toggling
<1>7. Aligned(s, e)
    BY <1>1, <1>2, <1>3, <1>4, <1>5, <1>6 DEF Aligned
<1>8. Aligned(e, s)
    BY <1>1, <1>2, <1>3, <1>4, <1>5, <1>6 DEF Aligned
<1> QED
    BY <1>7, <1>8 DEF s, e

\* The same barrier on both sides.
LEMMA AlignedSync ==
    ASSUME NEW o \in Syncs, NEW it
    PROVE  Aligned(Op(o, it), Op(o, it))
<1> DEFINE s == Op(o, it)
<1>1. IsSequence(s) /\ Len(s) = 1 /\ s[1].op = o
    BY OpSequence
<1> HIDE DEF s
<1>2. o \notin Toggling /\ o \notin Kernels /\ o \notin Stores
    BY DEF Syncs, Toggling, Kernels, Stores
<1>3. Total(s, Syncs) = 1 /\ Total(s, Toggling) = 0
    BY <1>1, <1>2, ShortCounts
<1>4. Phase(s, 1) = 0 /\ Turn(s, 1) = 0
    BY CountStart DEF Phase, Turn
<1>5. 1 .. 1 = {1}
    OBVIOUS
<1>6. Aligned(s, s)
    BY <1>1, <1>2, <1>3, <1>4, <1>5 DEF Aligned
<1> QED
    BY <1>6 DEF s

\* A part of two operations.
LEMMA TwoOperations ==
    ASSUME NEW s, NEW t, IsSequence(s), IsSequence(t)
    PROVE  Len(s) = 1 /\ Len(t) = 1 =>
               /\ IsSequence(s \o t) /\ Len(s \o t) = 2
               /\ (s \o t)[1] = s[1] /\ (s \o t)[2] = t[1]
<1>1. /\ IsSequence(s \o t)
      /\ Len(s \o t) = Len(s) + Len(t)
      /\ \A i \in 1 .. Len(s) : (s \o t)[i] = s[i]
      /\ \A j \in 1 .. Len(t) : (s \o t)[Len(s) + j] = t[j]
    BY ConcatFacts
<1> HAVE Len(s) = 1 /\ Len(t) = 1
<1>2. \A i \in 1 .. 1 : (s \o t)[i] = s[i] /\ (s \o t)[1 + i] = t[i]
    BY <1>1
<1>3. 1 \in 1 .. 1 /\ 1 + 1 = 2
    OBVIOUS
<1>4. Len(s \o t) = 1 + 1
    BY <1>1
<1> QED
    BY <1>1, <1>2, <1>3, <1>4

\* A barrier, then an operation.
LEMMA BarrierThen ==
    ASSUME NEW o, NEW it
    PROVE  LET s == Barrier \o Op(o, it)
           IN  /\ IsSequence(s) /\ Len(s) = 2 /\ s[1].op = "barrier" /\ s[2].op = o
               /\ Phase(s, 1) = 0 /\ Turn(s, 1) = 0
               /\ Phase(s, 2) = 1 /\ Turn(s, 2) = 0
               /\ Total(s, Syncs) = 1 + IF o \in Syncs THEN 1 ELSE 0
               /\ Total(s, Toggling) = IF o \in Toggling THEN 1 ELSE 0
<1> DEFINE b == Op("barrier", NoTile)
           p == Op(o, it)
           s == b \o p
<1>1. /\ IsSequence(b) /\ Len(b) = 1 /\ b[1].op = "barrier"
      /\ IsSequence(p) /\ Len(p) = 1 /\ p[1].op = o
    BY OpSequence
<1> HIDE DEF b, p
<1>2. IsSequence(s) /\ Len(s) = 2 /\ s[1] = b[1] /\ s[2] = p[1]
    BY <1>1, TwoOperations
<1>3. IsSequence(s) /\ Len(s) = 2 /\ s[1].op = "barrier" /\ s[2].op = o
    BY <1>1, <1>2
<1> HIDE DEF s
<1>4. "barrier" \in Syncs /\ "barrier" \notin Toggling
    BY DEF Syncs, Toggling, Kernels
<1>5. /\ Phase(s, 1) = 0 /\ Turn(s, 1) = 0
      /\ Phase(s, 2) = 1 /\ Turn(s, 2) = 0
    BY <1>3, <1>4, ShortCounts DEF Phase, Turn
<1>6. /\ Total(s, Syncs) = 1 + IF o \in Syncs THEN 1 ELSE 0
      /\ Total(s, Toggling) = IF o \in Toggling THEN 1 ELSE 0
    BY <1>3, <1>4, ShortCounts
<1> QED
    BY <1>3, <1>5, <1>6 DEF s, b, p, Barrier

\* A kernel may stand opposite of the store of the previous tile, if a
\* barrier is before both.
LEMMA AlignedKernel ==
    ASSUME NEW o \in Kernels, NEW x, NEW y
    PROVE  Aligned(Barrier \o Op(o, x), Barrier \o Op("store_prev", y))
<1> DEFINE s == Barrier \o Op(o, x)
           t == Barrier \o Op("store_prev", y)
<1>1. /\ IsSequence(s) /\ Len(s) = 2 /\ s[1].op = "barrier" /\ s[2].op = o
      /\ Phase(s, 1) = 0 /\ Turn(s, 1) = 0
      /\ Phase(s, 2) = 1 /\ Turn(s, 2) = 0
      /\ Total(s, Syncs) = 1 + IF o \in Syncs THEN 1 ELSE 0
      /\ Total(s, Toggling) = IF o \in Toggling THEN 1 ELSE 0
    BY BarrierThen
<1>2. /\ IsSequence(t) /\ Len(t) = 2 /\ t[1].op = "barrier" /\ t[2].op = "store_prev"
      /\ Phase(t, 1) = 0 /\ Turn(t, 1) = 0
      /\ Phase(t, 2) = 1 /\ Turn(t, 2) = 0
      /\ Total(t, Syncs) = 1 + IF "store_prev" \in Syncs THEN 1 ELSE 0
      /\ Total(t, Toggling) = IF "store_prev" \in Toggling THEN 1 ELSE 0
    BY BarrierThen
<1> HIDE DEF s, t
<1>3. /\ o \notin Syncs /\ o \in Toggling
      /\ "store_prev" \notin Syncs /\ "store_prev" \in Toggling
      /\ "barrier" \notin Kernels /\ "store_prev" \notin Kernels
      /\ "barrier" \notin Fills /\ "store_prev" \notin Fills /\ "barrier" \notin Stores
    BY DEF Syncs, Toggling, Kernels, Stores, Fills
<1>4. 1 .. 2 = {1, 2}
    OBVIOUS
<1>5. Aligned(s, t)
    BY <1>1, <1>2, <1>3, <1>4 DEF Aligned
<1> QED
    BY <1>5 DEF s, t

\* The last tile is stored behind a barrier.
LEMMA AlignedLast ==
    ASSUME NEW y
    PROVE  Aligned(Barrier, Barrier \o Op("store_last", y))
<1> DEFINE s == Op("barrier", NoTile)
           t == Barrier \o Op("store_last", y)
<1>1. IsSequence(s) /\ Len(s) = 1 /\ s[1].op = "barrier"
    BY OpSequence
<1>2. /\ IsSequence(t) /\ Len(t) = 2 /\ t[1].op = "barrier" /\ t[2].op = "store_last"
      /\ Phase(t, 1) = 0 /\ Turn(t, 1) = 0
      /\ Phase(t, 2) = 1 /\ Turn(t, 2) = 0
      /\ Total(t, Syncs) = 1 + IF "store_last" \in Syncs THEN 1 ELSE 0
      /\ Total(t, Toggling) = IF "store_last" \in Toggling THEN 1 ELSE 0
    BY BarrierThen
<1> HIDE DEF s, t
<1>3. /\ "barrier" \in Syncs /\ "barrier" \notin Toggling
      /\ "store_last" \notin Syncs /\ "store_last" \notin Toggling
      /\ "barrier" \notin Kernels /\ "store_last" \notin Kernels /\ "barrier" \notin Stores
    BY DEF Syncs, Toggling, Kernels, Stores
<1>4. Total(s, Syncs) = 1 /\ Total(s, Toggling) = 0
    BY <1>1, <1>3, ShortCounts
<1>5. 1 .. 2 = {1, 2} /\ 1 .. 1 = {1}
    OBVIOUS
<1>6. Aligned(s, t)
    BY <1>1, <1>2, <1>3, <1>4, <1>5 DEF Aligned
<1> QED
    BY <1>6 DEF s, t, Barrier

----------------------------------------------------------------------------
(* Loops.                                                                  *)

\* Induction over the natural numbers, for a set of them.
LEMMA SetInduction ==
    ASSUME NEW S, 0 \in S, \A k \in Nat : k \in S => k + 1 \in S
    PROVE  Nat \subseteq S
<1> SUFFICES ASSUME Nat \ S # {} PROVE FALSE
    OBVIOUS
<1> DEFINE R == OpToRel(<, Nat)
           T == Nat \ S
<1>1. IsWellFoundedOn(R, Nat)
    BY NatLessThanWellFounded
<1>2. \A x, y \in Nat : x < y => <<x, y>> \in R
    BY DEF OpToRel
<1>3. T \subseteq Nat /\ T # {}
    OBVIOUS
<1>4. PICK x \in T : \A y \in T : ~ (<<y, x>> \in R)
    <2> HIDE DEF R, T
    <2> QED
        BY <1>1, <1>3, WFMin
<1>5. x \in Nat /\ x # 0 /\ x - 1 \in Nat /\ x - 1 < x /\ x = (x - 1) + 1
    OBVIOUS
<1>6. x - 1 \notin T
    <2> HIDE DEF R, T
    <2> QED
        BY <1>2, <1>4, <1>5
<1> QED
    BY <1>5, <1>6

\* FlattenSeq(f) is put together from the left.
LEMMA FlattenSteps ==
    ASSUME NEW n \in Nat, NEW f, f = [i \in 1 .. n |-> f[i]]
    PROVE  \E h : /\ h[0] = << >>
                  /\ n # 0 => h[1] = f[1]
                  /\ \A i \in 1 .. n : i # 1 => h[i] = h[i - 1] \o f[i]
                  /\ FlattenSeq(f) = h[n]
<1> DEFINE Add(x, i) == x \o f[i]
           Rec(g, k) == g = [i \in 1 .. k |-> IF i = 1 THEN f[i] ELSE Add(g[i - 1], i)]
           S == {k \in Nat : \E g : Rec(g, k)}
<1>0. Len(f) = n
    BY FunctionSequence
<1> HIDE DEF Add
<1>1. 0 \in S
    <2> DEFINE g == [i \in 1 .. 0 |-> i]
    <2>1. Rec(g, 0)
        OBVIOUS
    <2> QED
        BY <2>1
<1>2. ASSUME NEW k \in Nat, k \in S PROVE k + 1 \in S
    <2>1. PICK g : Rec(g, k)
        BY <1>2
    <2> DEFINE e == [i \in 1 .. k + 1 |-> IF i <= k THEN g[i]
                                          ELSE IF i = 1 THEN f[i] ELSE Add(g[k], i)]
    <2>2. \A i \in 1 .. k : g[i] = IF i = 1 THEN f[i] ELSE Add(g[i - 1], i)
        BY <2>1
    <2>3. ASSUME NEW i \in 1 .. k + 1 PROVE e[i] = IF i = 1 THEN f[i] ELSE Add(e[i - 1], i)
        <3>1. CASE i <= k
            <4>1. e[i] = g[i] /\ i \in 1 .. k
                BY <3>1
            <4>2. i # 1 => e[i - 1] = g[i - 1]
                BY <3>1
            <4> HIDE DEF e
            <4> QED
                BY <2>2, <4>1, <4>2
        <3>2. CASE i = k + 1
            <4>1. e[i] = IF i = 1 THEN f[i] ELSE Add(g[k], i)
                BY <3>2
            <4>2. i # 1 => e[i - 1] = g[k] /\ i - 1 = k
                BY <3>2
            <4> HIDE DEF e
            <4> QED
                BY <4>1, <4>2
        <3> QED
            BY <3>1, <3>2
    <2>4. Rec(e, k + 1)
        <3>1. DOMAIN e = 1 .. k + 1 /\ e = [i \in 1 .. k + 1 |-> e[i]]
            OBVIOUS
        <3> HIDE DEF e
        <3> QED
            BY <2>3, <3>1
    <2> HIDE DEF e, Rec
    <2> QED
        BY <2>4
<1>3. PICK g : Rec(g, n)
    <2> HIDE DEF S
    <2>1. n \in S
        BY <1>1, <1>2, SetInduction
    <2> QED
        BY <2>1 DEF S
<1> DEFINE r == CHOOSE e : Rec(e, n)
<1>4. FlattenSeq(f) = IF n = 0 THEN f ELSE r[n]
    BY <1>0 DEF FlattenSeq, Add
<1>5. Rec(r, n)
    <2> HIDE DEF Rec
    <2> QED
        BY <1>3
<1> DEFINE h == [i \in 0 .. n |-> IF i = 0 THEN << >> ELSE r[i]]
<1>6. \A i \in 1 .. n : r[i] = IF i = 1 THEN f[i] ELSE Add(r[i - 1], i)
    <2> HIDE DEF r
    <2> QED
        BY <1>5
<1> HIDE DEF r
<1>7. h[0] = << >> /\ \A i \in 1 .. n : h[i] = r[i]
    OBVIOUS
<1>8. \A i \in 1 .. n : i # 1 => h[i] = h[i - 1] \o f[i]
    <2> SUFFICES ASSUME NEW i \in 1 .. n, i # 1 PROVE h[i] = Add(h[i - 1], i)
        BY DEF Add
    <2>1. i - 1 \in 1 .. n /\ h[i] = r[i] /\ h[i - 1] = r[i - 1]
        BY <1>7
    <2> HIDE DEF h
    <2> QED
        BY <1>6, <2>1
<1>9. n # 0 => h[1] = f[1]
    BY <1>6, <1>7
<1>10. FlattenSeq(f) = h[n]
    <2>1. CASE n = 0
        <3>1. f = << >>
            BY <1>0, <2>1
        <3> QED
            BY <1>4, <1>7, <2>1, <3>1
    <2>2. CASE n # 0
        BY <1>4, <1>7, <2>2
    <2> QED
        BY <2>1, <2>2
<1> HIDE DEF h
<1> QED
    BY <1>7, <1>8, <1>9, <1>10

\* Sequences without operations of kind O.
Without(s, O) == IsSequence(s) /\ \A i \in 1 .. Len(s) : s[i].op \notin O

\* Parts without O make a whole without O.
LEMMA WithoutConcat ==
    ASSUME NEW O, NEW s, NEW t, Without(s, O), Without(t, O)
    PROVE  Without(s \o t, O)
<1>1. IsSequence(s) /\ IsSequence(t)
    BY DEF Without
<1>2. /\ IsSequence(s \o t)
      /\ \A i \in 1 .. Len(s) : (s \o t)[i] = s[i]
      /\ \A j \in 1 .. Len(t) : (s \o t)[Len(s) + j] = t[j]
      /\ \A i \in 1 .. Len(s \o t) :
             i \in 1 .. Len(s) \/ \E j \in 1 .. Len(t) : i = Len(s) + j
    BY <1>1, ConcatFacts
<1> SUFFICES ASSUME NEW i \in 1 .. Len(s \o t) PROVE (s \o t)[i].op \notin O
    BY <1>2 DEF Without
<1>3. CASE i \in 1 .. Len(s)
    BY <1>2, <1>3 DEF Without
<1>4. ASSUME NEW j \in 1 .. Len(t), i = Len(s) + j PROVE (s \o t)[i].op \notin O
    <2>1. (s \o t)[i] = t[j]
        BY <1>2, <1>4
    <2> QED
        BY <2>1 DEF Without
<1> QED
    BY <1>2, <1>3, <1>4

\* Nothing has no operation of kind O.
LEMMA WithoutEmpty == \A O : Without(<< >>, O)
<1>1. 1 .. 0 = {}
    OBVIOUS
<1> QED
    BY <1>1, EmptySequence DEF Without

\* Nor has an operation of another kind.
LEMMA WithoutOp ==
    ASSUME NEW o, NEW it, NEW O, o \notin O, NEW b
    PROVE  Without(Op(o, it), O) /\ Without(When(b, Op(o, it)), O)
<1>1. 1 .. 1 = {1}
    OBVIOUS
<1>2. Without(Op(o, it), O)
    BY <1>1, OpSequence DEF Without
<1> QED
    BY <1>2, WithoutEmpty DEF When

\* Nor a loop whose bodies have none.
LEMMA FlattenWithout ==
    ASSUME NEW O, NEW n \in Nat, NEW f, f = [i \in 1 .. n |-> f[i]],
           \A i \in 1 .. n : Without(f[i], O)
    PROVE  Without(FlattenSeq(f), O)
<1>1. PICK h : /\ h[0] = << >>
               /\ n # 0 => h[1] = f[1]
               /\ \A i \in 1 .. n : i # 1 => h[i] = h[i - 1] \o f[i]
               /\ FlattenSeq(f) = h[n]
    BY FlattenSteps
<1> DEFINE S == {k \in Nat : k <= n => Without(h[k], O)}
<1>2. 0 \in S
    BY <1>1, WithoutEmpty
<1>3. ASSUME NEW k \in Nat, k \in S PROVE k + 1 \in S
    <2> SUFFICES ASSUME k + 1 <= n PROVE Without(h[k + 1], O)
        OBVIOUS
    <2>1. CASE k = 0
        BY <1>1, <2>1
    <2>2. CASE k # 0
        <3>1. Without(h[k], O) /\ Without(f[k + 1], O)
            BY <1>3
        <3>2. k + 1 \in 1 .. n /\ k + 1 # 1 /\ (k + 1) - 1 = k
            BY <2>2
        <3>3. h[k + 1] = h[(k + 1) - 1] \o f[k + 1]
            BY <1>1, <3>2, Zenon
        <3> QED
            BY <3>1, <3>2, <3>3, WithoutConcat
    <2> QED
        BY <2>1, <2>2
<1> HIDE DEF S
<1>4. n \in S
    BY <1>2, <1>3, SetInduction
<1> QED
    BY <1>1, <1>4 DEF S

\* Parts of programs that lie between two global barriers.
Matched(s, t) == Aligned(s, t) /\ Without(s, {"global"}) /\ Without(t, {"global"})

\* Matching parts one after the other match.
LEMMA MatchedConcat ==
    ASSUME NEW s, NEW t, NEW u, NEW v, Matched(s, t), Matched(u, v)
    PROVE  Matched(s \o u, t \o v)
    BY AlignedConcat, WithoutConcat DEF Matched

\* Nothing matches nothing.
LEMMA MatchedNothing == Matched(<< >>, << >>)
    BY AlignedNothing, WithoutEmpty DEF Matched

\* An operation that does not matter here matches nothing.
LEMMA MatchedPlain ==
    ASSUME NEW o, NEW it, o \notin Blocking, o \notin Toggling, o \notin Stores
    PROVE  Matched(Op(o, it), << >>) /\ Matched(<< >>, Op(o, it))
<1>1. o \notin {"global"} /\ o \notin Syncs
    BY DEF Syncs, Blocking
<1>2. Without(Op(o, it), {"global"})
    BY <1>1, WithoutOp
<1> QED
    BY <1>1, <1>2, AlignedPlain, WithoutEmpty DEF Matched

\* The operations of the base cases.
LEMMA NotGlobal ==
    ASSUME NEW o, NEW it, o # "global"
    PROVE  /\ Without(Op(o, it), {"global"}) /\ Without(Barrier, {"global"})
           /\ Without(Barrier \o Op(o, it), {"global"})
<1>1. o \notin {"global"} /\ "barrier" \notin {"global"}
    OBVIOUS
<1>2. Without(Op(o, it), {"global"}) /\ Without(Barrier, {"global"})
    BY <1>1, WithoutOp DEF Barrier
<1> QED
    BY <1>2, WithoutConcat

\* A compute core's kernel and the DM core's store of the tile before.
LEMMA MatchedKernel ==
    ASSUME NEW o \in Kernels, NEW x, NEW y
    PROVE  Matched(Barrier \o Op(o, x), Barrier \o Op("store_prev", y))
<1>1. o # "global" /\ "store_prev" # "global"
    BY DEF Kernels
<1> QED
    BY <1>1, AlignedKernel, NotGlobal DEF Matched

\* The store of the last tile follows a barrier of its own.
LEMMA MatchedLast ==
    ASSUME NEW y
    PROVE  Matched(Barrier, Barrier \o Op("store_last", y))
<1>1. "store_last" # "global"
    OBVIOUS
<1> QED
    BY <1>1, AlignedLast, NotGlobal DEF Matched

\* A loop whose bodies match does.
LEMMA FlattenMatched ==
    ASSUME NEW n \in Nat, NEW f, NEW g, f = [i \in 1 .. n |-> f[i]], g = [i \in 1 .. n |-> g[i]],
           \A i \in 1 .. n : Matched(f[i], g[i])
    PROVE  Matched(FlattenSeq(f), FlattenSeq(g))
<1>1. PICK h : /\ h[0] = << >>
               /\ n # 0 => h[1] = f[1]
               /\ \A i \in 1 .. n : i # 1 => h[i] = h[i - 1] \o f[i]
               /\ FlattenSeq(f) = h[n]
    BY FlattenSteps
<1>2. PICK e : /\ e[0] = << >>
               /\ n # 0 => e[1] = g[1]
               /\ \A i \in 1 .. n : i # 1 => e[i] = e[i - 1] \o g[i]
               /\ FlattenSeq(g) = e[n]
    BY FlattenSteps
<1> DEFINE S == {k \in Nat : k <= n => Matched(h[k], e[k])}
<1>3. 0 \in S
    BY <1>1, <1>2, MatchedNothing
<1>4. ASSUME NEW k \in Nat, k \in S PROVE k + 1 \in S
    <2> SUFFICES ASSUME k + 1 <= n PROVE Matched(h[k + 1], e[k + 1])
        OBVIOUS
    <2>1. CASE k = 0
        BY <1>1, <1>2, <2>1
    <2>2. CASE k # 0
        <3>1. Matched(h[k], e[k]) /\ Matched(f[k + 1], g[k + 1])
            BY <1>4
        <3>2. k + 1 \in 1 .. n /\ k + 1 # 1 /\ (k + 1) - 1 = k
            BY <2>2
        <3>3. h[k + 1] = h[(k + 1) - 1] \o f[k + 1] /\ e[k + 1] = e[(k + 1) - 1] \o g[k + 1]
            BY <1>1, <1>2, <3>2, Zenon
        <3> QED
            BY <3>1, <3>2, <3>3, MatchedConcat
    <2> QED
        BY <2>1, <2>2
<1> HIDE DEF S
<1>5. n \in S
    BY <1>3, <1>4, SetInduction
<1> QED
    BY <1>1, <1>2, <1>5 DEF S

\* The passes of a for loop.
LEMMA ForPasses ==
    ASSUME NEW from \in Int, NEW to \in Int, NEW by \in Nat \ {0}
    PROVE  \E n \in Nat : DOMAIN For(from, to, by) = 1 .. n
<1> DEFINE n == IF from < to THEN (to - from + by - 1) \div by ELSE 0
<1>1. from < to => to - from + by - 1 \in Nat
    OBVIOUS
<1>2. \A a \in Nat : a \div by \in Nat
    OBVIOUS
<1>3. n \in Nat
    BY <1>1, <1>2
<1>4. DOMAIN For(from, to, by) = 1 .. n
    BY DEF For
<1> QED
    BY <1>3, <1>4

----------------------------------------------------------------------------
(* The programs of the layers match.                                       *)

\* What may stand opposite of anything.
Plain(o) == o \notin Blocking /\ o \notin Toggling /\ o \notin Stores

\* The operations that neither synchronise, nor toggle, nor store.
LEMMA PlainOps ==
    \A o \in {"load_params", "load", "load_weights", "load_ofmap", "load_ifmap", "im2col",
               "await_consumed", "await_source", "copy_ifmap", "release_source", "set_flag",
               "clear_flags", "fetch", "compare", "load_biases", "start_weights", "zero_grads",
               "load_image", "load_target", "feedforward", "gradient", "accuracy",
               "training_step"} : Plain(o) /\ o # "global"
    BY DEF Plain, Blocking, Toggling, Kernels, Stores

\* Such an operation may be added, conditionally, on either side.
LEMMA MatchedMore ==
    ASSUME NEW s, NEW t, Matched(s, t), NEW o, Plain(o), NEW it, NEW b
    PROVE  /\ Matched(s, t \o Op(o, it)) /\ Matched(s, t \o When(b, Op(o, it)))
           /\ Matched(s \o Op(o, it), t) /\ Matched(s \o When(b, Op(o, it)), t)
<1> DEFINE p == Op(o, it)
<1>1. Matched(p, << >>) /\ Matched(<< >>, p)
    BY MatchedPlain DEF Plain
<1>2. s \o << >> = s /\ t \o << >> = t
    BY ConcatEmpty DEF Matched, Aligned
<1> HIDE DEF p
<1>3. Matched(s \o << >>, t \o p) /\ Matched(s \o p, t \o << >>)
    BY <1>1, MatchedConcat
<1>4. Matched(s, t \o p) /\ Matched(s \o p, t)
    BY <1>2, <1>3
<1>5. Matched(s, t \o When(b, p)) /\ Matched(s \o When(b, p), t)
    BY <1>2, <1>4 DEF When
<1> QED
    BY <1>4, <1>5 DEF p

\* And a barrier on both.
LEMMA MatchedBarrier ==
    ASSUME NEW s, NEW t, Matched(s, t)
    PROVE  Matched(s \o Barrier, t \o Barrier)
<1>1. Aligned(Barrier, Barrier)
    BY AlignedSync DEF Barrier, Syncs
<1>2. "barrier" # "global"
    OBVIOUS
<1>3. Matched(Barrier, Barrier)
    BY <1>1, <1>2, NotGlobal DEF Matched
<1> QED
    BY <1>3, MatchedConcat

\* One tile of conv2d_layer, with and without the hand-over.
LEMMA ConvTileMatched ==
    ASSUME NEW l, NEW c, NEW k, k # Dm(l), NEW it
    PROVE  Matched(ConvTile(l, c, k, it), ConvTile(l, c, Dm(l), it))
<1> DEFINE place == c % Quadrant(l)
           from_l3 == ~l.cluster2cluster \/ it.first \/ place = 0
           handed == Op("await_source", it) \o Op("copy_ifmap", it) \o Op("release_source", it)
           ifmap == IF from_l3 THEN Op("load_ifmap", it) ELSE handed
           w1 == l.cluster2cluster /\ place # Quadrant(l) - 1
           w2 == l.cluster2cluster
           t1 == Op("load_ofmap", it)
           t2 == t1 \o When(w1, Op("await_consumed", it))
           t3 == t2 \o ifmap
           t4 == t3 \o When(w2, Op("set_flag", it))
           t5 == t4 \o Op("im2col", it)
           last == Op("store_prev", it)
<1>1. /\ ConvTile(l, c, Dm(l), it) = t5 \o Barrier \o last
      /\ ConvTile(l, c, k, it) = Barrier \o Op("gemm", it)
    BY DEF ConvTile
<1>2. \A x, y : Matched(<< >>, Op("load_ofmap", x)) /\ Matched(<< >>, Op("load_ifmap", x))
               /\ Matched(<< >>, Op("await_source", x))
    BY PlainOps, MatchedPlain DEF Plain
<1> HIDE DEF from_l3, w1, w2
<1>3. Matched(<< >>, handed)
    BY <1>2, PlainOps, MatchedMore
<1>4. Matched(<< >>, ifmap)
    <2> HIDE DEF handed
    <2> QED
        BY <1>2, <1>3
<1>5. Matched(<< >>, t2)
    BY <1>2, PlainOps, MatchedMore
<1> HIDE DEF ifmap, t2
<1>6. Matched(<< >>, t3)
    <2>1. << >> \o << >> = << >>
        BY EmptySequence, ConcatEmpty
    <2> QED
        BY <1>4, <1>5, <2>1, MatchedConcat
<1> HIDE DEF t3
<1>7. Matched(<< >>, t4)
    BY <1>6, PlainOps, MatchedMore
<1> HIDE DEF t4
<1>8. Matched(<< >>, t5)
    BY <1>7, PlainOps, MatchedMore
<1> HIDE DEF t5
<1>9. Matched(Barrier \o Op("gemm", it), Barrier \o last)
    BY MatchedKernel DEF Kernels
<1>10. Matched(<< >> \o (Barrier \o Op("gemm", it)), t5 \o (Barrier \o last))
    BY <1>8, <1>9, MatchedConcat
<1>11. << >> \o (Barrier \o Op("gemm", it)) = Barrier \o Op("gemm", it)
    BY <1>9, ConcatEmpty DEF Matched
<1>12. t5 \o (Barrier \o last) = (t5 \o Barrier) \o last
    BY <1>8, ConcatAssoc, OpSequence DEF Matched, Barrier
<1> QED
    BY <1>1, <1>10, <1>11, <1>12

\* The last tile of a pass, behind its barrier.
LEMMA MatchedPassEnd ==
    ASSUME NEW s, NEW t, Matched(s, t), NEW y
    PROVE  Matched(s \o Barrier \o << >>, t \o Barrier \o Op("store_last", y))
<1>1. Matched(s \o Barrier, t \o (Barrier \o Op("store_last", y)))
    BY MatchedLast, MatchedConcat
<1>2. t \o (Barrier \o Op("store_last", y)) = (t \o Barrier) \o Op("store_last", y)
    BY ConcatAssoc, OpSequence DEF Matched, Barrier
<1>3. (s \o Barrier) \o << >> = s \o Barrier
    BY <1>1, ConcatEmpty DEF Matched
<1> QED
    BY <1>1, <1>2, <1>3

\* The loops of ConvProgram, from the inside.
TileAt(l, c, co, ci, ow, n) ==
    [co |-> co, ci |-> ci, ow |-> ow,
     oh |-> ((Quadrant(l) - 1) - (c % Quadrant(l)) + n) % l.OH, first |-> n = 0]

Column(l, c, k, co, ci, ow) ==
    When(l.cluster2cluster, Op("clear_flags", NoTile))
      \o Each(For(0, l.OH, 1), LAMBDA n : ConvTile(l, c, k, TileAt(l, c, co, ci, ow, n)))

Pass(l, c, k, co, ci) ==
    When(k = Dm(l), Op("load_weights", TileAt(l, c, co, ci, 0, 0)))
      \o Each(For(0, l.OW, l.num), LAMBDA ow : Column(l, c, k, co, ci, ow))
      \o Barrier \o When(k = Dm(l), Op("store_last", TileAt(l, c, co, ci, 0, 0)))

\* conv2d_layer as nested loops over the parts named above.
LEMMA ConvLoops ==
    ASSUME NEW l, NEW c, NEW k
    PROVE  ConvProgram(l, c, k) =
               Each(For(c * l.num, l.CO, l.clusters * l.num),
                    LAMBDA co : Each(For(0, l.CI, l.TILE_CI), LAMBDA ci : Pass(l, c, k, co, ci)))
    BY DEF ConvProgram, Pass, Column, TileAt, Each

\* The sizes of a convolution.
ConvFits(l) ==
    /\ l.num \in Nat \ {0} /\ l.clusters \in Nat \ {0} /\ l.TILE_CI \in Nat \ {0}
    /\ l.OH \in Nat /\ l.OW \in Nat /\ l.CI \in Nat /\ l.CO \in Nat

\* The loop over the rows of a column of tiles.
LEMMA ConvColumnMatched ==
    ASSUME NEW l, ConvFits(l), NEW c, NEW k, k # Dm(l), NEW co, NEW ci, NEW ow
    PROVE  Matched(Column(l, c, k, co, ci, ow), Column(l, c, Dm(l), co, ci, ow))
<1> DEFINE F == For(0, l.OH, 1)
           Tile(i) == TileAt(l, c, co, ci, ow, F[i])
           f == [i \in DOMAIN F |-> ConvTile(l, c, k, Tile(i))]
           g == [i \in DOMAIN F |-> ConvTile(l, c, Dm(l), Tile(i))]
           b == l.cluster2cluster
           p == Op("clear_flags", NoTile)
<1>1. PICK n \in Nat : DOMAIN F = 1 .. n
    <2>1. 0 \in Int /\ l.OH \in Int /\ 1 \in Nat \ {0}
        BY DEF ConvFits
    <2> QED
        BY <2>1, ForPasses
<1>2. /\ Column(l, c, k, co, ci, ow) = When(b, p) \o FlattenSeq(f)
      /\ Column(l, c, Dm(l), co, ci, ow) = When(b, p) \o FlattenSeq(g)
    BY DEF Column, Each
<1> HIDE DEF F, Tile
<1>3. \A i \in 1 .. n : Matched(f[i], g[i])
    BY <1>1, ConvTileMatched
<1>4. f = [i \in 1 .. n |-> f[i]] /\ g = [i \in 1 .. n |-> g[i]]
    BY <1>1
<1> HIDE DEF f, g
<1>5. Matched(FlattenSeq(f), FlattenSeq(g))
    BY <1>3, <1>4, FlattenMatched
<1>6. Matched(When(b, p), When(b, p))
    <2>1. Matched(<< >> \o When(b, p), << >> \o When(b, p))
        <3>1. Matched(<< >> \o When(b, p), << >>)
            BY MatchedNothing, PlainOps, MatchedMore
        <3> QED
            BY <3>1, PlainOps, MatchedMore
    <2>2. IsSequence(When(b, p))
        BY OpSequence, EmptySequence DEF When
    <2> QED
        BY <2>1, <2>2, ConcatEmpty
<1> HIDE DEF b, p
<1> QED
    BY <1>2, <1>5, <1>6, MatchedConcat

\* One pass over the image, with the store of its last tile.
LEMMA ConvPassMatched ==
    ASSUME NEW l, ConvFits(l), NEW c, NEW k, k # Dm(l), NEW co, NEW ci
    PROVE  Matched(Pass(l, c, k, co, ci), Pass(l, c, Dm(l), co, ci))
<1> DEFINE F == For(0, l.OW, l.num)
           f == [i \in DOMAIN F |-> Column(l, c, k, co, ci, F[i])]
           g == [i \in DOMAIN F |-> Column(l, c, Dm(l), co, ci, F[i])]
           it == TileAt(l, c, co, ci, 0, 0)
           p == Op("load_weights", it)
<1>1. PICK n \in Nat : DOMAIN F = 1 .. n
    <2>1. 0 \in Int /\ l.OW \in Int /\ l.num \in Nat \ {0}
        BY DEF ConvFits
    <2> QED
        BY <2>1, ForPasses
<1>2. /\ Pass(l, c, k, co, ci) = ((<< >> \o FlattenSeq(f)) \o Barrier) \o << >>
      /\ Pass(l, c, Dm(l), co, ci) = ((p \o FlattenSeq(g)) \o Barrier) \o Op("store_last", it)
    BY DEF Pass, Each, When
<1> HIDE DEF F, it
<1>3. \A i \in 1 .. n : Matched(f[i], g[i])
    BY <1>1, ConvColumnMatched
<1>4. f = [i \in 1 .. n |-> f[i]] /\ g = [i \in 1 .. n |-> g[i]]
    BY <1>1
<1> HIDE DEF f, g
<1>5. Matched(FlattenSeq(f), FlattenSeq(g))
    BY <1>3, <1>4, FlattenMatched
<1>6. Matched(<< >>, p)
    BY PlainOps, MatchedPlain DEF Plain
<1>7. Matched(<< >> \o FlattenSeq(f), p \o FlattenSeq(g))
    BY <1>5, <1>6, MatchedConcat
<1> QED
    BY <1>2, <1>7, MatchedPassEnd

\* The two outer loops of conv2d_layer.
LEMMA ConvMatched ==
    ASSUME NEW l, ConvFits(l), NEW c \in Nat, NEW k, k # Dm(l)
    PROVE  Matched(ConvProgram(l, c, k), ConvProgram(l, c, Dm(l)))
<1> DEFINE F == For(c * l.num, l.CO, l.clusters * l.num)
           G == For(0, l.CI, l.TILE_CI)
           Inner(x, i) == FlattenSeq([j \in DOMAIN G |-> Pass(l, c, x, F[i], G[j])])
           f == [i \in DOMAIN F |-> Inner(k, i)]
           g == [i \in DOMAIN F |-> Inner(Dm(l), i)]
<1>1. PICK m \in Nat : DOMAIN F = 1 .. m
    <2>1. c * l.num \in Int /\ l.CO \in Int /\ l.clusters * l.num \in Nat \ {0}
        BY DEF ConvFits
    <2> QED
        BY <2>1, ForPasses
<1>2. PICK n \in Nat : DOMAIN G = 1 .. n
    <2>1. 0 \in Int /\ l.CI \in Int /\ l.TILE_CI \in Nat \ {0}
        BY DEF ConvFits
    <2> QED
        BY <2>1, ForPasses
<1>3. ConvProgram(l, c, k) = FlattenSeq(f) /\ ConvProgram(l, c, Dm(l)) = FlattenSeq(g)
    BY ConvLoops DEF Each
<1> HIDE DEF F, G
<1>4. ASSUME NEW i \in 1 .. m PROVE Matched(Inner(k, i), Inner(Dm(l), i))
    <2> DEFINE u == [j \in DOMAIN G |-> Pass(l, c, k, F[i], G[j])]
               v == [j \in DOMAIN G |-> Pass(l, c, Dm(l), F[i], G[j])]
    <2>1. \A j \in 1 .. n : Matched(u[j], v[j])
        BY <1>2, ConvPassMatched
    <2>2. u = [j \in 1 .. n |-> u[j]] /\ v = [j \in 1 .. n |-> v[j]]
        BY <1>2
    <2> HIDE DEF u, v
    <2>3. Matched(FlattenSeq(u), FlattenSeq(v))
        BY <2>1, <2>2, FlattenMatched
    <2> QED
        BY <2>3 DEF u, v
<1> HIDE DEF Inner
<1>5. \A i \in 1 .. m : Matched(f[i], g[i])
    BY <1>1, <1>4
<1>6. f = [i \in 1 .. m |-> f[i]] /\ g = [i \in 1 .. m |-> g[i]]
    BY <1>1
<1> HIDE DEF f, g
<1> QED
    BY <1>3, <1>5, <1>6, FlattenMatched

\* The sizes of a batchnorm or maxpool layer.
PoolFits(l) ==
    /\ l.num \in Nat \ {0} /\ l.clusters \in Nat \ {0} /\ l.TILE_CI \in Nat \ {0}
    /\ l.OH \in Nat /\ l.OW \in Nat /\ l.CI \in Nat

\* The tiles of a cluster are a sequence.
LEMMA TilesSequence ==
    ASSUME NEW l, PoolFits(l), NEW c \in Nat
    PROVE  \E n \in Nat : DOMAIN Tiles(l, c) = 1 .. n
<1> DEFINE F == For(c, l.OH * l.OW, l.clusters)
           G == For(0, l.CI, l.TILE_CI)
           Tile(i, j) == [oh |-> F[i] \div l.OW, ow |-> F[i] % l.OW, ci |-> G[j]]
           Inner(i) == FlattenSeq([j \in DOMAIN G |-> <<Tile(i, j)>>])
           f == [i \in DOMAIN F |-> Inner(i)]
<1>1. PICK m \in Nat : DOMAIN F = 1 .. m
    <2>1. c \in Int /\ l.OH * l.OW \in Int /\ l.clusters \in Nat \ {0}
        BY DEF PoolFits
    <2> QED
        BY <2>1, ForPasses
<1>2. PICK n \in Nat : DOMAIN G = 1 .. n
    <2>1. 0 \in Int /\ l.CI \in Int /\ l.TILE_CI \in Nat \ {0}
        BY DEF PoolFits
    <2> QED
        BY <2>1, ForPasses
<1>3. Tiles(l, c) = FlattenSeq(f)
    BY DEF Tiles, Each
<1> HIDE DEF F, G, Tile
<1>4. ASSUME NEW i \in 1 .. m PROVE Without(Inner(i), {})
    <2> DEFINE u == [j \in DOMAIN G |-> <<Tile(i, j)>>]
    <2>1. ASSUME NEW j \in 1 .. n PROVE Without(u[j], {})
        <3> DEFINE r == Tile(i, j)
        <3>1. u[j] = <<r>>
            BY <1>2
        <3> HIDE DEF r
        <3>2. <<r>> \in Seq({r})
            OBVIOUS
        <3> QED
            BY <3>1, <3>2 DEF Without, IsSequence
    <2>2. u = [j \in 1 .. n |-> u[j]]
        BY <1>2
    <2> HIDE DEF u
    <2>3. Without(FlattenSeq(u), {})
        BY <2>1, <2>2, FlattenWithout
    <2> QED
        BY <2>3 DEF u
<1> HIDE DEF Inner
<1>5. f = [i \in 1 .. m |-> f[i]] /\ \A i \in 1 .. m : Without(f[i], {})
    BY <1>1, <1>4
<1> HIDE DEF f
<1>6. Without(FlattenSeq(f), {})
    BY <1>5, FlattenWithout
<1> QED
    BY <1>3, <1>6, SequenceFacts DEF Without

\* batchnorm_layer and maxpool_layer.
LEMMA PoolMatched ==
    ASSUME NEW l, PoolFits(l), l.kind \in Kernels, NEW c \in Nat, NEW k, k # Dm(l)
    PROVE  Matched(PoolProgram(l, c, k), PoolProgram(l, c, Dm(l)))
<1> DEFINE T == Tiles(l, c)
           B(i) == l.kind = "batchnorm" /\ T[i] = T[1]
           dm(i) == When(B(i), Op("load_params", T[i])) \o Op("load", T[i])
                      \o Barrier \o Op("store_prev", T[i])
           compute(i) == Barrier \o Op(l.kind, T[i])
           f == [i \in DOMAIN T |-> compute(i)]
           g == [i \in DOMAIN T |-> dm(i)]
<1>1. PICK n \in Nat : DOMAIN T = 1 .. n
    BY TilesSequence
<1>2. /\ PoolProgram(l, c, k) = (FlattenSeq(f) \o Barrier) \o << >>
      /\ PoolProgram(l, c, Dm(l)) = (FlattenSeq(g) \o Barrier) \o Op("store_last", NoTile)
    BY DEF PoolProgram, Each, When
<1> HIDE DEF T, B
<1>3. ASSUME NEW i \in 1 .. n PROVE Matched(compute(i), dm(i))
    <2> DEFINE it == T[i]
               b == B(i)
               p == Op("load_params", it)
               t == When(b, p) \o Op("load", it)
               e == Barrier \o Op("store_prev", it)
    <2> HIDE DEF it, b
    <2>1. Matched(<< >>, << >> \o When(b, p))
        BY MatchedNothing, PlainOps, MatchedMore
    <2>2. << >> \o When(b, p) = When(b, p)
        BY OpSequence, EmptySequence, ConcatEmpty DEF When
    <2>3. Matched(<< >>, t)
        BY <2>1, <2>2, PlainOps, MatchedMore
    <2>4. Matched(Barrier \o Op(l.kind, it), e)
        BY MatchedKernel
    <2> HIDE DEF t
    <2>5. Matched(<< >> \o (Barrier \o Op(l.kind, it)), t \o e)
        BY <2>3, <2>4, MatchedConcat
    <2>6. << >> \o (Barrier \o Op(l.kind, it)) = Barrier \o Op(l.kind, it)
        BY OpSequence, ConcatFacts, ConcatEmpty DEF Barrier
    <2>7. t \o e = (t \o Barrier) \o Op("store_prev", it)
        <3>1. IsSequence(t) /\ IsSequence(Barrier) /\ IsSequence(Op("store_prev", it))
            BY <2>3, OpSequence DEF Matched, Aligned, Barrier
        <3> QED
            BY <3>1, ConcatAssoc
    <2> QED
        BY <2>5, <2>6, <2>7 DEF it, b, t
<1>4. \A i \in 1 .. n : Matched(f[i], g[i])
    <2> HIDE DEF compute, dm
    <2> QED
        BY <1>1, <1>3
<1>5. f = [i \in 1 .. n |-> f[i]] /\ g = [i \in 1 .. n |-> g[i]]
    BY <1>1
<1> HIDE DEF f, g
<1>6. Matched(FlattenSeq(f), FlattenSeq(g))
    BY <1>4, <1>5, FlattenMatched
<1> QED
    BY <1>2, <1>6, MatchedPassEnd

\* check_layer.
LEMMA CheckMatched ==
    ASSUME NEW l, l.OH \in Nat, l.OW \in Nat, NEW c, NEW k
    PROVE  Matched(CheckLayer(l, c, k), CheckLayer(l, c, Dm(l)))
<1> DEFINE F == For(0, l.OH * l.OW, 1)
           Body(x, i) == When(x = Dm(l), Op("fetch", F[i])) \o Barrier
                           \o When(x = 0, Op("compare", F[i])) \o Barrier
           f == [i \in DOMAIN F |-> Body(k, i)]
           g == [i \in DOMAIN F |-> Body(Dm(l), i)]
<1>1. PICK n \in Nat : DOMAIN F = 1 .. n
    <2>1. 0 \in Int /\ l.OH * l.OW \in Int /\ 1 \in Nat \ {0}
        OBVIOUS
    <2> QED
        BY <2>1, ForPasses
<1>2. /\ CheckLayer(l, c, k) = When(c = 0, FlattenSeq(f))
      /\ CheckLayer(l, c, Dm(l)) = When(c = 0, FlattenSeq(g))
    BY DEF CheckLayer, Each
<1> HIDE DEF F
<1>3. ASSUME NEW i \in 1 .. n PROVE Matched(Body(k, i), Body(Dm(l), i))
    <2> DEFINE fetch(x) == When(x = Dm(l), Op("fetch", F[i]))
               compare(x) == When(x = 0, Op("compare", F[i]))
               one(x) == fetch(x) \o Barrier
               two(x) == one(x) \o compare(x)
    <2>1. Matched(<< >> \o fetch(k), << >> \o fetch(Dm(l)))
        <3>1. Matched(<< >> \o fetch(k), << >>)
            BY MatchedNothing, PlainOps, MatchedMore
        <3> QED
            BY <3>1, PlainOps, MatchedMore
    <2>2. \A x : << >> \o fetch(x) = fetch(x)
        BY OpSequence, EmptySequence, ConcatEmpty DEF When
    <2>3. Matched(one(k), one(Dm(l)))
        <3> HIDE DEF fetch
        <3>1. Matched(fetch(k), fetch(Dm(l)))
            BY <2>1, <2>2
        <3> QED
            BY <3>1, MatchedBarrier
    <2> HIDE DEF one
    <2>4. Matched(two(k), two(Dm(l)))
        <3>1. Matched(two(k), one(Dm(l)))
            BY <2>3, PlainOps, MatchedMore
        <3> HIDE DEF two
        <3>2. Matched(two(k), one(Dm(l)) \o compare(Dm(l)))
            BY <3>1, PlainOps, MatchedMore
        <3> QED
            BY <3>2 DEF two
    <2> HIDE DEF two
    <2>5. Matched(two(k) \o Barrier, two(Dm(l)) \o Barrier)
        BY <2>4, MatchedBarrier
    <2> QED
        BY <2>5 DEF two, one
<1>4. \A i \in 1 .. n : Matched(f[i], g[i])
    <2> HIDE DEF Body
    <2> QED
        BY <1>1, <1>3
<1>5. f = [i \in 1 .. n |-> f[i]] /\ g = [i \in 1 .. n |-> g[i]]
    BY <1>1
<1> HIDE DEF f, g
<1>6. Matched(FlattenSeq(f), FlattenSeq(g))
    BY <1>4, <1>5, FlattenMatched
<1> QED
    BY <1>2, <1>6, MatchedNothing DEF When

\* The training loop.
LEMMA NnImageMatched ==
    ASSUME NEW l, NEW k, k # Dm(l), NEW i
    PROVE  Matched(NnImage(l, k, i), NnImage(l, Dm(l), i))
<1> DEFINE load == Op("load_image", i) \o Op("load_target", i)
           s1 == Op("feedforward", i) \o Barrier
           s2 == s1 \o Op("gradient", i)
           s3 == s2 \o Barrier
           s4 == s3 \o Barrier
           s5 == s4 \o Op("accuracy", i)
           t3 == Barrier \o Barrier
           t4 == t3 \o Barrier
<1>1. /\ NnImage(l, k, i) = (<< >> \o Barrier) \o (s5 \o Barrier)
      /\ NnImage(l, Dm(l), i) = (load \o Barrier) \o (t4 \o Barrier)
    BY DEF NnImage, When
<1>2. Matched(<< >> \o Barrier, load \o Barrier)
    <2>1. Matched(<< >>, Op("load_image", i))
        BY PlainOps, MatchedPlain DEF Plain
    <2>2. Matched(<< >>, load)
        BY <2>1, PlainOps, MatchedMore
    <2> HIDE DEF load
    <2> QED
        BY <2>2, MatchedBarrier
<1>3. << >> \o Barrier = Barrier
    BY OpSequence, ConcatEmpty DEF Barrier
<1>4. Matched(s1, Barrier)
    <2>1. Matched(Op("feedforward", i), << >>)
        BY PlainOps, MatchedPlain DEF Plain
    <2> QED
        BY <1>3, <2>1, MatchedBarrier
<1> HIDE DEF s1
<1>5. Matched(s2, Barrier)
    BY <1>4, PlainOps, MatchedMore
<1> HIDE DEF s2
<1>6. Matched(s3, t3)
    BY <1>5, MatchedBarrier
<1> HIDE DEF s3, t3
<1>7. Matched(s4, t4)
    BY <1>6, MatchedBarrier
<1> HIDE DEF s4, t4
<1>8. Matched(s5, t4)
    BY <1>7, PlainOps, MatchedMore
<1> HIDE DEF s5
<1>9. Matched(s5 \o Barrier, t4 \o Barrier)
    BY <1>8, MatchedBarrier
<1> HIDE DEF load
<1> QED
    BY <1>1, <1>2, <1>9, MatchedConcat

\* One batch.
Batch(l, k, b) ==
    When(k # Dm(l), Op("zero_grads", b)) \o Barrier
      \o Each(For(b * l.BATCH_SIZE, (b + 1) * l.BATCH_SIZE, 1), LAMBDA i : NnImage(l, k, i))
      \o Barrier \o When(k # Dm(l), Op("training_step", b)) \o Barrier \o Barrier

\* One batch of the training.
LEMMA BatchMatched ==
    ASSUME NEW l, l.BATCH_SIZE \in Nat, NEW k, k # Dm(l), NEW b \in Int
    PROVE  Matched(Batch(l, k, b), Batch(l, Dm(l), b))
<1> DEFINE F == For(b * l.BATCH_SIZE, (b + 1) * l.BATCH_SIZE, 1)
           f == [i \in DOMAIN F |-> NnImage(l, k, F[i])]
           g == [i \in DOMAIN F |-> NnImage(l, Dm(l), F[i])]
           zero == Op("zero_grads", b)
           train == Op("training_step", b)
           s1 == zero \o Barrier
           s2 == s1 \o FlattenSeq(f)
           s3 == s2 \o Barrier
           s4 == s3 \o train
           s5 == s4 \o Barrier
           t1 == << >> \o Barrier
           t2 == t1 \o FlattenSeq(g)
           t3 == t2 \o Barrier
           t4 == t3 \o << >>
           t5 == t4 \o Barrier
<1>1. PICK n \in Nat : DOMAIN F = 1 .. n
    <2>1. b * l.BATCH_SIZE \in Int /\ (b + 1) * l.BATCH_SIZE \in Int /\ 1 \in Nat \ {0}
        OBVIOUS
    <2> QED
        BY <2>1, ForPasses
<1>2. Batch(l, k, b) = s5 \o Barrier /\ Batch(l, Dm(l), b) = t5 \o Barrier
    BY DEF Batch, Each, When
<1> HIDE DEF F
<1>3. \A i \in 1 .. n : Matched(f[i], g[i])
    BY <1>1, NnImageMatched
<1>4. f = [i \in 1 .. n |-> f[i]] /\ g = [i \in 1 .. n |-> g[i]]
    BY <1>1
<1> HIDE DEF f, g
<1>5. Matched(FlattenSeq(f), FlattenSeq(g))
    BY <1>3, <1>4, FlattenMatched
<1>6. Matched(s1, t1)
    <2>1. Matched(zero, << >>)
        BY PlainOps, MatchedPlain DEF Plain
    <2> HIDE DEF zero
    <2> QED
        BY <2>1, MatchedBarrier
<1> HIDE DEF s1, t1
<1>7. Matched(s2, t2)
    BY <1>5, <1>6, MatchedConcat
<1> HIDE DEF s2, t2
<1>8. Matched(s3, t3)
    BY <1>7, MatchedBarrier
<1> HIDE DEF s3, t3
<1>9. Matched(s4, t4)
    <2>1. Matched(s4, t3)
        BY <1>8, PlainOps, MatchedMore
    <2>2. t4 = t3
        <3>1. IsSequence(t3)
            BY <1>8 DEF Matched, Aligned
        <3> QED
            BY <3>1, ConcatEmpty
    <2> HIDE DEF s4, t4
    <2> QED
        BY <2>1, <2>2
<1> HIDE DEF s4, t4
<1>10. Matched(s5, t5)
    BY <1>9, MatchedBarrier
<1> HIDE DEF s5, t5
<1> QED
    BY <1>2, <1>10, MatchedBarrier

\* All of it but the global barrier at the end.
Training(l, k) ==
    Barrier \o When(k = Dm(l), Op("load_biases", 0) \o Op("start_weights", 0)) \o Barrier
      \o Each(For(0, l.batches, 1), LAMBDA b : Batch(l, k, b))

\* What Training leaves out.
LEMMA TrainingLoop == \A l, k : NnLinear(l, k) = Training(l, k) \o Global(l, k)
    BY DEF NnLinear, Training, Batch, Each

\* nnlinear_backend_baseline.
LEMMA TrainingMatched ==
    ASSUME NEW l, l.BATCH_SIZE \in Nat, l.batches \in Nat, NEW k, k # Dm(l)
    PROVE  Matched(Training(l, k), Training(l, Dm(l)))
<1> DEFINE F == For(0, l.batches, 1)
           f == [i \in DOMAIN F |-> Batch(l, k, F[i])]
           g == [i \in DOMAIN F |-> Batch(l, Dm(l), F[i])]
           load == Op("load_biases", 0) \o Op("start_weights", 0)
           s1 == Barrier \o << >>
           s2 == s1 \o Barrier
           t1 == Barrier \o load
           t2 == t1 \o Barrier
<1>1. PICK n \in Nat : DOMAIN F = 1 .. n
    <2>1. 0 \in Int /\ l.batches \in Int /\ 1 \in Nat \ {0}
        OBVIOUS
    <2> QED
        BY <2>1, ForPasses
<1>2. Training(l, k) = s2 \o FlattenSeq(f) /\ Training(l, Dm(l)) = t2 \o FlattenSeq(g)
    BY DEF Training, Each, When
<1>3. \A i \in 1 .. n : F[i] \in Int
    BY <1>1 DEF For
<1> HIDE DEF F
<1>4. \A i \in 1 .. n : Matched(f[i], g[i])
    BY <1>1, <1>3, BatchMatched
<1>5. f = [i \in 1 .. n |-> f[i]] /\ g = [i \in 1 .. n |-> g[i]]
    BY <1>1
<1> HIDE DEF f, g
<1>6. Matched(FlattenSeq(f), FlattenSeq(g))
    BY <1>4, <1>5, FlattenMatched
<1>7. Matched(s1, t1)
    <2>1. Matched(<< >>, Op("load_biases", 0))
        BY PlainOps, MatchedPlain DEF Plain
    <2>2. Matched(<< >>, load)
        BY <2>1, PlainOps, MatchedMore
    <2>3. Matched(<< >> \o Barrier, << >> \o Barrier)
        BY MatchedNothing, MatchedBarrier
    <2>4. << >> \o Barrier = Barrier
        BY OpSequence, ConcatEmpty DEF Barrier
    <2> HIDE DEF load
    <2> QED
        BY <2>2, <2>3, <2>4, MatchedConcat
<1> HIDE DEF s1, t1
<1>8. Matched(s2, t2)
    BY <1>7, MatchedBarrier
<1> HIDE DEF s2, t2
<1> QED
    BY <1>2, <1>6, <1>8, MatchedConcat

\* A layer of one of the four programs, with sizes that are numbers.  There
\* may be any number of clusters, compute cores, tiles, images and batches.
LayerFits(l) ==
    /\ l.num \in Nat \ {0} /\ l.clusters \in Nat \ {0}
    /\ l.kind \in {"conv2d", "batchnorm", "maxpool", "nnlinear"}
    /\ l.kind = "conv2d" => ConvFits(l)
    /\ l.kind \in {"batchnorm", "maxpool"} => PoolFits(l)
    /\ l.kind = "nnlinear" => l.BATCH_SIZE \in Nat /\ l.batches \in Nat

\* What holds of the whole programs of a compute core and of the DM core.
Fits(s, t) ==
    Aligned(s, t) /\ Without(s, {"global"}) /\ Total(t, {"global"}) = 2

\* A sequence without an operation counts none.
LEMMA WithoutTotal ==
    ASSUME NEW s, NEW O, Without(s, O)
    PROVE  Total(s, O) = 0
<1>1. PICK n \in Nat : n = Len(s)
    BY SequenceFacts DEF Without
<1>2. OpsBefore(s, n + 1, O) = {}
    BY <1>1 DEF Without, OpsBefore
<1> QED
    BY <1>1, <1>2, FS_EmptySet DEF Count, Total

\* The global barrier of a compute core and that of the DM core.
LEMMA GlobalParts ==
    ASSUME NEW l, NEW k, k # Dm(l)
    PROVE  /\ Aligned(Global(l, k), Global(l, Dm(l))) /\ Without(Global(l, k), {"global"})
           /\ IsSequence(Global(l, Dm(l))) /\ Total(Global(l, Dm(l)), {"global"}) = 1
<1> DEFINE g == Op("global", NoTile)
<1>1. "global" \notin Syncs /\ "global" \notin Toggling /\ "global" \notin Stores
    BY DEF Syncs, Toggling, Kernels, Stores
<1>2. Aligned(<< >>, g)
    BY <1>1, AlignedPlain
<1>3. Aligned(Barrier, Barrier)
    BY AlignedSync DEF Barrier, Syncs
<1>4. IsSequence(g) /\ Len(g) = 1 /\ g[1].op = "global" /\ IsSequence(Barrier)
    BY OpSequence DEF Barrier
<1>5. Without(Barrier, {"global"})
    BY NotGlobal
<1>6. Global(l, k) = << >> \o Barrier /\ Global(l, Dm(l)) = g \o Barrier
    BY DEF Global, When
<1> HIDE DEF g
<1>7. Aligned(<< >> \o Barrier, g \o Barrier)
    BY <1>2, <1>3, AlignedConcat
<1>8. Without(<< >> \o Barrier, {"global"})
    BY <1>5, WithoutEmpty, WithoutConcat
<1>9. Total(g, {"global"}) = 1 /\ Total(Barrier, {"global"}) = 0
    <2>1. "global" \in {"global"}
        OBVIOUS
    <2> QED
        BY <1>4, <1>5, <2>1, ShortCounts, WithoutTotal
<1>10. IsSequence(g \o Barrier) /\ Total(g \o Barrier, {"global"}) = 1
    BY <1>4, <1>9, ConcatFacts, CountConcat
<1> QED
    BY <1>6, <1>7, <1>8, <1>10

\* Two matching parts, each with a global barrier behind it.
LEMMA TwoGlobals ==
    ASSUME NEW l, NEW k, k # Dm(l), NEW s, NEW t, NEW u, NEW v, Matched(s, t), Matched(u, v)
    PROVE  Fits(((s \o Global(l, k)) \o u) \o Global(l, k),
                ((t \o Global(l, Dm(l))) \o v) \o Global(l, Dm(l)))
<1>1. PICK g, d : g = Global(l, k) /\ d = Global(l, Dm(l))
    OBVIOUS
<1>2. /\ Aligned(g, d) /\ Without(g, {"global"})
      /\ IsSequence(d) /\ Total(d, {"global"}) = 1
    BY <1>1, GlobalParts
<1>3. Aligned(((s \o g) \o u) \o g, ((t \o d) \o v) \o d)
    BY <1>2, AlignedConcat DEF Matched
<1>4. Without(((s \o g) \o u) \o g, {"global"})
    BY <1>2, WithoutConcat DEF Matched
<1>5. Total(((t \o d) \o v) \o d, {"global"}) = 2
    <2>1. IsSequence(t) /\ IsSequence(v)
        BY DEF Matched, Without
    <2>2. IsSequence(t \o d) /\ IsSequence((t \o d) \o v)
        BY <1>2, <2>1, ConcatFacts
    <2>3. Total(t, {"global"}) = 0 /\ Total(v, {"global"}) = 0
        BY WithoutTotal DEF Matched
    <2>4. Total(t \o d, {"global"}) = 1
        BY <1>2, <2>1, <2>3, CountConcat
    <2>5. Total((t \o d) \o v, {"global"}) = 1
        BY <2>1, <2>2, <2>3, <2>4, CountConcat
    <2> QED
        BY <1>2, <2>2, <2>5, CountConcat
<1> QED
    BY <1>1, <1>3, <1>4, <1>5 DEF Fits

\* The programs of a compute core and of the DM core fit each other.
LEMMA ProgramFits ==
    ASSUME NEW l, LayerFits(l), NEW c \in Nat, NEW k, k # Dm(l)
    PROVE  Fits(Program(l, c, k), Program(l, c, Dm(l)))
<1>1. CASE l.kind = "nnlinear"
    <2>1. Matched(Training(l, k), Training(l, Dm(l)))
        BY <1>1, TrainingMatched DEF LayerFits
    <2>2. ASSUME NEW x, IsSequence(x), NEW y \in {k, Dm(l)}
          PROVE  (x \o Global(l, y)) \o << >> = x \o Global(l, y)
        <3>1. IsSequence(Global(l, k)) /\ IsSequence(Global(l, Dm(l)))
            BY GlobalParts DEF Without
        <3>2. IsSequence(Global(l, y))
            BY <3>1
        <3> QED
            BY <2>2, <3>2, ConcatFacts, ConcatEmpty
    <2>3. IsSequence(Training(l, k)) /\ IsSequence(Training(l, Dm(l)))
        BY <2>1 DEF Matched, Aligned
    <2>4. \A x : Program(l, c, x) = (Training(l, x) \o Global(l, x)) \o Global(l, x)
        BY <1>1, TrainingLoop DEF Program
    <2>5. Fits(((Training(l, k) \o Global(l, k)) \o << >>) \o Global(l, k),
               ((Training(l, Dm(l)) \o Global(l, Dm(l))) \o << >>) \o Global(l, Dm(l)))
        BY <2>1, MatchedNothing, TwoGlobals
    <2> QED
        BY <2>2, <2>3, <2>4, <2>5
<1>2. CASE l.kind = "conv2d"
    <2>1. Matched(ConvProgram(l, c, k), ConvProgram(l, c, Dm(l)))
        BY <1>2, ConvMatched DEF LayerFits
    <2>2. Matched(CheckLayer(l, c, k), CheckLayer(l, c, Dm(l)))
        BY <1>2, CheckMatched DEF LayerFits, ConvFits
    <2>3. \A x : Program(l, c, x) =
                 ((ConvProgram(l, c, x) \o Global(l, x)) \o CheckLayer(l, c, x)) \o Global(l, x)
        BY <1>2 DEF Program
    <2> QED
        BY <2>1, <2>2, <2>3, TwoGlobals
<1>3. CASE l.kind \in {"batchnorm", "maxpool"}
    <2>1. Matched(PoolProgram(l, c, k), PoolProgram(l, c, Dm(l)))
        BY <1>3, PoolMatched DEF LayerFits, Kernels
    <2>2. Matched(CheckLayer(l, c, k), CheckLayer(l, c, Dm(l)))
        BY <1>3, CheckMatched DEF LayerFits, PoolFits
    <2>3. \A x : Program(l, c, x) =
                 ((PoolProgram(l, c, x) \o Global(l, x)) \o CheckLayer(l, c, x)) \o Global(l, x)
        BY <1>3 DEF Program
    <2> QED
        BY <2>1, <2>2, <2>3, TwoGlobals
<1> QED
    BY <1>1, <1>2, <1>3 DEF LayerFits

----------------------------------------------------------------------------
(* Where the units are in their programs.                                  *)

\* What is left of s at position p.
From(s, p) == [i \in 1 .. Len(s) - p + 1 |-> s[p + i - 1]]
Placed(s, t, p) == p \in 1 .. Len(s) + 1 /\ t = From(s, p)

\* The next operation, and the position after it.
LEMMA PlacedFacts ==
    ASSUME NEW s, IsSequence(s), NEW t, NEW p, Placed(s, t, p)
    PROVE  /\ p \in Nat \ {0} /\ p = Len(s) - Len(t) + 1
           /\ t = << >> <=> p = Len(s) + 1
           /\ p <= Len(s) => Head(t) = s[p] /\ Placed(s, Tail(t), p + 1)
<1>1. PICK n \in Nat : n = Len(s)
    BY SequenceFacts
<1> DEFINE m == n - p + 1
<1>2. m \in Nat /\ p \in Nat \ {0} /\ p \in 1 .. n + 1 /\ t = [i \in 1 .. m |-> s[p + i - 1]]
    BY <1>1 DEF Placed, From
<1>3. t = [i \in 1 .. m |-> t[i]]
    BY <1>2
<1> HIDE DEF m
<1>4. IsSequence(t) /\ Len(t) = m
    BY <1>2, <1>3, FunctionSequence
<1>5. p = Len(s) - Len(t) + 1
    BY <1>1, <1>2, <1>4 DEF m
<1>6. t = << >> <=> m = 0
    <2>1. t = << >> => Len(t) = 0
        BY EmptySequence
    <2>2. m = 0 => t = << >>
        BY <1>2
    <2> QED
        BY <1>4, <2>1, <2>2
<1>7. ASSUME p <= n PROVE Head(t) = s[p] /\ Placed(s, Tail(t), p + 1)
    <2>1. m \in Nat \ {0} /\ 1 \in 1 .. m /\ p + 1 - 1 = p
        BY <1>2, <1>7 DEF m
    <2>2. t[1] = s[p]
        BY <1>2, <2>1
    <2>3. PICK S : t \in Seq(S)
        BY <1>4 DEF IsSequence
    <2>4. t # << >>
        BY <1>6, <2>1
    <2>5. Head(t) = t[1] /\ Len(Tail(t)) = m - 1 /\ Tail(t) \in Seq(S)
          /\ \A i \in 1 .. m - 1 : Tail(t)[i] = t[i + 1]
        BY <1>4, <2>1, <2>3, <2>4
    <2>6. Tail(t) = [i \in 1 .. m - 1 |-> Tail(t)[i]]
        <3>1. IsSequence(Tail(t))
            BY <2>5 DEF IsSequence
        <3>2. Tail(t) = [i \in 1 .. Len(Tail(t)) |-> Tail(t)[i]]
            BY <3>1, SequenceFacts
        <3> QED
            BY <2>5, <3>2
    <2>7. ASSUME NEW i \in 1 .. m - 1 PROVE Tail(t)[i] = s[(p + 1) + i - 1]
        <3>1. i + 1 \in 1 .. m /\ p + (i + 1) - 1 = (p + 1) + i - 1
            BY <1>2, <2>1
        <3>2. t[i + 1] = s[p + (i + 1) - 1]
            BY <1>2, <3>1
        <3> QED
            BY <2>5, <3>1, <3>2
    <2>8. m - 1 = n - (p + 1) + 1 /\ p + 1 \in 1 .. n + 1
        BY <1>2, <1>7 DEF m
    <2> QED
        BY <1>1, <2>2, <2>5, <2>6, <2>7, <2>8 DEF Placed, From
<1>8. m = 0 <=> p = n + 1
    BY <1>2 DEF m
<1> QED
    BY <1>1, <1>2, <1>5, <1>6, <1>7, <1>8

----------------------------------------------------------------------------
(* The invariant.                                                          *)

InstancesFit == \A i \in DOMAIN Instances : LayerFits(Instances[i])

Prog(u) == Program(L, u[1], u[2])
Pos(u) == Len(Prog(u)) - Len(todo[u]) + 1
OpAt(u) == Prog(u)[Pos(u)].op
AtSync(u) == Pos(u) <= Len(Prog(u)) /\ OpAt(u) \in Blocking
Globals(u) == Count(Prog(u), Pos(u), {"global"})
DmOf(u) == <<u[1], Dm(L)>>
ClusterOf(u) == {v \in Units(L) : v[1] = u[1]}
Movers == {v \in Units(L) : v[2] = Dm(L)}

\* The cores that have to come to the barrier u stands at, and whether those
\* in W have.
Awaited(u) == IF OpAt(u) = "global" THEN Movers ELSE ClusterOf(u)
Complete(u, W) == \A v \in Awaited(u) : v \in W /\ OpAt(v) = OpAt(u)

\* Every unit is somewhere in its own program, and its copy of the buffer
\* index has been toggled by what lies behind it.
Placement ==
    \A u \in Units(L) :
        /\ Placed(Prog(u), todo[u], Pos(u))
        /\ buf[u] = Turn(Prog(u), Pos(u)) % 2

\* The cores of a cluster have passed as many cluster barriers as its DM
\* core, and the DM cores as many barriers of their own.
InPhase ==
    /\ \A u \in Units(L) :
          Phase(Prog(u), Pos(u)) = Phase(Prog(DmOf(u)), Pos(DmOf(u)))
    /\ \A u, v \in Movers : Globals(u) = Globals(v)

\* Who waits stands at a barrier, and somebody is missing there.
Waits == \A u \in waiting : AtSync(u) /\ ~Complete(u, waiting)

LayersInv ==
    /\ layer \in DOMAIN Instances
    /\ todo = [u \in Units(L) |-> todo[u]] /\ buf = [u \in Units(L) |-> buf[u]]
    /\ waiting \subseteq Units(L)
    /\ Placement /\ InPhase /\ Waits

\* Steps that are not barriers: u goes on in its program, and toggles its
\* buffer index or not.
Local(u) ==
    /\ u \notin waiting /\ ~Done(u) /\ Current(u).op \notin Blocking /\ Step(u)
    /\ buf' = IF Current(u).op \in Toggling THEN [buf EXCEPT ![u] = 1 - @] ELSE buf
    /\ UNCHANGED <<layer, waiting>>

\* Every operation but the barriers is such a step.
LEMMA OperationsLocal ==
    ASSUME NEW u, UnitStep(u) \/ HandOver(u)
    PROVE  Local(u) \/ EnterBarrier(u) \/ EnterGlobal(u)
<1> USE DEF At, Local, Toggle, Blocking, Toggling, Kernels
<1>1. CASE LoadParams(u)
    BY <1>1 DEF LoadParams, Update
<1>2. CASE LoadTile(u)
    BY <1>2 DEF LoadTile, Update
<1>3. CASE LoadWeights(u)
    BY <1>3 DEF LoadWeights, Update
<1>4. CASE LoadOfmap(u)
    BY <1>4 DEF LoadOfmap, Update
<1>5. CASE LoadIfmap(u)
    BY <1>5 DEF LoadIfmap, Update
<1>6. CASE Im2col(u)
    BY <1>6 DEF Im2col, Update
<1>7. CASE Fetch(u)
    BY <1>7 DEF Fetch, Update
<1>8. CASE LoadBiases(u)
    BY <1>8 DEF LoadBiases, Update
<1>9. CASE ZeroGrads(u)
    BY <1>9 DEF ZeroGrads, Update
<1>10. CASE LoadImage(u)
    BY <1>10 DEF LoadImage, Update
<1>11. CASE LoadTarget(u)
    BY <1>11 DEF LoadTarget, Update
<1>12. CASE FeedForward(u)
    BY <1>12 DEF FeedForward, Update
<1>13. CASE GradientUpdate(u)
    BY <1>13 DEF GradientUpdate, Update
<1>14. CASE Accuracy(u)
    BY <1>14 DEF Accuracy, Update
<1>15. CASE TrainingStep(u)
    BY <1>15 DEF TrainingStep, Update
<1>16. CASE CopyIfmap(u)
    BY <1>16 DEF CopyIfmap, Update
<1>17. CASE StorePrev(u)
    BY <1>17 DEF StorePrev
<1>18. CASE StoreLast(u)
    BY <1>18 DEF StoreLast
<1>19. CASE Batchnorm(u)
    BY <1>19 DEF Kernel, Update, Batchnorm
<1>20. CASE Maxpool(u)
    BY <1>20 DEF Kernel, Update, Maxpool
<1>21. CASE Gemm(u)
    BY <1>21 DEF Update, Gemm
<1>22. CASE Compare(u)
    BY <1>22 DEF Compare
<1>23. CASE StartWeights(u)
    BY <1>23 DEF StartWeights
<1>24. CASE ClearFlags(u)
    BY <1>24 DEF SetFlags, ClearFlags
<1>25. CASE SetFlag(u)
    BY <1>25 DEF SetFlags, SetFlag
<1>26. CASE ReleaseSource(u)
    BY <1>26 DEF SetFlags, ReleaseSource
<1>27. CASE AwaitConsumed(u)
    BY <1>27 DEF AwaitConsumed
<1>28. CASE AwaitSource(u)
    BY <1>28 DEF AwaitSource
<1> QED
    BY <1>1, <1>2, <1>3, <1>4, <1>5, <1>6, <1>7, <1>8, <1>9, <1>10, <1>11, <1>12, <1>13, <1>14, <1>15, <1>16, <1>17, <1>18, <1>19, <1>20, <1>21, <1>22, <1>23, <1>24, <1>25, <1>26, <1>27, <1>28 DEF UnitStep, HandOver

\* What is known of the units of a layer and their programs.
UnitsKnown ==
    /\ L.num \in Nat \ {0} /\ L.clusters \in Nat \ {0}
    /\ \A u \in Units(L) :
          /\ DmOf(u) \in Units(L) /\ DmOf(u)[1] = u[1] /\ DmOf(DmOf(u)) = DmOf(u)
          /\ u[2] = Dm(L) => u = DmOf(u)
          /\ u[2] # Dm(L) => Aligned(Prog(u), Prog(DmOf(u)))
          /\ IsSequence(Prog(u)) /\ Len(Prog(u)) \in Nat
          /\ u[2] = Dm(L) => Total(Prog(u), {"global"}) = 2
          /\ u[2] # Dm(L) => \A i \in 1 .. Len(Prog(u)) : Prog(u)[i].op # "global"
          /\ Total(Prog(u), Syncs) = Total(Prog(DmOf(u)), Syncs)
          /\ \A i \in 1 .. Len(Prog(DmOf(u))) : Prog(DmOf(u))[i].op \notin Kernels

\* UnitsKnown follows of the sizes.
LEMMA UnitFacts ==
    ASSUME InstancesFit, layer \in DOMAIN Instances
    PROVE  UnitsKnown
<1>1. LayerFits(L)
    BY DEF InstancesFit, L
<1>2. L.num \in Nat \ {0} /\ L.clusters \in Nat \ {0}
    BY <1>1 DEF LayerFits
<1>3. ASSUME NEW c \in 0 .. L.clusters - 1, NEW k, k # Dm(L)
      PROVE  Fits(Program(L, c, k), Program(L, c, Dm(L)))
    <2>1. c \in Nat
        BY <1>2
    <2> QED
        BY <1>1, <1>3, <2>1, ProgramFits
<1>4. ASSUME NEW u \in Units(L)
      PROVE  /\ DmOf(u) \in Units(L) /\ DmOf(u)[1] = u[1] /\ DmOf(DmOf(u)) = DmOf(u)
             /\ u[2] = Dm(L) => u = DmOf(u)
             /\ u[2] # Dm(L) => Aligned(Prog(u), Prog(DmOf(u)))
             /\ IsSequence(Prog(u)) /\ Len(Prog(u)) \in Nat
             /\ u[2] = Dm(L) => Total(Prog(u), {"global"}) = 2
             /\ u[2] # Dm(L) => \A i \in 1 .. Len(Prog(u)) : Prog(u)[i].op # "global"
             /\ Total(Prog(u), Syncs) = Total(Prog(DmOf(u)), Syncs)
             /\ \A i \in 1 .. Len(Prog(DmOf(u))) : Prog(DmOf(u))[i].op \notin Kernels
    <2>1. PICK c \in 0 .. L.clusters - 1, k \in 0 .. L.num : u = <<c, k>>
        BY DEF Units
    <2>2. /\ DmOf(u) = <<c, Dm(L)>> /\ DmOf(u) \in Units(L) /\ DmOf(DmOf(u)) = DmOf(u)
          /\ DmOf(u)[1] = c /\ u[1] = c /\ u[2] = k
        BY <1>2, <2>1 DEF DmOf, Units, Dm
    <2>3. Prog(u) = Program(L, c, k) /\ Prog(DmOf(u)) = Program(L, c, Dm(L))
        BY <2>1, <2>2 DEF Prog
    <2>4. 0 # Dm(L)
        BY <1>2 DEF Dm
    <2>5. Fits(Program(L, c, 0), Prog(DmOf(u)))
        BY <1>3, <2>3, <2>4
    <2>6. k # Dm(L) => Fits(Prog(u), Prog(DmOf(u)))
        BY <1>3, <2>3
    <2>7. k = Dm(L) => Prog(u) = Prog(DmOf(u))
        BY <2>3
    <2>8. /\ IsSequence(Prog(DmOf(u))) /\ Total(Prog(DmOf(u)), {"global"}) = 2
          /\ \A i \in 1 .. Len(Prog(DmOf(u))) : Prog(DmOf(u))[i].op \notin Kernels
        BY <2>5 DEF Fits, Aligned
    <2>9. /\ k # Dm(L) => Aligned(Prog(u), Prog(DmOf(u)))
          /\ IsSequence(Prog(u))
          /\ k = Dm(L) => Total(Prog(u), {"global"}) = 2
          /\ k # Dm(L) => \A i \in 1 .. Len(Prog(u)) : Prog(u)[i].op # "global"
          /\ Total(Prog(u), Syncs) = Total(Prog(DmOf(u)), Syncs)
        BY <2>6, <2>7, <2>8 DEF Fits, Aligned, Without
    <2>10. Len(Prog(u)) \in Nat
        BY <2>9, SequenceFacts
    <2> QED
        BY <2>1, <2>2, <2>8, <2>9, <2>10
<1> QED
    BY <1>2, <1>4 DEF UnitsKnown

\* The units of M have taken the step they stand at, the others none.
Advanced(M) ==
    /\ L' = L /\ \A u : Prog(u)' = Prog(u)
    /\ \A u \in Units(L) :
          /\ Pos(u) \in Nat \ {0} /\ Pos(u)' = IF u \in M THEN Pos(u) + 1 ELSE Pos(u)
          /\ Placed(Prog(u), todo'[u], Pos(u)')
          /\ \A O : /\ Count(Prog(u), Pos(u), O) \in Nat
                    /\ Count(Prog(u), Pos(u)', O) = Count(Prog(u), Pos(u), O)
                         + IF u \in M /\ Prog(u)[Pos(u)].op \in O THEN 1 ELSE 0

\* A step of the units in M, each of which has one to take.
LEMMA Advance ==
    ASSUME InstancesFit, LayersInv, NEW M, layer' = layer,
           \A u \in M : Pos(u) <= Len(Prog(u)),
           todo' = [u \in Units(L) |-> IF u \in M THEN Tail(todo[u]) ELSE todo[u]]
    PROVE  Advanced(M)
<1>1. L' = L /\ \A u : Prog(u)' = Prog(u)
    BY DEF L, Prog
<1>2. UnitsKnown
    BY UnitFacts DEF LayersInv
<1>3. ASSUME NEW u \in Units(L)
      PROVE  /\ Pos(u) \in Nat \ {0} /\ Pos(u)' = IF u \in M THEN Pos(u) + 1 ELSE Pos(u)
             /\ Placed(Prog(u), todo'[u], Pos(u)')
             /\ \A O : /\ Count(Prog(u), Pos(u), O) \in Nat
                       /\ Count(Prog(u), Pos(u)', O) = Count(Prog(u), Pos(u), O)
                            + IF u \in M /\ Prog(u)[Pos(u)].op \in O THEN 1 ELSE 0
    <2>1. PICK s, t, p : s = Prog(u) /\ t = todo[u] /\ p = Pos(u)
        OBVIOUS
    <2>2. IsSequence(s) /\ Placed(s, t, p) /\ (u \in M => p <= Len(s))
        BY <1>2, <2>1 DEF UnitsKnown, LayersInv, Placement
    <2>3. p \in Nat \ {0} /\ (p <= Len(s) => Placed(s, Tail(t), p + 1))
        BY <2>2, PlacedFacts
    <2> DEFINE q == IF u \in M THEN p + 1 ELSE p
    <2>4. PICK x : x = todo'[u]
        OBVIOUS
    <2>5. x = (IF u \in M THEN Tail(t) ELSE t) /\ Placed(s, x, q)
        BY <2>1, <2>2, <2>3, <2>4
    <2>6. q = Len(s) - Len(x) + 1
        <3> HIDE DEF q
        <3>1. PICK y : y = q
            OBVIOUS
        <3>2. IsSequence(s) /\ Placed(s, x, y)
            BY <2>2, <2>5, <3>1
        <3>3. y = Len(s) - Len(x) + 1
            BY <3>2, PlacedFacts
        <3> QED
            BY <3>1, <3>3
    <2>7. Pos(u)' = q
        BY <1>1, <2>1, <2>4, <2>6 DEF Pos
    <2>8. ASSUME NEW O
          PROVE  /\ Count(s, p, O) \in Nat
                 /\ Count(s, q, O) = Count(s, p, O) + IF u \in M /\ s[p].op \in O THEN 1 ELSE 0
        <3>1. Count(s, p, O) \in Nat
            BY <2>3, CountFinite
        <3>2. Count(s, p + 1, O) = Count(s, p, O) + IF s[p].op \in O THEN 1 ELSE 0
            BY <2>3, CountStep
        <3> QED
            BY <3>1, <3>2
    <2> HIDE DEF q
    <2>9. Placed(Prog(u), todo'[u], Pos(u)')
        BY <2>1, <2>4, <2>5, <2>7
    <2> QED
        BY <2>1, <2>3, <2>7, <2>8, <2>9 DEF q
<1> QED
    BY <1>1, <1>3 DEF Advanced

\* What follows of the invariant for single units.
UnitsPlaced ==
    /\ UnitsKnown /\ waiting \subseteq Units(L)
    /\ \A u \in Units(L) :
          /\ Pos(u) \in Nat \ {0}
          /\ Done(u) <=> Pos(u) = Len(Prog(u)) + 1
          /\ ~Done(u) => Pos(u) \in 1 .. Len(Prog(u)) /\ Current(u) = Prog(u)[Pos(u)]

\* UnitsPlaced follows of the invariant.
LEMMA PlacedUnits ==
    ASSUME InstancesFit, LayersInv
    PROVE  UnitsPlaced
<1>1. UnitsKnown
    BY UnitFacts DEF LayersInv
<1>2. ASSUME NEW u \in Units(L)
      PROVE  /\ Pos(u) \in Nat \ {0}
             /\ Done(u) <=> Pos(u) = Len(Prog(u)) + 1
             /\ ~Done(u) => Pos(u) \in 1 .. Len(Prog(u)) /\ Current(u) = Prog(u)[Pos(u)]
    <2>1. PICK s, t, p : s = Prog(u) /\ t = todo[u] /\ p = Pos(u)
        OBVIOUS
    <2>2. IsSequence(s) /\ Placed(s, t, p) /\ Len(s) \in Nat
        BY <1>1, <2>1 DEF UnitsKnown, LayersInv, Placement
    <2>3. /\ p \in Nat \ {0} /\ (t = << >> <=> p = Len(s) + 1)
          /\ p <= Len(s) => Head(t) = s[p]
        BY <2>2, PlacedFacts
    <2>4. p \in 1 .. Len(s) + 1
        BY <2>2 DEF Placed
    <2>5. t # << >> => p \in 1 .. Len(s) /\ p <= Len(s)
        BY <2>2, <2>3, <2>4
    <2> QED
        BY <2>1, <2>3, <2>5 DEF Done, Current
<1> QED
    BY <1>1, <1>2 DEF UnitsPlaced, LayersInv

\* The invariant holds at the start of a layer.
LEMMA LayersInitial == InstancesFit /\ Init => LayersInv
<1> SUFFICES ASSUME InstancesFit, Init PROVE LayersInv
    OBVIOUS
<1>1. layer \in DOMAIN Instances /\ UnitsKnown
    BY UnitFacts DEF Init
<1>2. ASSUME NEW u \in Units(L)
      PROVE  /\ Pos(u) = 1 /\ Placed(Prog(u), todo[u], 1)
             /\ buf[u] = Turn(Prog(u), 1) % 2
             /\ Phase(Prog(u), 1) = 0 /\ Globals(u) = 0
    <2>1. PICK s : s = Prog(u) /\ s = todo[u]
        BY DEF Init, Prog
    <2>2. IsSequence(s) /\ Len(s) \in Nat /\ s = [i \in 1 .. Len(s) |-> s[i]]
        BY <1>1, <2>1, SequenceFacts DEF UnitsKnown
    <2>3. PICK n \in Nat : n = Len(s)
        BY <2>2
    <2>4. n - n + 1 = 1 /\ n - 1 + 1 = n /\ 1 \in 1 .. n + 1
          /\ \A i \in 1 .. n : 1 + i - 1 = i
        OBVIOUS
    <2>5. Pos(u) = 1
        BY <2>1, <2>3, <2>4 DEF Pos
    <2>6. Placed(s, s, 1)
        BY <2>2, <2>3, <2>4 DEF Placed, From
    <2>7. Turn(s, 1) = 0 /\ Phase(s, 1) = 0 /\ Count(s, 1, {"global"}) = 0
        BY CountStart DEF Turn, Phase
    <2>8. buf[u] = 0 /\ 0 % 2 = 0
        BY DEF Init
    <2> QED
        BY <2>1, <2>5, <2>6, <2>7, <2>8 DEF Globals
<1>3. Placement
    BY <1>2 DEF Placement
<1>4. InPhase
    BY <1>1, <1>2 DEF InPhase, UnitsKnown, Movers
<1>5. Waits /\ waiting \subseteq Units(L)
    BY DEF Waits, Init
<1> QED
    BY <1>1, <1>3, <1>4, <1>5 DEF LayersInv, Init

\* Steps of one unit that are not barriers.
LEMMA LocalKeeps ==
    ASSUME InstancesFit, LayersInv, NEW u \in Units(L), Local(u)
    PROVE  LayersInv'
<1>1. UnitsPlaced /\ UnitsKnown
    BY PlacedUnits DEF UnitsPlaced
<1>2. /\ Pos(u) \in 1 .. Len(Prog(u)) /\ Pos(u) <= Len(Prog(u))
      /\ Current(u) = Prog(u)[Pos(u)] /\ Prog(u)[Pos(u)].op \notin Blocking
    BY <1>1 DEF UnitsPlaced, Local, UnitsKnown
<1>3. todo' = [v \in Units(L) |-> IF v \in {u} THEN Tail(todo[v]) ELSE todo[v]]
    BY DEF Local, Step, LayersInv
<1>4. Advanced({u})
    BY <1>2, <1>3, Advance DEF Local
<1>5. /\ L' = L /\ Units(L)' = Units(L) /\ Movers' = Movers
      /\ \A v : DmOf(v)' = DmOf(v) /\ ClusterOf(v)' = ClusterOf(v)
    BY <1>4 DEF Advanced, DmOf, ClusterOf, Movers
<1>6. Prog(u)[Pos(u)].op # "global" /\ Prog(u)[Pos(u)].op \notin Syncs
    BY <1>2 DEF Syncs, Blocking
<1>7. \A v \in Units(L) : /\ Phase(Prog(v), Pos(v)') = Phase(Prog(v), Pos(v))
                          /\ Globals(v)' = Globals(v)
    BY <1>2, <1>4, <1>6 DEF Advanced, Phase, Globals
<1>8. InPhase'
    <2>1. ASSUME NEW v \in Units(L)
          PROVE  Phase(Prog(v)', Pos(v)') = Phase(Prog(DmOf(v))', Pos(DmOf(v))')
        <3>1. PICK d \in Units(L) : d = DmOf(v) /\ d = DmOf(v)'
            BY <1>1, <1>5 DEF UnitsKnown
        <3>2. Phase(Prog(v), Pos(v)) = Phase(Prog(d), Pos(d))
            BY <3>1 DEF LayersInv, InPhase
        <3>3. Phase(Prog(v)', Pos(v)') = Phase(Prog(d)', Pos(d)')
            BY <1>4, <1>7, <3>2 DEF Advanced
        <3> QED
            BY <3>1, <3>3
    <2>2. \A v, w \in Movers : Globals(v)' = Globals(w)'
        BY <1>7 DEF LayersInv, InPhase, Movers
    <2> QED
        BY <1>5, <2>1, <2>2 DEF InPhase
<1>9. Placement'
    <2> SUFFICES ASSUME NEW v \in Units(L)
                 PROVE  Placed(Prog(v), todo'[v], Pos(v)') /\ buf'[v] = Turn(Prog(v), Pos(v)') % 2
        BY <1>4, <1>5 DEF Placement, Advanced
    <2>1. Placed(Prog(v), todo'[v], Pos(v)')
        BY <1>4 DEF Advanced
    <2>2. buf[v] = Turn(Prog(v), Pos(v)) % 2
        BY DEF LayersInv, Placement
    <2>3. /\ Turn(Prog(v), Pos(v)) \in Nat
          /\ Turn(Prog(v), Pos(v)') = Turn(Prog(v), Pos(v))
               + IF v \in {u} /\ Prog(v)[Pos(v)].op \in Toggling THEN 1 ELSE 0
        BY <1>4 DEF Advanced, Turn
    <2>4. buf'[v] = IF v = u /\ Prog(v)[Pos(v)].op \in Toggling THEN 1 - buf[v] ELSE buf[v]
        BY <1>2 DEF Local, LayersInv
    <2>5. \A n \in Nat : (n + 1) % 2 = 1 - (n % 2)
        OBVIOUS
    <2>6. PICK n \in Nat : n = Turn(Prog(v), Pos(v))
        BY <2>3
    <2>7. CASE v = u /\ Prog(v)[Pos(v)].op \in Toggling
        BY <2>1, <2>2, <2>3, <2>4, <2>5, <2>6, <2>7
    <2>8. CASE ~ (v = u /\ Prog(v)[Pos(v)].op \in Toggling)
        <3>1. Turn(Prog(v), Pos(v)') = n + 0 /\ n + 0 = n
            BY <2>3, <2>6, <2>8
        <3> QED
            BY <2>1, <2>2, <2>4, <2>6, <2>8, <3>1
    <2> QED
        BY <2>7, <2>8
<1>10. Waits'
    <2> SUFFICES ASSUME NEW w \in waiting
                 PROVE  AtSync(w)' /\ ~Complete(w, waiting)'
        BY DEF Waits, Local
    <2>1. w \in Units(L) /\ waiting' = waiting
        BY DEF Local, LayersInv
    <2>2. \A v \in waiting : Pos(v)' = Pos(v) /\ Prog(v)' = Prog(v) /\ OpAt(v)' = OpAt(v)
        <3>1. \A v \in waiting : v # u /\ v \in Units(L)
            BY DEF Local, LayersInv
        <3> QED
            BY <1>4, <3>1 DEF Advanced, OpAt
    <2>3. Awaited(w)' = Awaited(w)
        BY <1>5, <2>2 DEF Awaited
    <2> QED
        BY <2>1, <2>2, <2>3 DEF AtSync, Complete, LayersInv, Waits
<1>11. todo' = [v \in Units(L) |-> todo'[v]] /\ buf' = [v \in Units(L) |-> buf'[v]]
    BY <1>3 DEF Local, LayersInv
<1> QED
    BY <1>5, <1>8, <1>9, <1>10, <1>11 DEF LayersInv, Local

\* A core that comes to a barrier, cluster-wide or global, and finds
\* somebody missing or not.
Arrive(u) ==
    /\ u \notin waiting /\ AtSync(u)
    /\ IF Complete(u, waiting \cup {u})
       THEN /\ waiting' = waiting \ Awaited(u)
            /\ todo' = [v \in Units(L) |-> IF v \in Awaited(u) THEN Tail(todo[v]) ELSE todo[v]]
       ELSE waiting' = waiting \cup {u} /\ todo' = todo
    /\ UNCHANGED <<layer, buf>>

\* Both kinds of barrier are entered in this way.
LEMMA BarriersArrive ==
    ASSUME InstancesFit, LayersInv, NEW u \in Units(L), EnterBarrier(u) \/ EnterGlobal(u)
    PROVE  Arrive(u)
<1>1. UnitsPlaced /\ UnitsKnown
    BY PlacedUnits DEF UnitsPlaced
<1>2. DOMAIN todo = Units(L)
    BY DEF LayersInv
<1>3. ASSUME NEW o \in Blocking, NEW S, At(u, o),
             S = IF o = "global" THEN Movers ELSE ClusterOf(u), Enter(u, o, S)
      PROVE  Arrive(u)
    <2>1. /\ Pos(u) \in 1 .. Len(Prog(u)) /\ Len(Prog(u)) \in Nat
          /\ OpAt(u) = o
        BY <1>1, <1>3 DEF At, UnitsPlaced, UnitsKnown, OpAt
    <2>2. AtSync(u) /\ Awaited(u) = S
        BY <1>3, <2>1 DEF AtSync, Awaited
    <2>3. \A v \in waiting : Current(v).op = OpAt(v)
        <3>1. \A v \in waiting : v \in Units(L) /\ AtSync(v)
            BY DEF LayersInv, Waits
        <3>2. \A v \in waiting : ~Done(v)
            BY <1>1, <3>1 DEF UnitsPlaced, UnitsKnown, AtSync
        <3> QED
            BY <1>1, <3>1, <3>2 DEF UnitsPlaced, OpAt
    <2>4. Complete(u, waiting \cup {u}) <=> \A v \in S \ {u} : v \in waiting /\ Current(v).op = o
        BY <2>1, <2>2, <2>3 DEF Complete
    <2> QED
        BY <1>2, <1>3, <2>2, <2>4 DEF Enter, At, Arrive
<1>4. CASE EnterBarrier(u)
    <2>1. At(u, "barrier") /\ "barrier" \in Blocking /\ "barrier" # "global"
        BY <1>4 DEF EnterBarrier, Enter, Blocking
    <2>2. Enter(u, "barrier", ClusterOf(u))
        BY <1>4 DEF EnterBarrier, ClusterOf
    <2> QED
        BY <1>3, <2>1, <2>2
<1>5. CASE EnterGlobal(u)
    <2>1. At(u, "global") /\ "global" \in Blocking
        BY <1>5 DEF EnterGlobal, Enter, Blocking
    <2>2. Enter(u, "global", Movers)
        BY <1>5 DEF EnterGlobal, Movers
    <2> QED
        BY <1>3, <2>1, <2>2
<1> QED
    BY <1>4, <1>5

\* A core that has to wait leaves all programs where they are.
LEMMA BlockedKeeps ==
    ASSUME InstancesFit, LayersInv, NEW u \in Units(L), Arrive(u),
           ~Complete(u, waiting \cup {u})
    PROVE  LayersInv'
<1>1. /\ waiting' = waiting \cup {u} /\ todo' = todo /\ layer' = layer /\ buf' = buf
      /\ u \notin waiting /\ AtSync(u)
    BY DEF Arrive
<1>2. /\ L' = L /\ \A v : /\ Prog(v)' = Prog(v) /\ Pos(v)' = Pos(v) /\ DmOf(v)' = DmOf(v)
                          /\ Awaited(v)' = Awaited(v) /\ AtSync(v)' = AtSync(v)
                          /\ Globals(v)' = Globals(v) /\ OpAt(v)' = OpAt(v)
    BY <1>1 DEF L, Prog, Pos, DmOf, Awaited, AtSync, Globals, ClusterOf, OpAt, Movers
<1>3. Placement' /\ InPhase'
    BY <1>1, <1>2 DEF LayersInv, Placement, InPhase, Globals, L, Prog, Pos, DmOf, Movers
<1>4. ASSUME NEW w \in waiting, Complete(w, waiting \cup {u}) PROVE FALSE
    <2>1. w \in Units(L) /\ ~Complete(w, waiting)
        BY DEF LayersInv, Waits
    <2>2. u \in Awaited(w) /\ OpAt(u) = OpAt(w)
        BY <1>4, <2>1 DEF Complete
    <2>3. Awaited(u) = Awaited(w)
        BY <2>2 DEF Awaited, ClusterOf
    <2> QED
        BY <1>4, <2>2, <2>3 DEF Complete
<1>5. ASSUME NEW w \in waiting \cup {u} PROVE AtSync(w) /\ ~Complete(w, waiting \cup {u})
    BY <1>1, <1>4 DEF LayersInv, Waits
<1>6. Waits'
    BY <1>1, <1>2, <1>5 DEF Waits, Complete
<1> QED
    BY <1>1, <1>2, <1>3, <1>6 DEF LayersInv, L

\* Opening a barrier keeps the invariant.
LEMMA OpeningKeeps ==
    ASSUME InstancesFit, LayersInv, NEW u \in Units(L), Arrive(u),
           Complete(u, waiting \cup {u})
    PROVE  LayersInv'
<1>1. UnitsPlaced /\ UnitsKnown
    BY PlacedUnits DEF UnitsPlaced
<1>2. PICK M, o : M = Awaited(u) /\ o = Prog(u)[Pos(u)].op
    OBVIOUS
<1>3. /\ waiting' = waiting \ M /\ layer' = layer /\ buf' = buf
      /\ todo' = [v \in Units(L) |-> IF v \in M THEN Tail(todo[v]) ELSE todo[v]]
    BY <1>2 DEF Arrive
<1>4. /\ o \in Blocking /\ M = IF o = "global" THEN Movers ELSE ClusterOf(u)
      /\ \A v \in M : v \in Units(L) /\ AtSync(v) /\ Prog(v)[Pos(v)].op = o
    BY <1>2 DEF Awaited, AtSync, Arrive, ClusterOf, Movers, Complete, OpAt, LayersInv, Waits
<1>5. Advanced(M)
    <2>1. \A v \in M : Pos(v) <= Len(Prog(v))
        BY <1>4 DEF AtSync
    <2> QED
        BY <1>3, <2>1, Advance
<1>6. /\ L' = L /\ Units(L)' = Units(L) /\ Movers' = Movers
      /\ \A v : DmOf(v)' = DmOf(v) /\ ClusterOf(v)' = ClusterOf(v)
    BY <1>5 DEF Advanced, DmOf, ClusterOf, Movers
<1>7. o \notin Toggling
    BY <1>4 DEF Blocking, Toggling, Kernels
<1>8. Placement'
    <2> SUFFICES ASSUME NEW v \in Units(L)
                 PROVE  Placed(Prog(v), todo'[v], Pos(v)') /\ buf'[v] = Turn(Prog(v), Pos(v)') % 2
        BY <1>5, <1>6 DEF Placement, Advanced
    <2>1. Turn(Prog(v), Pos(v)') = Turn(Prog(v), Pos(v)) + 0 /\ Turn(Prog(v), Pos(v)) \in Nat
        BY <1>4, <1>5, <1>7 DEF Advanced, Turn
    <2>2. Turn(Prog(v), Pos(v)') = Turn(Prog(v), Pos(v))
        BY <2>1
    <2> QED
        BY <1>3, <1>5, <2>2 DEF Advanced, LayersInv, Placement
<1>9. ASSUME NEW v \in Units(L)
      PROVE  Phase(Prog(v)', Pos(v)') = Phase(Prog(DmOf(v))', Pos(DmOf(v))')
    <2>1. PICK d \in Units(L) : d = DmOf(v) /\ d = DmOf(v)' /\ d[1] = v[1]
        BY <1>1, <1>6 DEF UnitsKnown
    <2>2. Phase(Prog(v), Pos(v)) = Phase(Prog(d), Pos(d))
        BY <2>1 DEF LayersInv, InPhase
    <2>3. o \in Syncs => (v \in M <=> d \in M)
        BY <1>4, <2>1 DEF ClusterOf, Syncs
    <2>4. \A x \in Units(L) : /\ Phase(Prog(x), Pos(x)) \in Nat
                             /\ Phase(Prog(x), Pos(x)') = Phase(Prog(x), Pos(x))
                                  + IF x \in M /\ o \in Syncs THEN 1 ELSE 0
        BY <1>4, <1>5 DEF Advanced, Phase
    <2>5. Phase(Prog(v)', Pos(v)') = Phase(Prog(d)', Pos(d)')
        BY <1>5, <2>2, <2>3, <2>4 DEF Advanced
    <2> QED
        BY <2>1, <2>5
<1>10. ASSUME NEW v \in Movers, NEW w \in Movers PROVE Globals(v)' = Globals(w)'
    <2>1. \A x \in Movers : Globals(x)' = Globals(x) + IF o = "global" THEN 1 ELSE 0
        BY <1>4, <1>5 DEF Advanced, Globals, Movers
    <2> QED
        BY <2>1 DEF LayersInv, InPhase
<1>11. InPhase'
    BY <1>6, <1>9, <1>10 DEF InPhase
<1>12. Waits'
    <2> SUFFICES ASSUME NEW w \in waiting \ M PROVE AtSync(w)' /\ ~Complete(w, waiting)'
        BY <1>3 DEF Waits
    <2>1. w \in Units(L) /\ AtSync(w) /\ ~Complete(w, waiting)
        BY DEF LayersInv, Waits
    <2>2. \A v \in waiting \ M : Pos(v)' = Pos(v) /\ Prog(v)' = Prog(v) /\ OpAt(v)' = OpAt(v)
        BY <1>5 DEF Advanced, OpAt, LayersInv
    <2>3. Awaited(w)' = Awaited(w)
        BY <1>6, <2>2 DEF Awaited
    <2>4. ASSUME Complete(w, waiting)' PROVE FALSE
        <3>1. \A v \in Awaited(w) : v \in waiting \ M /\ OpAt(v)' = OpAt(w)'
            BY <1>3, <2>3, <2>4 DEF Complete
        <3> QED
            BY <2>1, <2>2, <3>1 DEF Complete
    <2> QED
        BY <2>1, <2>2, <2>4 DEF AtSync
<1>13. todo' = [v \in Units(L) |-> todo'[v]] /\ waiting' \subseteq Units(L)
    BY <1>3 DEF LayersInv
<1> QED
    BY <1>3, <1>6, <1>8, <1>11, <1>12, <1>13 DEF LayersInv

\* LayersInv is inductive, with and without the hand-over of rows between
\* the clusters.
LEMMA LayersStep == InstancesFit /\ LayersInv /\ [HandOverNext]_vars => LayersInv'
<1> SUFFICES ASSUME InstancesFit, LayersInv, [HandOverNext]_vars PROVE LayersInv'
    OBVIOUS
<1>1. CASE UNCHANGED <<layer, todo, waiting, buf>>
    <2>1. /\ L' = L /\ \A v : /\ Prog(v)' = Prog(v) /\ Pos(v)' = Pos(v) /\ DmOf(v)' = DmOf(v)
                              /\ Awaited(v)' = Awaited(v) /\ AtSync(v)' = AtSync(v)
                              /\ Globals(v)' = Globals(v) /\ OpAt(v)' = OpAt(v)
        BY <1>1 DEF L, Prog, Pos, DmOf, Awaited, AtSync, Globals, ClusterOf, OpAt, Movers
    <2>2. Placement' /\ InPhase'
        BY <1>1, <2>1 DEF LayersInv, Placement, InPhase, Globals, L, Prog, Pos, DmOf, Movers
    <2>3. Waits'
        BY <1>1, <2>1 DEF LayersInv, Waits, Complete
    <2> QED
        BY <1>1, <2>1, <2>2, <2>3 DEF LayersInv, L
<1>2. ASSUME NEW u \in Units(L), UnitStep(u) \/ HandOver(u) PROVE LayersInv'
    <2>1. CASE Local(u)
        BY <2>1, LocalKeeps
    <2>2. CASE EnterBarrier(u) \/ EnterGlobal(u)
        <3>1. Arrive(u)
            BY <2>2, BarriersArrive
        <3> QED
            BY <3>1, BlockedKeeps, OpeningKeeps
    <2> QED
        BY <1>2, <2>1, <2>2, OperationsLocal
<1>3. ASSUME NEW c, WeightsArrive(c) PROVE LayersInv'
    BY <1>1, <1>3 DEF WeightsArrive
<1> QED
    BY <1>1, <1>2, <1>3 DEF HandOverNext, Next, vars

\* Positions tell the halves apart.
LEMMA HalvesFollow == InstancesFit /\ LayersInv => HalvesApart
<1> SUFFICES ASSUME InstancesFit, LayersInv, NEW u \in Units(L), NEW v \in Units(L),
                    u[1] = v[1], v[2] = Dm(L), NEW a \in Kernels, At(u, a)
             PROVE  /\ \A o \in Fills : At(v, o) => buf[v] # buf[u]
                    /\ \A o \in Stores : At(v, o) => 1 - buf[v] # buf[u]
    BY DEF HalvesApart, Kernels, Fills, Stores, LayersInv
<1>1. UnitsPlaced /\ UnitsKnown
    BY PlacedUnits DEF UnitsPlaced
<1>2. DmOf(u) = v /\ DmOf(v) = v
    BY <1>1 DEF UnitsKnown, DmOf
<1>3. PICK s, t, p, q : s = Prog(u) /\ t = Prog(v) /\ p = Pos(u) /\ q = Pos(v)
    OBVIOUS
<1>4. p \in 1 .. Len(s) /\ s[p].op \in Kernels
    BY <1>1, <1>3 DEF UnitsPlaced, At
<1>5. u[2] # Dm(L)
    BY <1>1, <1>2, <1>3, <1>4 DEF UnitsKnown
<1>6. Aligned(s, t) /\ Phase(s, p) = Phase(t, q)
    BY <1>1, <1>2, <1>3, <1>5 DEF UnitsKnown, LayersInv, InPhase
<1>7. buf[u] = Turn(s, p) % 2 /\ buf[v] = Turn(t, q) % 2 /\ Turn(s, p) \in Nat
    <2>1. p \in Nat
        BY <1>1, <1>3 DEF UnitsPlaced
    <2> QED
        BY <1>3, <2>1, CountFinite DEF LayersInv, Placement, Turn
<1>8. \A n \in Nat : (n + 1) % 2 # n % 2 /\ 1 - (n % 2) # n % 2
    OBVIOUS
<1>9. PICK n \in Nat : n = Turn(s, p)
    BY <1>7
<1>10. ASSUME NEW o \in Fills, At(v, o) PROVE buf[v] # buf[u]
    <2>1. q \in 1 .. Len(t) /\ t[q].op \in Fills
        BY <1>1, <1>3, <1>10 DEF UnitsPlaced, At
    <2>2. Turn(t, q) = n + 1
        BY <1>4, <1>6, <1>9, <2>1 DEF Aligned
    <2> QED
        BY <1>7, <1>8, <1>9, <2>2
<1>11. ASSUME NEW o \in Stores, At(v, o) PROVE 1 - buf[v] # buf[u]
    <2>1. q \in 1 .. Len(t) /\ t[q].op \in Stores
        BY <1>1, <1>3, <1>11 DEF UnitsPlaced, At
    <2>2. Turn(t, q) = n
        BY <1>4, <1>6, <1>9, <2>1 DEF Aligned
    <2> QED
        BY <1>7, <1>8, <1>9, <2>2
<1> QED
    BY <1>10, <1>11

\* Whatever the sizes of the layers, and whatever the relative speed of the
\* cores, a compute core never works on the half of a double buffer that the
\* DM core is about to fill or to store (conv2d_layer, batchnorm_layer and
\* maxpool_layer).
THEOREM HalvesKept == InstancesFit => (Spec => []HalvesApart)
<1> SUFFICES ASSUME InstancesFit PROVE Spec => []HalvesApart
    OBVIOUS
<1>1. Init => LayersInv
    BY LayersInitial
<1>2. LayersInv /\ [Next]_vars => LayersInv'
    BY LayersStep DEF HandOverNext
<1>3. LayersInv => HalvesApart
    BY HalvesFollow
<1> QED
    BY <1>1, <1>2, <1>3, PTL DEF Spec

\* The same with the rows of a convolution handed from cluster to cluster
\* (conv2d_layer with cluster2cluster set).
THEOREM HalvesKeptHandOver == InstancesFit => (HandOverSpec => []HalvesApart)
<1> SUFFICES ASSUME InstancesFit PROVE HandOverSpec => []HalvesApart
    OBVIOUS
<1>1. Init => LayersInv
    BY LayersInitial
<1>2. LayersInv /\ [HandOverNext]_vars => LayersInv'
    BY LayersStep
<1>3. LayersInv => HalvesApart
    BY HalvesFollow
<1> QED
    BY <1>1, <1>2, <1>3, PTL DEF HandOverSpec

----------------------------------------------------------------------------
(* Barriers.                                                               *)

\* When no core is between barriers any more, all have come to their end:
\* the barriers of the cores' programs match, in number and in kind.
BarriersMatch == (\A u \in Units(L) : Done(u) \/ u \in waiting) => Finished

\* A core at its end has passed more barriers than one that waits.
LEMMA BarriersFollow == InstancesFit /\ LayersInv => BarriersMatch
<1> SUFFICES ASSUME InstancesFit, LayersInv, \A u \in Units(L) : Done(u) \/ u \in waiting
             PROVE  \A u \in Units(L) : Done(u)
    BY DEF BarriersMatch, Finished, LayersInv
<1>1. UnitsPlaced /\ UnitsKnown
    BY PlacedUnits DEF UnitsPlaced
\* A core at its end has passed everything its program counts.
<1>2. ASSUME NEW u \in Units(L), Done(u), NEW O
      PROVE  Count(Prog(u), Pos(u), O) = Total(Prog(u), O)
    BY <1>1, <1>2 DEF UnitsPlaced, Total
\* A core in front of an operation has not.
<1>3. ASSUME NEW u \in Units(L), AtSync(u), NEW O, Prog(u)[Pos(u)].op \in O
      PROVE  Count(Prog(u), Pos(u), O) # Total(Prog(u), O)
    <2>1. PICK s, p : s = Prog(u) /\ p = Pos(u)
        OBVIOUS
    <2>2. PICK n \in Nat : n = Len(s)
        BY <1>1, <2>1 DEF UnitsKnown
    <2>3. p \in Nat \ {0} /\ p \in Nat /\ p + 1 \in Nat /\ n + 1 \in Nat /\ p + 1 <= n + 1
        BY <1>1, <1>3, <2>1, <2>2 DEF UnitsPlaced, AtSync
    <2>4. Count(s, p + 1, O) = Count(s, p, O) + 1
        BY <1>3, <2>1, <2>3, CountStep
    <2>5. Count(s, p + 1, O) <= Count(s, n + 1, O)
        BY <2>3, CountMonotone
    <2>6. Count(s, p, O) \in Nat /\ Count(s, n + 1, O) \in Nat
        BY <2>3, CountFinite
    <2>7. Count(s, p, O) # Count(s, n + 1, O)
        BY <2>4, <2>5, <2>6
    <2> QED
        BY <2>1, <2>2, <2>7 DEF Total
<1>4. \A w \in waiting : w \in Units(L) /\ AtSync(w) /\ ~Complete(w, waiting)
    BY DEF LayersInv, Waits
\* A core in a cluster barrier misses one that waits for the DM cores.
<1>5. ASSUME NEW w \in waiting, OpAt(w) # "global"
      PROVE  \E v \in ClusterOf(w) : v \in waiting /\ OpAt(v) = "global"
    <2>1. w \in Units(L) /\ AtSync(w) /\ OpAt(w) = "barrier" /\ Awaited(w) = ClusterOf(w)
        BY <1>4, <1>5 DEF Awaited, AtSync, Blocking
    <2>2. PICK v \in ClusterOf(w) : v \notin waiting \/ OpAt(v) # "barrier"
        BY <1>4, <2>1 DEF Complete
    <2>3. v \in Units(L) /\ v[1] = w[1] /\ DmOf(v) = DmOf(w)
        BY DEF ClusterOf, DmOf
    <2>4. ASSUME Done(v) PROVE FALSE
        <3>1. Total(Prog(v), Syncs) = Total(Prog(w), Syncs)
            BY <1>1, <2>1, <2>3 DEF UnitsKnown
        <3>2. Phase(Prog(v), Pos(v)) = Phase(Prog(w), Pos(w))
            BY <2>1, <2>3 DEF LayersInv, InPhase
        <3>3. Phase(Prog(v), Pos(v)) = Total(Prog(v), Syncs)
            BY <1>2, <2>3, <2>4 DEF Phase
        <3>4. Phase(Prog(w), Pos(w)) # Total(Prog(w), Syncs)
            BY <1>3, <2>1 DEF Phase, Syncs, OpAt
        <3> QED
            BY <3>1, <3>2, <3>3, <3>4
    <2>5. v \in waiting
        BY <2>3, <2>4
    <2>6. OpAt(v) = "global"
        BY <1>4, <2>2, <2>5 DEF AtSync, Blocking
    <2> QED
        BY <2>5, <2>6
\* Who waits for the DM cores is one.
<1>6. ASSUME NEW w \in waiting, OpAt(w) = "global" PROVE w \in Movers
    <2>1. w \in Units(L) /\ Pos(w) \in 1 .. Len(Prog(w))
        BY <1>1, <1>4 DEF AtSync, UnitsPlaced, UnitsKnown
    <2> QED
        BY <1>1, <1>6, <2>1 DEF UnitsKnown, Movers, OpAt
<1>7. ASSUME NEW w \in waiting, w \in Movers PROVE OpAt(w) = "global"
    <2> SUFFICES ASSUME OpAt(w) # "global" PROVE FALSE
        OBVIOUS
    <2>1. PICK v \in ClusterOf(w) : v \in waiting /\ OpAt(v) = "global"
        BY <1>5
    <2>2. v \in Movers
        BY <1>6, <2>1
    <2>3. v = w
        BY <1>7, <2>2 DEF Movers, ClusterOf, Units
    <2> QED
        BY <2>1, <2>3
<1>8. ASSUME NEW w \in waiting, OpAt(w) = "global" PROVE FALSE
    <2>1. w \in Movers /\ w \in Units(L) /\ AtSync(w) /\ Awaited(w) = Movers
        BY <1>4, <1>6, <1>8 DEF Awaited
    <2>2. PICK v \in Movers : v \notin waiting \/ OpAt(v) # "global"
        BY <1>4, <1>8, <2>1 DEF Complete
    <2>3. v \in Units(L) /\ Done(v)
        BY <1>7, <2>2 DEF Movers
    <2>4. Globals(v) = 2 /\ Total(Prog(w), {"global"}) = 2
        BY <1>1, <1>2, <2>1, <2>3 DEF UnitsKnown, Globals, Movers
    <2>5. Globals(w) # 2
        BY <1>3, <1>8, <2>1, <2>4 DEF Globals, OpAt
    <2> QED
        BY <2>1, <2>4, <2>5 DEF LayersInv, InPhase
<1> QED
    BY <1>5, <1>8

\* No layer program hangs in its barriers: as long as a core has something
\* to do, some core is not waiting in snrt_cluster_sw_barrier,
\* snrt_cluster_hw_barrier or snrt_global_barrier.
THEOREM NoBarrierHangs ==
    InstancesFit => (Spec => []BarriersMatch) /\ (HandOverSpec => []BarriersMatch)
<1> SUFFICES ASSUME InstancesFit
             PROVE  (Spec => []BarriersMatch) /\ (HandOverSpec => []BarriersMatch)
    OBVIOUS
<1>1. Init => LayersInv
    BY LayersInitial
<1>2. LayersInv /\ [HandOverNext]_vars => LayersInv'
    BY LayersStep
<1>3. LayersInv => BarriersMatch
    BY BarriersFollow
<1>4. [Next]_vars => [HandOverNext]_vars
    BY DEF HandOverNext
<1> QED
    BY <1>1, <1>2, <1>3, <1>4, PTL DEF Spec, HandOverSpec
=============================================================================
