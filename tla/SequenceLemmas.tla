--------------------------- MODULE SequenceLemmas ---------------------------
(***************************************************************************)
(* Facts about numbers and sequences that several proofs need.             *)
(***************************************************************************)
EXTENDS Integers, SequencesExt, SequenceTheorems, FiniteSetTheorems,
        WellFoundedInduction, TLAPS

-----------------------------------------------------------------------------
(* Loops.                                                                  *)

LEMMA LeastNat ==
    ASSUME NEW S \in SUBSET Nat, S # {}
    PROVE  \E n \in S : \A m \in S : n <= m
<1> DEFINE R == {ss \in Nat \X Nat : ss[1] < ss[2]}
<1>1. IsWellFoundedOn(R, Nat)
  BY NatLessThanWellFounded DEF OpToRel
<1>2. \E n \in S : \A m \in S : ~ (<<m, n>> \in R)
  <2> HIDE DEF R
  <2>1. QED
    BY <1>1, WFMin
<1>3. PICK n \in S : \A m \in S : ~ (<<m, n>> \in R)
  BY <1>2
<1>4. ASSUME NEW m \in S PROVE n <= m
  <2>1. m \in Nat /\ n \in Nat /\ <<m, n>> \in Nat \X Nat
    OBVIOUS
  <2>2. m < n => <<m, n>> \in R
    BY <2>1
  <2> HIDE DEF R
  <2>3. QED
    BY <1>3, <2>1, <2>2
<1>5. QED
  BY <1>4

(* What holds of 0, and of k behind k - 1, holds up to n.                  *)
LEMMA UpTo ==
    ASSUME NEW n \in Nat, NEW S,
           0 \in S, \A k \in 1..n : k - 1 \in S => k \in S
    PROVE  0..n \subseteq S
<1> DEFINE R == {k \in 0..n : k \notin S}
<1>1. SUFFICES ASSUME R # {} PROVE FALSE
  OBVIOUS
<1>2. PICK k \in R : \A m \in R : k <= m
  <2>1. R \in SUBSET Nat
    OBVIOUS
  <2> HIDE DEF R
  <2>2. QED
    BY <1>1, <2>1, LeastNat
<1>3. k \in 1..n /\ k - 1 \in 0..n
  BY <1>2
<1>4. k - 1 \in S
  BY <1>2, <1>3
<1>5. QED
  BY <1>2, <1>3, <1>4

(* A set of numbers up to n has a largest.                                 *)
LEMMA MostNat ==
    ASSUME NEW n \in Nat, NEW S \in SUBSET (0..n), S # {}
    PROVE  \E k \in S : \A m \in S : m <= k
<1> DEFINE R == {k \in 0..n : n - k \in S}
<1>1. R \in SUBSET Nat /\ R # {}
  <2>1. PICK m \in S : TRUE
    OBVIOUS
  <2>2. n - m \in 0..n /\ n - (n - m) = m
    BY <2>1
  <2>3. n - m \in R
    BY <2>1, <2>2
  <2>4. QED
    BY <2>3
<1>2. PICK k \in R : \A m \in R : k <= m
  <2> HIDE DEF R
  <2>1. QED
    BY <1>1, LeastNat
<1>3. n - k \in S
  BY <1>2
<1>4. ASSUME NEW m \in S PROVE m <= n - k
  <2>1. m \in 0..n /\ n - m \in 0..n /\ n - (n - m) = m
    OBVIOUS
  <2>2. n - m \in R
    BY <2>1
  <2>3. k <= n - m /\ k \in 0..n
    BY <1>2, <2>2
  <2>4. QED
    BY <2>1, <2>3
<1>5. QED
  BY <1>3, <1>4

-----------------------------------------------------------------------------
(* Two sequences.                                                          *)

LEMMA ConcatParts ==
    ASSUME NEW S, NEW s \in Seq(S), NEW t \in Seq(S)
    PROVE  /\ s \o t \in Seq(S) /\ Len(s \o t) = Len(s) + Len(t)
           /\ Len(s) \in Nat /\ Len(t) \in Nat
           /\ SubSeq(s \o t, 1, Len(s)) = s
           /\ SubSeq(s \o t, Len(s) + 1, Len(s \o t)) = t
<1>1. /\ s \o t \in Seq(S) /\ Len(s \o t) = Len(s) + Len(t)
      /\ Len(s) \in Nat /\ Len(t) \in Nat
  BY ConcatProperties, LenProperties
<1>2. SubSeq(s \o t, 1, Len(s)) = s
  <2>1. CASE Len(s) = 0
    <3>1. s = <<>>
      BY <2>1, EmptySeq
    <3>2. SubSeq(s \o t, 1, 0) = <<>>
      BY SubSeqEmpty
    <3>3. QED
      BY <2>1, <3>1, <3>2
  <2>2. CASE Len(s) # 0
    <3>1. 1 \in 1..Len(s) /\ Len(s) \in 1..Len(s)
      BY <1>1, <2>2
    <3>2. SubSeq(s \o t, 1, Len(s)) = SubSeq(s, 1, Len(s))
      BY <3>1, SubSeqOfConcat1
    <3>3. QED
      BY <3>2, SubSeqFull
  <2>3. QED
    BY <2>1, <2>2
<1>3. SubSeq(s \o t, Len(s) + 1, Len(s) + Len(t)) = t
  <2>1. CASE Len(t) = 0
    <3>1. t = <<>>
      BY <2>1, EmptySeq
    <3>2. /\ Len(s) + 1 \in Int /\ Len(s) + Len(t) \in Int
          /\ Len(s) + Len(t) < Len(s) + 1
      BY <1>1, <2>1
    <3>3. SubSeq(s \o t, Len(s) + 1, Len(s) + Len(t)) = <<>>
      BY <3>2, SubSeqEmpty
    <3>4. QED
      BY <3>1, <3>3
  <2>2. CASE Len(t) # 0
    <3>1. /\ Len(s) + 1 \in (Len(s) + 1)..(Len(s) + Len(t))
          /\ Len(s) + Len(t) \in (Len(s) + 1)..(Len(s) + Len(t))
      BY <1>1, <2>2
    <3>2. SubSeq(s \o t, Len(s) + 1, Len(s) + Len(t)) =
             SubSeq(t, (Len(s) + 1) - Len(s), (Len(s) + Len(t)) - Len(s))
      BY <3>1, SubSeqOfConcat2
    <3>3. (Len(s) + 1) - Len(s) = 1 /\ (Len(s) + Len(t)) - Len(s) = Len(t)
      BY <1>1
    <3>4. QED
      BY <3>2, <3>3, SubSeqFull
  <2>3. QED
    BY <2>1, <2>2
<1>4. QED
  BY <1>1, <1>2, <1>3

-----------------------------------------------------------------------------
(* One sequence after the other.                                           *)

LEMMA FlattenLoop ==
    ASSUME NEW E, NEW ss \in Seq(Seq(E)), Len(ss) > 0
    PROVE  \E f : /\ f[1] = ss[1]
                  /\ \A k \in 2..Len(ss) : f[k] = f[k - 1] \o ss[k]
                  /\ FlattenSeq(ss) = f[Len(ss)]
<1> DEFINE n == Len(ss)
           Def(f, k) == IF k = 1 THEN ss[k] ELSE f[k - 1] \o ss[k]
           Upto(f, k) == f = [j \in 1..k |-> Def(f, j)]
           Loop == CHOOSE f : Upto(f, n)
<1>1. n \in Nat /\ n > 0
  BY LenProperties
<1>2. FlattenSeq(ss) = Loop[n]
  BY <1>1 DEF FlattenSeq
<1>3. \E f : Upto(f, n)
  <2> DEFINE S == {k \in 0..n : \E f : Upto(f, k)}
  <2>1. 0 \in S
    <3>1. Upto([j \in 1..0 |-> ss[j]], 0)
      OBVIOUS
    <3> HIDE DEF Upto
    <3>2. QED
      BY <1>1, <3>1
  <2>2. ASSUME NEW k \in 1..n, k - 1 \in S PROVE k \in S
    <3>1. PICK f : Upto(f, k - 1)
      BY <2>2
    <3> DEFINE g == [j \in 1..k |-> IF j < k THEN f[j] ELSE Def(f, k)]
    <3>2. ASSUME NEW j \in 1..k PROVE g[j] = Def(g, j)
      <4>1. CASE j = k
        <5>1. CASE k = 1
          BY <4>1, <5>1
        <5>2. CASE k # 1
          <6>1. k - 1 \in 1..k /\ k - 1 < k
            BY <1>1, <5>2
          <6>2. g[k - 1] = f[k - 1]
            BY <6>1
          <6>3. g[k] = f[k - 1] \o ss[k]
            <7>1. k \in 1..k /\ ~(k < k)
              BY <1>1
            <7>2. g[k] = Def(f, k)
              <8> HIDE DEF Def
              <8>1. QED
                BY <7>1
            <7>3. QED
              BY <5>2, <7>2
          <6> HIDE DEF g
          <6>4. QED
            BY <4>1, <5>2, <6>2, <6>3
        <5>3. QED
          BY <5>1, <5>2
      <4>2. CASE j # k
        <5>1. j \in 1..(k - 1) /\ j < k
          BY <4>2
        <5>2. g[j] = f[j] /\ f[j] = Def(f, j)
          BY <3>1, <5>1
        <5>3. j # 1 => g[j - 1] = f[j - 1]
          <6>1. j # 1 => j - 1 \in 1..k /\ j - 1 < k
            BY <5>1
          <6>2. QED
            BY <6>1
        <5>4. QED
          BY <5>2, <5>3
      <4>3. QED
        BY <4>1, <4>2
    <3>3. Upto(g, k)
      BY <3>2
    <3> HIDE DEF Upto, g
    <3>4. QED
      BY <3>3
  <2>3. QED
    <3>1. 0..n \subseteq S
      <4> HIDE DEF S, n
      <4>1. QED
        BY <1>1, <2>1, <2>2, UpTo, Zenon
    <3>2. n \in 0..n
      BY <1>1
    <3>3. QED
      BY <3>1, <3>2
<1>4. \A j \in 1..n : Loop[j] = Def(Loop, j)
  <2>1. Upto(Loop, n)
    BY <1>3
  <2> HIDE DEF Loop, Def
  <2>2. QED
    BY <2>1
<1> HIDE DEF Loop
<1>5. Loop[1] = ss[1] /\ \A k \in 2..n : Loop[k] = Loop[k - 1] \o ss[k]
  <2>1. 1 \in 1..n /\ \A k \in 2..n : k \in 1..n /\ k # 1
    BY <1>1
  <2>2. QED
    BY <1>4, <2>1
<1> HIDE DEF n
<1>6. QED
  BY <1>2, <1>5 DEF n

LEMMA FlattenNone == FlattenSeq(<<>>) = <<>>
BY DEF FlattenSeq

LEMMA FlattenAppend ==
    ASSUME NEW E, NEW ss \in Seq(Seq(E)), NEW s \in Seq(E)
    PROVE  FlattenSeq(Append(ss, s)) = FlattenSeq(ss) \o s
<1> DEFINE n == Len(ss)
           tt == Append(ss, s)
<1>1. /\ n \in Nat /\ tt \in Seq(Seq(E)) /\ Len(tt) = n + 1
      /\ tt[n + 1] = s /\ \A k \in 1..n : tt[k] = ss[k]
  BY LenProperties, AppendProperties
<1>2. PICK g : /\ g[1] = tt[1]
               /\ \A k \in 2..(n + 1) : g[k] = g[k - 1] \o tt[k]
               /\ FlattenSeq(tt) = g[n + 1]
  <2> HIDE DEF tt, n
  <2>1. Len(tt) > 0
    BY <1>1
  <2>2. \E g : /\ g[1] = tt[1]
               /\ \A k \in 2..Len(tt) : g[k] = g[k - 1] \o tt[k]
               /\ FlattenSeq(tt) = g[Len(tt)]
    BY <1>1, <2>1, FlattenLoop
  <2>3. QED
    BY <1>1, <2>2
<1>3. CASE n = 0
  <2>1. ss = <<>>
    BY <1>3, EmptySeq
  <2>2. FlattenSeq(ss) = <<>>
    BY <2>1, FlattenNone
  <2>3. <<>> \o s = s
    BY ConcatEmptySeq
  <2> HIDE DEF n, tt
  <2>4. g[n + 1] = s
    BY <1>1, <1>2, <1>3
  <2>5. QED
    BY <1>2, <2>2, <2>3, <2>4 DEF tt
<1>4. CASE n > 0
  <2>1. PICK f : /\ f[1] = ss[1]
                 /\ \A k \in 2..n : f[k] = f[k - 1] \o ss[k]
                 /\ FlattenSeq(ss) = f[n]
    BY <1>4, FlattenLoop
  <2> HIDE DEF n, tt
  <2> DEFINE S == {k \in 0..n : k > 0 => g[k] = f[k]}
  <2>2. 0 \in S
    BY <1>1
  <2>3. ASSUME NEW k \in 1..n, k - 1 \in S PROVE k \in S
    <3>1. CASE k = 1
      BY <1>1, <1>2, <2>1, <3>1
    <3>2. CASE k # 1
      <4>1. k \in 2..n /\ k \in 2..(n + 1) /\ k - 1 > 0
        BY <1>1, <3>2
      <4>2. g[k - 1] = f[k - 1] /\ tt[k] = ss[k]
        BY <1>1, <2>3, <4>1
      <4>3. g[k] = f[k]
        BY <1>2, <2>1, <4>1, <4>2
      <4>4. QED
        BY <1>1, <4>3
    <3>3. QED
      BY <3>1, <3>2
  <2>4. n \in S
    <3>1. 0..n \subseteq S
      <4> HIDE DEF S
      <4>1. QED
        BY <1>1, <2>2, <2>3, UpTo, Zenon
    <3>2. QED
      BY <1>1, <3>1
  <2>5. g[n + 1] = g[n] \o s
    <3>1. n + 1 \in 2..(n + 1) /\ (n + 1) - 1 = n
      BY <1>1, <1>4
    <3>2. QED
      BY <1>1, <1>2, <3>1
  <2>6. QED
    BY <1>2, <1>4, <2>1, <2>4, <2>5 DEF tt
<1>5. QED
  BY <1>1, <1>3, <1>4

LEMMA FlattenType ==
    ASSUME NEW E, NEW ss \in Seq(Seq(E))
    PROVE  FlattenSeq(ss) \in Seq(E)
<1> DEFINE n == Len(ss)
<1>1. n \in Nat /\ \A k \in 1..n : ss[k] \in Seq(E)
  BY LenProperties, ElementOfSeq
<1>2. CASE n = 0
  <2>1. ss = <<>>
    BY <1>2, EmptySeq
  <2>2. QED
    BY <2>1, FlattenNone, EmptySeq
<1>3. CASE n > 0
  <2>1. PICK f : /\ f[1] = ss[1]
                 /\ \A k \in 2..n : f[k] = f[k - 1] \o ss[k]
                 /\ FlattenSeq(ss) = f[n]
    BY <1>3, FlattenLoop
  <2> HIDE DEF n
  <2> DEFINE S == {k \in 0..n : k > 0 => f[k] \in Seq(E)}
  <2>2. 0 \in S
    BY <1>1
  <2>3. ASSUME NEW k \in 1..n, k - 1 \in S PROVE k \in S
    <3>1. CASE k = 1
      BY <1>1, <2>1, <3>1
    <3>2. CASE k # 1
      <4>1. k \in 2..n /\ k - 1 > 0
        BY <1>1, <3>2
      <4>2. f[k - 1] \in Seq(E) /\ ss[k] \in Seq(E)
        BY <1>1, <2>3, <4>1
      <4>3. f[k] \in Seq(E)
        BY <2>1, <4>1, <4>2, ConcatProperties
      <4>4. QED
        BY <1>1, <4>3
    <3>3. QED
      BY <3>1, <3>2
  <2>4. n \in S
    <3>1. 0..n \subseteq S
      <4> HIDE DEF S
      <4>1. QED
        BY <1>1, <2>2, <2>3, UpTo, Zenon
    <3>2. QED
      BY <1>1, <3>1
  <2>5. QED
    BY <1>3, <2>1, <2>4
<1>4. QED
  BY <1>1, <1>2, <1>3

LEMMA AppendBehind ==
    ASSUME NEW S, NEW s \in Seq(S), NEW t \in Seq(S), NEW x \in S
    PROVE  s \o Append(t, x) = Append(s \o t, x) /\ s \o t \in Seq(S)
<1>1. PICK u : u = <<x>> /\ u \in Seq(S)
  <2>1. <<x>> \in Seq(S)
    OBVIOUS
  <2>2. QED
    BY <2>1
<1>2. Append(t, x) = t \o u
  BY <1>1, AppendIsConcat
<1>3. s \o t \in Seq(S)
  BY ConcatProperties
<1>4. Append(s \o t, x) = (s \o t) \o u
  BY <1>1, <1>3, AppendIsConcat
<1>5. (s \o t) \o u = s \o (t \o u)
  BY <1>1, ConcatAssociative
<1>6. QED
  BY <1>2, <1>3, <1>4, <1>5

LEMMA FlattenConcat ==
    ASSUME NEW E, NEW ss \in Seq(Seq(E)), NEW tt \in Seq(Seq(E))
    PROVE  FlattenSeq(ss \o tt) = FlattenSeq(ss) \o FlattenSeq(tt)
<1> DEFINE n == Len(tt)
           Lead(k) == SubSeq(tt, 1, k)
           S == {k \in 0..n : FlattenSeq(ss \o Lead(k)) =
                                 FlattenSeq(ss) \o FlattenSeq(Lead(k))}
<1>1. n \in Nat /\ FlattenSeq(ss) \in Seq(E)
  BY LenProperties, FlattenType
<1>2. 0 \in S
  <2>1. Lead(0) = <<>>
    BY SubSeqEmpty
  <2>2. ss \o <<>> = ss
    BY ConcatEmptySeq
  <2>3. FlattenSeq(ss) \o <<>> = FlattenSeq(ss)
    BY <1>1, ConcatEmptySeq
  <2>4. FlattenSeq(ss \o Lead(0)) = FlattenSeq(ss) \o FlattenSeq(Lead(0))
    BY <2>1, <2>2, <2>3, FlattenNone, Zenon
  <2>5. QED
    BY <1>1, <2>4
<1>3. ASSUME NEW k \in 1..n, k - 1 \in S PROVE k \in S
  <2>1. PICK u, x : u = Lead(k - 1) /\ x = tt[k]
    OBVIOUS
  <2>2. u \in Seq(Seq(E)) /\ x \in Seq(E) /\ Lead(k) = Append(u, x)
    <3>1. x \in Seq(E)
      BY <2>1, ElementOfSeq
    <3>2. \A i \in 1..(k - 1) : tt[i] \in Seq(E)
      BY <1>1, ElementOfSeq
    <3>3. u \in Seq(Seq(E))
      BY <2>1, <3>2, SubSeqProperties
    <3>4. 1 \in 1..n /\ k \in 1..n
      BY <1>1
    <3>5. Lead(k) = u \o <<x>>
      BY <2>1, <3>4, SubSeqRecursiveSecond
    <3>6. QED
      BY <3>1, <3>3, <3>5, AppendIsConcat
  <2>3. ss \o Append(u, x) = Append(ss \o u, x) /\ ss \o u \in Seq(Seq(E))
    BY <2>2, AppendBehind
  <2>4. /\ FlattenSeq(Append(ss \o u, x)) = FlattenSeq(ss \o u) \o x
        /\ FlattenSeq(Append(u, x)) = FlattenSeq(u) \o x
        /\ FlattenSeq(u) \in Seq(E)
    BY <2>2, <2>3, FlattenAppend, FlattenType
  <2>5. FlattenSeq(ss \o u) = FlattenSeq(ss) \o FlattenSeq(u)
    BY <1>3, <2>1
  <2>6. (FlattenSeq(ss) \o FlattenSeq(u)) \o x =
           FlattenSeq(ss) \o (FlattenSeq(u) \o x)
    <3>1. PICK a, b : a = FlattenSeq(ss) /\ b = FlattenSeq(u)
      OBVIOUS
    <3>2. a \in Seq(E) /\ b \in Seq(E) /\ x \in Seq(E)
      BY <1>1, <2>2, <2>4, <3>1
    <3>3. (a \o b) \o x = a \o (b \o x)
      BY <3>2, ConcatAssociative, SMTT(30)
    <3>4. QED
      BY <3>1, <3>3
  <2>7. FlattenSeq(ss \o Lead(k)) = FlattenSeq(ss) \o FlattenSeq(Lead(k))
    BY <2>2, <2>3, <2>4, <2>5, <2>6
  <2>8. k \in 0..n
    BY <1>1
  <2>9. QED
    BY <2>7, <2>8
<1>4. n \in S
  <2>1. 0..n \subseteq S
    <3> HIDE DEF S
    <3>1. QED
      BY <1>1, <1>2, <1>3, UpTo, Zenon
  <2>2. n \in 0..n
    BY <1>1
  <2> HIDE DEF S
  <2>3. QED
    BY <2>1, <2>2
<1>5. Lead(n) = tt
  BY SubSeqFull
<1>6. QED
  BY <1>4, <1>5

(* The first n of them come first.                                         *)
LEMMA FlattenPart ==
    ASSUME NEW E, NEW ss \in Seq(Seq(E)), NEW n \in 0..Len(ss)
    PROVE  \E rest \in Seq(E) :
              FlattenSeq(ss) = FlattenSeq(SubSeq(ss, 1, n)) \o rest
<1>1. PICK front, back : /\ front = SubSeq(ss, 1, n)
                         /\ back = SubSeq(ss, n + 1, Len(ss))
  OBVIOUS
<1>2. Len(ss) \in Nat /\ \A k \in 1..Len(ss) : ss[k] \in Seq(E)
  BY LenProperties, ElementOfSeq
<1>3. front \in Seq(Seq(E))
  <2>1. \A k \in 1..n : ss[k] \in Seq(E)
    BY <1>2
  <2>2. QED
    BY <1>1, <1>2, <2>1, SubSeqProperties
<1>4. back \in Seq(Seq(E))
  <2>1. \A k \in (n + 1)..Len(ss) : ss[k] \in Seq(E)
    BY <1>2
  <2>2. n + 1 \in Int /\ Len(ss) \in Int
    BY <1>2
  <2>3. QED
    BY <1>1, <2>1, <2>2, SubSeqProperties
<1>5. ss = front \o back
  <2>1. /\ 1 \in 1..(Len(ss) + 1) /\ n \in 0..Len(ss) /\ 1 - 1 = 0
        /\ Len(ss) \in n..Len(ss)
    BY <1>2
  <2>2. front \o back = SubSeq(ss, 1, Len(ss))
    BY <1>1, <2>1, ConcatAdjacentSubSeq
  <2>3. QED
    BY <2>2, SubSeqFull
<1>6. FlattenSeq(ss) = FlattenSeq(front) \o FlattenSeq(back)
  BY <1>3, <1>4, <1>5, FlattenConcat
<1>7. QED
  BY <1>1, <1>4, <1>6, FlattenType
=============================================================================
