--------------------------- MODULE RleStreamProofs --------------------------
(***************************************************************************)
(* The encoder of levels and indices: what its operators do to an encoder  *)
(* that satisfies EncoderInv, for every bit width and buffer.  Then the    *)
(* builder of the levels, and the page they become a part of.  What is     *)
(* put into the builder is in its runs, whose bytes always fit its buffer. *)
(* A page holds the values of its value encoder whenever that encoder      *)
(* reserves at least the bytes of the length that precedes the levels.     *)
(* The levels themselves fit because their builder's view fits its buffer. *)
(* The fixed buffer of dict_encoder::flush is large enough, for every page *)
(* and bit width.                                                          *)
(***************************************************************************)
EXTENDS DataPage, DictIndices, SequenceLemmas

-----------------------------------------------------------------------------
(* The encoder.                                                            *)
LEMMA CopiesType ==
    ASSUME NEW v \in Values, NEW n \in Nat
    PROVE  /\ Copies(v, n) \in Seq(Values)
           /\ Len(Copies(v, n)) = n
           /\ \A i \in 1..n : Copies(v, n)[i] = v
BY DEF Copies

LEMMA SeqIsCopies ==
    ASSUME NEW s \in Seq(Values), NEW v \in Values,
           \A i \in 1..Len(s) : s[i] = v
    PROVE  s = Copies(v, Len(s))
BY DEF Copies

LEMMA VlqType ==
    ASSUME NEW n \in Nat
    PROVE  /\ VlqBytes(n) \in 1..MaxVlqBytes
           /\ n < 64 => VlqBytes(n) = 1
BY SMT DEF VlqBytes, MaxVlqBytes

LEMMA GroupDivision ==
    /\ 0 \div GroupSize = 0 /\ GroupSize \div GroupSize = 1
    /\ \A k \in Nat : /\ (GroupSize * k) \div GroupSize = k
                      /\ (GroupSize * k) % GroupSize = 0
                      /\ GroupSize * k + GroupSize = GroupSize * (k + 1)
    /\ \A n \in Nat : n % GroupSize = 0 => \E k \in Nat : n = GroupSize * k
BY GroupAssumption

LEMMA GroupOrder ==
    ASSUME NEW k \in Nat, NEW m \in Nat
    PROVE  /\ k <= m => GroupBytes * k <= GroupBytes * m
           /\ GroupSize * k < GroupSize * m => k < m
           /\ k < m => GroupSize * k < GroupSize * m
           /\ GroupBytes * k \in Nat
           /\ GroupBytes * (k + 1) = GroupBytes * k + GroupBytes
BY WidthAssumption, GroupAssumption

-----------------------------------------------------------------------------
(* What the finished runs decode to, and how many bytes they are.          *)

(* A sum over the runs, one by one.                                        *)
LEMMA StreamBytesLoop ==
    ASSUME NEW runs \in Seq(Run)
    PROVE  \E f : /\ f[0] = 0
                  /\ \A k \in 1..Len(runs) :
                        f[k] = f[k - 1] + RunBytes(runs[k])
                  /\ StreamBytes(runs) = f[Len(runs)]
<1> DEFINE n == Len(runs)
           Def(f, k) == IF k = 0 THEN 0 ELSE f[k - 1] + RunBytes(runs[k])
           Upto(f, k) == f = [j \in 0..k |-> Def(f, j)]
           Loop == CHOOSE f : Upto(f, n)
<1>1. n \in Nat
  BY LenProperties
<1>2. StreamBytes(runs) = Loop[n]
  BY DEF StreamBytes
<1>3. \E f : Upto(f, n)
  <2> DEFINE S == {k \in 0..n : \E f : Upto(f, k)}
  <2>1. 0 \in S
    <3>1. Upto([j \in 0..0 |-> 0], 0)
      OBVIOUS
    <3> HIDE DEF Upto
    <3>2. QED
      BY <1>1, <3>1
  <2>2. ASSUME NEW k \in 1..n, k - 1 \in S PROVE k \in S
    <3>1. PICK f : Upto(f, k - 1)
      BY <2>2
    <3> DEFINE g == [j \in 0..k |-> IF j < k THEN f[j] ELSE Def(f, k)]
    <3>2. ASSUME NEW j \in 0..k PROVE g[j] = Def(g, j)
      <4>1. j # 0 => j - 1 \in 0..k /\ j - 1 < k
        BY <1>1
      <4>2. j # 0 => g[j - 1] = f[j - 1]
        BY <4>1
      <4>3. CASE j = k
        <5>1. g[k] = Def(f, k) /\ k # 0
          <6>1. k \in 0..k /\ ~(k < k) /\ k # 0
            BY <1>1
          <6> HIDE DEF Def
          <6>2. QED
            BY <6>1
        <5> HIDE DEF g
        <5>2. QED
          BY <4>2, <4>3, <5>1
      <4>4. CASE j # k
        <5>1. j \in 0..(k - 1) /\ j < k
          BY <4>4
        <5>2. g[j] = f[j] /\ f[j] = Def(f, j)
          BY <3>1, <5>1
        <5> HIDE DEF g
        <5>3. QED
          BY <4>2, <5>2
      <4>5. QED
        BY <4>3, <4>4
    <3>3. Upto(g, k)
      BY <3>2
    <3> HIDE DEF Upto, g
    <3>4. QED
      BY <3>3
  <2>3. QED
    <3>1. 0..n \subseteq S
      <4> HIDE DEF S, n
      <4>1. QED
        BY <1>1, <2>1, <2>2, UpTo, Zenon
    <3>2. n \in 0..n
      BY <1>1
    <3>3. QED
      BY <3>1, <3>2
<1>4. \A j \in 0..n : Loop[j] = Def(Loop, j)
  <2>1. Upto(Loop, n)
    BY <1>3
  <2> HIDE DEF Loop, Def
  <2>2. QED
    BY <2>1
<1> HIDE DEF Loop
<1>5. /\ Loop[0] = 0
      /\ \A k \in 1..n : Loop[k] = Loop[k - 1] + RunBytes(runs[k])
  <2>1. 0 \in 0..n /\ \A k \in 1..n : k \in 0..n /\ k # 0
    BY <1>1
  <2>2. QED
    BY <1>4, <2>1
<1> HIDE DEF n
<1>6. QED
  BY <1>2, <1>5 DEF n

LEMMA StreamBytesNone == StreamBytes(<<>>) = 0
<1>1. <<>> \in Seq(Run) /\ Len(<<>>) = 0
  BY EmptySeq
<1>2. QED
  BY <1>1, StreamBytesLoop

LEMMA StreamBytesAppend ==
    ASSUME NEW runs \in Seq(Run), NEW run \in Run
    PROVE  StreamBytes(Append(runs, run)) = StreamBytes(runs) + RunBytes(run)
<1> DEFINE n == Len(runs)
           more == Append(runs, run)
<1>1. /\ n \in Nat /\ more \in Seq(Run) /\ Len(more) = n + 1
      /\ more[n + 1] = run /\ \A k \in 1..n : more[k] = runs[k]
  BY LenProperties, AppendProperties
<1>2. PICK f : /\ f[0] = 0
               /\ \A k \in 1..n : f[k] = f[k - 1] + RunBytes(runs[k])
               /\ StreamBytes(runs) = f[n]
  BY StreamBytesLoop
<1>3. PICK g : /\ g[0] = 0
               /\ \A k \in 1..(n + 1) : g[k] = g[k - 1] + RunBytes(more[k])
               /\ StreamBytes(more) = g[n + 1]
  <2> HIDE DEF more, n
  <2>1. \E g : /\ g[0] = 0
               /\ \A k \in 1..Len(more) : g[k] = g[k - 1] + RunBytes(more[k])
               /\ StreamBytes(more) = g[Len(more)]
    BY <1>1, StreamBytesLoop
  <2>2. QED
    BY <1>1, <2>1
<1> HIDE DEF more, n
<1>4. n \in {k \in 0..n : g[k] = f[k]}
  <2> DEFINE S == {k \in 0..n : g[k] = f[k]}
  <2>1. 0 \in S
    BY <1>1, <1>2, <1>3
  <2>2. ASSUME NEW k \in 1..n, k - 1 \in S PROVE k \in S
    BY <1>1, <1>2, <1>3, <2>2
  <2>3. 0..n \subseteq S
    <3> HIDE DEF S
    <3>1. QED
      BY <1>1, <2>1, <2>2, UpTo, Zenon
  <2>4. QED
    BY <1>1, <2>3
<1>5. g[n + 1] = g[n] + RunBytes(run)
  BY <1>1, <1>3
<1>6. QED
  BY <1>2, <1>3, <1>4, <1>5 DEF more

LEMMA RunBytesType == \A run \in Run : RunBytes(run) \in Nat
BY VlqType, WidthAssumption, GroupAssumption DEF RunBytes, Run, MaxVlqBytes

LEMMA StreamBytesType == \A runs \in Seq(Run) : StreamBytes(runs) \in Nat
<1>1. SUFFICES ASSUME NEW runs \in Seq(Run) PROVE StreamBytes(runs) \in Nat
  OBVIOUS
<1> DEFINE n == Len(runs)
<1>2. n \in Nat /\ \A k \in 1..n : RunBytes(runs[k]) \in Nat
  BY LenProperties, ElementOfSeq, RunBytesType
<1>3. PICK f : /\ f[0] = 0
               /\ \A k \in 1..n : f[k] = f[k - 1] + RunBytes(runs[k])
               /\ StreamBytes(runs) = f[n]
  BY StreamBytesLoop
<1> HIDE DEF n
<1> DEFINE S == {k \in 0..n : f[k] \in Nat}
<1>4. 0 \in S
  BY <1>2, <1>3
<1>5. ASSUME NEW k \in 1..n, k - 1 \in S PROVE k \in S
  BY <1>2, <1>3, <1>5
<1>6. 0..n \subseteq S
  <2> HIDE DEF S
  <2>1. QED
    BY <1>2, <1>4, <1>5, UpTo, Zenon
<1>7. QED
  BY <1>2, <1>3, <1>6

(* The values of runs, as sequences over a set that has all of them.       *)
LEMMA RunsAreSequences ==
    ASSUME NEW runs \in Seq(Run)
    PROVE  \E E : [i \in 1..Len(runs) |-> RunValues(runs[i])] \in Seq(Seq(E))
<1> DEFINE E == {RunValues(runs[p[1]])[p[2]] : p \in Nat \X Nat}
<1>1. Len(runs) \in Nat
  BY LenProperties
<1>2. ASSUME NEW i \in 1..Len(runs) PROVE RunValues(runs[i]) \in Seq(E)
  <2>1. PICK r \in Run : r = runs[i]
    BY ElementOfSeq
  <2>2. PICK n \in Nat : n = r.count
    BY DEF Run
  <2>3. /\ DOMAIN RunValues(r) = 1..n
        /\ RunValues(r) = [k \in 1..n |-> RunValues(r)[k]]
    <3>1. CASE r.literal
      <4>1. RunValues(r) = SubSeq(r.vals, 1, n)
        BY <2>2, <3>1 DEF RunValues
      <4>2. SubSeq(r.vals, 1, n) = [k \in 1..n |-> r.vals[k]]
        OBVIOUS
      <4>3. QED
        BY <4>1, <4>2
    <3>2. CASE ~r.literal
      BY <2>2, <3>2 DEF RunValues, Copies
    <3>3. QED
      BY <3>1, <3>2
  <2>4. ASSUME NEW k \in 1..n PROVE RunValues(r)[k] \in E
    <3>1. <<i, k>> \in Nat \X Nat /\ <<i, k>>[1] = i /\ <<i, k>>[2] = k
      OBVIOUS
    <3>2. RunValues(runs[<<i, k>>[1]])[<<i, k>>[2]] \in E
      BY <3>1
    <3>3. QED
      BY <2>1, <3>1, <3>2
  <2>5. PICK s : s = RunValues(r)
    OBVIOUS
  <2> HIDE DEF E
  <2>6. s = [k \in 1..n |-> s[k]] /\ \A k \in 1..n : s[k] \in E
    BY <2>1, <2>3, <2>4, <2>5
  <2>7. s \in Seq(E)
    BY <2>6
  <2>8. QED
    BY <2>1, <2>5, <2>7
<1> HIDE DEF E
<1>3. [i \in 1..Len(runs) |-> RunValues(runs[i])] \in Seq(Seq(E))
  BY <1>1, <1>2
<1>4. QED
  BY <1>3

LEMMA DecodeNone == Decode(<<>>) = <<>>
<1>1. [i \in 1..Len(<<>>) |-> RunValues(<<>>[i])] = <<>>
  OBVIOUS
<1>2. QED
  BY <1>1, FlattenNone DEF Decode

LEMMA DecodeConcat ==
    ASSUME NEW runs \in Seq(Run), NEW more \in Seq(Run)
    PROVE  Decode(runs \o more) = Decode(runs) \o Decode(more)
<1> DEFINE V(s) == [i \in 1..Len(s) |-> RunValues(s[i])]
           both == runs \o more
<1>1. /\ both \in Seq(Run) /\ Len(both) = Len(runs) + Len(more)
      /\ Len(runs) \in Nat /\ Len(more) \in Nat
      /\ \A i \in 1..Len(both) :
            both[i] = IF i <= Len(runs) THEN runs[i] ELSE more[i - Len(runs)]
  BY ConcatProperties, LenProperties
<1>2. PICK E : V(both) \in Seq(Seq(E))
  <2> HIDE DEF both
  <2>1. QED
    BY <1>1, RunsAreSequences
<1>3. \A i \in 1..Len(both) : RunValues(both[i]) \in Seq(E)
  <2> HIDE DEF both
  <2>1. Len(both) \in Nat
    BY <1>1
  <2>2. Len(V(both)) = Len(both) /\ DOMAIN V(both) = 1..Len(both)
    BY <2>1
  <2>3. QED
    BY <1>2, <2>1, <2>2, ElementOfSeq
<1> HIDE DEF both
<1>4. V(runs) \in Seq(Seq(E))
  <2>1. ASSUME NEW i \in 1..Len(runs) PROVE RunValues(runs[i]) \in Seq(E)
    <3>1. i \in 1..Len(both) /\ both[i] = runs[i]
      BY <1>1
    <3>2. QED
      BY <1>3, <3>1
  <2>2. QED
    BY <1>1, <2>1
<1>5. V(more) \in Seq(Seq(E))
  <2>1. ASSUME NEW i \in 1..Len(more) PROVE RunValues(more[i]) \in Seq(E)
    <3>1. /\ Len(runs) + i \in 1..Len(both) /\ ~(Len(runs) + i <= Len(runs))
          /\ (Len(runs) + i) - Len(runs) = i
      BY <1>1
    <3>2. both[Len(runs) + i] = more[i]
      BY <1>1, <3>1
    <3>3. QED
      BY <1>3, <3>1, <3>2
  <2>2. QED
    BY <1>1, <2>1
<1>6. V(both) = V(runs) \o V(more)
  <2>1. /\ Len(V(runs)) = Len(runs) /\ Len(V(more)) = Len(more)
        /\ \A i \in 1..Len(runs) : V(runs)[i] = RunValues(runs[i])
        /\ \A i \in 1..Len(more) : V(more)[i] = RunValues(more[i])
    BY <1>1
  <2>2. PICK a, b : a = V(runs) /\ b = V(more)
    OBVIOUS
  <2>3. a \in Seq(Seq(E)) /\ b \in Seq(Seq(E))
    BY <1>4, <1>5, <2>2
  <2>4. ASSUME NEW i \in 1..Len(both)
        PROVE  RunValues(both[i]) =
                  IF i <= Len(a) THEN a[i] ELSE b[i - Len(a)]
    <3>1. CASE i <= Len(runs)
      BY <1>1, <2>1, <2>2, <3>1
    <3>2. CASE ~(i <= Len(runs))
      <4>1. i - Len(runs) \in 1..Len(more)
        BY <1>1, <3>2
      <4>2. QED
        BY <1>1, <2>1, <2>2, <3>2, <4>1
    <3>3. QED
      BY <3>1, <3>2
  <2>5. Len(both) = Len(a) + Len(b)
    BY <1>1, <2>1, <2>2
  <2>6. PICK c : c = V(both)
    OBVIOUS
  <2>7. /\ c \in Seq(Seq(E)) /\ Len(c) = Len(a) + Len(b)
        /\ \A i \in 1..Len(c) :
              c[i] = IF i <= Len(a) THEN a[i] ELSE b[i - Len(a)]
    BY <1>1, <1>2, <2>4, <2>5, <2>6
  <2>8. /\ a \o b \in Seq(Seq(E)) /\ Len(a \o b) = Len(a) + Len(b)
        /\ \A i \in 1..Len(a \o b) :
              (a \o b)[i] = IF i <= Len(a) THEN a[i] ELSE b[i - Len(a)]
    BY <2>3, ConcatProperties
  <2>9. c = a \o b
    BY <2>7, <2>8, SeqEqual
  <2>10. QED
    BY <2>2, <2>6, <2>9
<1>7. FlattenSeq(V(both)) = FlattenSeq(V(runs)) \o FlattenSeq(V(more))
  <2> HIDE DEF V
  <2>1. QED
    BY <1>4, <1>5, <1>6, FlattenConcat
<1>8. QED
  BY <1>7 DEF Decode, both

LEMMA DecodeAppend ==
    ASSUME NEW runs \in Seq(Run), NEW run \in Run
    PROVE  Decode(Append(runs, run)) = Decode(runs) \o RunValues(run)
<1>1. PICK one : one = <<run>> /\ one \in Seq(Run) /\ Len(one) = 1
                 /\ one[1] = run
  <2>1. <<run>> \in Seq(Run) /\ Len(<<run>>) = 1 /\ <<run>>[1] = run
    OBVIOUS
  <2>2. QED
    BY <2>1, Zenon
<1>2. Append(runs, run) = runs \o one
  BY <1>1, AppendIsConcat
<1>3. Decode(one) = RunValues(run)
  <2>1. PICK E : [i \in 1..Len(one) |-> RunValues(one[i])] \in Seq(Seq(E))
    BY <1>1, RunsAreSequences
  <2>2. [i \in 1..Len(one) |-> RunValues(one[i])] = <<RunValues(run)>>
    BY <1>1
  <2>3. PICK s : s = RunValues(run)
    OBVIOUS
  <2>4. s \in Seq(E)
    BY <2>1, <2>2, <2>3
  <2>5. <<>> \in Seq(Seq(E)) /\ Append(<<>>, s) = <<s>> /\ <<>> \o s = s
    BY <2>4, ConcatEmptySeq
  <2>6. FlattenSeq(Append(<<>>, s)) = FlattenSeq(<<>>) \o s
    BY <2>4, <2>5, FlattenAppend
  <2>7. FlattenSeq(<<s>>) = s
    BY <2>5, <2>6, FlattenNone
  <2>8. QED
    BY <2>2, <2>3, <2>7 DEF Decode
<1>4. QED
  BY <1>1, <1>2, <1>3, DecodeConcat

-----------------------------------------------------------------------------
(* Members that an operation changes, and those it leaves alone.          *)
LEMMA CheckFields ==
    ASSUME NEW e \in Encoder
    PROVE  /\ CheckBufferFull(e) \in Encoder
           /\ CheckBufferFull(e).buf = e.buf
           /\ CheckBufferFull(e).cur = e.cur
           /\ CheckBufferFull(e).rep = e.rep
           /\ CheckBufferFull(e).lit = e.lit
           /\ CheckBufferFull(e).ind = e.ind
           /\ CheckBufferFull(e).open = e.open
           /\ CheckBufferFull(e).vals = e.vals
           /\ CheckBufferFull(e).bytes = e.bytes
           /\ CheckBufferFull(e).len = e.len
           /\ CheckBufferFull(e).full <=>
                (e.full \/ e.bytes + MinBufferSize > e.len)
BY Zenon DEF CheckBufferFull, Encoder

LEMMA RepeatedRun ==
    ASSUME NEW v \in Values, NEW n \in Nat
    PROVE  /\ Repeated(v, n) \in Run
           /\ RunValues(Repeated(v, n)) = Copies(v, n)
<1>1. <<v>> \in Seq(Values) /\ <<v>>[1] = v
  OBVIOUS
<1>2. QED
  BY <1>1, Zenon DEF Repeated, Run, RunValues

LEMMA LiteralRun ==
    ASSUME NEW s \in Seq(Values), NEW n \in Nat, n = Len(s)
    PROVE  /\ Literal(s, n) \in Run
           /\ RunValues(Literal(s, n)) = s
<1>1. SubSeq(s, 1, n) = s
  BY SubSeqFull
<1>2. QED
  BY <1>1, Zenon DEF Literal, Run, RunValues

LEMMA FlushRepeatedRunFields ==
    ASSUME NEW e \in Encoder
    PROVE  /\ FlushRepeatedRun(e) \in Encoder
           /\ FlushRepeatedRun(e).buf = <<>>
           /\ FlushRepeatedRun(e).cur = e.cur
           /\ FlushRepeatedRun(e).rep = 0
           /\ FlushRepeatedRun(e).lit = e.lit
           /\ FlushRepeatedRun(e).ind = e.ind
           /\ FlushRepeatedRun(e).open = e.open
           /\ FlushRepeatedRun(e).len = e.len
           /\ FlushRepeatedRun(e).vals = e.vals \o Copies(e.cur, e.rep)
           /\ FlushRepeatedRun(e).bytes =
                e.bytes + VlqBytes(e.rep) + ValueBytes
           /\ FlushRepeatedRun(e).full <=>
                (e.full \/ FlushRepeatedRun(e).bytes + MinBufferSize > e.len)
<1> DEFINE run == Repeated(e.cur, e.rep)
           b == e.bytes + VlqBytes(e.rep) + ValueBytes
           w == [CloseRun(e, run) EXCEPT
                    !.bytes = @ + VlqBytes(e.rep) + ValueBytes,
                    !.buf = <<>>, !.rep = 0]
<1>1. /\ e.cur \in Values /\ e.rep \in Nat /\ e.bytes \in Nat
      /\ e.runs \in Seq(Run) /\ e.vals \in Seq(Values)
  BY Zenon DEF Encoder
<1>2. run \in Run /\ RunValues(run) = Copies(e.cur, e.rep)
  BY <1>1, RepeatedRun, Zenon
<1>3. Append(e.runs, run) \in Seq(Run)
  BY <1>1, <1>2, AppendProperties, Zenon
<1>4. e.vals \o RunValues(run) \in Seq(Values)
  BY <1>1, <1>2, CopiesType, ConcatProperties, Zenon
<1>5. b \in Nat /\ <<>> \in Seq(Values) /\ 0 \in Nat
  BY <1>1, VlqType, WidthAssumption, SMTT(30) DEF MaxVlqBytes
<1>6. /\ w \in Encoder
      /\ w.buf = <<>> /\ w.cur = e.cur /\ w.rep = 0 /\ w.lit = e.lit
      /\ w.ind = e.ind /\ w.open = e.open /\ w.len = e.len
      /\ w.vals = e.vals \o RunValues(run)
      /\ w.bytes = b /\ w.full = e.full
  BY <1>1, <1>3, <1>4, <1>5, Zenon DEF Encoder, CloseRun
<1>7. FlushRepeatedRun(e) = CheckBufferFull(w)
  BY Zenon DEF FlushRepeatedRun
<1> HIDE DEF w
<1>8. /\ CheckBufferFull(w).bytes = b
      /\ CheckBufferFull(w).full <=> (e.full \/ b + MinBufferSize > e.len)
  BY <1>6, CheckFields, Zenon
<1>9. /\ CheckBufferFull(w) \in Encoder
      /\ CheckBufferFull(w).buf = <<>> /\ CheckBufferFull(w).cur = e.cur
      /\ CheckBufferFull(w).rep = 0 /\ CheckBufferFull(w).lit = e.lit
      /\ CheckBufferFull(w).ind = e.ind /\ CheckBufferFull(w).open = e.open
      /\ CheckBufferFull(w).len = e.len
      /\ CheckBufferFull(w).vals = e.vals \o Copies(e.cur, e.rep)
  BY <1>2, <1>6, CheckFields, Zenon
<1>10. QED
  BY <1>7, <1>8, <1>9, Zenon

-----------------------------------------------------------------------------
(* A literal run that is not closed.                                       *)
LEMMA WriteLiteralsFields ==
    ASSUME NEW e \in Encoder, Len(e.buf) \in {0, GroupSize}
    PROVE  LET w == WriteLiterals(e) IN
           /\ w \in Encoder
           /\ w.buf = <<>> /\ w.cur = e.cur /\ w.rep = e.rep
           /\ w.lit = e.lit /\ w.ind = TRUE /\ w.open = e.open \o e.buf
           /\ w.len = e.len /\ w.vals = e.vals /\ w.runs = e.runs
           /\ w.full = e.full
           /\ w.bytes = e.bytes + (IF e.ind THEN 0 ELSE 1)
                               + GroupBytes * (Len(e.buf) \div GroupSize)
<1>1. /\ e.buf \in Seq(Values) /\ e.open \in Seq(Values) /\ e.bytes \in Nat
      /\ e.ind \in BOOLEAN
  BY Zenon DEF Encoder
<1>2. e.open \o e.buf \in Seq(Values) /\ <<>> \in Seq(Values)
  BY <1>1
<1>3. Len(e.buf) \div GroupSize \in Nat
  <2>1. CASE Len(e.buf) = 0
    BY <2>1, GroupDivision
  <2>2. CASE Len(e.buf) = GroupSize
    <3>1. Len(e.buf) \div GroupSize = 1
      BY <2>2, GroupDivision, Zenon
    <3>2. QED
      BY <3>1
  <2>3. QED
    BY <2>1, <2>2
<1>4. GroupBytes * (Len(e.buf) \div GroupSize) \in Nat
  BY <1>3, WidthAssumption
<1> DEFINE b == e.bytes + (IF e.ind THEN 0 ELSE 1)
                    + GroupBytes * (Len(e.buf) \div GroupSize)
<1>5. b \in Nat
  BY <1>1, <1>4
<1>6. TRUE \in BOOLEAN
  OBVIOUS
<1>7. WriteLiterals(e) = [e EXCEPT !.bytes = b, !.ind = TRUE,
                                   !.open = e.open \o e.buf, !.buf = <<>>]
  BY Zenon DEF WriteLiterals
<1> HIDE DEF b
<1>8. /\ WriteLiterals(e) \in Encoder
      /\ WriteLiterals(e).buf = <<>>
      /\ WriteLiterals(e).cur = e.cur
      /\ WriteLiterals(e).rep = e.rep
      /\ WriteLiterals(e).lit = e.lit
      /\ WriteLiterals(e).ind = TRUE
      /\ WriteLiterals(e).open = e.open \o e.buf
      /\ WriteLiterals(e).len = e.len
      /\ WriteLiterals(e).vals = e.vals
      /\ WriteLiterals(e).runs = e.runs
      /\ WriteLiterals(e).full = e.full
      /\ WriteLiterals(e).bytes = b
  BY <1>2, <1>5, <1>6, <1>7, Zenon DEF Encoder
<1>9. QED
  BY <1>8, Zenon DEF b

(* A literal run that is closed, its count being that of its literals.     *)
LEMMA CloseLiteralFields ==
    ASSUME NEW e \in Encoder, Len(e.buf) \in {0, GroupSize},
           e.lit = Len(e.open \o e.buf)
    PROVE  LET r == FlushLiteralRun(e, TRUE) IN
           /\ r \in Encoder
           /\ r.buf = <<>> /\ r.cur = e.cur /\ r.rep = e.rep
           /\ r.lit = 0 /\ r.ind = FALSE /\ r.open = <<>>
           /\ r.len = e.len /\ r.vals = e.vals \o (e.open \o e.buf)
           /\ r.bytes = e.bytes + (IF e.ind THEN 0 ELSE 1)
                               + GroupBytes * (Len(e.buf) \div GroupSize)
           /\ r.full <=> (e.full \/ r.bytes + MinBufferSize > e.len)
<1> DEFINE w == WriteLiterals(e)
           run == Literal(w.open, w.lit)
           c == [CloseRun(w, run) EXCEPT
                    !.ind = FALSE, !.open = <<>>, !.lit = 0]
           b == e.bytes + (IF e.ind THEN 0 ELSE 1)
                    + GroupBytes * (Len(e.buf) \div GroupSize)
<1>1. FlushLiteralRun(e, TRUE) = CheckBufferFull(c)
  BY Zenon DEF FlushLiteralRun
<1>2. /\ w \in Encoder
      /\ w.buf = <<>> /\ w.cur = e.cur /\ w.rep = e.rep
      /\ w.lit = e.lit /\ w.open = e.open \o e.buf
      /\ w.len = e.len /\ w.vals = e.vals /\ w.full = e.full
      /\ w.bytes = b
  BY WriteLiteralsFields, Zenon
<1> HIDE DEF w, b
<1>3. /\ w.open \in Seq(Values) /\ w.vals \in Seq(Values)
      /\ w.runs \in Seq(Run) /\ w.lit \in Nat
  BY <1>2, Zenon DEF Encoder
<1>4. run \in Run /\ RunValues(run) = w.open
  BY <1>2, <1>3, LiteralRun, Zenon
<1>5. Append(w.runs, run) \in Seq(Run)
  BY <1>3, <1>4, AppendProperties, Zenon
<1>6. w.vals \o RunValues(run) \in Seq(Values)
  BY <1>3, <1>4, ConcatProperties, Zenon
<1>7. <<>> \in Seq(Values) /\ 0 \in Nat /\ FALSE \in BOOLEAN
  OBVIOUS
<1>8. /\ c \in Encoder
      /\ c.buf = w.buf /\ c.cur = w.cur /\ c.rep = w.rep /\ c.lit = 0
      /\ c.ind = FALSE /\ c.open = <<>> /\ c.len = w.len
      /\ c.vals = w.vals \o RunValues(run)
      /\ c.bytes = w.bytes /\ c.full = w.full
  BY <1>2, <1>5, <1>6, <1>7, Zenon DEF Encoder, CloseRun
<1> HIDE DEF c, run
<1>9. /\ CheckBufferFull(c).bytes = b
      /\ CheckBufferFull(c).full <=> (e.full \/ b + MinBufferSize > e.len)
  BY <1>2, <1>8, CheckFields, ZenonT(30)
<1>10. /\ CheckBufferFull(c) \in Encoder
       /\ CheckBufferFull(c).buf = <<>> /\ CheckBufferFull(c).cur = e.cur
       /\ CheckBufferFull(c).rep = e.rep /\ CheckBufferFull(c).lit = 0
       /\ CheckBufferFull(c).ind = FALSE /\ CheckBufferFull(c).open = <<>>
       /\ CheckBufferFull(c).len = e.len
       /\ CheckBufferFull(c).vals = e.vals \o (e.open \o e.buf)
  <2>1. c.vals = e.vals \o (e.open \o e.buf)
    BY <1>2, <1>4, <1>8, Zenon
  <2>2. /\ c.buf = <<>> /\ c.cur = e.cur /\ c.rep = e.rep /\ c.len = e.len
    BY <1>2, <1>8, Zenon
  <2>3. QED
    BY <1>8, <2>1, <2>2, CheckFields, Zenon
<1>11. /\ FlushLiteralRun(e, TRUE).bytes = b
       /\ FlushLiteralRun(e, TRUE).full <=>
            (e.full \/ FlushLiteralRun(e, TRUE).bytes + MinBufferSize > e.len)
  BY <1>1, <1>9, Zenon
<1>12. QED
  BY <1>1, <1>10, <1>11, Zenon DEF b

-----------------------------------------------------------------------------
(* The inductive invariant of one encoder.  RunStart is where the current  *)
(* run begins in the buffer.  While the encoder is not full there is room  *)
(* for a whole run behind RunStart; once it is full nothing is pending but *)
(* a repeated run of one group or a single value, and there is room for    *)
(* that.                                                                   *)
RunStart(e) ==
    e.bytes - (IF e.ind THEN 1 + GroupBytes * (e.lit \div GroupSize) ELSE 0)

Room(e) ==
    /\ ~e.full => RunStart(e) + MinBufferSize <= e.len
    /\ e.full => /\ e.lit = 0
                 /\ \/ e.rep = GroupSize
                    \/ e.rep = 1 /\ Len(e.buf) = 1
                    \/ e.rep = 0 /\ e.buf = <<>>
                 /\ e.bytes + (IF e.rep > 0 THEN 1 + ValueBytes ELSE 0) <= e.len

EncoderInv(e) == e \in Encoder /\ CountersAgree(e) /\ Room(e)

(* The facts about constants the room arguments need.                      *)
LEMMA RunSizes ==
    /\ MinBufferSize \in Nat
    /\ MaxVlqBytes + ValueBytes <= MinBufferSize
    /\ MaxVlqBytes + ValueBytes + 1 + ValueBytes <= MinBufferSize
    /\ \A k \in Nat : k + 1 < MaxGroups =>
          /\ 1 + GroupBytes * k <= MinBufferSize
          /\ 1 + GroupBytes * (k + 1) <= MinBufferSize
          /\ 1 + GroupBytes * k + 1 + ValueBytes <= MinBufferSize
<1>1. /\ MaxGroups * GroupBytes \in Nat
      /\ MaxGroups * GroupBytes >= 7 * GroupBytes
      /\ MaxGroups * GroupBytes = GroupBytes * MaxGroups
  BY GroupAssumption, WidthAssumption
<1>2. MinBufferSize \in Nat /\ MinBufferSize >= 1 + MaxGroups * GroupBytes
  BY <1>1, WidthAssumption DEF MinBufferSize, MaxOf, MaxVlqBytes
<1>3. MaxVlqBytes + ValueBytes + 1 + ValueBytes <= MinBufferSize
  BY <1>1, <1>2, WidthAssumption DEF MaxVlqBytes
<1>4. ASSUME NEW k \in Nat, k + 1 < MaxGroups
      PROVE  /\ 1 + GroupBytes * k <= MinBufferSize
             /\ 1 + GroupBytes * (k + 1) <= MinBufferSize
             /\ 1 + GroupBytes * k + 1 + ValueBytes <= MinBufferSize
  <2>1. k + 2 \in Nat /\ k + 1 \in Nat /\ k + 2 <= MaxGroups
    BY <1>4, GroupAssumption
  <2>2. GroupBytes * (k + 2) <= GroupBytes * MaxGroups
    BY <2>1, GroupOrder, GroupAssumption
  <2>3. /\ GroupBytes * (k + 1) = GroupBytes * k + GroupBytes
        /\ GroupBytes * (k + 2) = GroupBytes * k + 2 * GroupBytes
        /\ GroupBytes * k \in Nat
    BY WidthAssumption
  <2>4. QED
    BY <1>1, <1>2, <2>2, <2>3, WidthAssumption
<1>5. QED
  BY <1>2, <1>3, <1>4, WidthAssumption DEF MaxVlqBytes

-----------------------------------------------------------------------------
(* FlushBufferedValues.  A full group is buffered.                         *)
GroupReady(b) ==
    /\ b \in Encoder /\ ~b.full /\ Room(b)
    /\ b.lit = Len(b.open) /\ b.lit % GroupSize = 0
    /\ b.ind <=> b.lit # 0
    /\ b.lit < GroupSize * (MaxGroups - 1)
    /\ Len(b.buf) = GroupSize
    /\ b.rep <= GroupSize
    /\ b.rep = GroupSize => b.buf = Copies(b.cur, GroupSize)

LEMMA EncoderFieldTypes ==
    ASSUME NEW e \in Encoder
    PROVE  /\ e.full \in BOOLEAN /\ e.buf \in Seq(Values) /\ e.cur \in Values
           /\ e.rep \in Nat /\ e.lit \in Nat /\ e.ind \in BOOLEAN
           /\ e.open \in Seq(Values) /\ e.vals \in Seq(Values)
           /\ e.runs \in Seq(Run) /\ e.bytes \in Nat /\ e.len \in Nat
BY Zenon DEF Encoder

LEMMA ConcatType == \A a, b \in Seq(Values) : a \o b \in Seq(Values)
BY ConcatProperties

LEMMA ConcatLen == \A a, b \in Seq(Values) : Len(a \o b) = Len(a) + Len(b)
BY ConcatProperties

LEMMA ConcatEmpty ==
    /\ \A a \in Seq(Values) : a \o <<>> = a
    /\ \A a \in Seq(Values) : <<>> \o a = a
    /\ \A a \in Seq(Values) : Len(a) = 0 => a = <<>>
BY ConcatEmptySeq, EmptySeq

LEMMA ConcatSame ==
    \A a, b \in Seq(Values) : a \o b = a => b = <<>>
<1>1. SUFFICES ASSUME NEW a \in Seq(Values), NEW b \in Seq(Values), a \o b = a
               PROVE  b = <<>>
  OBVIOUS
<1>2. Len(a) = Len(a) + Len(b)
  BY <1>1, ConcatLen
<1>3. Len(b) = 0
  BY <1>2, LenProperties
<1>4. QED
  BY <1>3, ConcatEmpty

LEMMA ConcatAssoc ==
    \A a, b, c \in Seq(Values) : (a \o b) \o c = a \o (b \o c)
BY ConcatAssociative

(* The group is a repetition: the buffer is dropped, and an open literal   *)
(* run is closed.                                                          *)
LEMMA DropGroup ==
    ASSUME NEW b, GroupReady(b), b.rep = GroupSize
    PROVE  LET r == FlushBufferedValues(b) IN
           /\ r \in Encoder
           /\ r.buf = <<>> /\ r.cur = b.cur /\ r.rep = b.rep
           /\ r.lit = 0 /\ r.ind = FALSE /\ r.open = <<>>
           /\ r.len = b.len /\ r.vals = b.vals \o b.open
           /\ r.bytes = b.bytes
           /\ b.lit = 0 => ~r.full
           /\ b.lit # 0 => (r.full <=> b.bytes + MinBufferSize > b.len)
<1> DEFINE d == [b EXCEPT !.buf = <<>>]
<1>1. /\ b \in Encoder /\ ~b.full /\ b.lit = Len(b.open)
      /\ b.lit # 0 => b.ind = TRUE
      /\ b.lit = 0 => b.ind = FALSE
  BY EncoderFieldTypes, Zenon DEF GroupReady
<1>2. b.open \in Seq(Values) /\ b.vals \in Seq(Values) /\ b.bytes \in Nat
  BY <1>1, EncoderFieldTypes, Zenon
<1>3. <<>> \in Seq(Values) /\ Len(<<>>) = 0
  OBVIOUS
<1>4. /\ d \in Encoder
      /\ d.buf = <<>> /\ d.cur = b.cur /\ d.rep = b.rep /\ d.lit = b.lit
      /\ d.ind = b.ind /\ d.open = b.open /\ d.len = b.len
      /\ d.vals = b.vals /\ d.bytes = b.bytes /\ d.full = b.full
  BY <1>1, <1>3, Zenon DEF Encoder
<1>5. b.rep >= GroupSize
  BY GroupAssumption
<1>6. FlushBufferedValues(b) =
        IF d.lit # 0 THEN FlushLiteralRun(d, TRUE) ELSE d
  BY <1>4, <1>5, Zenon DEF FlushBufferedValues
<1> HIDE DEF d
<1>7. b.open \o <<>> = b.open
  BY <1>2, ConcatEmpty, Zenon
<1>8. CASE b.lit = 0
  <2>1. b.open = <<>> /\ b.vals \o b.open = b.vals
    BY <1>1, <1>2, <1>8, ConcatEmpty, Zenon
  <2>2. QED
    BY <1>1, <1>4, <1>6, <1>8, <2>1, Zenon
<1>9. CASE b.lit # 0
  <2>1. Len(d.buf) \in {0, GroupSize} /\ d.lit = Len(d.open \o d.buf)
    BY <1>1, <1>3, <1>4, <1>7, Zenon
  <2>2. /\ Len(d.buf) \div GroupSize = 0
        /\ GroupBytes * (Len(d.buf) \div GroupSize) = 0
    <3>1. Len(d.buf) \div GroupSize = 0
      BY <1>3, <1>4, GroupDivision, Zenon
    <3>2. QED
      BY <3>1, WidthAssumption
  <2>3. d.bytes + (IF d.ind THEN 0 ELSE 1)
          + GroupBytes * (Len(d.buf) \div GroupSize) = b.bytes
    <3>1. d.bytes = b.bytes /\ d.ind = TRUE
      BY <1>1, <1>4, <1>9, Zenon
    <3>2. QED
      BY <1>2, <2>2, <3>1
  <2> DEFINE r == FlushLiteralRun(d, TRUE)
  <2>4. /\ r \in Encoder
        /\ r.buf = <<>> /\ r.cur = d.cur /\ r.rep = d.rep
        /\ r.lit = 0 /\ r.ind = FALSE /\ r.open = <<>>
        /\ r.len = d.len /\ r.vals = d.vals \o (d.open \o d.buf)
        /\ r.bytes = b.bytes
        /\ r.full <=> (d.full \/ b.bytes + MinBufferSize > d.len)
    <3>1. /\ r \in Encoder
          /\ r.buf = <<>> /\ r.cur = d.cur /\ r.rep = d.rep
          /\ r.lit = 0 /\ r.ind = FALSE /\ r.open = <<>>
          /\ r.len = d.len /\ r.vals = d.vals \o (d.open \o d.buf)
          /\ r.bytes = d.bytes + (IF d.ind THEN 0 ELSE 1)
                             + GroupBytes * (Len(d.buf) \div GroupSize)
          /\ r.full <=> (d.full \/ r.bytes + MinBufferSize > d.len)
      BY <1>4, <2>1, CloseLiteralFields, Zenon
    <3>2. r.bytes = b.bytes
      BY <2>3, <3>1, Zenon
    <3>3. QED
      BY <3>1, <3>2, Zenon
  <2> HIDE DEF r
  <2>5. FlushBufferedValues(b) = r
    BY <1>4, <1>6, <1>9, Zenon DEF r
  <2>6. r.full <=> (b.bytes + MinBufferSize > b.len)
    BY <1>1, <1>4, <2>4, Zenon
  <2>7. r.vals = b.vals \o b.open
    BY <1>4, <1>7, <2>4, Zenon
  <2>8. QED
    BY <1>4, <1>9, <2>4, <2>5, <2>6, <2>7, Zenon
<1>10. QED
  BY <1>8, <1>9

(* The group is mixed: it joins the literal run, which is closed when its  *)
(* header cannot count another group.                                      *)
LEMMA KeepGroup ==
    ASSUME NEW b, GroupReady(b), b.rep < GroupSize
    PROVE  LET r == FlushBufferedValues(b)
               bytes == b.bytes + (IF b.ind THEN 0 ELSE 1) + GroupBytes
               closed == (b.lit + GroupSize) \div GroupSize + 1 >= MaxGroups
           IN  /\ r \in Encoder
               /\ r.buf = <<>> /\ r.cur = b.cur /\ r.rep = 0
               /\ r.len = b.len /\ r.bytes = bytes
               /\ closed =>
                    /\ r.lit = 0 /\ r.ind = FALSE /\ r.open = <<>>
                    /\ r.vals = b.vals \o (b.open \o b.buf)
                    /\ r.full <=> bytes + MinBufferSize > b.len
               /\ ~closed =>
                    /\ r.lit = b.lit + GroupSize /\ r.ind = TRUE
                    /\ r.open = b.open \o b.buf
                    /\ r.vals = b.vals /\ ~r.full
<1> DEFINE c == [b EXCEPT !.lit = b.lit + GroupSize]
           bytes == b.bytes + (IF b.ind THEN 0 ELSE 1) + GroupBytes
           closed == (b.lit + GroupSize) \div GroupSize + 1 >= MaxGroups
<1>1. /\ b \in Encoder /\ ~b.full /\ b.lit = Len(b.open)
      /\ Len(b.buf) = GroupSize
  BY Zenon DEF GroupReady
<1>2. /\ b.open \in Seq(Values) /\ b.buf \in Seq(Values)
      /\ b.vals \in Seq(Values) /\ b.bytes \in Nat /\ b.lit \in Nat
      /\ b.rep \in Nat
  BY <1>1, EncoderFieldTypes, Zenon
<1>3. b.lit + GroupSize \in Nat
  BY <1>2, GroupAssumption
<1>4. /\ c \in Encoder
      /\ c.buf = b.buf /\ c.cur = b.cur /\ c.rep = b.rep
      /\ c.lit = b.lit + GroupSize
      /\ c.ind = b.ind /\ c.open = b.open /\ c.len = b.len
      /\ c.vals = b.vals /\ c.bytes = b.bytes /\ c.full = b.full
  BY <1>1, <1>3, Zenon DEF Encoder
<1>5. ~(b.rep >= GroupSize)
  BY <1>2, GroupAssumption
<1>6. c = [b EXCEPT !.lit = @ + Len(b.buf)]
  BY <1>1, Zenon
<1>7. FlushBufferedValues(b) =
        [FlushLiteralRun(c, c.lit \div GroupSize + 1 >= MaxGroups)
           EXCEPT !.rep = 0]
  BY <1>5, <1>6, Zenon DEF FlushBufferedValues
<1> HIDE DEF c
<1>8. Len(c.buf) \in {0, GroupSize} /\ c.lit = Len(c.open \o c.buf)
  <2>1. Len(b.open \o b.buf) = b.lit + GroupSize
    BY <1>1, <1>2, ConcatLen, Zenon
  <2>2. QED
    BY <1>1, <1>4, <2>1, Zenon
<1>9. c.bytes + (IF c.ind THEN 0 ELSE 1)
        + GroupBytes * (Len(c.buf) \div GroupSize) = bytes
  <2>1. Len(c.buf) \div GroupSize = 1
    BY <1>1, <1>4, GroupDivision, Zenon
  <2>2. GroupBytes * (Len(c.buf) \div GroupSize) = GroupBytes
    BY <2>1, WidthAssumption
  <2>3. QED
    BY <1>4, <2>2, Zenon
<1>10. c.lit \div GroupSize + 1 >= MaxGroups <=> closed
  BY <1>4, Zenon
<1>11. 0 \in Nat
  OBVIOUS
<1> HIDE DEF bytes, closed
<1>12. CASE closed
  <2> DEFINE f == FlushLiteralRun(c, TRUE)
  <2>1. FlushBufferedValues(b) = [f EXCEPT !.rep = 0]
    <3>1. (c.lit \div GroupSize + 1 >= MaxGroups) = TRUE
      BY <1>10, <1>12, Zenon
    <3>2. QED
      BY <1>7, <3>1, Zenon
  <2>2. /\ f \in Encoder
        /\ f.buf = <<>> /\ f.cur = c.cur
        /\ f.lit = 0 /\ f.ind = FALSE /\ f.open = <<>>
        /\ f.len = c.len /\ f.vals = c.vals \o (c.open \o c.buf)
        /\ f.bytes = c.bytes + (IF c.ind THEN 0 ELSE 1)
                           + GroupBytes * (Len(c.buf) \div GroupSize)
        /\ f.full <=> (c.full \/ f.bytes + MinBufferSize > c.len)
    BY <1>4, <1>8, CloseLiteralFields, Zenon
  <2>3. f.bytes = bytes
    BY <1>9, <2>2, Zenon
  <2>4. f.full <=> bytes + MinBufferSize > b.len
    BY <1>1, <1>4, <2>2, <2>3, Zenon
  <2>5. f.vals = b.vals \o (b.open \o b.buf) /\ f.cur = b.cur /\ f.len = b.len
    BY <1>4, <2>2, Zenon
  <2> HIDE DEF f
  <2>6. LET r == [f EXCEPT !.rep = 0] IN
        /\ r \in Encoder
        /\ r.buf = f.buf /\ r.cur = f.cur /\ r.rep = 0 /\ r.lit = f.lit
        /\ r.ind = f.ind /\ r.open = f.open /\ r.len = f.len
        /\ r.vals = f.vals /\ r.bytes = f.bytes /\ r.full = f.full
    BY <1>11, <2>2, Zenon DEF Encoder
  <2>7. QED
    BY <1>12, <2>1, <2>2, <2>3, <2>4, <2>5, <2>6, Zenon DEF bytes, closed
<1>13. CASE ~closed
  <2> DEFINE f == WriteLiterals(c)
  <2>1. FlushBufferedValues(b) = [f EXCEPT !.rep = 0]
    <3>1. ~(c.lit \div GroupSize + 1 >= MaxGroups)
      BY <1>10, <1>13, Zenon
    <3>2. QED
      BY <1>7, <3>1, Zenon DEF FlushLiteralRun
  <2>2. /\ f \in Encoder
        /\ f.buf = <<>> /\ f.cur = c.cur
        /\ f.lit = c.lit /\ f.ind = TRUE /\ f.open = c.open \o c.buf
        /\ f.len = c.len /\ f.vals = c.vals /\ f.full = c.full
        /\ f.bytes = c.bytes + (IF c.ind THEN 0 ELSE 1)
                           + GroupBytes * (Len(c.buf) \div GroupSize)
    BY <1>4, <1>8, WriteLiteralsFields, Zenon
  <2>3. f.bytes = bytes
    BY <1>9, <2>2, Zenon
  <2>4. /\ f.lit = b.lit + GroupSize /\ f.open = b.open \o b.buf
        /\ f.cur = b.cur /\ f.len = b.len /\ f.vals = b.vals /\ ~f.full
    BY <1>1, <1>4, <2>2, Zenon
  <2> HIDE DEF f
  <2>5. LET r == [f EXCEPT !.rep = 0] IN
        /\ r \in Encoder
        /\ r.buf = f.buf /\ r.cur = f.cur /\ r.rep = 0 /\ r.lit = f.lit
        /\ r.ind = f.ind /\ r.open = f.open /\ r.len = f.len
        /\ r.vals = f.vals /\ r.bytes = f.bytes /\ r.full = f.full
    BY <1>11, <2>2, Zenon DEF Encoder
  <2>6. QED
    BY <1>13, <2>1, <2>2, <2>3, <2>4, <2>5, Zenon DEF bytes, closed
<1>14. QED
  BY <1>12, <1>13

(* A whole repeated group, or a mixed one, leaves the encoder in order and *)
(* its contents unchanged.                                                 *)
LEMMA GroupFlushed ==
    ASSUME NEW b, GroupReady(b)
    PROVE  LET r == FlushBufferedValues(b) IN
           /\ EncoderInv(r)
           /\ r.len = b.len
           /\ Contents(r) = b.vals \o (b.open \o b.buf)
<1> DEFINE r == FlushBufferedValues(b)
<1>1. /\ b \in Encoder /\ ~b.full /\ b.lit = Len(b.open)
      /\ b.lit % GroupSize = 0 /\ (b.ind <=> b.lit # 0)
      /\ b.lit < GroupSize * (MaxGroups - 1) /\ Len(b.buf) = GroupSize
      /\ b.rep <= GroupSize
      /\ b.rep = GroupSize => b.buf = Copies(b.cur, GroupSize)
      /\ RunStart(b) + MinBufferSize <= b.len
  BY Zenon DEF GroupReady, Room
<1>2. /\ b.open \in Seq(Values) /\ b.buf \in Seq(Values) /\ b.cur \in Values
      /\ b.vals \in Seq(Values) /\ b.bytes \in Nat /\ b.lit \in Nat
      /\ b.rep \in Nat /\ b.ind \in BOOLEAN /\ b.len \in Nat
  BY <1>1, EncoderFieldTypes, Zenon
<1>3. PICK k \in Nat : b.lit = GroupSize * k
  BY <1>1, <1>2, GroupDivision, Zenon
<1>4. k + 1 < MaxGroups
  <2>1. MaxGroups - 1 \in Nat
    BY GroupAssumption
  <2>2. GroupSize * k < GroupSize * (MaxGroups - 1)
    BY <1>1, <1>3, Zenon
  <2>3. k < MaxGroups - 1
    BY <2>1, <2>2, GroupOrder
  <2>4. QED
    BY <2>3, GroupAssumption
<1>5. /\ b.lit \div GroupSize = k
      /\ b.lit + GroupSize = GroupSize * (k + 1)
      /\ (b.lit + GroupSize) \div GroupSize = k + 1
      /\ (b.lit + GroupSize) % GroupSize = 0
  <2>1. b.lit \div GroupSize = k /\ b.lit + GroupSize = GroupSize * (k + 1)
    BY <1>3, GroupDivision, Zenon
  <2>2. k + 1 \in Nat
    OBVIOUS
  <2>3. QED
    BY <2>1, <2>2, GroupDivision, Zenon
<1> DEFINE X == GroupBytes * k
<1>6. X \in Nat /\ GroupBytes * (k + 1) = X + GroupBytes /\ (k = 0 => X = 0)
  BY GroupOrder, WidthAssumption
<1> HIDE DEF X
<1>7. RunStart(b) = b.bytes - (IF b.ind THEN 1 + X ELSE 0)
  BY <1>5, Zenon DEF RunStart, X
<1>8. \/ b.ind /\ b.lit # 0 /\ RunStart(b) = b.bytes - (1 + X)
      \/ ~b.ind /\ b.lit = 0 /\ X = 0 /\ RunStart(b) = b.bytes - 0
  <2>1. CASE b.ind
    BY <1>1, <1>7, <2>1, Zenon
  <2>2. CASE ~b.ind
    <3>1. b.lit = 0 /\ RunStart(b) = b.bytes - 0
      BY <1>1, <1>7, <2>2, Zenon
    <3>2. X = 0
      <4>1. k = 0
        BY <1>3, <3>1, GroupAssumption
      <4>2. QED
        BY <1>6, <4>1
    <3>3. QED
      BY <2>2, <3>1, <3>2
  <2>3. QED
    BY <2>1, <2>2
<1>9. /\ MinBufferSize \in Nat
      /\ 1 + X <= MinBufferSize
      /\ 1 + (X + GroupBytes) <= MinBufferSize
      /\ 1 + X + 1 + ValueBytes <= MinBufferSize
  BY <1>4, <1>6, RunSizes DEF X
<1>10. CASE b.rep = GroupSize
  <2>1. /\ r \in Encoder
        /\ r.buf = <<>> /\ r.cur = b.cur /\ r.rep = b.rep
        /\ r.lit = 0 /\ r.ind = FALSE /\ r.open = <<>>
        /\ r.len = b.len /\ r.vals = b.vals \o b.open
        /\ r.bytes = b.bytes
        /\ b.lit = 0 => ~r.full
        /\ b.lit # 0 => (r.full <=> b.bytes + MinBufferSize > b.len)
    BY <1>10, DropGroup, Zenon
  <2> HIDE DEF r
  <2>2. CountersAgree(r)
    <3>1. 0 % GroupSize = 0 /\ 0 < GroupSize * (MaxGroups - 1)
      BY <1>2, <1>1, GroupAssumption, GroupDivision
    <3>2. Len(<<>>) = 0 /\ 0 < GroupSize
      BY GroupAssumption
    <3>3. ~(r.rep < GroupSize)
      BY <1>10, <2>1, GroupAssumption
    <3>4. QED
      BY <2>1, <3>1, <3>2, <3>3, Zenon DEF CountersAgree
  <2>3. Room(r)
    <3>1. RunStart(r) = r.bytes - 0
      BY <2>1, Zenon DEF RunStart
    <3>2. r.rep > 0
      BY <1>10, <2>1, GroupAssumption
    <3>3. CASE b.lit = 0
      <4>1. ~r.full /\ RunStart(r) = b.bytes - 0
        BY <2>1, <3>1, <3>3, Zenon
      <4>2. RunStart(r) + MinBufferSize <= r.len
        <5>1. RunStart(b) = b.bytes - 0
          BY <1>8, <3>3, Zenon
        <5>2. QED
          BY <1>1, <2>1, <4>1, <5>1, Zenon
      <4>3. QED
        BY <4>1, <4>2, Zenon DEF Room
    <3>4. CASE b.lit # 0
      <4>1. b.bytes - (1 + X) + MinBufferSize <= b.len
        BY <1>1, <1>8, <3>4, Zenon
      <4>2. b.bytes + (1 + ValueBytes) <= b.len
        BY <1>2, <1>6, <1>9, <4>1, WidthAssumption
      <4>3. ~r.full => RunStart(r) + MinBufferSize <= r.len
        <5>1. ~(b.bytes + MinBufferSize > b.len)
                => b.bytes - 0 + MinBufferSize <= b.len
          BY <1>2, <1>9
        <5>2. QED
          BY <2>1, <3>1, <3>4, <5>1, Zenon
      <4>4. QED
        BY <1>10, <2>1, <3>2, <4>2, <4>3, Zenon DEF Room
    <3>5. QED
      BY <3>3, <3>4
  <2>4. Contents(r) = b.vals \o (b.open \o b.buf)
    <3>1. Pending(r) = <<>> \o b.buf
      <4>1. r.rep >= GroupSize
        BY <1>10, <2>1, GroupAssumption
      <4>2. QED
        BY <1>1, <1>10, <2>1, <4>1, Zenon DEF Pending
    <3>2. Pending(r) = b.buf
      BY <1>2, <3>1, ConcatEmpty, Zenon
    <3>3. (b.vals \o b.open) \o b.buf = b.vals \o (b.open \o b.buf)
      BY <1>2, ConcatAssoc, Zenon
    <3>4. QED
      BY <2>1, <3>2, <3>3, Zenon DEF Contents
  <2>5. QED
    BY <2>1, <2>2, <2>3, <2>4, Zenon DEF EncoderInv, r
<1>11. CASE b.rep < GroupSize
  <2> DEFINE bytes == b.bytes + (IF b.ind THEN 0 ELSE 1) + GroupBytes
             closed == (b.lit + GroupSize) \div GroupSize + 1 >= MaxGroups
  <2>1. /\ r \in Encoder
        /\ r.buf = <<>> /\ r.cur = b.cur /\ r.rep = 0
        /\ r.len = b.len /\ r.bytes = bytes
        /\ closed =>
             /\ r.lit = 0 /\ r.ind = FALSE /\ r.open = <<>>
             /\ r.vals = b.vals \o (b.open \o b.buf)
             /\ r.full <=> bytes + MinBufferSize > b.len
        /\ ~closed =>
             /\ r.lit = b.lit + GroupSize /\ r.ind = TRUE
             /\ r.open = b.open \o b.buf
             /\ r.vals = b.vals /\ ~r.full
    BY <1>11, KeepGroup, Zenon
  <2>2. closed <=> k + 1 + 1 >= MaxGroups
    BY <1>5, Zenon
  <2>3. bytes \in Nat
    BY <1>2, WidthAssumption
  <2> HIDE DEF r, closed, bytes
  <2>4. /\ 0 % GroupSize = 0 /\ 0 < GroupSize * (MaxGroups - 1)
        /\ Len(<<>>) = 0 /\ 0 < GroupSize /\ ~(0 >= GroupSize) /\ 0 <= 0
        /\ {} = (0 - 0 + 1)..0
    BY <1>2, <1>1, GroupAssumption, GroupDivision
  <2>5. b.open \o b.buf \in Seq(Values)
    BY <1>2, ConcatType, Zenon
  <2>6. Pending(r) = r.open
    <3>1. r.open \in Seq(Values)
      BY <2>1, EncoderFieldTypes, Zenon
    <3>2. Pending(r) = r.open \o <<>>
      BY <2>1, <2>4, Zenon DEF Pending
    <3>3. QED
      BY <3>1, <3>2, ConcatEmpty, Zenon
  <2>7. CASE closed
    <3>1. CountersAgree(r)
      BY <2>1, <2>4, <2>7, Zenon DEF CountersAgree
    <3>2. Room(r)
      <4>1. RunStart(r) = bytes - 0
        BY <2>1, <2>7, Zenon DEF RunStart
      <4>2. bytes <= b.len
        <5>1. CASE b.ind
          <6>1. bytes = b.bytes + 0 + GroupBytes
            BY <5>1, Zenon DEF bytes
          <6>2. b.bytes - (1 + X) + MinBufferSize <= b.len
            BY <1>1, <1>8, <5>1, Zenon
          <6>3. QED
            BY <1>2, <1>6, <1>9, <6>1, <6>2, WidthAssumption
        <5>2. CASE ~b.ind
          <6>1. bytes = b.bytes + 1 + GroupBytes
            BY <5>2, Zenon DEF bytes
          <6>2. b.bytes - 0 + MinBufferSize <= b.len
            BY <1>1, <1>8, <5>2, Zenon
          <6>3. QED
            BY <1>2, <1>6, <1>9, <6>1, <6>2, WidthAssumption
        <5>3. QED
          BY <5>1, <5>2
      <4>3. ~(bytes + MinBufferSize > b.len)
              => bytes - 0 + MinBufferSize <= b.len
        BY <1>2, <1>9, <2>3
      <4>4. bytes + 0 <= b.len /\ ~(0 > 0)
        BY <2>3, <4>2
      <4>5. QED
        BY <2>1, <2>7, <4>1, <4>3, <4>4, Zenon DEF Room
    <3>3. Contents(r) = b.vals \o (b.open \o b.buf)
      <4>1. Contents(r) = (b.vals \o (b.open \o b.buf)) \o <<>>
        BY <2>1, <2>6, <2>7, Zenon DEF Contents
      <4>2. b.vals \o (b.open \o b.buf) \in Seq(Values)
        BY <1>2, <2>5, ConcatType, Zenon
      <4>3. QED
        BY <4>1, <4>2, ConcatEmpty, Zenon
    <3>4. QED
      BY <2>1, <3>1, <3>2, <3>3, Zenon DEF EncoderInv, r
  <2>8. CASE ~closed
    <3>1. r.lit = Len(r.open)
      <4>1. Len(b.open \o b.buf) = b.lit + GroupSize
        BY <1>1, <1>2, ConcatLen, Zenon
      <4>2. QED
        BY <2>1, <2>8, <4>1, Zenon
    <3>2. r.lit < GroupSize * (MaxGroups - 1) /\ r.lit # 0
      <4>1. k + 1 < MaxGroups - 1 /\ k + 1 \in Nat /\ MaxGroups - 1 \in Nat
        BY <2>2, <2>8, GroupAssumption
      <4>2. GroupSize * (k + 1) < GroupSize * (MaxGroups - 1)
        BY <4>1, GroupOrder
      <4>3. b.lit + GroupSize # 0
        BY <1>2, GroupAssumption
      <4>4. QED
        BY <1>5, <2>1, <2>8, <4>2, <4>3, Zenon
    <3>3. CountersAgree(r)
      BY <1>5, <2>1, <2>4, <2>8, <3>1, <3>2, Zenon DEF CountersAgree
    <3>4. Room(r)
      <4>1. RunStart(r) = bytes - (1 + (X + GroupBytes))
        BY <1>5, <1>6, <2>1, <2>8, Zenon DEF RunStart
      <4>2. RunStart(r) = RunStart(b)
        <5>1. CASE b.ind
          <6>1. bytes = b.bytes + 0 + GroupBytes
            BY <5>1, Zenon DEF bytes
          <6>2. RunStart(b) = b.bytes - (1 + X)
            BY <1>8, <5>1, Zenon
          <6>3. (b.bytes + 0 + GroupBytes) - (1 + (X + GroupBytes))
                  = b.bytes - (1 + X)
            <7>1. \A a, g, x \in Nat :
                    (a + 0 + g) - (1 + (x + g)) = a - (1 + x)
              OBVIOUS
            <7>2. b.bytes \in Nat /\ GroupBytes \in Nat /\ X \in Nat
              BY <1>2, <1>6, WidthAssumption
            <7>3. QED
              BY <7>1, <7>2
          <6>4. QED
            BY <4>1, <6>1, <6>2, <6>3, Zenon
        <5>2. CASE ~b.ind
          <6>1. bytes = b.bytes + 1 + GroupBytes
            BY <5>2, Zenon DEF bytes
          <6>2. RunStart(b) = b.bytes - 0 /\ X = 0
            BY <1>8, <5>2, Zenon
          <6>3. QED
            BY <1>2, <1>6, <4>1, <6>1, <6>2, WidthAssumption
        <5>3. QED
          BY <5>1, <5>2
      <4>3. QED
        BY <1>1, <2>1, <2>8, <4>2, Zenon DEF Room
    <3>5. Contents(r) = b.vals \o (b.open \o b.buf)
      BY <2>1, <2>6, <2>8, Zenon DEF Contents
    <3>6. QED
      BY <2>1, <3>3, <3>4, <3>5, Zenon DEF EncoderInv, r
  <2>9. QED
    BY <2>7, <2>8
<1>12. b.rep = GroupSize \/ b.rep < GroupSize
  BY <1>1, <1>2, GroupAssumption
<1>13. QED
  BY <1>10, <1>11, <1>12, Zenon

-----------------------------------------------------------------------------
(* Put.  The value at hand is already counted in repeat_count_ but not yet *)
(* buffered; the encoder may just have become full by ending a repeated    *)
(* run.                                                                    *)
ValueReady(b) ==
    /\ b \in Encoder
    /\ b.lit = Len(b.open) /\ b.lit % GroupSize = 0
    /\ b.ind <=> b.lit # 0
    /\ b.lit < GroupSize * (MaxGroups - 1)
    /\ Len(b.buf) < GroupSize
    /\ b.rep >= 1 /\ b.rep <= Len(b.buf) + 1
    /\ \A i \in (Len(b.buf) - b.rep + 2)..Len(b.buf) : b.buf[i] = b.cur
    /\ \/ ~b.full /\ RunStart(b) + MinBufferSize <= b.len
       \/ /\ b.full /\ b.lit = 0 /\ b.buf = <<>> /\ b.rep = 1
          /\ b.bytes + (1 + ValueBytes) <= b.len

(* A value completes its group.                                            *)
LEMMA GroupFilled ==
    ASSUME NEW b, ValueReady(b), Len(Append(b.buf, b.cur)) = GroupSize
    PROVE  LET c == [b EXCEPT !.buf = Append(b.buf, b.cur)] IN
           /\ GroupReady(c)
           /\ Buffered(b, b.cur) = FlushBufferedValues(c)
<1> DEFINE s == Append(b.buf, b.cur)
           c == [b EXCEPT !.buf = s]
<1>1. /\ b \in Encoder
      /\ b.lit = Len(b.open) /\ b.lit % GroupSize = 0
      /\ (b.ind <=> b.lit # 0)
      /\ b.lit < GroupSize * (MaxGroups - 1)
      /\ Len(b.buf) < GroupSize
      /\ b.rep >= 1 /\ b.rep <= Len(b.buf) + 1
      /\ \A i \in (Len(b.buf) - b.rep + 2)..Len(b.buf) : b.buf[i] = b.cur
      /\ \/ ~b.full /\ RunStart(b) + MinBufferSize <= b.len
         \/ /\ b.full /\ b.lit = 0 /\ b.buf = <<>> /\ b.rep = 1
            /\ b.bytes + (1 + ValueBytes) <= b.len
  BY Zenon DEF ValueReady
<1>2. /\ b.open \in Seq(Values) /\ b.buf \in Seq(Values) /\ b.cur \in Values
      /\ b.vals \in Seq(Values) /\ b.bytes \in Nat /\ b.lit \in Nat
      /\ b.rep \in Nat /\ b.ind \in BOOLEAN /\ b.len \in Nat
  BY <1>1, EncoderFieldTypes, Zenon
<1>3. /\ s \in Seq(Values) /\ Len(s) = Len(b.buf) + 1
      /\ Len(b.buf) \in Nat /\ s[Len(b.buf) + 1] = b.cur
      /\ \A i \in 1..Len(b.buf) : s[i] = b.buf[i]
  BY <1>2
<1>4. Len(s) = GroupSize
  OBVIOUS
<1> HIDE DEF s
<1>5. /\ c \in Encoder
      /\ c.buf = s /\ c.cur = b.cur /\ c.rep = b.rep /\ c.lit = b.lit
      /\ c.ind = b.ind /\ c.open = b.open /\ c.len = b.len
      /\ c.vals = b.vals /\ c.bytes = b.bytes /\ (c.full <=> b.full)
  BY <1>1, <1>3, Zenon DEF Encoder
<1>6. Buffered(b, b.cur) =
        IF Len(c.buf) = GroupSize THEN FlushBufferedValues(c) ELSE c
  BY Zenon DEF Buffered, s
<1> HIDE DEF c
<1>7. \A i \in (Len(s) - b.rep + 1)..Len(s) : s[i] = b.cur
  <2>1. SUFFICES ASSUME NEW i \in (Len(s) - b.rep + 1)..Len(s)
                 PROVE  s[i] = b.cur
    OBVIOUS
  <2>2. CASE i = Len(s)
    BY <1>3, <2>2
  <2>3. CASE i # Len(s)
    <3>1. /\ i \in (Len(b.buf) - b.rep + 2)..Len(b.buf)
          /\ i \in 1..Len(b.buf)
      BY <1>1, <1>2, <1>3, <2>3, SMTT(30)
    <3>2. QED
      BY <1>1, <1>3, <3>1, Zenon
  <2>4. QED
    BY <2>2, <2>3
<1>8. RunStart(c) = RunStart(b)
  BY <1>5, Zenon DEF RunStart
<1>9. ~b.full /\ RunStart(b) + MinBufferSize <= b.len
  <2>1. b.buf # <<>>
    BY <1>3, <1>4, GroupAssumption
  <2>2. QED
    BY <1>1, <2>1, Zenon
<1>10. c.rep = GroupSize => c.buf = Copies(c.cur, GroupSize)
  <2>1. SUFFICES ASSUME b.rep = GroupSize
                 PROVE  s = Copies(b.cur, GroupSize)
    BY <1>5, Zenon
  <2>2. \A i \in 1..GroupSize : s[i] = b.cur
    BY <1>7, <1>4, <2>1, GroupAssumption
  <2>3. s = [i \in 1..GroupSize |-> b.cur]
    BY <1>3, <1>4, <2>2
  <2>4. QED
    BY <2>3, Zenon DEF Copies
<1>11. c.rep <= GroupSize
  BY <1>1, <1>2, <1>3, <1>5, <1>4, GroupAssumption
<1>12. GroupReady(c)
  BY <1>1, <1>5, <1>8, <1>4, <1>9, <1>10, <1>11, Zenon DEF GroupReady, Room
<1>13. Buffered(b, b.cur) = FlushBufferedValues(c)
  BY <1>5, <1>6, <1>4, Zenon
<1>14. QED
  BY <1>12, <1>13, Zenon DEF c, s

LEMMA ValueBuffered ==
    ASSUME NEW b, ValueReady(b)
    PROVE  LET r == Buffered(b, b.cur) IN
           /\ EncoderInv(r)
           /\ r.len = b.len
           /\ Contents(r) = b.vals \o (b.open \o Append(b.buf, b.cur))
<1> DEFINE s == Append(b.buf, b.cur)
           c == [b EXCEPT !.buf = s]
<1>1. /\ b \in Encoder
      /\ b.lit = Len(b.open) /\ b.lit % GroupSize = 0
      /\ (b.ind <=> b.lit # 0)
      /\ b.lit < GroupSize * (MaxGroups - 1)
      /\ Len(b.buf) < GroupSize
      /\ b.rep >= 1 /\ b.rep <= Len(b.buf) + 1
      /\ \A i \in (Len(b.buf) - b.rep + 2)..Len(b.buf) : b.buf[i] = b.cur
      /\ \/ ~b.full /\ RunStart(b) + MinBufferSize <= b.len
         \/ /\ b.full /\ b.lit = 0 /\ b.buf = <<>> /\ b.rep = 1
            /\ b.bytes + (1 + ValueBytes) <= b.len
  BY Zenon DEF ValueReady
<1>2. /\ b.open \in Seq(Values) /\ b.buf \in Seq(Values) /\ b.cur \in Values
      /\ b.vals \in Seq(Values) /\ b.bytes \in Nat /\ b.lit \in Nat
      /\ b.rep \in Nat /\ b.ind \in BOOLEAN /\ b.len \in Nat
  BY <1>1, EncoderFieldTypes, Zenon
<1>3. /\ s \in Seq(Values) /\ Len(s) = Len(b.buf) + 1
      /\ Len(b.buf) \in Nat /\ s[Len(b.buf) + 1] = b.cur
      /\ \A i \in 1..Len(b.buf) : s[i] = b.buf[i]
  BY <1>2
<1> HIDE DEF s
<1>4. /\ c \in Encoder
      /\ c.buf = s /\ c.cur = b.cur /\ c.rep = b.rep /\ c.lit = b.lit
      /\ c.ind = b.ind /\ c.open = b.open /\ c.len = b.len
      /\ c.vals = b.vals /\ c.bytes = b.bytes /\ (c.full <=> b.full)
  BY <1>1, <1>3, Zenon DEF Encoder
<1>5. Buffered(b, b.cur) =
        IF Len(c.buf) = GroupSize THEN FlushBufferedValues(c) ELSE c
  BY Zenon DEF Buffered, s
<1> HIDE DEF c
<1>6. \A i \in (Len(s) - b.rep + 1)..Len(s) : s[i] = b.cur
  <2>1. SUFFICES ASSUME NEW i \in (Len(s) - b.rep + 1)..Len(s)
                 PROVE  s[i] = b.cur
    OBVIOUS
  <2>2. CASE i = Len(s)
    BY <1>3, <2>2
  <2>3. CASE i # Len(s)
    <3>1. /\ i \in (Len(b.buf) - b.rep + 2)..Len(b.buf)
          /\ i \in 1..Len(b.buf)
      BY <1>1, <1>2, <1>3, <2>3
    <3>2. QED
      BY <1>1, <1>3, <3>1, Zenon
  <2>4. QED
    BY <2>2, <2>3
<1>7. RunStart(c) = RunStart(b)
  BY <1>4, Zenon DEF RunStart
<1>8. CASE Len(s) = GroupSize
  <2>1. GroupReady(c) /\ Buffered(b, b.cur) = FlushBufferedValues(c)
    BY <1>8, GroupFilled, Zenon DEF c, s
  <2>2. /\ EncoderInv(FlushBufferedValues(c))
        /\ FlushBufferedValues(c).len = c.len
        /\ Contents(FlushBufferedValues(c)) = c.vals \o (c.open \o c.buf)
    BY <2>1, GroupFlushed, Zenon
  <2>3. QED
    BY <1>4, <2>1, <2>2, Zenon DEF s
<1>9. CASE Len(s) # GroupSize
  <2>1. Buffered(b, b.cur) = c
    BY <1>4, <1>5, <1>9, Zenon
  <2>2. Len(s) < GroupSize /\ b.rep < GroupSize /\ b.rep <= Len(s)
    BY <1>1, <1>2, <1>3, <1>9, GroupAssumption
  <2>3. ~(b.rep >= GroupSize)
    BY <1>2, <2>2, GroupAssumption
  <2>4. CountersAgree(c)
    BY <1>1, <1>4, <1>6, <2>2, <2>3, Zenon DEF CountersAgree
  <2>5. Room(c)
    <3>1. CASE ~b.full /\ RunStart(b) + MinBufferSize <= b.len
      BY <1>4, <1>7, <3>1, Zenon DEF Room
    <3>2. CASE /\ b.full /\ b.lit = 0 /\ b.buf = <<>> /\ b.rep = 1
               /\ b.bytes + (1 + ValueBytes) <= b.len
      <4>1. Len(s) = 1 /\ 1 > 0
        BY <1>3, <3>2
      <4>2. QED
        BY <1>4, <3>2, <4>1, Zenon DEF Room
    <3>3. QED
      BY <1>1, <3>1, <3>2
  <2>6. Contents(c) = b.vals \o (b.open \o s)
    BY <1>4, <2>3, Zenon DEF Contents, Pending
  <2>7. QED
    BY <1>4, <2>1, <2>4, <2>5, <2>6, Zenon DEF EncoderInv, s
<1>10. QED
  BY <1>8, <1>9

-----------------------------------------------------------------------------
(* The history of an encoder is what its runs decode to, and the bytes     *)
(* written are those of its runs and of the literal run that is open.      *)
Written(e) ==
    /\ e.vals = Decode(e.runs)
    /\ e.bytes =
         StreamBytes(e.runs)
           + (IF e.ind THEN 1 + GroupBytes * (e.lit \div GroupSize) ELSE 0)

SameStream(e, f) ==
    /\ f.vals = e.vals /\ f.runs = e.runs /\ f.bytes = e.bytes
    /\ f.ind = e.ind /\ f.lit = e.lit

LEMMA WrittenStays ==
    ASSUME NEW e, NEW f, Written(e), SameStream(e, f) PROVE Written(f)
BY Zenon DEF Written, SameStream

LEMMA RepeatedWritten ==
    ASSUME NEW e \in Encoder, Written(e)
    PROVE  Written(FlushRepeatedRun(e))
<1> DEFINE r == FlushRepeatedRun(e)
           run == Repeated(e.cur, e.rep)
<1>1. /\ e.cur \in Values /\ e.rep \in Nat /\ e.runs \in Seq(Run)
      /\ e.bytes \in Nat /\ e.lit \in Nat
  BY EncoderFieldTypes, Zenon
<1>2. /\ r.runs = Append(e.runs, run) /\ r.vals = e.vals \o RunValues(run)
      /\ r.bytes = e.bytes + VlqBytes(e.rep) + ValueBytes
      /\ r.ind = e.ind /\ r.lit = e.lit
  BY Zenon DEF FlushRepeatedRun, CloseRun, CheckBufferFull, Encoder
<1>3. run \in Run
  BY <1>1, RepeatedRun, Zenon
<1>4. RunBytes(run) = VlqBytes(e.rep) + ValueBytes
  BY DEF RunBytes, Repeated
<1> HIDE DEF r, run
<1>5. r.vals = Decode(r.runs)
  BY <1>1, <1>2, <1>3, DecodeAppend, Zenon DEF Written
<1>6. /\ StreamBytes(r.runs) = StreamBytes(e.runs) + RunBytes(run)
      /\ StreamBytes(e.runs) \in Nat
  BY <1>1, <1>2, <1>3, StreamBytesAppend, StreamBytesType, Zenon
<1>7. PICK open : open = IF e.ind
                         THEN 1 + GroupBytes * (e.lit \div GroupSize) ELSE 0
  OBVIOUS
<1>8. open \in Int
  BY <1>1, <1>7, WidthAssumption, GroupAssumption
<1>9. e.bytes = StreamBytes(e.runs) + open
  BY <1>7, Zenon DEF Written
<1>10. VlqBytes(e.rep) \in Nat /\ ValueBytes \in Nat
  BY <1>1, VlqType, WidthAssumption DEF MaxVlqBytes
<1>11. r.bytes = StreamBytes(r.runs) + open
  BY <1>2, <1>4, <1>6, <1>8, <1>9, <1>10
<1>12. QED
  BY <1>2, <1>5, <1>7, <1>11, Zenon DEF Written, r

(* The open literal run with the group that is being written, or without.  *)
LEMMA LiteralWritten ==
    ASSUME NEW e \in Encoder, Len(e.buf) \in {0, GroupSize}, NEW k \in Nat,
           e.lit = GroupSize * k + Len(e.buf),
           e.ind \/ k = 0,
           e.vals = Decode(e.runs),
           e.bytes = StreamBytes(e.runs)
                       + (IF e.ind THEN 1 + GroupBytes * k ELSE 0)
    PROVE  /\ Written(WriteLiterals(e))
           /\ Written(FlushLiteralRun(e, TRUE))
<1> DEFINE w == WriteLiterals(e)
           run == Literal(w.open, w.lit)
           r == FlushLiteralRun(e, TRUE)
<1>1. /\ w \in Encoder
      /\ w.lit = e.lit /\ w.ind = TRUE /\ w.vals = e.vals
      /\ w.runs = e.runs
      /\ w.bytes = e.bytes + (IF e.ind THEN 0 ELSE 1)
                          + GroupBytes * (Len(e.buf) \div GroupSize)
  BY WriteLiteralsFields, Zenon
<1>2. /\ r.runs = Append(w.runs, run) /\ r.vals = w.vals \o RunValues(run)
      /\ r.bytes = w.bytes /\ r.ind = FALSE
  <2> HIDE DEF w
  <2>1. FlushLiteralRun(e, TRUE) =
           CheckBufferFull([CloseRun(w, run) EXCEPT
                               !.ind = FALSE, !.open = <<>>, !.lit = 0])
    BY Zenon DEF FlushLiteralRun, w
  <2> HIDE DEF run
  <2>2. QED
    BY <1>1, <2>1, Zenon DEF CloseRun, CheckBufferFull, Encoder
<1> HIDE DEF w, r
<1>3. /\ w.open \in Seq(Values) /\ w.lit \in Nat /\ e.runs \in Seq(Run)
      /\ e.bytes \in Nat /\ e.ind \in BOOLEAN
  BY <1>1, EncoderFieldTypes, Zenon
<1>4. PICK g \in {0, 1} : /\ Len(e.buf) \div GroupSize = g
                          /\ e.lit = GroupSize * (k + g)
  <2>1. CASE Len(e.buf) = 0
    <3>1. GroupSize * (k + 0) = GroupSize * k + 0
      BY GroupAssumption
    <3>2. QED
      BY <2>1, <3>1, GroupDivision
  <2>2. CASE Len(e.buf) = GroupSize
    <3>1. GroupSize * (k + 1) = GroupSize * k + GroupSize
      BY GroupDivision
    <3>2. QED
      BY <2>2, <3>1, GroupDivision
  <2>3. QED
    BY <2>1, <2>2
<1>5. e.lit \div GroupSize = k + g
  <2>1. k + g \in Nat
    OBVIOUS
  <2>2. QED
    BY <1>4, <2>1, GroupDivision
<1>6. /\ GroupBytes * (k + g) = GroupBytes * k + GroupBytes * g
      /\ GroupBytes * k \in Nat /\ GroupBytes * g \in Nat
      /\ k = 0 => GroupBytes * k = 0
  BY WidthAssumption
<1>7. StreamBytes(e.runs) \in Nat
  BY <1>3, StreamBytesType
<1>8. w.bytes = StreamBytes(e.runs) + (1 + GroupBytes * (k + g))
  <2>1. PICK a, b, s : /\ a = GroupBytes * k /\ b = GroupBytes * g
                       /\ s = StreamBytes(e.runs)
    OBVIOUS
  <2>2. w.bytes = e.bytes + (IF e.ind THEN 0 ELSE 1) + b
    BY <1>1, <1>4, <2>1, Zenon
  <2>3. e.bytes = s + (IF e.ind THEN 1 + a ELSE 0)
    BY <2>1, Zenon
  <2>4. a \in Nat /\ b \in Nat /\ s \in Nat /\ (e.ind \/ a = 0)
    BY <1>6, <1>7, <2>1, Zenon
  <2>5. w.bytes = s + (1 + (a + b))
    BY <1>3, <2>2, <2>3, <2>4
  <2>6. QED
    BY <1>6, <2>1, <2>5, Zenon
<1>9. Written(w)
  BY <1>1, <1>5, <1>8, Zenon DEF Written
<1>10. run \in Run
  <2> HIDE DEF run
  <2>1. run = [literal |-> TRUE, count |-> w.lit, vals |-> w.open]
    BY Zenon DEF run, Literal
  <2>2. QED
    BY <1>3, <2>1 DEF Run
<1>11. RunBytes(run) = 1 + GroupBytes * (k + g)
  <2>1. run.literal = TRUE /\ run.count = w.lit
    BY Zenon DEF Literal
  <2>2. QED
    BY <1>1, <1>5, <2>1, Zenon DEF RunBytes
<1> HIDE DEF run
<1>12. StreamBytes(r.runs) = StreamBytes(e.runs) + RunBytes(run)
  BY <1>1, <1>2, <1>3, <1>10, StreamBytesAppend, Zenon
<1>13. r.vals = Decode(r.runs)
  BY <1>1, <1>2, <1>3, <1>10, DecodeAppend, Zenon
<1>14. r.bytes = StreamBytes(r.runs) + 0
  <2>1. PICK s, t : s = StreamBytes(e.runs) /\ t = 1 + GroupBytes * (k + g)
    OBVIOUS
  <2>2. s \in Nat /\ t \in Int
    <3>1. t = 1 + (GroupBytes * k + GroupBytes * g)
      BY <1>6, <2>1, Zenon
    <3>2. QED
      BY <1>6, <1>7, <2>1, <3>1
  <2>3. r.bytes = s + t /\ StreamBytes(r.runs) = s + t
    BY <1>2, <1>8, <1>11, <1>12, <2>1, Zenon
  <2>4. QED
    BY <2>2, <2>3
<1>15. Written(r)
  BY <1>2, <1>13, <1>14, Zenon DEF Written
<1>16. QED
  BY <1>9, <1>15, Zenon DEF w, r

(* The groups of the literal run that is open.                             *)
LEMMA OpenGroups ==
    ASSUME NEW e \in Encoder, Written(e), e.lit % GroupSize = 0,
           e.ind <=> e.lit # 0
    PROVE  \E k \in Nat : /\ e.lit = GroupSize * k
                          /\ e.ind \/ k = 0
                          /\ e.bytes = StreamBytes(e.runs)
                               + (IF e.ind THEN 1 + GroupBytes * k ELSE 0)
<1>1. e.lit \in Nat
  BY EncoderFieldTypes, Zenon
<1>2. PICK k \in Nat : e.lit = GroupSize * k
  BY <1>1, GroupDivision, Zenon
<1>3. e.lit \div GroupSize = k
  BY <1>2, GroupDivision, Zenon
<1>4. e.ind \/ k = 0
  <2>1. e.lit = 0 => k = 0
    <3>1. k # 0 => GroupSize * k > 0
      BY GroupAssumption
    <3>2. QED
      BY <1>2, <3>1
  <2>2. QED
    BY <2>1
<1>5. QED
  BY <1>2, <1>3, <1>4, Zenon DEF Written

LEMMA GroupWritten ==
    ASSUME NEW b, GroupReady(b), Written(b)
    PROVE  Written(FlushBufferedValues(b))
<1>1. /\ b \in Encoder /\ b.lit % GroupSize = 0
      /\ (b.ind <=> b.lit # 0) /\ Len(b.buf) = GroupSize
      /\ b.buf \in Seq(Values) /\ b.lit \in Nat
      /\ b.vals = Decode(b.runs)
  BY EncoderFieldTypes, Zenon DEF GroupReady, Written
<1>2. PICK k \in Nat : /\ b.lit = GroupSize * k
                       /\ b.ind \/ k = 0
                       /\ b.bytes = StreamBytes(b.runs)
                            + (IF b.ind THEN 1 + GroupBytes * k ELSE 0)
  BY <1>1, OpenGroups, Zenon
<1>3. CASE b.rep >= GroupSize
  <2> DEFINE d == [b EXCEPT !.buf = <<>>]
  <2>1. FlushBufferedValues(b) =
           IF d.lit # 0 THEN FlushLiteralRun(d, TRUE) ELSE d
    BY <1>1, <1>3, Zenon DEF FlushBufferedValues, Encoder
  <2>2. <<>> \in Seq(Values) /\ Len(<<>>) = 0
    BY EmptySeq
  <2>3. /\ d \in Encoder /\ d.buf = <<>> /\ SameStream(b, d)
    BY <1>1, <2>2, Zenon DEF SameStream, Encoder
  <2> HIDE DEF d
  <2>4. Written(d)
    BY <2>3, WrittenStays, Zenon
  <2>5. /\ d.lit = GroupSize * k + Len(d.buf)
        /\ Len(d.buf) \in {0, GroupSize}
    <3>1. d.lit = GroupSize * k /\ Len(d.buf) = 0
      BY <1>2, <2>2, <2>3, Zenon DEF SameStream
    <3>2. GroupSize * k = GroupSize * k + 0
      BY GroupAssumption
    <3>3. QED
      BY <3>1, <3>2
  <2>6. /\ d.ind \/ k = 0
        /\ d.vals = Decode(d.runs)
        /\ d.bytes = StreamBytes(d.runs)
             + (IF d.ind THEN 1 + GroupBytes * k ELSE 0)
    BY <1>1, <1>2, <2>3, Zenon DEF SameStream
  <2>7. Written(FlushLiteralRun(d, TRUE))
    BY <2>3, <2>5, <2>6, LiteralWritten, Zenon
  <2>8. QED
    BY <2>1, <2>4, <2>7, Zenon
<1>4. CASE ~(b.rep >= GroupSize)
  <2> DEFINE c == [b EXCEPT !.lit = @ + Len(b.buf)]
             closed == c.lit \div GroupSize + 1 >= MaxGroups
             f == FlushLiteralRun(c, closed)
  <2>1. FlushBufferedValues(b) = [f EXCEPT !.rep = 0]
    BY <1>4, Zenon DEF FlushBufferedValues
  <2>2. b.lit + Len(b.buf) \in Nat
    BY <1>1, LenProperties
  <2>3. /\ c \in Encoder /\ c.buf = b.buf /\ c.lit = b.lit + Len(b.buf)
        /\ c.vals = b.vals /\ c.runs = b.runs /\ c.bytes = b.bytes
        /\ c.ind = b.ind
    BY <1>1, <2>2, Zenon DEF Encoder
  <2> HIDE DEF c, closed
  <2>4. /\ Len(c.buf) \in {0, GroupSize}
        /\ c.lit = GroupSize * k + Len(c.buf)
        /\ c.ind \/ k = 0
        /\ c.vals = Decode(c.runs)
        /\ c.bytes = StreamBytes(c.runs)
             + (IF c.ind THEN 1 + GroupBytes * k ELSE 0)
    BY <1>1, <1>2, <2>3, Zenon
  <2>5. Written(WriteLiterals(c)) /\ Written(FlushLiteralRun(c, TRUE))
    BY <2>3, <2>4, LiteralWritten, Zenon
  <2>6. f \in Encoder /\ Written(f)
    <3>1. CASE closed
      <4>1. f = FlushLiteralRun(c, TRUE)
        <5>1. closed = TRUE
          BY <3>1 DEF closed
        <5>2. QED
          BY <5>1, Zenon
      <4>2. c.lit = Len(c.open \o c.buf)
        <5>1. b.lit = Len(b.open) /\ c.open = b.open
          BY <1>1, Zenon DEF GroupReady, c, Encoder
        <5>2. b.open \in Seq(Values) /\ b.buf \in Seq(Values)
          BY <1>1, EncoderFieldTypes, Zenon
        <5>3. QED
          BY <2>3, <5>1, <5>2, ConcatLen, Zenon
      <4>3. QED
        BY <2>3, <2>4, <2>5, <4>1, <4>2, CloseLiteralFields, Zenon
    <3>2. CASE ~closed
      <4>1. f = WriteLiterals(c)
        BY <3>2, Zenon DEF FlushLiteralRun
      <4>2. WriteLiterals(c) \in Encoder
        <5>1. c \in Encoder /\ Len(c.buf) \in {0, GroupSize}
          BY <2>3, <2>4, Zenon
        <5>2. QED
          BY <5>1, WriteLiteralsFields, Zenon
      <4>3. QED
        BY <2>5, <4>1, <4>2, Zenon
    <3>3. QED
      BY <3>1, <3>2
  <2> HIDE DEF f
  <2>7. SameStream(f, [f EXCEPT !.rep = 0])
    BY <2>6, Zenon DEF SameStream, Encoder
  <2>8. QED
    BY <2>1, <2>6, <2>7, WrittenStays, Zenon
<1>5. QED
  BY <1>3, <1>4

LEMMA ValueWritten ==
    ASSUME NEW b, ValueReady(b), Written(b)
    PROVE  Written(Buffered(b, b.cur))
<1> DEFINE c == [b EXCEPT !.buf = Append(b.buf, b.cur)]
<1>1. b \in Encoder
  BY Zenon DEF ValueReady
<1>2. SameStream(b, c) /\ c.buf = Append(b.buf, b.cur)
  BY <1>1, Zenon DEF SameStream, Encoder
<1>3. Written(c)
  BY <1>2, WrittenStays, Zenon
<1>4. Buffered(b, b.cur) =
        IF Len(c.buf) = GroupSize THEN FlushBufferedValues(c) ELSE c
  BY Zenon DEF Buffered
<1>5. Len(c.buf) = GroupSize => GroupReady(c)
  BY <1>2, GroupFilled, Zenon
<1> HIDE DEF c
<1>6. QED
  BY <1>3, <1>4, <1>5, GroupWritten, Zenon
-----------------------------------------------------------------------------
(* Facts of an encoder in order that every case needs.                     *)
LEMMA EncoderFacts ==
    ASSUME NEW e, EncoderInv(e)
    PROVE  /\ e \in Encoder
           /\ e.open \in Seq(Values) /\ e.buf \in Seq(Values)
           /\ e.cur \in Values /\ e.vals \in Seq(Values)
           /\ e.bytes \in Nat /\ e.lit \in Nat /\ e.rep \in Nat
           /\ e.ind \in BOOLEAN /\ e.full \in BOOLEAN /\ e.len \in Nat
           /\ e.lit = Len(e.open) /\ e.lit % GroupSize = 0
           /\ (e.ind <=> e.lit # 0)
           /\ e.lit < GroupSize * (MaxGroups - 1)
           /\ Len(e.buf) < GroupSize /\ Len(e.buf) \in Nat
           /\ e.rep >= GroupSize =>
                /\ e.lit = 0 /\ e.buf = <<>> /\ e.open = <<>>
                /\ e.ind = FALSE /\ RunStart(e) = e.bytes - 0
           /\ e.rep < GroupSize =>
                /\ e.rep <= Len(e.buf)
                /\ \A i \in (Len(e.buf) - e.rep + 1)..Len(e.buf) :
                      e.buf[i] = e.cur
           /\ ~e.full => RunStart(e) + MinBufferSize <= e.len
           /\ (e.rep >= GroupSize \/ e.rep < GroupSize)
           /\ ~(e.rep >= GroupSize /\ e.rep < GroupSize)
<1>1. e \in Encoder /\ CountersAgree(e) /\ Room(e)
  BY Zenon DEF EncoderInv
<1>2. /\ e.open \in Seq(Values) /\ e.buf \in Seq(Values)
      /\ e.cur \in Values /\ e.vals \in Seq(Values)
      /\ e.bytes \in Nat /\ e.lit \in Nat /\ e.rep \in Nat
      /\ e.ind \in BOOLEAN /\ e.full \in BOOLEAN /\ e.len \in Nat
  BY <1>1, EncoderFieldTypes, Zenon
<1>3. Len(e.buf) \in Nat
  BY <1>2
<1>4. (e.rep >= GroupSize \/ e.rep < GroupSize)
      /\ ~(e.rep >= GroupSize /\ e.rep < GroupSize)
  BY <1>2, GroupAssumption
<1>5. e.rep >= GroupSize => /\ e.lit = 0 /\ e.buf = <<>> /\ e.open = <<>>
                            /\ e.ind = FALSE /\ RunStart(e) = e.bytes - 0
  <2>1. SUFFICES ASSUME e.rep >= GroupSize
                 PROVE  /\ e.lit = 0 /\ e.buf = <<>> /\ e.open = <<>>
                        /\ e.ind = FALSE /\ RunStart(e) = e.bytes - 0
    OBVIOUS
  <2>2. e.lit = 0 /\ e.buf = <<>> /\ Len(e.open) = 0 /\ ~e.ind
    BY <1>1, <2>1, Zenon DEF CountersAgree
  <2>3. e.ind = FALSE
    BY <1>2, <2>2
  <2>4. QED
    BY <1>2, <2>2, <2>3, ConcatEmpty, Zenon DEF RunStart
<1>6. QED
  BY <1>1, <1>2, <1>3, <1>4, <1>5, Zenon DEF CountersAgree, Room

(* What Put does with a value: a repeated run goes on, or the value is     *)
(* buffered, behind the run that it ends if there is one.                  *)
GoesOn(e, v) ==
    e.rep >= GroupSize /\ v = e.cur /\ PutValue(e, v) = [e EXCEPT !.rep = e.rep + 1]

SameRun(e, b) ==
    /\ e.rep < GroupSize
    /\ b.vals = e.vals /\ b.open = e.open /\ b.buf = e.buf
    /\ RunStart(b) = RunStart(e) /\ ~b.full

RunEnded(e, b) ==
    /\ e.rep >= GroupSize
    /\ b.vals = e.vals \o Copies(e.cur, e.rep)
    /\ b.open = <<>> /\ b.buf = <<>>
    /\ b.bytes = e.bytes + VlqBytes(e.rep) + ValueBytes
    /\ RunStart(b) = b.bytes
    /\ b.full <=> b.bytes + MinBufferSize > b.len

LEMMA PutCases ==
    ASSUME NEW e, EncoderInv(e), ~e.full, NEW v \in Values
    PROVE  \/ GoesOn(e, v)
           \/ \E b : /\ ValueReady(b) /\ b.cur = v /\ b.len = e.len
                     /\ PutValue(e, v) = Buffered(b, b.cur)
                     /\ SameRun(e, b) \/ RunEnded(e, b)
                     /\ Written(e) => Written(b)
<1>1. /\ e \in Encoder
      /\ e.open \in Seq(Values) /\ e.buf \in Seq(Values)
      /\ e.cur \in Values /\ e.vals \in Seq(Values)
      /\ e.bytes \in Nat /\ e.lit \in Nat /\ e.rep \in Nat
      /\ e.len \in Nat
      /\ e.lit = Len(e.open) /\ e.lit % GroupSize = 0
      /\ (e.ind <=> e.lit # 0)
      /\ e.lit < GroupSize * (MaxGroups - 1)
      /\ Len(e.buf) < GroupSize /\ Len(e.buf) \in Nat
      /\ (e.rep >= GroupSize \/ e.rep < GroupSize)
      /\ ~(e.rep >= GroupSize /\ e.rep < GroupSize)
      /\ RunStart(e) + MinBufferSize <= e.len
  BY EncoderFacts, Zenon
<1>2. e.rep >= GroupSize => /\ e.lit = 0 /\ e.buf = <<>> /\ e.open = <<>>
                            /\ e.ind = FALSE /\ RunStart(e) = e.bytes - 0
  BY EncoderFacts, Zenon
<1>3. e.rep < GroupSize =>
        /\ e.rep <= Len(e.buf)
        /\ \A i \in (Len(e.buf) - e.rep + 1)..Len(e.buf) : e.buf[i] = e.cur
  BY EncoderFacts, Zenon
<1>4. CASE v = e.cur /\ e.rep >= GroupSize
  <2>1. e.rep + 1 > GroupSize /\ e.rep + 1 \in Nat
    BY <1>1, <1>4, GroupAssumption
  <2>2. [e EXCEPT !.rep = e.rep + 1].rep = e.rep + 1
    BY <1>1, <2>1, Zenon DEF Encoder
  <2>3. QED
    BY <1>4, <2>1, <2>2, Zenon DEF PutValue, GoesOn
<1>5. CASE v = e.cur /\ e.rep < GroupSize
  <2> DEFINE b == [e EXCEPT !.rep = e.rep + 1]
  <2>1. /\ e.rep + 1 \in Nat /\ ~(e.rep + 1 > GroupSize) /\ e.rep + 1 >= 1
        /\ e.rep + 1 <= Len(e.buf) + 1
        /\ Len(e.buf) - (e.rep + 1) + 2 = Len(e.buf) - e.rep + 1
    <3>1. PICK r \in Nat, l \in Nat, g \in Nat :
            r = e.rep /\ l = Len(e.buf) /\ g = GroupSize /\ r <= l /\ r < g
      BY <1>1, <1>3, <1>5, GroupAssumption
    <3>2. /\ r + 1 \in Nat /\ ~(r + 1 > g) /\ r + 1 >= 1 /\ r + 1 <= l + 1
          /\ l - (r + 1) + 2 = l - r + 1
      BY <3>1
    <3>3. QED
      BY <3>1, <3>2, Zenon
  <2>2. /\ b \in Encoder
        /\ b.buf = e.buf /\ b.cur = e.cur /\ b.rep = e.rep + 1
        /\ b.lit = e.lit /\ b.ind = e.ind /\ b.open = e.open
        /\ b.len = e.len /\ b.vals = e.vals /\ b.bytes = e.bytes
        /\ ~b.full
    BY <1>1, <2>1, Zenon DEF Encoder
  <2>3. PutValue(e, v) = Buffered(b, b.cur)
    BY <1>5, <2>1, <2>2, Zenon DEF PutValue
  <2> HIDE DEF b
  <2>4. RunStart(b) = RunStart(e)
    BY <2>2, Zenon DEF RunStart
  <2>5. ValueReady(b)
    BY <1>1, <1>3, <1>5, <2>1, <2>2, <2>4, Zenon DEF ValueReady
  <2>6. SameRun(e, b)
    BY <1>5, <2>2, <2>4, Zenon DEF SameRun
  <2>7. Written(e) => Written(b)
    <3>1. b.runs = e.runs
      BY <1>1, Zenon DEF b, Encoder
    <3>2. QED
      BY <2>2, <3>1, WrittenStays, Zenon DEF SameStream
  <2>8. QED
    BY <1>5, <2>2, <2>3, <2>5, <2>6, <2>7, Zenon
<1>6. CASE v # e.cur /\ e.rep < GroupSize
  <2> DEFINE b == [e EXCEPT !.rep = 1, !.cur = v]
  <2>1. /\ 1 \in Nat /\ 1 >= 1 /\ 1 <= Len(e.buf) + 1
        /\ \A i \in (Len(e.buf) - 1 + 2)..Len(e.buf) : e.buf[i] = v
    BY <1>1
  <2>2. /\ b \in Encoder
        /\ b.buf = e.buf /\ b.cur = v /\ b.rep = 1
        /\ b.lit = e.lit /\ b.ind = e.ind /\ b.open = e.open
        /\ b.len = e.len /\ b.vals = e.vals /\ b.bytes = e.bytes
        /\ ~b.full
    BY <1>1, <2>1, Zenon DEF Encoder
  <2>3. PutValue(e, v) = Buffered(b, b.cur)
    BY <1>1, <1>6, <2>2, Zenon DEF PutValue
  <2> HIDE DEF b
  <2>4. RunStart(b) = RunStart(e)
    BY <2>2, Zenon DEF RunStart
  <2>5. ValueReady(b)
    BY <1>1, <2>1, <2>2, <2>4, Zenon DEF ValueReady
  <2>6. SameRun(e, b)
    BY <1>6, <2>2, <2>4, Zenon DEF SameRun
  <2>7. Written(e) => Written(b)
    <3>1. b.runs = e.runs
      BY <1>1, Zenon DEF b, Encoder
    <3>2. QED
      BY <2>2, <3>1, WrittenStays, Zenon DEF SameStream
  <2>8. QED
    BY <2>2, <2>3, <2>5, <2>6, <2>7, Zenon
<1>7. CASE v # e.cur /\ e.rep >= GroupSize
  <2> DEFINE f == FlushRepeatedRun(e)
             b == [f EXCEPT !.rep = 1, !.cur = v]
  <2>1. /\ f \in Encoder
        /\ f.buf = <<>> /\ f.lit = e.lit /\ f.ind = e.ind
        /\ f.open = e.open /\ f.len = e.len
        /\ f.vals = e.vals \o Copies(e.cur, e.rep)
        /\ f.bytes = e.bytes + VlqBytes(e.rep) + ValueBytes
        /\ f.full <=> (e.full \/ f.bytes + MinBufferSize > e.len)
    BY <1>1, FlushRepeatedRunFields, Zenon
  <2>2. f.full \in BOOLEAN /\ f.bytes \in Nat
    BY <2>1, EncoderFieldTypes, Zenon
  <2>3. /\ 1 \in Nat /\ 1 >= 1 /\ 1 <= Len(<<>>) + 1 /\ Len(<<>>) < GroupSize
        /\ \A i \in (Len(<<>>) - 1 + 2)..Len(<<>>) : <<>>[i] = v
    BY GroupAssumption
  <2> HIDE DEF f
  <2>4. /\ b \in Encoder
        /\ b.buf = <<>> /\ b.cur = v /\ b.rep = 1
        /\ b.lit = e.lit /\ b.ind = e.ind /\ b.open = e.open
        /\ b.len = e.len /\ b.vals = e.vals \o Copies(e.cur, e.rep)
        /\ b.bytes = f.bytes /\ (b.full <=> f.full)
    BY <2>1, <2>3, Zenon DEF Encoder
  <2>5. PutValue(e, v) = Buffered(b, b.cur)
    BY <1>7, <2>4, Zenon DEF PutValue, f
  <2> HIDE DEF b
  <2>6. \/ ~b.full /\ RunStart(b) + MinBufferSize <= b.len
        \/ /\ b.full /\ b.lit = 0 /\ b.buf = <<>> /\ b.rep = 1
           /\ b.bytes + (1 + ValueBytes) <= b.len
    <3>1. VlqBytes(e.rep) \in 1..MaxVlqBytes
      BY <1>1, VlqType
    <3>2. f.bytes + (1 + ValueBytes) <= e.len
      <4>1. e.bytes - 0 + MinBufferSize <= e.len
        BY <1>1, <1>2, <1>7, Zenon
      <4> DEFINE eb == e.bytes
                 fb == f.bytes
                 vb == VlqBytes(e.rep)
                 m == MinBufferSize
                 l == e.len
      <4>2. /\ eb \in Nat /\ fb \in Nat /\ l \in Nat
            /\ fb = eb + vb + ValueBytes
            /\ eb - 0 + m <= l
        BY <1>1, <2>1, <2>2, <4>1, Zenon
      <4>3. vb \in Nat /\ vb <= MaxVlqBytes
        BY <3>1 DEF MaxVlqBytes
      <4>4. m \in Nat /\ MaxVlqBytes + ValueBytes + 1 + ValueBytes <= m
        BY RunSizes
      <4> HIDE DEF eb, fb, vb, m, l
      <4>5. fb + (1 + ValueBytes) <= l
        BY <4>2, <4>3, <4>4, WidthAssumption DEF MaxVlqBytes
      <4>6. QED
        BY <4>5 DEF fb, l
    <3>3. ~(f.bytes + MinBufferSize > e.len)
            => f.bytes - 0 + MinBufferSize <= e.len
      BY <1>1, <2>2, RunSizes
    <3>4. RunStart(b) = f.bytes - 0
      BY <1>2, <1>7, <2>4, Zenon DEF RunStart
    <3>5. QED
      BY <1>2, <1>7, <2>1, <2>4, <3>2, <3>3, <3>4, Zenon
  <2>7. ValueReady(b)
    BY <1>1, <2>3, <2>4, <2>6, Zenon DEF ValueReady
  <2>8. RunStart(b) = b.bytes
    <3>1. RunStart(b) = f.bytes - 0
      BY <1>2, <1>7, <2>4, Zenon DEF RunStart
    <3>2. QED
      BY <2>2, <2>4, <3>1
  <2>9. RunEnded(e, b)
    BY <1>2, <1>7, <2>1, <2>4, <2>8, Zenon DEF RunEnded
  <2>10. Written(e) => Written(b)
    <3>1. Written(e) => Written(f)
      BY <1>1, RepeatedWritten, Zenon DEF f
    <3>2. SameStream(f, b)
      BY <2>1, Zenon DEF b, SameStream, Encoder
    <3>3. QED
      BY <3>1, <3>2, WrittenStays, Zenon
  <2>11. QED
    BY <2>1, <2>4, <2>5, <2>7, <2>9, <2>10, Zenon
<1>8. QED
  BY <1>1, <1>4, <1>5, <1>6, <1>7, Zenon

LEMMA PutWritten ==
    ASSUME NEW e, EncoderInv(e), Written(e), ~e.full, NEW v \in Values
    PROVE  Written(PutValue(e, v))
<1>1. e \in Encoder
  BY Zenon DEF EncoderInv
<1>2. CASE GoesOn(e, v)
  <2>1. PutValue(e, v) = [e EXCEPT !.rep = e.rep + 1]
    BY <1>2, Zenon DEF GoesOn
  <2>2. SameStream(e, PutValue(e, v))
    BY <1>1, <2>1, Zenon DEF SameStream, Encoder
  <2>3. QED
    BY <2>2, WrittenStays, Zenon
<1>3. CASE \E b : /\ ValueReady(b) /\ Written(b)
                  /\ PutValue(e, v) = Buffered(b, b.cur)
  BY <1>3, ValueWritten, Zenon
<1>4. \/ GoesOn(e, v)
      \/ \E b : /\ ValueReady(b) /\ b.cur = v /\ b.len = e.len
                /\ PutValue(e, v) = Buffered(b, b.cur)
                /\ SameRun(e, b) \/ RunEnded(e, b)
                /\ Written(e) => Written(b)
  BY PutCases, Zenon
<1>5. QED
  BY <1>2, <1>3, <1>4, Zenon

LEMMA PutCorrect ==
    ASSUME NEW e, EncoderInv(e), ~e.full, NEW v \in Values
    PROVE  LET r == PutValue(e, v) IN
           /\ EncoderInv(r)
           /\ r.len = e.len
           /\ Contents(r) = Contents(e) \o <<v>>
<1>1. /\ e \in Encoder
      /\ e.open \in Seq(Values) /\ e.buf \in Seq(Values)
      /\ e.cur \in Values /\ e.vals \in Seq(Values)
      /\ e.bytes \in Nat /\ e.lit \in Nat /\ e.rep \in Nat
      /\ e.len \in Nat
      /\ e.lit = Len(e.open) /\ e.lit % GroupSize = 0
      /\ (e.ind <=> e.lit # 0)
      /\ e.lit < GroupSize * (MaxGroups - 1)
      /\ Len(e.buf) < GroupSize /\ Len(e.buf) \in Nat
      /\ (e.rep >= GroupSize \/ e.rep < GroupSize)
      /\ ~(e.rep >= GroupSize /\ e.rep < GroupSize)
      /\ RunStart(e) + MinBufferSize <= e.len
  BY EncoderFacts, Zenon
<1>2. e.rep >= GroupSize => /\ e.lit = 0 /\ e.buf = <<>> /\ e.open = <<>>
                            /\ e.ind = FALSE /\ RunStart(e) = e.bytes - 0
  BY EncoderFacts, Zenon
<1>3. e.rep < GroupSize =>
        /\ e.rep <= Len(e.buf)
        /\ \A i \in (Len(e.buf) - e.rep + 1)..Len(e.buf) : e.buf[i] = e.cur
  BY EncoderFacts, Zenon
<1>4. Append(e.buf, v) = e.buf \o <<v>> /\ <<v>> \in Seq(Values)
  BY <1>1, AppendIsConcat
<1>5. e.vals \o (e.open \o (e.buf \o <<v>>))
        = (e.vals \o (e.open \o e.buf)) \o <<v>>
  <2>1. e.open \o e.buf \in Seq(Values) /\ e.buf \o <<v>> \in Seq(Values)
    BY <1>1, <1>4, ConcatType, Zenon
  <2>2. e.open \o (e.buf \o <<v>>) = (e.open \o e.buf) \o <<v>>
    BY <1>1, <1>4, ConcatAssoc, Zenon
  <2>3. e.vals \o ((e.open \o e.buf) \o <<v>>)
          = (e.vals \o (e.open \o e.buf)) \o <<v>>
    BY <1>1, <1>4, <2>1, ConcatAssoc, Zenon
  <2>4. QED
    BY <2>2, <2>3, Zenon
<1>6. e.rep < GroupSize => Contents(e) = e.vals \o (e.open \o e.buf)
  BY <1>1, Zenon DEF Contents, Pending
<1>7. e.rep >= GroupSize =>
        /\ Contents(e) = e.vals \o Copies(e.cur, e.rep)
        /\ Copies(e.cur, e.rep) \in Seq(Values)
  <2>1. Copies(e.cur, e.rep) \in Seq(Values)
    BY <1>1, CopiesType
  <2>2. QED
    BY <1>1, <1>2, <2>1, ConcatEmpty, Zenon DEF Contents, Pending
<1>8. CASE v = e.cur /\ e.rep >= GroupSize
  <2> DEFINE r == [e EXCEPT !.rep = e.rep + 1]
  <2>1. e.rep + 1 \in Nat /\ e.rep + 1 > GroupSize /\ e.rep + 1 >= GroupSize
        /\ ~(e.rep + 1 < GroupSize)
    BY <1>1, <1>8, GroupAssumption
  <2>2. /\ r \in Encoder
        /\ r.buf = e.buf /\ r.cur = e.cur /\ r.rep = e.rep + 1
        /\ r.lit = e.lit /\ r.ind = e.ind /\ r.open = e.open
        /\ r.len = e.len /\ r.vals = e.vals /\ r.bytes = e.bytes
        /\ ~r.full
    BY <1>1, <2>1, Zenon DEF Encoder
  <2>3. PutValue(e, v) = r
    BY <1>8, <2>1, <2>2, Zenon DEF PutValue
  <2> HIDE DEF r
  <2>4. CountersAgree(r)
    BY <1>1, <1>2, <1>8, <2>1, <2>2, Zenon DEF CountersAgree
  <2>5. Room(r)
    <3>1. RunStart(r) = RunStart(e)
      BY <2>2, Zenon DEF RunStart
    <3>2. QED
      BY <1>1, <2>2, <3>1, Zenon DEF Room
  <2>6. Contents(r) = Contents(e) \o <<v>>
    <3>1. Copies(e.cur, e.rep + 1) = Copies(e.cur, e.rep) \o <<v>>
      BY <1>1, <1>8, CopiesType DEF Copies
    <3>2. Contents(r) = e.vals \o (<<>> \o Copies(e.cur, e.rep + 1))
      BY <1>2, <1>8, <2>1, <2>2, Zenon DEF Contents, Pending
    <3>3. Copies(e.cur, e.rep) \o <<v>> \in Seq(Values)
      BY <1>4, <1>7, <1>8, ConcatType, Zenon
    <3>4. Contents(r) = e.vals \o (Copies(e.cur, e.rep) \o <<v>>)
      BY <3>1, <3>2, <3>3, ConcatEmpty, Zenon
    <3>5. e.vals \o (Copies(e.cur, e.rep) \o <<v>>)
            = (e.vals \o Copies(e.cur, e.rep)) \o <<v>>
      BY <1>1, <1>4, <1>7, <1>8, ConcatAssoc, Zenon
    <3>6. QED
      BY <1>7, <1>8, <3>4, <3>5, Zenon
  <2>7. QED
    BY <2>2, <2>3, <2>4, <2>5, <2>6, Zenon DEF EncoderInv
<1>9. ASSUME NEW b, ValueReady(b), b.cur = v, b.len = e.len,
             PutValue(e, v) = Buffered(b, b.cur), SameRun(e, b)
      PROVE  /\ EncoderInv(PutValue(e, v))
             /\ PutValue(e, v).len = e.len
             /\ Contents(PutValue(e, v)) = Contents(e) \o <<v>>
  BY <1>4, <1>5, <1>6, <1>9, ValueBuffered, Zenon DEF SameRun
<1>10. ASSUME NEW b, ValueReady(b), b.cur = v, b.len = e.len,
              PutValue(e, v) = Buffered(b, b.cur), RunEnded(e, b)
       PROVE  /\ EncoderInv(PutValue(e, v))
              /\ PutValue(e, v).len = e.len
              /\ Contents(PutValue(e, v)) = Contents(e) \o <<v>>
  <2>1. /\ e.rep >= GroupSize /\ b.vals = e.vals \o Copies(e.cur, e.rep)
        /\ b.open = <<>> /\ b.buf = <<>>
    BY <1>10, Zenon DEF RunEnded
  <2>2. Append(b.buf, v) = <<v>>
    BY <2>1
  <2>3. Contents(PutValue(e, v)) = b.vals \o (b.open \o <<v>>)
    BY <1>10, <2>2, ValueBuffered, Zenon
  <2>4. b.vals \o (b.open \o <<v>>) = Contents(e) \o <<v>>
    BY <1>4, <1>7, <2>1, ConcatEmpty, Zenon
  <2>5. QED
    BY <1>10, <2>3, <2>4, ValueBuffered, Zenon
<1>11. QED
  <2>1. CASE GoesOn(e, v)
    BY <1>8, <2>1, Zenon DEF GoesOn
  <2>2. CASE ~GoesOn(e, v)
    BY <1>9, <1>10, <2>2, PutCases, Zenon
  <2>3. QED
    BY <2>1, <2>2

-----------------------------------------------------------------------------
(* A literal run at the end of the stream: its last group is padded.       *)
LEMMA FlushLast ==
    ASSUME NEW e, EncoderInv(e),
           ~(e.lit = 0 /\ e.rep = 0 /\ Len(e.buf) = 0),
           ~(e.rep > 0 /\ e.lit = 0 /\ (e.rep = Len(e.buf) \/ Len(e.buf) = 0))
    PROVE  LET n == IF Len(e.buf) = 0 THEN 0 ELSE GroupSize - Len(e.buf)
               s == e.buf \o Copies(0, n)
               r == Flush(e)
           IN  /\ e.rep < GroupSize /\ ~e.full
               /\ n \in 0..(GroupSize - 1) /\ n \in Nat
               /\ s \in Seq(Values) /\ Copies(0, n) \in Seq(Values)
               /\ Len(s) \in {0, GroupSize} /\ Len(s) = Len(e.buf) + n
               /\ r \in Encoder /\ r.len = e.len
               /\ r.buf = <<>> /\ r.lit = 0 /\ r.ind = FALSE
               /\ r.open = <<>> /\ r.rep = 0
               /\ r.vals = e.vals \o (e.open \o s)
               /\ r.bytes = e.bytes + (IF e.ind THEN 0 ELSE 1)
                               + GroupBytes * (Len(s) \div GroupSize)
               /\ r.full <=> r.bytes + MinBufferSize > e.len
<1>1. /\ e \in Encoder
      /\ e.open \in Seq(Values) /\ e.buf \in Seq(Values)
      /\ e.cur \in Values /\ e.vals \in Seq(Values)
      /\ e.bytes \in Nat /\ e.lit \in Nat /\ e.rep \in Nat
      /\ e.len \in Nat
      /\ e.lit = Len(e.open) /\ e.lit % GroupSize = 0
      /\ (e.ind <=> e.lit # 0)
      /\ e.lit < GroupSize * (MaxGroups - 1)
      /\ Len(e.buf) < GroupSize /\ Len(e.buf) \in Nat
      /\ (e.rep >= GroupSize \/ e.rep < GroupSize)
      /\ ~(e.rep >= GroupSize /\ e.rep < GroupSize)
  BY EncoderFacts, Zenon
<1>2. /\ e.rep >= GroupSize => /\ e.lit = 0 /\ e.buf = <<>> /\ e.open = <<>>
                               /\ e.ind = FALSE
      /\ e.rep < GroupSize =>
            /\ e.rep <= Len(e.buf)
            /\ \A i \in (Len(e.buf) - e.rep + 1)..Len(e.buf) : e.buf[i] = e.cur
      /\ ~e.full => RunStart(e) + MinBufferSize <= e.len
  BY EncoderFacts, Zenon
<1>3. /\ ~(0 >= GroupSize) /\ Len(<<>>) = 0 /\ 0 \in Nat /\ ~(0 > 0)
      /\ 0 \in 0..(GroupSize - 1)
      /\ 0 % GroupSize = 0 /\ 0 < GroupSize * (MaxGroups - 1)
      /\ 0 < GroupSize /\ 0 <= 0 /\ {} = (0 - 0 + 1)..0
      /\ <<>> \in Seq(Values) /\ Copies(0, 0) = <<>>
  BY <1>1, GroupAssumption, GroupDivision DEF Copies
<1> DEFINE n == IF Len(e.buf) = 0 THEN 0 ELSE GroupSize - Len(e.buf)
           s == e.buf \o Copies(0, n)
           p == [e EXCEPT !.buf = s, !.lit = e.lit + Len(s)]
           f == FlushLiteralRun(p, TRUE)
           r == [f EXCEPT !.rep = 0]
<1>4. e.rep < GroupSize /\ ~(e.rep >= GroupSize)
  <2>1. e.rep >= GroupSize => e.rep > 0
    BY <1>1, GroupAssumption
  <2>2. QED
    BY <1>1, <1>2, <1>3, <2>1, Zenon
<1>5. ~e.full
  <2>1. CASE e.full
    <3>1. /\ e.lit = 0
          /\ \/ e.rep = GroupSize
             \/ e.rep = 1 /\ Len(e.buf) = 1
             \/ e.rep = 0 /\ e.buf = <<>>
      BY <2>1, Zenon DEF EncoderInv, Room
    <3>2. 1 > 0 /\ e.rep # GroupSize
      BY <1>1, <1>4, GroupAssumption
    <3>3. QED
      BY <1>3, <3>1, <3>2, Zenon
  <2>2. QED
    BY <2>1
<1>6. /\ n \in 0..(GroupSize - 1) /\ n \in Nat
      /\ Len(e.buf) + n = 0 \/ Len(e.buf) + n = GroupSize
  <2>1. CASE Len(e.buf) = 0
    <3>1. n = 0
      BY <2>1, Zenon
    <3>2. QED
      BY <2>1, <3>1, GroupAssumption
  <2>2. CASE Len(e.buf) # 0
    <3>1. n = GroupSize - Len(e.buf)
      BY <2>2, Zenon
    <3>2. QED
      BY <1>1, <2>2, <3>1, GroupAssumption
  <2>3. QED
    BY <2>1, <2>2
<1>7. e.buf = <<>> => n = 0
  BY <1>3, Zenon
<1>8. /\ s \in Seq(Values) /\ Len(s) = Len(e.buf) + n
      /\ Copies(0, n) \in Seq(Values)
  <2>1. Copies(0, n) \in Seq(Values) /\ Len(Copies(0, n)) = n
    BY <1>6, ValuesAssumption, CopiesType
  <2>2. s \in Seq(Values)
    BY <1>1, <2>1, ConcatType, Zenon
  <2>3. Len(s) = Len(e.buf) + Len(Copies(0, n))
    BY <1>1, <2>1, ConcatLen, Zenon
  <2>4. QED
    BY <2>1, <2>2, <2>3, Zenon
<1>9. PadGroup(e) = [e EXCEPT !.buf = s]
  <2>1. CASE Len(e.buf) = 0
    <3>1. s = e.buf /\ n = 0
      <4>1. n = 0
        BY <2>1, Zenon
      <4>2. QED
        BY <1>1, <1>3, <4>1, ConcatEmpty, Zenon
    <3>2. [e EXCEPT !.buf = e.buf] = e
      BY <1>1, Zenon DEF Encoder
    <3>3. QED
      BY <2>1, <3>1, <3>2, Zenon DEF PadGroup
  <2>2. CASE Len(e.buf) # 0
    <3>1. n = GroupSize - Len(e.buf)
      BY <2>2, Zenon
    <3>2. QED
      BY <2>2, <3>1, Zenon DEF PadGroup
  <2>3. QED
    BY <2>1, <2>2
<1> HIDE DEF n, s
<1>10. e.lit + Len(s) \in Nat
  <2>1. Len(s) \in Nat
    BY <1>8
  <2>2. QED
    BY <1>1, <2>1
<1>11. /\ p \in Encoder
      /\ p.buf = s /\ p.cur = e.cur /\ p.rep = e.rep
      /\ p.lit = e.lit + Len(s) /\ p.ind = e.ind /\ p.open = e.open
      /\ p.len = e.len /\ p.vals = e.vals /\ p.bytes = e.bytes
      /\ (p.full <=> e.full)
  BY <1>1, <1>8, <1>10, Zenon DEF Encoder
<1>12. Flush(e) = r
  <2>1. [PadGroup(e) EXCEPT !.lit = @ + Len(PadGroup(e).buf)] = p
    <3>1. /\ [e EXCEPT !.buf = s].buf = s
          /\ [e EXCEPT !.buf = s].lit = e.lit
      BY <1>1, <1>8, Zenon DEF Encoder
    <3>2. [PadGroup(e) EXCEPT !.lit = @ + Len(PadGroup(e).buf)]
            = [[e EXCEPT !.buf = s] EXCEPT !.lit = e.lit + Len(s)]
      BY <1>9, <3>1, Zenon
    <3>3. QED
      BY <3>2, Zenon
  <2>2. QED
    BY <2>1, Zenon DEF Flush
<1> HIDE DEF p
<1>13. Len(p.buf) \in {0, GroupSize} /\ p.lit = Len(p.open \o p.buf)
  <2>1. Len(e.open \o s) = e.lit + Len(s)
    <3>1. s \in Seq(Values) /\ e.open \in Seq(Values)
      BY <1>1, <1>8, Zenon
    <3>2. Len(e.open \o s) = Len(e.open) + Len(s)
      BY <3>1, ConcatLen, Zenon
    <3>3. QED
      BY <1>1, <3>2, Zenon
  <2>2. Len(s) = 0 \/ Len(s) = GroupSize
    BY <1>6, <1>8, Zenon
  <2>3. QED
    BY <1>11, <2>1, <2>2, Zenon
<1>14. /\ f \in Encoder
       /\ f.buf = <<>> /\ f.lit = 0 /\ f.ind = FALSE /\ f.open = <<>>
       /\ f.len = p.len /\ f.vals = p.vals \o (p.open \o p.buf)
       /\ f.bytes = p.bytes + (IF p.ind THEN 0 ELSE 1)
                         + GroupBytes * (Len(p.buf) \div GroupSize)
       /\ f.full <=> (p.full \/ f.bytes + MinBufferSize > p.len)
  BY <1>11, <1>13, CloseLiteralFields, Zenon
<1> HIDE DEF f
<1>15. /\ r \in Encoder
       /\ r.buf = <<>> /\ r.lit = 0 /\ r.ind = FALSE /\ r.open = <<>>
       /\ r.rep = 0 /\ r.len = f.len /\ r.vals = f.vals
       /\ r.bytes = f.bytes /\ (r.full <=> f.full)
  BY <1>3, <1>14, Zenon DEF Encoder
<1> HIDE DEF r
<1>16. Len(s) \in {0, GroupSize}
  BY <1>6, <1>8, Zenon
<1>17. /\ r.vals = e.vals \o (e.open \o s)
       /\ r.bytes = e.bytes + (IF e.ind THEN 0 ELSE 1)
                       + GroupBytes * (Len(s) \div GroupSize)
       /\ r.full <=> r.bytes + MinBufferSize > e.len
       /\ r.len = e.len
  BY <1>5, <1>11, <1>14, <1>15, Zenon
<1>18. QED
  BY <1>4, <1>5, <1>6, <1>8, <1>12, <1>15, <1>16, <1>17, Zenon DEF s, n

(* Flush.  Everything pending goes into finished runs, within the buffer;  *)
(* zeros are added only to an encoder that is not full, and fewer than a   *)
(* group of them.                                                          *)
LEMMA FlushCorrect ==
    ASSUME NEW e, EncoderInv(e)
    PROVE  LET r == Flush(e) IN
           /\ EncoderInv(r)
           /\ r.len = e.len /\ r.bytes <= e.len
           /\ Contents(r) = r.vals
           /\ \E n \in 0..(GroupSize - 1) :
                 /\ r.vals = Contents(e) \o Copies(0, n)
                 /\ e.full => n = 0
                 /\ Pending(e) = <<>> => n = 0
<1>1. /\ e \in Encoder
      /\ e.open \in Seq(Values) /\ e.buf \in Seq(Values)
      /\ e.cur \in Values /\ e.vals \in Seq(Values)
      /\ e.bytes \in Nat /\ e.lit \in Nat /\ e.rep \in Nat
      /\ e.len \in Nat
      /\ e.lit = Len(e.open) /\ e.lit % GroupSize = 0
      /\ (e.ind <=> e.lit # 0)
      /\ e.lit < GroupSize * (MaxGroups - 1)
      /\ Len(e.buf) < GroupSize /\ Len(e.buf) \in Nat
      /\ (e.rep >= GroupSize \/ e.rep < GroupSize)
      /\ ~(e.rep >= GroupSize /\ e.rep < GroupSize)
  BY EncoderFacts, Zenon
<1>2. /\ e.rep >= GroupSize => /\ e.lit = 0 /\ e.buf = <<>> /\ e.open = <<>>
                               /\ e.ind = FALSE
      /\ e.rep < GroupSize =>
            /\ e.rep <= Len(e.buf)
            /\ \A i \in (Len(e.buf) - e.rep + 1)..Len(e.buf) : e.buf[i] = e.cur
      /\ ~e.full => RunStart(e) + MinBufferSize <= e.len
  BY EncoderFacts, Zenon
<1>3. /\ ~(0 >= GroupSize) /\ Len(<<>>) = 0 /\ 0 \in Nat /\ ~(0 > 0)
      /\ 0 \in 0..(GroupSize - 1)
      /\ 0 % GroupSize = 0 /\ 0 < GroupSize * (MaxGroups - 1)
      /\ 0 < GroupSize /\ 0 <= 0 /\ {} = (0 - 0 + 1)..0
      /\ <<>> \in Seq(Values) /\ Copies(0, 0) = <<>>
  BY <1>1, GroupAssumption, GroupDivision DEF Copies
<1>4. e.vals \o Pending(e) \in Seq(Values) /\ Pending(e) \in Seq(Values)
  <2>1. Pending(e) \in Seq(Values)
    <3>1. Copies(e.cur, e.rep) \in Seq(Values)
      BY <1>1, CopiesType
    <3>2. QED
      BY <1>1, <3>1, ConcatType, Zenon DEF Pending
  <2>2. QED
    BY <1>1, <2>1, ConcatType, Zenon
(* An encoder with nothing pending is in order, and its contents are those *)
(* of its finished runs.                                                   *)
<1>5. ASSUME NEW r \in Encoder, r.lit = 0, r.rep = 0, r.buf = <<>>,
             r.ind = FALSE, r.open = <<>>, r.bytes <= r.len,
             r.full \/ r.bytes + MinBufferSize <= r.len
      PROVE  EncoderInv(r) /\ Contents(r) = r.vals
  <2>1. CountersAgree(r)
    BY <1>3, <1>5, Zenon DEF CountersAgree
  <2>2. r.bytes \in Nat /\ r.vals \in Seq(Values) /\ r.len \in Nat
    BY <1>5, EncoderFieldTypes, Zenon
  <2>3. r.bytes - 0 = r.bytes /\ r.bytes + 0 = r.bytes
    BY <2>2
  <2>4. RunStart(r) = r.bytes
    BY <1>5, <2>3, Zenon DEF RunStart
  <2>5. Room(r)
    BY <1>3, <1>5, <2>3, <2>4, Zenon DEF Room
  <2>6. Contents(r) = r.vals \o (<<>> \o <<>>)
    BY <1>3, <1>5, Zenon DEF Contents, Pending
  <2>7. Contents(r) = r.vals
    BY <1>3, <2>2, <2>6, ConcatEmpty, Zenon
  <2>8. QED
    BY <1>5, <2>1, <2>5, <2>7, Zenon DEF EncoderInv
<1>6. Contents(e) \o Copies(0, 0) = Contents(e)
  BY <1>3, <1>4, ConcatEmpty, Zenon DEF Contents
<1>7. CASE e.lit = 0 /\ e.rep = 0 /\ Len(e.buf) = 0
  <2>1. Flush(e) = e
    BY <1>7, Zenon DEF Flush
  <2>2. e.buf = <<>> /\ e.open = <<>> /\ Contents(e) = e.vals
    <3>1. e.buf = <<>> /\ e.open = <<>>
      BY <1>1, <1>7, ConcatEmpty, Zenon
    <3>2. Contents(e) = e.vals \o (<<>> \o <<>>)
      BY <1>3, <1>7, <3>1, Zenon DEF Contents, Pending
    <3>3. QED
      BY <1>1, <1>3, <3>1, <3>2, ConcatEmpty, Zenon
  <2>3. e.bytes <= e.len
    <3>1. CASE e.full
      <4>1. e.bytes + (IF e.rep > 0 THEN 1 + ValueBytes ELSE 0) <= e.len
        BY <3>1, Zenon DEF EncoderInv, Room
      <4>2. e.bytes + 0 <= e.len
        BY <1>3, <1>7, <4>1, Zenon
      <4>3. QED
        BY <1>1, <4>2
    <3>2. CASE ~e.full
      <4>1. RunStart(e) = e.bytes - 0
        BY <1>1, <1>7, Zenon DEF RunStart
      <4>2. QED
        BY <1>1, <1>2, <3>2, <4>1, RunSizes
    <3>3. QED
      BY <3>1, <3>2
  <2>4. QED
    BY <1>3, <1>6, <2>1, <2>2, <2>3, Zenon
<1>8. CASE e.rep > 0 /\ e.lit = 0 /\ (e.rep = Len(e.buf) \/ Len(e.buf) = 0)
  <2> DEFINE r == FlushRepeatedRun(e)
  <2>1. Flush(e) = r
    <3>1. e.rep # 0
      BY <1>1, <1>8
    <3>2. QED
      BY <1>8, <3>1, Zenon DEF Flush
  <2>2. /\ r \in Encoder
        /\ r.buf = <<>> /\ r.rep = 0 /\ r.lit = e.lit /\ r.ind = e.ind
        /\ r.open = e.open /\ r.len = e.len
        /\ r.vals = e.vals \o Copies(e.cur, e.rep)
        /\ r.bytes = e.bytes + VlqBytes(e.rep) + ValueBytes
        /\ r.full <=> (e.full \/ r.bytes + MinBufferSize > e.len)
    BY <1>1, FlushRepeatedRunFields, Zenon
  <2> HIDE DEF r
  <2>3. e.open = <<>> /\ e.ind = FALSE
    BY <1>1, <1>8, ConcatEmpty, EncoderFieldTypes, Zenon
  <2>4. Pending(e) = Copies(e.cur, e.rep)
    <3>1. Copies(e.cur, e.rep) \in Seq(Values)
      BY <1>1, CopiesType
    <3>2. CASE e.rep >= GroupSize
      BY <2>3, <3>1, <3>2, ConcatEmpty, Zenon DEF Pending
    <3>3. CASE e.rep < GroupSize
      <4>1. e.rep = Len(e.buf)
        BY <1>1, <1>2, <1>8, <3>3
      <4>2. \A i \in 1..e.rep : e.buf[i] = e.cur
        BY <1>1, <1>2, <3>3, <4>1
      <4>3. e.buf \in Seq(Values) /\ e.cur \in Values
        BY <1>1
      <4>4. e.buf = Copies(e.cur, e.rep)
        BY <4>1, <4>2, <4>3, SeqIsCopies, Zenon
      <4>5. QED
        BY <1>1, <2>3, <3>3, <4>4, ConcatEmpty, Zenon DEF Pending
    <3>4. QED
      BY <1>1, <3>2, <3>3
  <2>5. r.bytes <= e.len /\ r.bytes \in Nat
    <3>1. VlqBytes(e.rep) \in 1..MaxVlqBytes /\ (e.rep < 64 => VlqBytes(e.rep) = 1)
      BY <1>1, VlqType
    <3>2. CASE e.full
      <4>1. /\ e.bytes + (IF e.rep > 0 THEN 1 + ValueBytes ELSE 0) <= e.len
            /\ e.rep = GroupSize \/ e.rep = 1 \/ e.rep = 0
        BY <3>2, Zenon DEF EncoderInv, Room
      <4>2. e.bytes + (1 + ValueBytes) <= e.len
        BY <1>8, <4>1, Zenon
      <4>3. VlqBytes(e.rep) = 1
        BY <1>8, <3>1, <4>1, GroupAssumption
      <4>4. QED
        BY <1>1, <2>2, <4>2, <4>3, WidthAssumption
    <3>3. CASE ~e.full
      <4>1. RunStart(e) = e.bytes - 0
        BY <2>3, Zenon DEF RunStart
      <4>2. QED
        BY <1>1, <1>2, <2>2, <3>1, <3>3, <4>1, RunSizes, WidthAssumption,
           SMTT(30)
           DEF MaxVlqBytes
    <3>4. QED
      BY <3>2, <3>3
  <2>6. r.full \/ r.bytes + MinBufferSize <= r.len
    <3>1. r.bytes + MinBufferSize > e.len \/ r.bytes + MinBufferSize <= e.len
      BY <1>1, <2>5, RunSizes
    <3>2. QED
      BY <2>2, <3>1, Zenon
  <2>7. EncoderInv(r) /\ Contents(r) = r.vals
    BY <1>5, <1>8, <2>2, <2>3, <2>5, <2>6, Zenon
  <2>8. r.vals = Contents(e)
    BY <2>2, <2>4, Zenon DEF Contents
  <2>9. QED
    BY <1>3, <1>6, <2>1, <2>2, <2>5, <2>7, <2>8, Zenon

<1>9. ASSUME ~(e.lit = 0 /\ e.rep = 0 /\ Len(e.buf) = 0),
             ~(e.rep > 0 /\ e.lit = 0 /\ (e.rep = Len(e.buf) \/ Len(e.buf) = 0))
      PROVE  LET r == Flush(e) IN
             /\ EncoderInv(r)
             /\ r.len = e.len /\ r.bytes <= e.len
             /\ Contents(r) = r.vals
             /\ \E n \in 0..(GroupSize - 1) :
                   /\ r.vals = Contents(e) \o Copies(0, n)
                   /\ e.full => n = 0
                   /\ Pending(e) = <<>> => n = 0
  <2> DEFINE n == IF Len(e.buf) = 0 THEN 0 ELSE GroupSize - Len(e.buf)
             s == e.buf \o Copies(0, n)
             r == Flush(e)
  <2>1. /\ e.rep < GroupSize /\ ~e.full
        /\ n \in 0..(GroupSize - 1) /\ n \in Nat
        /\ s \in Seq(Values) /\ Copies(0, n) \in Seq(Values)
        /\ Len(s) \in {0, GroupSize} /\ Len(s) = Len(e.buf) + n
        /\ r \in Encoder /\ r.len = e.len
        /\ r.buf = <<>> /\ r.lit = 0 /\ r.ind = FALSE
        /\ r.open = <<>> /\ r.rep = 0
        /\ r.vals = e.vals \o (e.open \o s)
        /\ r.bytes = e.bytes + (IF e.ind THEN 0 ELSE 1)
                        + GroupBytes * (Len(s) \div GroupSize)
        /\ r.full <=> r.bytes + MinBufferSize > e.len
    BY <1>9, FlushLast, Zenon
  <2>2. ~(e.rep >= GroupSize)
    BY <1>1, <2>1, Zenon
  <2> HIDE DEF n, s, r
  <2>3. r.bytes <= e.len /\ r.bytes \in Nat
    <3>1. PICK k \in Nat : e.lit = GroupSize * k
      BY <1>1, GroupDivision, Zenon
    <3>2. k + 1 < MaxGroups
      <4>1. MaxGroups - 1 \in Nat
        BY GroupAssumption
      <4>2. GroupSize * k < GroupSize * (MaxGroups - 1)
        BY <1>1, <3>1, Zenon
      <4>3. k < MaxGroups - 1
        BY <4>1, <4>2, GroupOrder
      <4>4. QED
        BY <4>3, GroupAssumption
    <3> DEFINE X == GroupBytes * k
    <3>3. X \in Nat /\ GroupBytes * (k + 1) = X + GroupBytes /\ (k = 0 => X = 0)
      BY GroupOrder, WidthAssumption
    <3>4. MinBufferSize \in Nat /\ 1 + (X + GroupBytes) <= MinBufferSize
      BY <3>2, <3>3, RunSizes
    <3>5. e.lit \div GroupSize = k
      BY <3>1, GroupDivision, Zenon
    <3>6. RunStart(e) = e.bytes - (IF e.ind THEN 1 + X ELSE 0)
      BY <3>5, Zenon DEF RunStart
    <3> HIDE DEF X
    <3>7. r.bytes \in Nat
      BY <2>1, EncoderFieldTypes, Zenon
    <3>8. \/ GroupBytes * (Len(s) \div GroupSize) = 0
          \/ GroupBytes * (Len(s) \div GroupSize) = GroupBytes
      <4>1. \/ Len(s) \div GroupSize = 0
            \/ Len(s) \div GroupSize = 1
        BY <2>1, GroupDivision, Zenon
      <4>2. QED
        BY <4>1, WidthAssumption
    <3>9. PICK g \in {0, GroupBytes} :
            r.bytes = e.bytes + (IF e.ind THEN 0 ELSE 1) + g
      BY <2>1, <3>8, Zenon
    <3>10. RunStart(e) + MinBufferSize <= e.len
      BY <1>2, <2>1, Zenon
    <3>11. CASE e.ind
      <4>1. r.bytes = e.bytes + 0 + g
        BY <3>9, <3>11, Zenon
      <4>2. e.bytes - (1 + X) + MinBufferSize <= e.len
        BY <3>6, <3>10, <3>11, Zenon
      <4>3. QED
        BY <1>1, <3>3, <3>4, <3>7, <4>1, <4>2, WidthAssumption
    <3>12. CASE ~e.ind
      <4>1. r.bytes = e.bytes + 1 + g
        BY <3>9, <3>12, Zenon
      <4>2. e.bytes - 0 + MinBufferSize <= e.len
        BY <3>6, <3>10, <3>12, Zenon
      <4>3. QED
        BY <1>1, <3>3, <3>4, <3>7, <4>1, <4>2, WidthAssumption
    <3>13. QED
      BY <3>11, <3>12
  <2>4. r.full \/ r.bytes + MinBufferSize <= r.len
    <3>1. r.bytes + MinBufferSize > e.len \/ r.bytes + MinBufferSize <= e.len
      BY <1>1, <2>3, RunSizes
    <3>2. QED
      BY <2>1, <3>1, Zenon
  <2>5. r.bytes <= r.len /\ r.len = e.len
    BY <2>1, <2>3, Zenon
  <2>6. EncoderInv(r) /\ Contents(r) = r.vals
    BY <1>5, <2>1, <2>4, <2>5, Zenon
  <2>7. r.vals = Contents(e) \o Copies(0, n)
    <3>1. r.vals = e.vals \o (e.open \o (e.buf \o Copies(0, n)))
      BY <2>1, Zenon DEF s
    <3>2. e.open \o (e.buf \o Copies(0, n)) = (e.open \o e.buf) \o Copies(0, n)
      BY <1>1, <2>1, ConcatAssoc, Zenon
    <3>3. e.open \o e.buf \in Seq(Values)
      BY <1>1, ConcatType, Zenon
    <3>4. e.vals \o ((e.open \o e.buf) \o Copies(0, n))
            = (e.vals \o (e.open \o e.buf)) \o Copies(0, n)
      BY <1>1, <2>1, <3>3, ConcatAssoc, Zenon
    <3>5. Contents(e) = e.vals \o (e.open \o e.buf)
      BY <1>1, <2>2, Zenon DEF Contents, Pending
    <3>6. QED
      BY <3>1, <3>2, <3>4, <3>5, Zenon
  <2>8. Pending(e) = <<>> => n = 0
    <3>1. SUFFICES ASSUME Pending(e) = <<>> PROVE n = 0
      OBVIOUS
    <3>2. e.open \o e.buf = <<>>
      BY <2>2, <3>1, Zenon DEF Pending
    <3>3. e.lit + Len(e.buf) = 0
      <4>1. e.open \in Seq(Values) /\ e.buf \in Seq(Values)
        BY <1>1, Zenon
      <4>2. Len(e.open \o e.buf) = Len(e.open) + Len(e.buf)
        BY <4>1, ConcatLen, Zenon
      <4>3. QED
        BY <1>1, <1>3, <3>2, <4>2, Zenon
    <3>4. Len(e.buf) = 0
      <4>1. Len(e.buf) \in Nat /\ e.lit \in Nat
        BY <1>1, Zenon
      <4>2. QED
        BY <3>3, <4>1
    <3>5. QED
      BY <3>4, Zenon DEF n
  <2>9. QED
    BY <2>1, <2>5, <2>6, <2>7, <2>8, Zenon DEF r
<1>10. QED
  BY <1>7, <1>8, <1>9, Zenon

LEMMA NewEncoderCorrect ==
    ASSUME NEW len \in Nat, len >= MinBufferSize
    PROVE  LET e == NewEncoder(len) IN
           EncoderInv(e) /\ e.len = len /\ ~e.full /\ Contents(e) = <<>>
<1> DEFINE e == NewEncoder(len)
<1>1. /\ ~(0 >= GroupSize) /\ Len(<<>>) = 0 /\ 0 \in Nat
      /\ 0 % GroupSize = 0 /\ 0 < GroupSize * (MaxGroups - 1)
      /\ 0 < GroupSize /\ 0 <= 0 /\ {} = (0 - 0 + 1)..0
      /\ <<>> \in Seq(Values) /\ <<>> \in Seq(Run)
  BY GroupAssumption, GroupDivision
<1>2. 0 \in Values /\ FALSE \in BOOLEAN
  BY ValuesAssumption
<1>3. /\ e \in Encoder
      /\ e.full = FALSE /\ e.buf = <<>> /\ e.cur = 0 /\ e.rep = 0 /\ e.lit = 0
      /\ e.ind = FALSE /\ e.open = <<>> /\ e.vals = <<>> /\ e.bytes = 0
      /\ e.len = len
  BY <1>1, <1>2, Zenon DEF NewEncoder, Encoder
<1> HIDE DEF e
<1>4. CountersAgree(e)
  BY <1>1, <1>3, Zenon DEF CountersAgree
<1>5. 0 - 0 + MinBufferSize <= len
  BY RunSizes
<1>6. Room(e)
  BY <1>3, <1>5, Zenon DEF Room, RunStart
<1>7. Contents(e) = <<>>
  <2>1. Contents(e) = <<>> \o (<<>> \o <<>>)
    BY <1>1, <1>3, Zenon DEF Contents, Pending
  <2>2. QED
    BY <1>1, <2>1, ConcatEmpty, Zenon
<1>8. QED
  BY <1>3, <1>4, <1>6, <1>7, Zenon DEF EncoderInv, e

(* What an encoder has written lies within its buffer.                     *)
LEMMA BytesFit ==
    ASSUME NEW e, EncoderInv(e)
    PROVE  e.bytes <= e.len
<1>1. /\ e.bytes \in Nat /\ e.lit \in Nat /\ e.rep \in Nat /\ e.len \in Nat
      /\ e.lit % GroupSize = 0 /\ e.lit < GroupSize * (MaxGroups - 1)
      /\ ~e.full => RunStart(e) + MinBufferSize <= e.len
  BY EncoderFacts, Zenon
<1>2. CASE e.full
  <2>1. e.bytes + (IF e.rep > 0 THEN 1 + ValueBytes ELSE 0) <= e.len
    BY <1>2, Zenon DEF EncoderInv, Room
  <2>2. CASE e.rep > 0
    <3>1. e.bytes + (1 + ValueBytes) <= e.len
      BY <2>1, <2>2, Zenon
    <3>2. QED
      BY <1>1, <3>1, WidthAssumption
  <2>3. CASE ~(e.rep > 0)
    <3>1. e.bytes + 0 <= e.len
      BY <2>1, <2>3, Zenon
    <3>2. QED
      BY <1>1, <3>1
  <2>4. QED
    BY <2>2, <2>3
<1>3. CASE ~e.full
  <2>1. PICK k \in Nat : e.lit = GroupSize * k
    BY <1>1, GroupDivision, Zenon
  <2>2. k + 1 < MaxGroups
    <3>1. MaxGroups - 1 \in Nat
      BY GroupAssumption
    <3>2. GroupSize * k < GroupSize * (MaxGroups - 1)
      BY <1>1, <2>1, Zenon
    <3>3. k < MaxGroups - 1
      BY <3>1, <3>2, GroupOrder
    <3>4. QED
      BY <3>3, GroupAssumption
  <2> DEFINE X == GroupBytes * k
  <2>3. X \in Nat /\ MinBufferSize \in Nat /\ 1 + X <= MinBufferSize
    BY <2>2, GroupOrder, RunSizes
  <2>4. e.lit \div GroupSize = k
    BY <2>1, GroupDivision, Zenon
  <2>5. RunStart(e) = e.bytes - (IF e.ind THEN 1 + X ELSE 0)
    BY <2>4, Zenon DEF RunStart
  <2> HIDE DEF X
  <2>6. RunStart(e) = e.bytes - (1 + X) \/ RunStart(e) = e.bytes - 0
    BY <2>5, Zenon
  <2>7. QED
    BY <1>1, <1>3, <2>3, <2>6
<1>4. QED
  BY <1>2, <1>3

LEMMA FlushWritten ==
    ASSUME NEW e, EncoderInv(e), Written(e)
    PROVE  Written(Flush(e))
<1>1. /\ e \in Encoder /\ e.buf \in Seq(Values) /\ e.lit \in Nat
      /\ e.lit % GroupSize = 0 /\ (e.ind <=> e.lit # 0)
      /\ Len(e.buf) < GroupSize /\ Len(e.buf) \in Nat
  BY EncoderFacts, Zenon
<1>2. CASE e.lit = 0 /\ e.rep = 0 /\ Len(e.buf) = 0
  <2>1. Flush(e) = e
    BY <1>2, Zenon DEF Flush
  <2>2. QED
    BY <2>1, Zenon
<1>3. CASE /\ ~(e.lit = 0 /\ e.rep = 0 /\ Len(e.buf) = 0)
           /\ e.rep > 0 /\ e.lit = 0
           /\ e.rep = Len(e.buf) \/ Len(e.buf) = 0
  <2>1. Flush(e) = FlushRepeatedRun(e)
    BY <1>3, Zenon DEF Flush
  <2>2. QED
    BY <1>1, <2>1, RepeatedWritten, Zenon
<1>4. CASE /\ ~(e.lit = 0 /\ e.rep = 0 /\ Len(e.buf) = 0)
           /\ ~(e.rep > 0 /\ e.lit = 0
                  /\ (e.rep = Len(e.buf) \/ Len(e.buf) = 0))
  <2> DEFINE p == PadGroup(e)
             c == [p EXCEPT !.lit = @ + Len(p.buf)]
             f == FlushLiteralRun(c, TRUE)
  <2>1. Flush(e) = [f EXCEPT !.rep = 0]
    BY <1>4, Zenon DEF Flush
  <2>2. /\ p \in Encoder /\ SameStream(e, p) /\ Len(p.buf) \in {0, GroupSize}
        /\ p.open = e.open
    <3>1. CASE Len(e.buf) = 0
      <4>1. p = e
        BY <3>1, Zenon DEF PadGroup
      <4>2. Len(e.buf) \in {0, GroupSize}
        BY <3>1
      <4> HIDE DEF p
      <4>3. QED
        BY <1>1, <4>1, <4>2, Zenon DEF SameStream
    <3>2. CASE Len(e.buf) # 0
      <4>1. PICK n \in Nat : n = GroupSize - Len(e.buf)
        <5>1. GroupSize - Len(e.buf) \in Nat
          <6>1. PICK l : l = Len(e.buf)
            OBVIOUS
          <6>2. l \in Nat /\ l < GroupSize
            BY <1>1, <6>1, Zenon
          <6>3. GroupSize - l \in Nat
            BY <6>2, GroupAssumption
          <6>4. QED
            BY <6>1, <6>3, Zenon
        <5>2. QED
          BY <5>1, Zenon
      <4>2. Copies(0, n) \in Seq(Values) /\ Len(Copies(0, n)) = n
        BY CopiesType, ValuesAssumption
      <4>3. PICK s : s = e.buf \o Copies(0, n)
        OBVIOUS
      <4>4. s \in Seq(Values) /\ Len(s) = GroupSize
        <5>1. Len(s) = Len(e.buf) + n /\ s \in Seq(Values)
          BY <1>1, <4>2, <4>3, ConcatType, ConcatLen, Zenon
        <5>2. QED
          BY <1>1, <4>1, <5>1, GroupAssumption
      <4>5. p = [e EXCEPT !.buf = s]
        BY <3>2, <4>1, <4>3, Zenon DEF PadGroup
      <4> HIDE DEF p
      <4>6. p \in Encoder /\ p.buf = s /\ p.open = e.open /\ SameStream(e, p)
        BY <1>1, <4>4, <4>5, Zenon DEF Encoder, SameStream
      <4>7. Len(p.buf) \in {0, GroupSize}
        BY <4>4, <4>6
      <4>8. QED
        BY <4>6, <4>7
    <3>3. QED
      BY <3>1, <3>2
  <2> HIDE DEF p
  <2>3. PICK k \in Nat : /\ e.lit = GroupSize * k
                         /\ e.ind \/ k = 0
                         /\ e.bytes = StreamBytes(e.runs)
                              + (IF e.ind THEN 1 + GroupBytes * k ELSE 0)
    BY <1>1, OpenGroups, Zenon
  <2>4. p.lit + Len(p.buf) \in Nat /\ p.lit = e.lit
    <3>1. p.lit = e.lit
      BY <2>2, Zenon DEF SameStream
    <3>2. Len(p.buf) \in Nat
      BY <2>2, GroupAssumption
    <3>3. QED
      BY <1>1, <3>1, <3>2
  <2>5. /\ c \in Encoder /\ c.buf = p.buf /\ c.open = p.open
        /\ c.lit = e.lit + Len(p.buf)
        /\ c.vals = p.vals /\ c.runs = p.runs /\ c.bytes = p.bytes
        /\ c.ind = p.ind
    BY <2>2, <2>4, Zenon DEF Encoder
  <2>6. /\ c.vals = e.vals /\ c.runs = e.runs /\ c.bytes = e.bytes
        /\ c.ind = e.ind
    BY <2>2, <2>5, Zenon DEF SameStream
  <2> HIDE DEF c
  <2>7. /\ Len(c.buf) \in {0, GroupSize}
        /\ c.lit = GroupSize * k + Len(c.buf)
        /\ c.ind \/ k = 0
        /\ c.vals = Decode(c.runs)
        /\ c.bytes = StreamBytes(c.runs)
             + (IF c.ind THEN 1 + GroupBytes * k ELSE 0)
    <3>1. e.vals = Decode(e.runs)
      BY Zenon DEF Written
    <3>2. QED
      BY <2>2, <2>3, <2>5, <2>6, <3>1, Zenon
  <2>8. Written(f)
    BY <2>5, <2>7, LiteralWritten, Zenon
  <2>9. f \in Encoder
    <3>1. c.lit = Len(c.open \o c.buf)
      <4>1. e.lit = Len(e.open) /\ c.open = e.open
        BY <2>2, <2>5, EncoderFacts, Zenon
      <4>2. c.open \in Seq(Values) /\ c.buf \in Seq(Values)
        BY <2>5, EncoderFieldTypes, Zenon
      <4>3. QED
        BY <2>5, <4>1, <4>2, ConcatLen, Zenon
    <3>2. QED
      BY <2>5, <2>7, <3>1, CloseLiteralFields, Zenon
  <2> HIDE DEF f
  <2>10. SameStream(f, [f EXCEPT !.rep = 0])
    BY <2>9, Zenon DEF SameStream, Encoder
  <2>11. QED
    BY <2>1, <2>8, <2>10, WrittenStays, Zenon
<1>5. QED
  BY <1>2, <1>3, <1>4, Zenon

LEMMA NewEncoderWritten ==
    ASSUME NEW len PROVE Written(NewEncoder(len))
<1>1. /\ NewEncoder(len).vals = <<>> /\ NewEncoder(len).runs = <<>>
      /\ NewEncoder(len).bytes = 0 /\ NewEncoder(len).ind = FALSE
  BY Zenon DEF NewEncoder
<1>2. 0 = 0 + 0
  OBVIOUS
<1>3. QED
  BY <1>1, <1>2, DecodeNone, StreamBytesNone, Zenon DEF Written

LEMMA CopiesNone == Copies(0, 0) = <<>>
BY DEF Copies

LEMMA ContentsType ==
    ASSUME NEW e, EncoderInv(e)
    PROVE  Contents(e) \in Seq(Values) /\ Pending(e) \in Seq(Values)
<1>1. /\ e.open \in Seq(Values) /\ e.buf \in Seq(Values)
      /\ e.cur \in Values /\ e.vals \in Seq(Values) /\ e.rep \in Nat
  BY EncoderFacts, Zenon
<1>2. Copies(e.cur, e.rep) \in Seq(Values)
  BY <1>1, CopiesType
<1>3. Pending(e) \in Seq(Values)
  BY <1>1, <1>2, ConcatType, Zenon DEF Pending
<1>4. QED
  BY <1>1, <1>3, ConcatType, Zenon DEF Contents

-----------------------------------------------------------------------------
(* The inductive invariant of the builder.                                 *)
InputKept ==
    \E n \in 0..(GroupSize - 1) :
        /\ done.vals \o Contents(enc) = input \o Copies(0, n)
        /\ ~viewed => n = 0

(* The histories are what the bytes decode to.                             *)
StreamKept == done.vals = Decode(done.runs) /\ Written(enc)

IInv ==
    /\ EncoderInv(enc)
    /\ offset \in Nat /\ size \in Nat
    /\ offset + enc.len = size /\ enc.len >= MinBufferSize
    /\ done \in Stream /\ viewed \in BOOLEAN /\ input \in Seq(Values)
    /\ InputKept
    /\ StreamKept
    /\ viewed => Pending(enc) = <<>>

LEMMA FreshInv ==
    ASSUME Fresh(enc, offset, size, done), viewed = FALSE, input = <<>>
    PROVE  IInv
<1>1. MinBufferSize \in Nat /\ MinBufferSize >= MinBufferSize
      /\ 0 + MinBufferSize = MinBufferSize
  BY RunSizes
<1>2. /\ EncoderInv(enc) /\ enc.len = MinBufferSize /\ Contents(enc) = <<>>
  BY <1>1, NewEncoderCorrect, Zenon DEF Fresh
<1>3. <<>> \in Seq(Values) /\ <<>> \in Seq(Run) /\ 0 \in Nat
      /\ 0 \in 0..(GroupSize - 1)
  BY GroupAssumption
<1>4. done \in Stream /\ done.vals = <<>>
  BY <1>3, Zenon DEF Fresh, Stream
<1>5. InputKept
  <2>1. done.vals \o Contents(enc) = input \o Copies(0, 0)
    BY <1>2, <1>4, CopiesNone, Zenon
  <2>2. QED
    BY <1>3, <2>1, Zenon DEF InputKept
<1>6. StreamKept
  <2>1. done.runs = <<>> /\ enc = NewEncoder(MinBufferSize)
    BY Zenon DEF Fresh
  <2>2. QED
    BY <1>4, <2>1, DecodeNone, NewEncoderWritten, Zenon DEF StreamKept
<1>7. QED
  BY <1>1, <1>2, <1>3, <1>4, <1>5, <1>6, Zenon DEF Fresh, IInv

LEMMA PutInPlaceInv ==
    ASSUME IInv, NEW v \in Values, ~viewed, PutInPlace(v),
           input' = Append(input, v), viewed' = viewed
    PROVE  IInv'
<1>1. /\ EncoderInv(enc) /\ ~enc.full /\ input \in Seq(Values)
      /\ enc' = PutValue(enc, v)
      /\ offset' = offset /\ size' = size /\ done' = done
  BY Zenon DEF IInv, PutInPlace
<1>2. /\ EncoderInv(enc') /\ enc'.len = enc.len
      /\ Contents(enc') = Contents(enc) \o <<v>>
  BY <1>1, PutCorrect, Zenon
<1>3. done.vals \o Contents(enc) = input \o Copies(0, 0)
      /\ 0 \in 0..(GroupSize - 1)
  BY Zenon, GroupAssumption DEF IInv, InputKept
<1>4. /\ done.vals \in Seq(Values) /\ Contents(enc) \in Seq(Values)
      /\ <<v>> \in Seq(Values) /\ input \o <<v>> = Append(input, v)
      /\ Append(input, v) \in Seq(Values)
  <2>1. done.vals \in Seq(Values)
    BY Zenon DEF IInv, Stream
  <2>2. QED
    BY <1>1, <2>1, ContentsType, AppendIsConcat
<1>5. done.vals \o Contents(enc') = Append(input, v) \o Copies(0, 0)
  <2>1. done.vals \o (Contents(enc) \o <<v>>)
          = (done.vals \o Contents(enc)) \o <<v>>
    BY <1>4, ConcatAssoc, Zenon
  <2>2. done.vals \o Contents(enc) = input
    BY <1>1, <1>3, CopiesNone, ConcatEmpty, Zenon
  <2>3. Append(input, v) \o <<>> = Append(input, v)
    BY <1>4, ConcatEmpty, Zenon
  <2>4. QED
    BY <1>2, <1>4, <2>1, <2>2, <2>3, CopiesNone, Zenon
<1>6. InputKept'
  BY <1>1, <1>3, <1>5, Zenon DEF InputKept
<1>7. StreamKept'
  <2>1. done.vals = Decode(done.runs) /\ Written(enc)
    BY Zenon DEF IInv, StreamKept
  <2>2. Written(enc')
    BY <1>1, <2>1, PutWritten, Zenon
  <2>3. QED
    BY <1>1, <2>1, <2>2, Zenon DEF StreamKept
<1>8. QED
  BY <1>1, <1>2, <1>4, <1>6, <1>7, Zenon DEF IInv

LEMMA PutAndGrowInv ==
    ASSUME IInv, NEW v \in Values, ~viewed, PutAndGrow(v),
           input' = Append(input, v), viewed' = viewed
    PROVE  IInv'
<1> DEFINE f == Flush(enc)
           new == NewEncoder(size' - offset')
<1>1. /\ EncoderInv(enc) /\ enc.full /\ input \in Seq(Values)
      /\ offset \in Nat /\ size \in Nat
      /\ offset + enc.len = size /\ enc.len >= MinBufferSize
      /\ offset' = offset + f.bytes /\ size' = 2 * size
      /\ done' = [runs |-> done.runs \o f.runs, vals |-> done.vals \o f.vals]
      /\ enc' = PutValue(new, v)
  BY Zenon DEF IInv, PutAndGrow
<1>2. /\ EncoderInv(f) /\ f.bytes <= enc.len
      /\ f.vals = Contents(enc) \o Copies(0, 0)
  BY <1>1, FlushCorrect, Zenon
<1>3. /\ f.vals \in Seq(Values) /\ f.runs \in Seq(Run) /\ f.bytes \in Nat
      /\ enc.len \in Nat
  <2>1. f \in Encoder /\ enc \in Encoder
    BY <1>1, <1>2, Zenon DEF EncoderInv
  <2>2. QED
    BY <2>1, EncoderFieldTypes, Zenon
<1> HIDE DEF f
<1>4. /\ size' - offset' \in Nat /\ size' - offset' >= MinBufferSize
      /\ offset' \in Nat /\ size' \in Nat
      /\ offset' + (size' - offset') = size'
  <2> DEFINE b == f.bytes
             l == enc.len
             m == MinBufferSize
  <2>1. /\ offset \in Nat /\ size \in Nat /\ b \in Nat /\ l \in Nat
        /\ offset + l = size /\ l >= m /\ b <= l
        /\ offset' = offset + b /\ size' = 2 * size
    BY <1>1, <1>2, <1>3, Zenon
  <2>2. m \in Nat
    BY RunSizes
  <2> HIDE DEF b, l, m
  <2>3. /\ size' - offset' \in Nat /\ size' - offset' >= m
        /\ offset' \in Nat /\ size' \in Nat
        /\ offset' + (size' - offset') = size'
    BY <2>1, <2>2
  <2>4. QED
    BY <2>3 DEF m
<1>5. /\ EncoderInv(new) /\ ~new.full /\ new.len = size' - offset'
      /\ Contents(new) = <<>>
  BY <1>4, NewEncoderCorrect, Zenon
<1> HIDE DEF new
<1>6. /\ EncoderInv(enc') /\ enc'.len = size' - offset'
      /\ Contents(enc') = <<>> \o <<v>>
  BY <1>1, <1>5, PutCorrect, Zenon
<1>7. done.vals \o Contents(enc) = input \o Copies(0, 0)
      /\ 0 \in 0..(GroupSize - 1)
  BY Zenon, GroupAssumption DEF IInv, InputKept
<1>8. /\ done.vals \in Seq(Values) /\ done.runs \in Seq(Run)
      /\ Contents(enc) \in Seq(Values)
      /\ <<v>> \in Seq(Values) /\ input \o <<v>> = Append(input, v)
      /\ Append(input, v) \in Seq(Values)
  <2>1. done.vals \in Seq(Values) /\ done.runs \in Seq(Run)
    BY Zenon DEF IInv, Stream
  <2>2. QED
    BY <1>1, <2>1, ContentsType, AppendIsConcat
<1>9. done' \in Stream /\ done'.vals = done.vals \o f.vals
  <2>1. done.runs \o f.runs \in Seq(Run)
    BY <1>3, <1>8, ConcatProperties
  <2>2. done.vals \o f.vals \in Seq(Values)
    BY <1>3, <1>8, ConcatType, Zenon
  <2>3. QED
    BY <1>1, <2>1, <2>2, Zenon DEF Stream
<1>10. done'.vals \o Contents(enc') = Append(input, v) \o Copies(0, 0)
  <2>1. f.vals = Contents(enc)
    BY <1>2, <1>8, CopiesNone, ConcatEmpty, Zenon
  <2>2. Contents(enc') = <<v>>
    BY <1>6, <1>8, ConcatEmpty, Zenon
  <2>3. done.vals \o Contents(enc) = input
    BY <1>1, <1>7, CopiesNone, ConcatEmpty, Zenon
  <2>4. Append(input, v) \o <<>> = Append(input, v)
    BY <1>8, ConcatEmpty, Zenon
  <2>5. QED
    BY <1>8, <1>9, <2>1, <2>2, <2>3, <2>4, CopiesNone, Zenon
<1>11. InputKept'
  BY <1>7, <1>10, Zenon DEF InputKept
<1>12. enc'.len >= MinBufferSize /\ offset' + enc'.len = size'
  BY <1>4, <1>6, Zenon
<1>13. viewed' = FALSE /\ input' \in Seq(Values)
  BY <1>8, Zenon DEF IInv
<1>14. StreamKept'
  <2>1. done.vals = Decode(done.runs) /\ Written(enc)
    BY Zenon DEF IInv, StreamKept
  <2>2. f.vals = Decode(f.runs)
    <3>1. Written(f)
      BY <1>1, <2>1, FlushWritten, Zenon DEF f
    <3>2. QED
      BY <3>1, Zenon DEF Written
  <2>3. Decode(done.runs \o f.runs) = Decode(done.runs) \o Decode(f.runs)
    BY <1>3, <1>8, DecodeConcat, Zenon
  <2>4. done'.vals = Decode(done'.runs)
    BY <1>1, <2>1, <2>2, <2>3, Zenon
  <2>5. Written(new)
    BY NewEncoderWritten, Zenon DEF new
  <2>6. Written(enc')
    BY <1>1, <1>5, <2>5, PutWritten, Zenon
  <2>7. QED
    BY <2>4, <2>6, Zenon DEF StreamKept
<1>15. QED
  BY <1>4, <1>6, <1>9, <1>11, <1>12, <1>13, <1>14, Zenon DEF IInv

LEMMA ViewInv ==
    ASSUME IInv, View
    PROVE  IInv'
<1>1. /\ EncoderInv(enc) /\ input \in Seq(Values)
      /\ enc' = Flush(enc) /\ viewed' = TRUE
      /\ offset' = offset /\ size' = size /\ done' = done /\ input' = input
  BY Zenon DEF IInv, View
<1>2. PICK n \in 0..(GroupSize - 1) :
        /\ enc'.vals = Contents(enc) \o Copies(0, n)
        /\ Pending(enc) = <<>> => n = 0
  BY <1>1, FlushCorrect, Zenon
<1>3. /\ EncoderInv(enc') /\ enc'.len = enc.len /\ Contents(enc') = enc'.vals
  BY <1>1, FlushCorrect, Zenon
<1>4. PICK m \in 0..(GroupSize - 1) :
        /\ done.vals \o Contents(enc) = input \o Copies(0, m)
        /\ ~viewed => m = 0
  BY Zenon DEF IInv, InputKept
<1>5. /\ done.vals \in Seq(Values) /\ Contents(enc) \in Seq(Values)
      /\ Contents(enc') \in Seq(Values) /\ Pending(enc') \in Seq(Values)
      /\ Copies(0, n) \in Seq(Values) /\ Copies(0, m) \in Seq(Values)
  <2>1. done.vals \in Seq(Values)
    BY Zenon DEF IInv, Stream
  <2>2. n \in Nat /\ m \in Nat /\ 0 \in Values
    BY ValuesAssumption, GroupAssumption
  <2>3. Copies(0, n) \in Seq(Values) /\ Copies(0, m) \in Seq(Values)
    BY <2>2, CopiesType, Zenon
  <2>4. QED
    BY <1>1, <1>3, <2>1, <2>3, ContentsType, Zenon
<1>6. Pending(enc') = <<>>
  <2>1. enc'.vals \o Pending(enc') = enc'.vals
    BY <1>3, Zenon DEF Contents
  <2>2. enc'.vals \in Seq(Values)
    BY <1>3, <1>5, Zenon
  <2>3. QED
    BY <1>5, <2>1, <2>2, ConcatSame, Zenon
<1>7. done.vals \o Contents(enc')
        = (done.vals \o Contents(enc)) \o Copies(0, n)
  <2>1. (done.vals \o Contents(enc)) \o Copies(0, n)
          = done.vals \o (Contents(enc) \o Copies(0, n))
    <3>1. /\ done.vals \in Seq(Values) /\ Contents(enc) \in Seq(Values)
          /\ Copies(0, n) \in Seq(Values)
      BY <1>5, Zenon
    <3> DEFINE a == done.vals
               b == Contents(enc)
               c == Copies(0, n)
    <3>2. a \in Seq(Values) /\ b \in Seq(Values) /\ c \in Seq(Values)
      BY <3>1, Zenon
    <3> HIDE DEF a, b, c
    <3>3. (a \o b) \o c = a \o (b \o c)
      BY <3>2, ConcatAssoc, Zenon
    <3>4. QED
      BY <3>3, Zenon DEF a, b, c
  <2>2. Contents(enc') = Contents(enc) \o Copies(0, n)
    BY <1>2, <1>3, Zenon
  <2>3. QED
    BY <2>1, <2>2, Zenon
<1>8. InputKept'
  <2>1. CASE n = 0
    <3>1. Copies(0, n) = <<>> /\ Contents(enc') = Contents(enc)
      <4>1. Copies(0, n) = <<>>
        BY <2>1, CopiesNone, Zenon
      <4>2. Contents(enc) \o <<>> = Contents(enc)
        BY <1>5, ConcatEmpty, Zenon
      <4>3. QED
        BY <1>2, <1>3, <4>1, <4>2, Zenon
    <3>2. QED
      BY <1>1, <1>4, <3>1, Zenon DEF InputKept
  <2>2. CASE n # 0
    <3>1. m = 0
      BY <1>2, <1>4, <2>2, Zenon DEF IInv
    <3>2. done.vals \o Contents(enc) = input
      BY <1>1, <1>4, <3>1, CopiesNone, ConcatEmpty, Zenon
    <3>3. QED
      BY <1>1, <1>7, <3>2, Zenon DEF InputKept
  <2>3. QED
    BY <2>1, <2>2
<1>9. StreamKept'
  <2>1. done.vals = Decode(done.runs) /\ Written(enc)
    BY Zenon DEF IInv, StreamKept
  <2>2. Written(enc')
    BY <1>1, <2>1, FlushWritten, Zenon
  <2>3. QED
    BY <1>1, <2>1, <2>2, Zenon DEF StreamKept
<1>10. QED
  BY <1>1, <1>3, <1>6, <1>8, <1>9, Zenon DEF IInv

LEMMA Invariance == Spec => []IInv
<1>1. Init => IInv
  BY FreshInv, Zenon DEF Init
<1>2. IInv /\ [Next]_vars => IInv'
  <2> SUFFICES ASSUME IInv, [Next]_vars PROVE IInv'
    OBVIOUS
  <2>1. ASSUME NEW v \in Values, Put(v) PROVE IInv'
    <3>1. /\ ~viewed /\ viewed' = viewed /\ input' = Append(input, v)
          /\ PutInPlace(v) \/ PutAndGrow(v)
      BY <2>1, Zenon DEF Put
    <3>2. QED
      BY <3>1, PutInPlaceInv, PutAndGrowInv, Zenon
  <2>2. CASE View
    BY <2>2, ViewInv
  <2>3. CASE Clear
    <3>1. MinBufferSize \in Nat /\ MinBufferSize >= MinBufferSize
          /\ 0 + MinBufferSize = MinBufferSize
      BY RunSizes
    <3>2. EncoderInv(enc') /\ enc'.len = MinBufferSize /\ Contents(enc') = <<>>
      BY <2>3, <3>1, NewEncoderCorrect, Zenon DEF Clear, Fresh
    <3>3. <<>> \in Seq(Values) /\ <<>> \in Seq(Run) /\ 0 \in Nat
          /\ 0 \in 0..(GroupSize - 1)
      BY GroupAssumption
    <3>4. done' \in Stream /\ done'.vals = <<>>
      BY <2>3, <3>3, Zenon DEF Clear, Fresh, Stream
    <3>5. InputKept'
      <4>1. (done.vals \o Contents(enc))' = (input \o Copies(0, 0))'
        BY <2>3, <3>2, <3>4, CopiesNone, Zenon DEF Clear
      <4>2. QED
        BY <2>3, <3>3, <4>1, Zenon DEF InputKept, Clear
    <3>6. StreamKept'
      <4>1. done'.runs = <<>> /\ enc' = NewEncoder(MinBufferSize)
        BY <2>3, Zenon DEF Clear, Fresh
      <4>2. QED
        BY <3>4, <4>1, DecodeNone, NewEncoderWritten, Zenon DEF StreamKept
    <3>7. QED
      BY <2>3, <3>1, <3>2, <3>3, <3>4, <3>5, <3>6, Zenon
         DEF Clear, Fresh, IInv
  <2>4. CASE UNCHANGED vars
    BY <2>4, Zenon DEF vars, IInv, InputKept, StreamKept
  <2>5. QED
    BY <2>1, <2>2, <2>3, <2>4, Zenon DEF Next
<1>3. QED
  BY <1>1, <1>2, PTL DEF Spec

-----------------------------------------------------------------------------
(* The theorems.                                                           *)

(* Every reachable state of rle_builder is well typed.                     *)
THEOREM TypeCorrect == Spec => []TypeOK
<1>1. IInv => TypeOK
  BY Zenon DEF IInv, TypeOK, EncoderInv
<1>2. QED
  BY <1>1, Invariance, PTL

(* For every bit width and buffer, the runs an rle_builder holds and the   *)
(* values it has pending are the values put, in order; only view() pads.   *)
THEOREM RoundTripHolds == Spec => []RoundTrip
<1>1. IInv => RoundTrip
  <2> SUFFICES ASSUME IInv PROVE RoundTrip
    OBVIOUS
  <2>1. PICK n \in 0..(GroupSize - 1) :
          /\ done.vals \o Contents(enc) = input \o Copies(0, n)
          /\ ~viewed => n = 0
    BY Zenon DEF IInv, InputKept
  <2>2. n \in Nat /\ n < GroupSize /\ 0 \in Values
    BY GroupAssumption, ValuesAssumption
  <2>3. Copies(0, n) \in Seq(Values) /\ Len(Copies(0, n)) = n
    BY <2>2, CopiesType, Zenon
  <2>4. Len(input \o Copies(0, n)) = Len(input) + n
    BY <2>3, ConcatLen, Zenon DEF IInv
  <2>5. Padding = n
    <3>1. Padding = (Len(input) + n) - Len(input)
      BY <2>1, <2>4, Zenon DEF Padding
    <3>2. Len(input) \in Nat
      BY DEF IInv
    <3>3. QED
      BY <2>2, <3>1, <3>2
  <2>6. QED
    BY <2>1, <2>2, <2>5, Zenon DEF RoundTrip
<1>2. QED
  BY <1>1, Invariance, PTL

(* For every bit width, no write of the encoder and no flush reaches past  *)
(* the end of its buffer, and every encoder gets the room it asserts.      *)
THEOREM FitsBufferHolds == Spec => []FitsBuffer
<1>1. IInv => FitsBuffer
  <2> SUFFICES ASSUME IInv PROVE FitsBuffer
    OBVIOUS
  <2>1. /\ EncoderInv(enc) /\ offset + enc.len = size
        /\ enc.len >= MinBufferSize
    BY Zenon DEF IInv
  <2>2. Flush(enc).bytes <= enc.len
    BY <2>1, FlushCorrect, Zenon
  <2>3. enc.bytes <= enc.len
    BY <2>1, BytesFit, Zenon
  <2>4. QED
    BY <2>1, <2>2, <2>3, Zenon DEF FitsBuffer
<1>2. QED
  BY <1>1, Invariance, PTL

(* For every bit width, the counters agree with what they count wherever   *)
(* an assertion of the encoder relies on it.                               *)
THEOREM AssertionsHoldAlways == Spec => []AssertionsHold
<1>1. IInv => AssertionsHold
  BY Zenon DEF IInv, EncoderInv, AssertionsHold
<1>2. QED
  BY <1>1, Invariance, PTL

(* For every bit width and buffer, the histories the other theorems speak  *)
(* of are what a decoder makes of the runs written, and the bytes counted  *)
(* against the buffer are those of the runs and of the open literal run.   *)
THEOREM RunsAreTheStreamHolds == Spec => []RunsAreTheStream
<1>1. IInv => RunsAreTheStream
  BY Zenon DEF IInv, StreamKept, Written, RunsAreTheStream
<1>2. QED
  BY <1>1, Invariance, PTL

-----------------------------------------------------------------------------
(* What is written into a buffer that is large enough is read back.        *)
LEMMA WrittenIsRead ==
    ASSUME NEW s \in Seq(Nat), NEW at \in Nat, NEW n \in Nat,
           at + Len(s) <= n
    PROVE  LET p == Resize(WriteAt(Resize(Copies(0, at), n), at, s),
                           at + Len(s))
           IN  /\ p \in Seq(Nat) /\ Len(p) = at + Len(s)
               /\ [i \in 1..(Len(p) - at) |-> p[at + i]] = s
<1> DEFINE sized == Resize(Copies(0, at), n)
           written == WriteAt(sized, at, s)
           p == Resize(written, at + Len(s))
<1>1. Copies(0, at) \in Seq(Nat) /\ Len(Copies(0, at)) = at
  <2>1. Copies(0, at) = [i \in 1..at |-> 0]
    BY DEF Copies
  <2>2. QED
    BY <2>1
<1>2. /\ sized \in Seq(Nat) /\ Len(sized) = n
  <2>1. sized = [i \in 1..n |->
                    IF i <= Len(Copies(0, at)) THEN Copies(0, at)[i] ELSE 0]
    BY Zenon DEF Resize
  <2> HIDE DEF sized
  <2> DEFINE c == Copies(0, at)
  <2>2. \A i \in 1..n : (IF i <= Len(c) THEN c[i] ELSE 0) \in Nat
    <3> HIDE DEF c
    <3>1. c \in Seq(Nat) /\ Len(c) \in Nat
      BY <1>1 DEF c
    <3>2. QED
      BY <3>1
  <2>3. QED
    BY <2>1, <2>2
<1>3. /\ written \in Seq(Nat) /\ Len(written) = n
      /\ \A i \in 1..Len(s) : written[at + i] = s[i]
  <2>1. written = [i \in 1..Len(sized) |->
                     IF at < i /\ i <= at + Len(s) THEN s[i - at] ELSE sized[i]]
    BY Zenon DEF WriteAt
  <2> HIDE DEF sized, written
  <2>2. \A i \in 1..n :
           (IF at < i /\ i <= at + Len(s) THEN s[i - at] ELSE sized[i]) \in Nat
    <3> TAKE i \in 1..n
    <3>1. CASE at < i /\ i <= at + Len(s)
      <4>1. i - at \in 1..Len(s)
        BY <3>1
      <4>2. s[i - at] \in Nat
        BY <4>1
      <4>3. QED
        BY <3>1, <4>2, Zenon
    <3>2. CASE ~(at < i /\ i <= at + Len(s))
      <4>1. sized[i] \in Nat
        BY <1>2
      <4>2. QED
        BY <3>2, <4>1, Zenon
    <3>3. QED
      BY <3>1, <3>2
  <2>3. written \in Seq(Nat) /\ Len(written) = n
    BY <1>2, <2>1, <2>2
  <2>4. ASSUME NEW i \in 1..Len(s)
        PROVE  written[at + i] = s[i]
    <3>1. at + i \in 1..Len(sized) /\ at < at + i /\ at + i <= at + Len(s)
          /\ (at + i) - at = i
      BY <1>2
    <3>2. QED
      BY <2>1, <3>1
  <2>5. QED
    BY <2>3, <2>4
<1>4. /\ p \in Seq(Nat) /\ Len(p) = at + Len(s)
      /\ \A i \in 1..(at + Len(s)) : p[i] = written[i]
  <2>1. p = [i \in 1..(at + Len(s)) |->
                IF i <= Len(written) THEN written[i] ELSE 0]
    BY Zenon DEF Resize
  <2> HIDE DEF written, p
  <2>2. \A i \in 1..(at + Len(s)) : i <= Len(written) /\ written[i] \in Nat
    BY <1>3
  <2>3. p = [i \in 1..(at + Len(s)) |-> written[i]]
    BY <2>1, <2>2, Zenon
  <2>4. QED
    BY <2>2, <2>3
<1> HIDE DEF p, written
<1>5. [i \in 1..(Len(p) - at) |-> p[at + i]] = s
  <2>1. Len(p) - at = Len(s)
    BY <1>4
  <2>2. \A i \in 1..Len(s) : p[at + i] = s[i]
    BY <1>3, <1>4
  <2>3. s = [i \in 1..Len(s) |-> s[i]]
    OBVIOUS
  <2>4. [i \in 1..Len(s) |-> p[at + i]] = [i \in 1..Len(s) |-> s[i]]
    BY <2>2, Zenon
  <2>5. QED
    BY <2>1, <2>3, <2>4, Zenon
<1>6. QED
  BY <1>4, <1>5, Zenon DEF p, written

-----------------------------------------------------------------------------
(* The levels of a page go through the operations of an rle_builder:       *)
(* every step is one of its steps, flush_page the view and the clear.      *)
THEOREM PageUsesBuilder == PageSpec => Spec
<1>1. PageInit => Init
  BY DEF PageInit
<1>2. [PageNext]_pageVars => [Next]_vars
  <2> SUFFICES ASSUME [PageNext]_pageVars
               PROVE  [Next]_vars
    OBVIOUS
  <2>1. ASSUME NEW level \in Values, PutItem(level)
        PROVE  Next
    BY <2>1, Zenon DEF PutItem, Next
  <2>2. CASE FlushPage
    BY <2>2, Zenon DEF FlushPage, Next
  <2>3. CASE ViewLevels
    BY <2>3, Zenon DEF ViewLevels, Next
  <2>4. CASE UNCHANGED pageVars
    BY <2>4, Zenon DEF pageVars, vars
  <2>5. QED
    BY <2>1, <2>2, <2>3, <2>4, Zenon DEF PageNext
<1>3. QED
  BY <1>1, <1>2, PTL DEF PageSpec, Spec

-----------------------------------------------------------------------------
PageInv ==
    /\ items \in Seq(Nat)
    /\ page.held \in Seq(Nat)
    /\ page.bytes \in Seq(Nat)
    /\ page.data \in Nat
    /\ Len(page.bytes) = page.data + Len(page.held)

LEMMA ItemsGrow ==
    ASSUME items \in Seq(Nat)
    PROVE  items \o Copies(Len(items) + 1, ItemBytes) \in Seq(Nat)
<1>1. Len(items) + 1 \in Nat /\ ItemBytes \in Nat
  BY PageAssumption
<1>2. Copies(Len(items) + 1, ItemBytes) \in Seq(Nat)
  BY <1>1 DEF Copies
<1>3. QED
  BY <1>2, ConcatProperties

(* The shape of a page whatever the value encoder reserves.                *)
LEMMA PageShape ==
    ASSUME items \in Seq(Nat), LevelBytes \in Nat, CurrentPageMaxSize \in Nat
    PROVE  Page \in Seq(Nat) /\ Len(Page) = LevelBytes + Len(items)
<1> DEFINE l == LevelBytes
           c == CurrentPageMaxSize
           levels == Copies(0, l)
           sized == Resize(levels, c)
           written == WriteAt(sized, l, items)
<1>1. Page = Resize(written, l + Len(items))
  BY Zenon DEF Page
<1>2. levels \in Seq(Nat) /\ Len(levels) \in Nat
  <2> HIDE DEF l
  <2>1. l \in Nat
    BY DEF l
  <2>2. QED
    BY <2>1 DEF Copies
<1>3. sized \in Seq(Nat)
  <2> HIDE DEF levels, c
  <2>1. c \in Nat
    BY DEF c
  <2>2. \A i \in 1..c :
           (IF i <= Len(levels) THEN levels[i] ELSE 0) \in Nat
    BY <1>2, <2>1
  <2>3. QED
    BY <2>1, <2>2 DEF Resize
<1>4. written \in Seq(Nat) /\ Len(written) \in Nat
  <2> HIDE DEF l, sized
  <2>1. l \in Nat /\ Len(sized) \in Nat /\ Len(items) \in Nat
    BY <1>3 DEF l
  <2>2. \A i \in 1..Len(sized) :
          (IF l < i /\ i <= l + Len(items) THEN items[i - l] ELSE sized[i])
            \in Nat
    <3> TAKE i \in 1..Len(sized)
    <3>1. CASE l < i /\ i <= l + Len(items)
      <4>1. i - l \in 1..Len(items)
        BY <2>1, <3>1
      <4>2. items[i - l] \in Nat
        BY <4>1
      <4>3. QED
        BY <3>1, <4>2, Zenon
    <3>2. CASE ~(l < i /\ i <= l + Len(items))
      <4>1. sized[i] \in Nat
        BY <1>3
      <4>2. QED
        BY <3>2, <4>1, Zenon
    <3>3. QED
      BY <3>1, <3>2
  <2>3. QED
    BY <2>1, <2>2 DEF WriteAt
<1>5. l + Len(items) \in Nat
  <2> HIDE DEF l
  <2>1. l \in Nat
    BY DEF l
  <2>2. QED
    BY <2>1
<1> DEFINE n == l + Len(items)
<1>6. Resize(written, n) \in Seq(Nat) /\ Len(Resize(written, n)) = n
  <2>1. n \in Nat
    BY <1>5
  <2> HIDE DEF written, n
  <2>2. \A i \in 1..n :
           (IF i <= Len(written) THEN written[i] ELSE 0) \in Nat
    BY <1>4, <2>1
  <2>3. QED
    BY <2>1, <2>2 DEF Resize
<1>7. QED
  BY <1>1, <1>6, Zenon

LEMMA LevelsFit ==
    ASSUME IInv, items \in Seq(Nat)
    PROVE  /\ LevelBytes \in Nat /\ CurrentPageMaxSize \in Nat
           /\ Slack >= PrefixBytes =>
                 LevelBytes + Len(items) <= CurrentPageMaxSize
<1>1. /\ offset \in Nat /\ size \in Nat /\ offset + enc.len = size
      /\ EncoderInv(enc)
  BY Zenon DEF IInv
<1>2. /\ EncoderInv(Flush(enc)) /\ Flush(enc).bytes <= enc.len
  BY <1>1, FlushCorrect, Zenon
<1>3. Flush(enc) \in Encoder /\ enc \in Encoder
  BY <1>1, <1>2, EncoderFacts, Zenon
<1>4. Flush(enc).bytes \in Nat /\ enc.len \in Nat
  BY <1>3, EncoderFieldTypes, Zenon
<1> DEFINE b == Flush(enc).bytes
           l == enc.len
           k == Len(items)
<1>5. b \in Nat /\ l \in Nat /\ b <= l /\ offset + l = size /\ k \in Nat
  BY <1>1, <1>2, <1>4
<1>6. LevelBytes = PrefixBytes + offset + b
      /\ CurrentPageMaxSize = size + k + Slack
  BY DEF LevelBytes, CurrentPageMaxSize
<1> HIDE DEF b, l, k
<1>7. /\ LevelBytes \in Nat /\ CurrentPageMaxSize \in Nat
      /\ Slack >= PrefixBytes => LevelBytes + k <= CurrentPageMaxSize
  BY <1>1, <1>5, <1>6, PageAssumption
<1>8. QED
  BY <1>7, Zenon DEF k

Held == Slack >= PrefixBytes => PageHoldsValues

(* flush_page with the builder's invariant.                                *)
LEMMA FlushPageStep ==
    ASSUME IInv, PageInv, FlushPage
    PROVE  PageInv' /\ Held'
<1>1. items \in Seq(Nat)
  BY Zenon DEF PageInv
<1>2. /\ LevelBytes \in Nat /\ CurrentPageMaxSize \in Nat
      /\ Slack >= PrefixBytes =>
            LevelBytes + Len(items) <= CurrentPageMaxSize
  BY <1>1, LevelsFit, Zenon
<1>3. page' = [bytes |-> Page, data |-> LevelBytes, held |-> items]
      /\ items' = <<>>
  BY Zenon DEF FlushPage
<1>4. page'.bytes = Page /\ page'.data = LevelBytes /\ page'.held = items
  BY <1>3, Zenon
<1>5. Page \in Seq(Nat) /\ Len(Page) = LevelBytes + Len(items)
  BY <1>1, <1>2, PageShape, Zenon
<1>6. <<>> \in Seq(Nat)
  OBVIOUS
<1>7. PageInv'
  BY <1>1, <1>2, <1>3, <1>4, <1>5, <1>6, Zenon DEF PageInv
<1>8. ASSUME Slack >= PrefixBytes
      PROVE  PageHoldsValues'
  <2>1. [i \in 1..(Len(Page) - LevelBytes) |-> Page[LevelBytes + i]] = items
    BY <1>1, <1>2, <1>8, WrittenIsRead, Zenon DEF Page
  <2>2. ValuesOf(page') = items
    BY <1>4, <2>1, Zenon DEF ValuesOf
  <2>3. QED
    BY <1>4, <2>2, Zenon DEF PageHoldsValues
<1>9. QED
  BY <1>7, <1>8, Zenon DEF Held

(* No page holds nothing.                                                  *)
LEMMA NoPageHolds ==
    /\ NoPage.held \in Seq(Nat) /\ NoPage.bytes \in Seq(Nat)
    /\ NoPage.data \in Nat
    /\ Len(NoPage.bytes) = NoPage.data + Len(NoPage.held)
    /\ ValuesOf(NoPage) = NoPage.held
<1>1. NoPage.bytes = <<>> /\ NoPage.data = 0 /\ NoPage.held = <<>>
  BY Zenon DEF NoPage
<1>2. [i \in 1..(Len(<<>>) - 0) |-> <<>>[0 + i]] = <<>>
  OBVIOUS
<1>3. ValuesOf(NoPage) = <<>>
  BY <1>1, <1>2 DEF ValuesOf
<1>4. QED
  BY <1>1, <1>3

LEMMA PageInvariance == PageSpec => [](PageInv /\ Held)
<1>1. PageInit => PageInv /\ Held
  <2> SUFFICES ASSUME PageInit
               PROVE  PageInv /\ Held
    OBVIOUS
  <2>1. items = <<>> /\ page = NoPage
    BY Zenon DEF PageInit
  <2>2. items \in Seq(Nat)
    BY <2>1
  <2>3. QED
    BY <2>1, <2>2, NoPageHolds, Zenon DEF PageInv, Held, PageHoldsValues
<1>2. IInv /\ PageInv /\ Held /\ [PageNext]_pageVars => PageInv' /\ Held'
  <2> SUFFICES ASSUME IInv, PageInv, Held, [PageNext]_pageVars
               PROVE  PageInv' /\ Held'
    OBVIOUS
  <2>1. ASSUME NEW level \in Values, PutItem(level)
        PROVE  PageInv' /\ Held'
    <3>1. page' = NoPage /\ items \in Seq(Nat)
          /\ items' \in {items, items \o Copies(Len(items) + 1, ItemBytes)}
      BY <2>1, Zenon DEF PutItem, PageInv
    <3>2. items' \in Seq(Nat)
      BY <3>1, ItemsGrow
    <3>3. QED
      BY <3>1, <3>2, NoPageHolds, Zenon DEF PageInv, Held, PageHoldsValues
  <2>2. CASE FlushPage
    BY <2>2, FlushPageStep, Zenon
  <2>3. CASE ViewLevels
    BY <2>3, Zenon
       DEF ViewLevels, PageInv, Held, PageHoldsValues, ValuesOf
  <2>4. CASE UNCHANGED pageVars
    BY <2>4, Zenon DEF pageVars, PageInv, Held, PageHoldsValues, ValuesOf
  <2>5. QED
    BY <2>1, <2>2, <2>3, <2>4, Zenon DEF PageNext
<1>3. QED
  BY <1>1, <1>2, PageUsesBuilder, Invariance, PTL DEF PageSpec

(* The builder, the buffered values and the last page keep their types.    *)
THEOREM PageTypeCorrect == PageSpec => []PageTypeOK
<1>1. TypeOK /\ PageInv => PageTypeOK
  BY Zenon DEF PageInv, PageTypeOK
<1>2. QED
  BY <1>1, PageInvariance, PageUsesBuilder, TypeCorrect, PTL

(* A value encoder that reserves four bytes more than it writes, as        *)
(* dict_encoder does, makes up for the length of the levels, which         *)
(* current_page_max_size() does not count: every page then holds the       *)
(* values put, whatever the levels are.                                    *)
THEOREM PageHoldsValuesGivenSlack ==
    ASSUME Slack >= PrefixBytes
    PROVE  PageSpec => []PageHoldsValues
<1>1. PageInv /\ Held => PageHoldsValues
  BY Zenon DEF Held
<1>2. QED
  BY <1>1, PageInvariance, PTL

-----------------------------------------------------------------------------
(* The indices of a page.  MaxBufferSize(n) reserves a slot of SlotBytes   *)
(* for each group of n values.  The argument is a budget: the finished     *)
(* runs never take more slots than they hold whole groups.                 *)
SlotBytes == 1 + GroupBytes

(* bytes are paid for by the whole groups among n values.                  *)
Paid(bytes, n) == \E k \in Nat : bytes <= SlotBytes * k /\ GroupSize * k <= n

-----------------------------------------------------------------------------
LEMMA SlotProducts ==
    ASSUME NEW j \in Nat, NEW k \in Nat
    PROVE  /\ SlotBytes * j \in Nat
           /\ GroupSize * j \in Nat
           /\ SlotBytes * (k + j) = SlotBytes * k + SlotBytes * j
           /\ GroupSize * (k + j) = GroupSize * k + GroupSize * j
           /\ j >= 1 => 1 + GroupBytes * j <= SlotBytes * j
           /\ k <= j => SlotBytes * k <= SlotBytes * j
BY WidthAssumption, GroupAssumption DEF SlotBytes

LEMMA PaidTogether ==
    ASSUME NEW b \in Int, NEW n \in Nat, Paid(b, n),
           NEW c \in Nat, NEW m \in Nat, Paid(c, m)
    PROVE  Paid(b + c, n + m)
<1>1. PICK k \in Nat : b <= SlotBytes * k /\ GroupSize * k <= n
  BY DEF Paid
<1>2. PICK j \in Nat : c <= SlotBytes * j /\ GroupSize * j <= m
  BY DEF Paid
<1>3. /\ SlotBytes * (k + j) = SlotBytes * k + SlotBytes * j
      /\ GroupSize * (k + j) = GroupSize * k + GroupSize * j
      /\ SlotBytes * k \in Nat /\ SlotBytes * j \in Nat
      /\ GroupSize * k \in Nat /\ GroupSize * j \in Nat
  BY SlotProducts
<1> DEFINE sk == SlotBytes * k
           sj == SlotBytes * j
           gk == GroupSize * k
           gj == GroupSize * j
<1>4. b <= sk /\ gk <= n /\ c <= sj /\ gj <= m
      /\ sk \in Nat /\ sj \in Nat /\ gk \in Nat /\ gj \in Nat
  BY <1>1, <1>2, <1>3
<1>5. SlotBytes * (k + j) = sk + sj /\ GroupSize * (k + j) = gk + gj
  BY <1>3
<1> HIDE DEF sk, sj, gk, gj
<1>6. b + c <= sk + sj /\ gk + gj <= n + m
  BY <1>4
<1>7. b + c <= SlotBytes * (k + j) /\ GroupSize * (k + j) <= n + m
  BY <1>5, <1>6
<1>8. k + j \in Nat
  OBVIOUS
<1>9. QED
  BY <1>7, <1>8 DEF Paid

(* k slots fit the bound of MaxBufferSize if n values begin a k-th group.  *)
LEMMA SlotsFit ==
    ASSUME NEW b \in Nat, NEW n \in Nat, NEW k \in Nat,
           b <= SlotBytes * k, GroupSize * k < n + GroupSize
    PROVE  b <= MaxBufferSize(n) /\ MaxBufferSize(n) \in Nat
<1>1. MaxOf(1 + GroupBytes, 1 + ValueBytes) = SlotBytes
  BY WidthAssumption DEF MaxOf, SlotBytes
<1>2. CeilDiv(n, GroupSize) \in Nat /\ k <= CeilDiv(n, GroupSize)
  <2>1. CASE n = 0
    <3>1. GroupSize * k < GroupSize * 1
      BY <2>1, GroupAssumption
    <3>2. k < 1
      BY <3>1, GroupOrder
    <3>3. QED
      BY <2>1, <3>2 DEF CeilDiv
  <2>2. CASE n # 0
    <3> DEFINE q == (n - 1) \div GroupSize
    <3>1. q \in Nat /\ n - 1 < GroupSize * (q + 1) /\ n - 1 \in Nat
      BY <2>2, GroupAssumption
    <3>2. CeilDiv(n, GroupSize) = 1 + q
      BY <2>2, Zenon DEF CeilDiv
    <3> HIDE DEF q
    <3>3. GroupSize * (q + 2) = GroupSize * (q + 1) + GroupSize
      <4>1. (q + 1) + 1 = q + 2 /\ q + 1 \in Nat
        BY <3>1
      <4>2. GroupSize * (q + 1) + GroupSize = GroupSize * ((q + 1) + 1)
        BY <4>1, GroupDivision
      <4>3. QED
        BY <4>1, <4>2, Zenon
    <3>4. GroupSize * k < GroupSize * (q + 2)
      <4>1. GroupSize * (q + 1) \in Nat /\ GroupSize * k \in Nat
        BY <3>1, SlotProducts
      <4>2. n + GroupSize <= GroupSize * (q + 1) + GroupSize
        BY <3>1, <4>1, GroupAssumption
      <4>3. GroupSize * k < GroupSize * (q + 1) + GroupSize
        BY <4>1, <4>2, GroupAssumption
      <4>4. QED
        BY <3>3, <4>3, Zenon
    <3>5. k < q + 2
      BY <3>1, <3>4, GroupOrder
    <3>6. QED
      BY <3>1, <3>2, <3>5
  <2>3. QED
    BY <2>1, <2>2
<1>3. MaxBufferSize(n) = SlotBytes * CeilDiv(n, GroupSize)
  <2>1. MaxBufferSize(n) = CeilDiv(n, GroupSize) * SlotBytes
    BY <1>1, Zenon DEF MaxBufferSize
  <2>2. SlotBytes \in Nat
    BY WidthAssumption DEF SlotBytes
  <2>3. QED
    BY <1>2, <2>1, <2>2
<1>4. SlotBytes * k <= SlotBytes * CeilDiv(n, GroupSize)
      /\ SlotBytes * k \in Nat /\ SlotBytes * CeilDiv(n, GroupSize) \in Nat
  BY <1>2, SlotProducts
<1>5. QED
  BY <1>3, <1>4

(* What is paid for fits that bound.                                       *)
LEMMA PaidFits ==
    ASSUME NEW b \in Nat, NEW n \in Nat, Paid(b, n)
    PROVE  b <= MaxBufferSize(n) /\ MaxBufferSize(n) \in Nat
<1>1. PICK k \in Nat : b <= SlotBytes * k /\ GroupSize * k <= n
  BY DEF Paid
<1>2. GroupSize * k \in Nat
  BY SlotProducts
<1>3. GroupSize * k < n + GroupSize
  BY <1>1, <1>2, GroupAssumption
<1>4. QED
  BY <1>1, <1>3, SlotsFit

(* So does one slot more when there is a value more.                       *)
LEMMA PaidFitsOneMore ==
    ASSUME NEW b \in Int, NEW m \in Nat, Paid(b, m),
           NEW n \in Nat, m < n,
           NEW c \in Nat, c <= SlotBytes, b + c \in Nat
    PROVE  b + c <= MaxBufferSize(n)
<1>1. PICK k \in Nat : b <= SlotBytes * k /\ GroupSize * k <= m
  BY DEF Paid
<1>2. /\ SlotBytes * (k + 1) = SlotBytes * k + SlotBytes * 1
      /\ GroupSize * (k + 1) = GroupSize * k + GroupSize * 1
      /\ SlotBytes * k \in Nat /\ GroupSize * k \in Nat
  BY SlotProducts
<1>3. SlotBytes \in Nat /\ SlotBytes * 1 = SlotBytes
      /\ GroupSize \in Nat /\ GroupSize * 1 = GroupSize
  BY WidthAssumption, GroupAssumption DEF SlotBytes
<1>4. b + c <= SlotBytes * (k + 1)
  BY <1>1, <1>2, <1>3
<1>5. GroupSize * (k + 1) < n + GroupSize
  BY <1>1, <1>2, <1>3
<1>6. k + 1 \in Nat
  OBVIOUS
<1>7. QED
  BY <1>4, <1>5, <1>6, SlotsFit

(* A repeated run of at least a group, and a literal run, pay for          *)
(* themselves.                                                             *)
LEMMA RepeatedPaid ==
    ASSUME NEW n \in Nat, n >= GroupSize
    PROVE  Paid(VlqBytes(n) + ValueBytes, n)
<1>1. VlqBytes(n) \in 1..MaxVlqBytes /\ (n < 64 => VlqBytes(n) = 1)
  BY VlqType
<1>2. CASE n < 64
  <2>1. VlqBytes(n) + ValueBytes <= SlotBytes * 1 /\ GroupSize * 1 <= n
    BY <1>1, <1>2, WidthAssumption, GroupAssumption DEF SlotBytes
  <2>2. QED
    BY <2>1 DEF Paid
<1>3. CASE n >= 64
  <2>1. VlqBytes(n) + ValueBytes <= SlotBytes * 5 /\ GroupSize * 5 <= n
    BY <1>1, <1>3, WidthAssumption, GroupAssumption, SlotAssumption
       DEF SlotBytes, MaxVlqBytes
  <2>2. QED
    BY <2>1 DEF Paid
<1>4. QED
  BY <1>2, <1>3

LEMMA LiteralPaid ==
    ASSUME NEW j \in Nat, j >= 1
    PROVE  Paid(1 + GroupBytes * j, GroupSize * j)
<1>1. 1 + GroupBytes * j <= SlotBytes * j /\ GroupSize * j \in Nat
  BY SlotProducts
<1>2. GroupSize * j <= GroupSize * j
  BY <1>1
<1>3. QED
  BY <1>1, <1>2 DEF Paid

LEMMA NothingPaid == Paid(0, 0)
<1>1. 0 <= SlotBytes * 0 /\ GroupSize * 0 <= 0
  BY WidthAssumption, GroupAssumption DEF SlotBytes
<1>2. QED
  BY <1>1 DEF Paid

LEMMA PaidByMore ==
    ASSUME NEW b \in Int, NEW m \in Nat, NEW n \in Nat, m <= n, Paid(b, m)
    PROVE  Paid(b, n)
<1>1. PICK k \in Nat : b <= SlotBytes * k /\ GroupSize * k <= m
  BY DEF Paid
<1>2. GroupSize * k \in Nat
  BY SlotProducts
<1>3. GroupSize * k <= n
  BY <1>1, <1>2
<1>4. QED
  BY <1>1, <1>3 DEF Paid

(* An encoder whose finished runs are paid for is not found full.          *)
LEMMA RoomForRun ==
    ASSUME NEW b \in Nat, NEW m \in Nat, NEW n \in Nat, m <= n, Paid(b, m)
    PROVE  ~(b + MinBufferSize > IndexBufferSize(n))
<1>1. b <= MaxBufferSize(n) /\ MaxBufferSize(n) \in Nat
  BY PaidByMore, PaidFits
<1>2. MinBufferSize \in Nat
  BY RunSizes
<1>3. QED
  BY <1>1, <1>2 DEF IndexBufferSize

-----------------------------------------------------------------------------
Budget(e) == Paid(RunStart(e), Len(e.vals))

LEMMA RunStartType ==
    ASSUME NEW e \in Encoder, NEW j \in Nat, e.lit = GroupSize * j
    PROVE  /\ RunStart(e) \in Int
           /\ e.ind => e.bytes = RunStart(e) + (1 + GroupBytes * j)
           /\ ~e.ind => e.bytes = RunStart(e)
           /\ 1 + GroupBytes * j \in Nat
<1>1. e.bytes \in Nat /\ e.ind \in BOOLEAN
  BY EncoderFieldTypes, Zenon
<1>2. e.lit \div GroupSize = j
  BY GroupDivision, Zenon
<1>3. RunStart(e) = e.bytes - (IF e.ind THEN 1 + GroupBytes * j ELSE 0)
  BY <1>2, Zenon DEF RunStart
<1>4. GroupBytes * j \in Nat
  BY GroupOrder
<1> DEFINE x == GroupBytes * j
<1> HIDE DEF x
<1>5. RunStart(e) = e.bytes - (IF e.ind THEN 1 + x ELSE 0) /\ x \in Nat
  BY <1>3, <1>4 DEF x
<1>6. /\ RunStart(e) \in Int
      /\ e.ind => e.bytes = RunStart(e) + (1 + x)
      /\ ~e.ind => e.bytes = RunStart(e)
      /\ 1 + x \in Nat
  <2>1. CASE e.ind
    <3>1. RunStart(e) = e.bytes - (1 + x)
      BY <1>5, <2>1, Zenon
    <3>2. QED
      BY <1>1, <1>5, <2>1, <3>1
  <2>2. CASE ~e.ind
    <3>1. RunStart(e) = e.bytes - 0
      BY <1>5, <2>2, Zenon
    <3>2. QED
      BY <1>1, <1>5, <2>2, <3>1
  <2>3. QED
    BY <2>1, <2>2
<1>7. QED
  BY <1>6 DEF x

(* The literal run open in e, once it is complete, is paid for too.        *)
LEMMA LiteralBudget ==
    ASSUME NEW e \in Encoder, Budget(e), NEW j \in Nat, j >= 1,
           e.lit = GroupSize * j, e.ind,
           NEW vals, vals = e.vals \o e.open, Len(e.open) = e.lit
    PROVE  Paid(e.bytes, Len(vals)) /\ Len(vals) = Len(e.vals) + Len(e.open)
<1>1. /\ e.vals \in Seq(Values) /\ e.open \in Seq(Values)
  BY EncoderFieldTypes, Zenon
<1>2. Len(vals) = Len(e.vals) + GroupSize * j
  <2>1. Len(e.vals \o e.open) = Len(e.vals) + Len(e.open)
    BY <1>1, ConcatLen, Zenon
  <2>2. QED
    BY <2>1, Zenon
<1>3. e.bytes = RunStart(e) + (1 + GroupBytes * j) /\ RunStart(e) \in Int
      /\ 1 + GroupBytes * j \in Nat /\ GroupSize * j \in Nat
      /\ Len(e.vals) \in Nat
  <2>1. Len(e.vals) \in Nat
    BY <1>1
  <2>2. GroupSize * j \in Nat
    BY SlotProducts
  <2>3. QED
    BY <2>1, <2>2, RunStartType, Zenon
<1>4. Paid(1 + GroupBytes * j, GroupSize * j)
  BY LiteralPaid
<1>5. Paid(RunStart(e) + (1 + GroupBytes * j), Len(e.vals) + GroupSize * j)
  BY <1>3, <1>4, PaidTogether, Zenon DEF Budget
<1>6. QED
  BY <1>2, <1>3, <1>5, Zenon

(* A full group leaves the budget kept and the encoder with room.          *)
LEMMA GroupBudget ==
    ASSUME NEW b, GroupReady(b), Budget(b), NEW n \in Nat,
           b.len = IndexBufferSize(n),
           Len(b.vals) + Len(b.open) + GroupSize <= n
    PROVE  Budget(FlushBufferedValues(b)) /\ ~FlushBufferedValues(b).full
<1> DEFINE r == FlushBufferedValues(b)
<1>1. /\ b \in Encoder /\ ~b.full
      /\ b.lit = Len(b.open) /\ b.lit % GroupSize = 0
      /\ (b.ind <=> b.lit # 0)
      /\ Len(b.buf) = GroupSize /\ b.rep <= GroupSize
  BY Zenon DEF GroupReady
<1>2. /\ b.vals \in Seq(Values) /\ b.open \in Seq(Values)
      /\ b.buf \in Seq(Values) /\ b.rep \in Nat /\ b.bytes \in Nat
      /\ b.lit \in Nat /\ b.ind \in BOOLEAN
  BY <1>1, EncoderFieldTypes, Zenon
<1>3. Len(b.vals) \in Nat /\ Len(b.open) \in Nat
  BY <1>2
<1>4. PICK j \in Nat : b.lit = GroupSize * j
  BY <1>1, <1>2, GroupDivision, Zenon
<1>5. /\ b.ind => j >= 1
      /\ ~b.ind => j = 0 /\ b.open = <<>> /\ b.vals \o b.open = b.vals
  <2>1. CASE b.ind
    BY <1>1, <1>4, <2>1, GroupAssumption
  <2>2. CASE ~b.ind
    <3>1. b.lit = 0
      BY <1>1, <2>2
    <3>2. j = 0
      BY <1>4, <3>1, GroupAssumption
    <3>3. b.open = <<>>
      BY <1>1, <1>2, <3>1, ConcatEmpty, Zenon
    <3>4. QED
      BY <1>2, <2>2, <3>2, <3>3, ConcatEmpty, Zenon
  <2>3. QED
    BY <2>1, <2>2
<1>6. /\ RunStart(b) \in Int
      /\ b.ind => b.bytes = RunStart(b) + (1 + GroupBytes * j)
      /\ ~b.ind => b.bytes = RunStart(b)
  BY <1>1, <1>4, RunStartType
<1>7. /\ Len(b.vals) + Len(b.open) \in Nat
      /\ Len(b.vals) + Len(b.open) <= n
      /\ Len(b.vals) + (Len(b.open) + GroupSize) \in Nat
      /\ Len(b.vals) + (Len(b.open) + GroupSize) <= n
  <2> DEFINE lv == Len(b.vals)
             lo == Len(b.open)
  <2>1. lv \in Nat /\ lo \in Nat /\ lv + lo + GroupSize <= n
    BY <1>3, Zenon
  <2> HIDE DEF lv, lo
  <2>2. /\ lv + lo \in Nat /\ lv + lo <= n
        /\ lv + (lo + GroupSize) \in Nat /\ lv + (lo + GroupSize) <= n
    BY <2>1, GroupAssumption
  <2>3. QED
    BY <2>2, Zenon DEF lv, lo
<1>8. CASE b.rep = GroupSize
  <2>1. /\ r \in Encoder /\ r.lit = 0 /\ r.ind = FALSE
        /\ r.vals = b.vals \o b.open /\ r.bytes = b.bytes
        /\ b.lit = 0 => ~r.full
        /\ b.lit # 0 => (r.full <=> b.bytes + MinBufferSize > b.len)
    BY <1>8, DropGroup, Zenon
  <2> HIDE DEF r
  <2>2. RunStart(r) = b.bytes
    <3>1. RunStart(r) = b.bytes - 0
      BY <2>1, Zenon DEF RunStart
    <3>2. QED
      BY <1>2, <3>1
  <2>3. CASE b.ind
    <3>1. Paid(b.bytes, Len(r.vals)) /\ Len(r.vals) = Len(b.vals) + Len(b.open)
      BY <1>1, <1>4, <1>5, <2>1, <2>3, LiteralBudget, Zenon
    <3>2. Len(r.vals) \in Nat /\ Len(r.vals) <= n
      BY <1>7, <3>1, Zenon
    <3>3. ~(b.bytes + MinBufferSize > b.len)
      BY <1>2, <3>1, <3>2, RoomForRun, Zenon
    <3>4. QED
      BY <1>1, <2>1, <2>2, <2>3, <3>1, <3>3, Zenon DEF Budget, r
  <2>4. CASE ~b.ind
    BY <1>1, <1>5, <1>6, <2>1, <2>2, <2>4, Zenon DEF Budget, r
  <2>5. QED
    BY <2>3, <2>4
<1>9. CASE b.rep < GroupSize
  <2> DEFINE bytes == b.bytes + (IF b.ind THEN 0 ELSE 1) + GroupBytes
             closed == (b.lit + GroupSize) \div GroupSize + 1 >= MaxGroups
  <2>1. /\ r \in Encoder /\ r.bytes = bytes
        /\ closed =>
             /\ r.lit = 0 /\ r.ind = FALSE
             /\ r.vals = b.vals \o (b.open \o b.buf)
             /\ r.full <=> bytes + MinBufferSize > b.len
        /\ ~closed =>
             /\ r.lit = b.lit + GroupSize /\ r.ind = TRUE
             /\ r.vals = b.vals /\ ~r.full
    BY <1>9, KeepGroup, Zenon
  <2>2. /\ b.ind => bytes = b.bytes + 0 + GroupBytes
        /\ ~b.ind => bytes = b.bytes + 1 + GroupBytes
    BY Zenon
  <2> HIDE DEF r, closed, bytes
  <2>3. bytes = RunStart(b) + (1 + GroupBytes * (j + 1)) /\ bytes \in Nat
    <3>1. GroupBytes * (j + 1) = GroupBytes * j + GroupBytes
          /\ GroupBytes * j \in Nat
      BY GroupOrder
    <3>2. j = 0 => GroupBytes * j = 0
      BY WidthAssumption
    <3> DEFINE x == GroupBytes * j
    <3>3. /\ GroupBytes * (j + 1) = x + GroupBytes /\ x \in Nat
          /\ b.ind => b.bytes = RunStart(b) + (1 + x)
          /\ ~b.ind => b.bytes = RunStart(b) /\ x = 0
      BY <1>5, <1>6, <3>1, <3>2
    <3> HIDE DEF x
    <3>4. CASE b.ind
      BY <1>2, <1>6, <2>2, <3>3, <3>4, WidthAssumption
    <3>5. CASE ~b.ind
      <4>1. b.bytes = RunStart(b) /\ x = 0 /\ bytes = b.bytes + 1 + GroupBytes
        BY <2>2, <3>3, <3>5, Zenon
      <4>2. GroupBytes * (j + 1) = GroupBytes
        BY <3>3, <4>1, WidthAssumption
      <4>3. b.bytes \in Nat /\ RunStart(b) \in Int
        BY <1>2, <1>6
      <4>4. bytes = RunStart(b) + (1 + GroupBytes) /\ bytes \in Nat
        BY <4>1, <4>3, WidthAssumption
      <4>5. QED
        BY <4>2, <4>4, Zenon
    <3>6. QED
      BY <3>4, <3>5
  <2>4. b.lit + GroupSize = GroupSize * (j + 1) /\ j + 1 \in Nat /\ j + 1 >= 1
    BY <1>4, GroupDivision
  <2>5. CASE closed
    <3>1. Len(r.vals) = Len(b.vals) + GroupSize * (j + 1)
      <4>1. Len(b.open \o b.buf) = b.lit + GroupSize
        BY <1>1, <1>2, ConcatLen, Zenon
      <4>2. b.open \o b.buf \in Seq(Values)
        BY <1>2, ConcatType, Zenon
      <4>3. Len(b.vals \o (b.open \o b.buf))
              = Len(b.vals) + Len(b.open \o b.buf)
        BY <1>2, <4>2, ConcatLen, Zenon
      <4>4. QED
        BY <2>1, <2>4, <2>5, <4>1, <4>3, Zenon
    <3>2. Paid(1 + GroupBytes * (j + 1), GroupSize * (j + 1))
      BY <2>4, LiteralPaid
    <3>3. 1 + GroupBytes * (j + 1) \in Nat /\ GroupSize * (j + 1) \in Nat
      <4>1. GroupBytes * (j + 1) \in Nat /\ GroupSize * (j + 1) \in Nat
        BY <2>4, GroupOrder, SlotProducts
      <4>2. QED
        BY <4>1
    <3>4. Paid(bytes, Len(r.vals))
      BY <1>3, <1>6, <2>3, <3>1, <3>2, <3>3, PaidTogether, Zenon DEF Budget
    <3>5. Len(r.vals) \in Nat /\ Len(r.vals) <= n
      <4>1. Len(r.vals) = Len(b.vals) + (Len(b.open) + GroupSize)
        BY <1>1, <2>4, <3>1, Zenon
      <4>2. QED
        BY <1>7, <4>1, Zenon
    <3>6. ~(bytes + MinBufferSize > b.len)
      BY <2>3, <3>4, <3>5, RoomForRun, Zenon
    <3>7. RunStart(r) = bytes
      <4>1. RunStart(r) = bytes - 0
        BY <2>1, <2>5, Zenon DEF RunStart
      <4>2. QED
        BY <2>3, <4>1
    <3>8. QED
      BY <2>1, <2>5, <3>4, <3>6, <3>7, Zenon DEF Budget, r
  <2>6. CASE ~closed
    <3>1. /\ r.lit = GroupSize * (j + 1) /\ r.ind /\ r.vals = b.vals
          /\ ~r.full
      BY <2>1, <2>4, <2>6, Zenon
    <3>2. /\ RunStart(r) \in Int
          /\ bytes = RunStart(r) + (1 + GroupBytes * (j + 1))
          /\ 1 + GroupBytes * (j + 1) \in Nat
      BY <2>1, <2>4, <3>1, RunStartType, Zenon
    <3>3. RunStart(r) = RunStart(b)
      BY <1>6, <2>3, <3>2
    <3>4. QED
      BY <3>1, <3>3, Zenon DEF Budget, r
  <2>7. QED
    BY <2>5, <2>6
<1>10. QED
  BY <1>1, <1>2, <1>8, <1>9, GroupAssumption

LEMMA BufferedBudget ==
    ASSUME NEW b, ValueReady(b), ~b.full, Budget(b), NEW n \in Nat,
           b.len = IndexBufferSize(n),
           Len(b.vals) + Len(b.open) + (Len(b.buf) + 1) <= n
    PROVE  Budget(Buffered(b, b.cur)) /\ ~Buffered(b, b.cur).full
<1> DEFINE s == Append(b.buf, b.cur)
           c == [b EXCEPT !.buf = s]
<1>1. b \in Encoder
  BY Zenon DEF ValueReady
<1>2. s \in Seq(Values) /\ Len(s) = Len(b.buf) + 1
  <2>1. b.buf \in Seq(Values) /\ b.cur \in Values
    BY <1>1, EncoderFieldTypes, Zenon
  <2>2. QED
    BY <2>1
<1> HIDE DEF s
<1>3. /\ c \in Encoder
      /\ c.buf = s /\ c.lit = b.lit /\ c.ind = b.ind /\ c.open = b.open
      /\ c.len = b.len /\ c.vals = b.vals /\ c.bytes = b.bytes
      /\ (c.full <=> b.full)
  BY <1>1, <1>2, Zenon DEF Encoder
<1>4. Buffered(b, b.cur) =
        IF Len(c.buf) = GroupSize THEN FlushBufferedValues(c) ELSE c
  BY Zenon DEF Buffered, s
<1>5. Len(s) = GroupSize => /\ GroupReady(c)
                            /\ Buffered(b, b.cur) = FlushBufferedValues(c)
  BY GroupFilled, Zenon DEF c, s
<1> HIDE DEF c
<1>6. Budget(c)
  BY <1>3, Zenon DEF Budget, RunStart
<1>7. CASE Len(s) = GroupSize
  <2>1. Len(c.vals) + Len(c.open) + GroupSize <= n
    BY <1>2, <1>3, <1>7, Zenon
  <2>2. c.len = IndexBufferSize(n)
    BY <1>3, Zenon
  <2>3. QED
    BY <1>5, <1>6, <1>7, <2>1, <2>2, GroupBudget, Zenon
<1>8. CASE Len(s) # GroupSize
  BY <1>3, <1>4, <1>6, <1>8, Zenon
<1>9. QED
  BY <1>7, <1>8

LEMMA ThreeSums ==
    \A a, b, c \in Nat :
        /\ a + (b + c) = a + b + c
        /\ a + (b + c) \in Nat
        /\ a <= a + (b + c)
        /\ a + b + (c + 1) = a + b + c + 1
OBVIOUS

(* The number of values an encoder holds.                                  *)
LEMMA ContentsLen ==
    ASSUME NEW e, EncoderInv(e)
    PROVE  /\ Len(Contents(e)) \in Nat
           /\ Len(e.vals) \in Nat /\ Len(e.vals) <= Len(Contents(e))
           /\ e.rep >= GroupSize =>
                 Len(Contents(e)) = Len(e.vals) + e.rep
           /\ e.rep < GroupSize =>
                 Len(Contents(e)) = Len(e.vals) + Len(e.open) + Len(e.buf)
<1>1. /\ e.open \in Seq(Values) /\ e.buf \in Seq(Values)
      /\ e.cur \in Values /\ e.vals \in Seq(Values) /\ e.rep \in Nat
      /\ e.rep >= GroupSize => e.open = <<>>
      /\ e.rep >= GroupSize \/ e.rep < GroupSize
      /\ ~(e.rep >= GroupSize /\ e.rep < GroupSize)
  BY EncoderFacts, Zenon
<1>2. CASE e.rep >= GroupSize
  <2>1. Copies(e.cur, e.rep) \in Seq(Values)
        /\ Len(Copies(e.cur, e.rep)) = e.rep
    BY <1>1, CopiesType
  <2>2. Contents(e) = e.vals \o Copies(e.cur, e.rep)
    BY <1>1, <1>2, <2>1, ConcatEmpty, Zenon DEF Contents, Pending
  <2>3. Len(Contents(e)) = Len(e.vals) + e.rep
    BY <1>1, <2>1, <2>2, ConcatLen, Zenon
  <2>4. Len(e.vals) \in Nat
    BY <1>1
  <2>5. /\ Len(e.vals) + e.rep \in Nat
        /\ Len(e.vals) <= Len(e.vals) + e.rep
    BY <1>1, <2>4
  <2>6. QED
    BY <1>1, <1>2, <2>3, <2>4, <2>5, Zenon
<1>3. CASE e.rep < GroupSize
  <2>1. Contents(e) = e.vals \o (e.open \o e.buf)
    BY <1>1, <1>3, Zenon DEF Contents, Pending
  <2>2. e.open \o e.buf \in Seq(Values)
        /\ Len(e.open \o e.buf) = Len(e.open) + Len(e.buf)
    BY <1>1, ConcatType, ConcatLen, Zenon
  <2>3. Len(Contents(e)) = Len(e.vals) + (Len(e.open) + Len(e.buf))
    BY <1>1, <2>1, <2>2, ConcatLen, Zenon
  <2>4. Len(e.vals) \in Nat /\ Len(e.open) \in Nat /\ Len(e.buf) \in Nat
    BY <1>1
  <2>5. /\ Len(e.vals) + (Len(e.open) + Len(e.buf))
             = Len(e.vals) + Len(e.open) + Len(e.buf)
        /\ Len(e.vals) + (Len(e.open) + Len(e.buf)) \in Nat
        /\ Len(e.vals) <= Len(e.vals) + (Len(e.open) + Len(e.buf))
    BY <2>4, ThreeSums, Zenon
  <2>6. QED
    BY <1>1, <1>3, <2>3, <2>4, <2>5, Zenon
<1>4. QED
  BY <1>1, <1>2, <1>3, Zenon

(* Put keeps the budget, and an encoder that is not full does not become   *)
(* full before it has all n values of the page.                            *)
LEMMA PutBudget ==
    ASSUME NEW e, EncoderInv(e), ~e.full, Budget(e), NEW v \in Values,
           NEW n \in Nat, e.len = IndexBufferSize(n),
           Len(Contents(e)) + 1 <= n
    PROVE  Budget(PutValue(e, v)) /\ ~PutValue(e, v).full
<1>1. /\ e \in Encoder /\ e.vals \in Seq(Values) /\ e.cur \in Values
      /\ e.open \in Seq(Values) /\ e.buf \in Seq(Values)
      /\ e.rep \in Nat /\ e.bytes \in Nat
      /\ e.rep >= GroupSize => e.open = <<>> /\ RunStart(e) = e.bytes - 0
  BY EncoderFacts, Zenon
<1>2. Len(e.vals) \in Nat /\ Len(e.open) \in Nat /\ Len(e.buf) \in Nat
  BY <1>1
<1>3. CASE GoesOn(e, v)
  <2> DEFINE r == [e EXCEPT !.rep = e.rep + 1]
  <2>1. /\ r.vals = e.vals /\ r.bytes = e.bytes /\ r.ind = e.ind
        /\ r.lit = e.lit /\ (r.full <=> e.full)
    BY <1>1, Zenon DEF Encoder
  <2>2. PutValue(e, v) = r
    BY <1>3, Zenon DEF GoesOn
  <2> HIDE DEF r
  <2>3. QED
    BY <2>1, <2>2, Zenon DEF Budget, RunStart
<1>4. ASSUME NEW b, ValueReady(b), b.cur = v, b.len = e.len,
             PutValue(e, v) = Buffered(b, b.cur), SameRun(e, b)
      PROVE  Budget(PutValue(e, v)) /\ ~PutValue(e, v).full
  <2>1. /\ e.rep < GroupSize /\ b.vals = e.vals /\ b.open = e.open
        /\ b.buf = e.buf /\ RunStart(b) = RunStart(e) /\ ~b.full
    BY <1>4, Zenon DEF SameRun
  <2>2. Len(Contents(e)) = Len(e.vals) + Len(e.open) + Len(e.buf)
    BY <2>1, ContentsLen, Zenon
  <2>3. Len(e.vals) + Len(e.open) + (Len(e.buf) + 1) = Len(Contents(e)) + 1
    <3>1. Len(e.vals) + Len(e.open) + (Len(e.buf) + 1)
            = Len(e.vals) + Len(e.open) + Len(e.buf) + 1
      BY <1>2, ThreeSums, Zenon
    <3>2. QED
      BY <2>2, <3>1, Zenon
  <2>4. Budget(b) /\ b.len = IndexBufferSize(n)
        /\ Len(b.vals) + Len(b.open) + (Len(b.buf) + 1) <= n
    BY <1>4, <2>1, <2>3, Zenon DEF Budget
  <2>5. QED
    BY <1>4, <2>1, <2>4, BufferedBudget, Zenon
<1>5. ASSUME NEW b, ValueReady(b), b.cur = v, b.len = e.len,
             PutValue(e, v) = Buffered(b, b.cur), RunEnded(e, b)
      PROVE  Budget(PutValue(e, v)) /\ ~PutValue(e, v).full
  <2>1. /\ e.rep >= GroupSize /\ b.vals = e.vals \o Copies(e.cur, e.rep)
        /\ b.open = <<>> /\ b.buf = <<>>
        /\ b.bytes = e.bytes + VlqBytes(e.rep) + ValueBytes
        /\ RunStart(b) = b.bytes
        /\ b.full <=> b.bytes + MinBufferSize > b.len
    BY <1>5, Zenon DEF RunEnded
  <2>2. Len(b.vals) = Len(e.vals) + e.rep
    <3>1. Copies(e.cur, e.rep) \in Seq(Values)
          /\ Len(Copies(e.cur, e.rep)) = e.rep
      BY <1>1, CopiesType
    <3>2. QED
      BY <1>1, <2>1, <3>1, ConcatLen, Zenon
  <2>3. b.bytes = RunStart(e) + (VlqBytes(e.rep) + ValueBytes)
        /\ RunStart(e) \in Int /\ VlqBytes(e.rep) + ValueBytes \in Nat
        /\ b.bytes \in Nat
    <3>1. VlqBytes(e.rep) \in Nat
      BY <1>1, VlqType DEF MaxVlqBytes
    <3>2. RunStart(e) = e.bytes - 0
      BY <1>1, <2>1, Zenon
    <3>3. QED
      BY <1>1, <2>1, <3>1, <3>2, WidthAssumption
  <2>4. Paid(b.bytes, Len(b.vals))
    <3>1. Paid(VlqBytes(e.rep) + ValueBytes, e.rep)
      BY <1>1, <2>1, RepeatedPaid, Zenon
    <3>2. QED
      BY <1>1, <1>2, <2>2, <2>3, <3>1, PaidTogether, Zenon DEF Budget
  <2>5. Len(b.vals) + 1 <= n /\ Len(b.vals) \in Nat
    BY <1>1, <1>2, <2>1, <2>2, ContentsLen, Zenon
  <2>6. ~b.full
    <3>1. Len(b.vals) <= n
      BY <2>5
    <3>2. QED
      BY <1>5, <2>1, <2>3, <2>4, <2>5, <3>1, RoomForRun, Zenon
  <2>7. Len(b.vals) + Len(b.open) + (Len(b.buf) + 1) <= n
    <3>1. Len(b.open) = 0 /\ Len(b.buf) = 0
      BY <2>1
    <3>2. Len(b.vals) + 0 + (0 + 1) <= n
      BY <2>5
    <3>3. QED
      BY <3>1, <3>2, Zenon
  <2>8. QED
    BY <1>5, <2>1, <2>4, <2>6, <2>7, BufferedBudget, Zenon DEF Budget
<1>6. QED
  BY <1>3, <1>4, <1>5, PutCases, Zenon

-----------------------------------------------------------------------------
(* The end of the page.                                                    *)

LEMMA NatSums == \A a, b \in Nat : a + b \in Nat /\ a + 0 = a /\ a \in Int
OBVIOUS

LEMMA WrittenPaid ==
    ASSUME NEW e, EncoderInv(e), Budget(e)
    PROVE  /\ Len(e.vals) + Len(e.open) \in Nat
           /\ Paid(e.bytes, Len(e.vals) + Len(e.open))
<1>1. /\ e \in Encoder /\ e.vals \in Seq(Values) /\ e.open \in Seq(Values)
      /\ e.lit = Len(e.open) /\ e.lit % GroupSize = 0 /\ e.lit \in Nat
      /\ (e.ind <=> e.lit # 0)
  BY EncoderFacts, Zenon
<1>2. Len(e.vals) \in Nat /\ Len(e.open) \in Nat
  BY <1>1
<1>3. Len(e.vals) + Len(e.open) \in Nat /\ Len(e.vals) + 0 = Len(e.vals)
  BY <1>2, NatSums, Zenon
<1>4. PICK j \in Nat : e.lit = GroupSize * j
  BY <1>1, GroupDivision, Zenon
<1>5. CASE e.ind
  <2>1. j >= 1
    <3>1. GroupSize * j # 0
      BY <1>1, <1>4, <1>5, Zenon
    <3>2. QED
      BY <3>1, GroupAssumption
  <2> DEFINE vals == e.vals \o e.open
  <2>2. Len(vals) = Len(e.vals) + Len(e.open)
    BY <1>1, ConcatLen, Zenon
  <2>3. Paid(e.bytes, Len(vals))
    BY <1>1, <1>4, <1>5, <2>1, LiteralBudget, Zenon
  <2>4. QED
    BY <1>3, <2>2, <2>3, Zenon
<1>6. CASE ~e.ind
  <2>1. e.lit = 0
    BY <1>1, <1>6, Zenon
  <2>2. e.bytes = RunStart(e)
    BY <1>1, <1>4, <1>6, RunStartType, Zenon
  <2>3. QED
    BY <1>1, <1>3, <2>1, <2>2, Zenon DEF Budget
<1>7. QED
  BY <1>5, <1>6

LEMMA FlushBudget ==
    ASSUME NEW e, EncoderInv(e), ~e.full, Budget(e)
    PROVE  Flush(e).bytes <= MaxBufferSize(Len(Contents(e)))
<1> DEFINE n == Len(Contents(e))
           m == Len(e.vals) + Len(e.open)
<1>1. /\ e \in Encoder /\ e.vals \in Seq(Values) /\ e.cur \in Values
      /\ e.open \in Seq(Values) /\ e.buf \in Seq(Values)
      /\ e.rep \in Nat /\ e.bytes \in Nat /\ e.lit = Len(e.open)
      /\ (e.ind <=> e.lit # 0) /\ e.ind \in BOOLEAN
      /\ e.rep >= GroupSize \/ e.rep < GroupSize
      /\ e.rep < GroupSize => e.rep <= Len(e.buf)
      /\ e.rep >= GroupSize => e.open = <<>>
  BY EncoderFacts, Zenon
<1>2. Len(e.vals) \in Nat /\ Len(e.open) \in Nat /\ Len(e.buf) \in Nat
      /\ Len(<<>>) = 0
  BY <1>1
<1>3. m \in Nat /\ Paid(e.bytes, m)
  BY WrittenPaid, Zenon
<1>4. /\ n \in Nat
      /\ e.rep >= GroupSize => n = Len(e.vals) + e.rep
      /\ e.rep < GroupSize => n = m + Len(e.buf)
  BY ContentsLen, Zenon
<1>5. CASE e.lit = 0 /\ e.rep = 0 /\ Len(e.buf) = 0
  <2>1. Flush(e) = e
    BY <1>5, Zenon DEF Flush
  <2>2. e.rep < GroupSize
    BY <1>5, GroupAssumption
  <2>3. m <= n
    <3> HIDE DEF n, m
    <3>1. QED
      BY <1>2, <1>3, <1>4, <2>2
  <2>4. e.bytes <= MaxBufferSize(n)
    <3>1. e.bytes \in Int
      BY <1>1, NatSums, Zenon
    <3>2. Paid(e.bytes, n)
      BY <1>3, <1>4, <2>3, <3>1, PaidByMore, Zenon
    <3>3. QED
      BY <1>1, <1>4, <3>2, PaidFits, Zenon
  <2>5. QED
    BY <2>1, <2>4, Zenon
<1>6. CASE e.rep > 0 /\ e.lit = 0 /\ (e.rep = Len(e.buf) \/ Len(e.buf) = 0)
  <2> DEFINE c == VlqBytes(e.rep) + ValueBytes
  <2>1. Flush(e).bytes = e.bytes + VlqBytes(e.rep) + ValueBytes
    <3>1. e.rep # 0
      BY <1>1, <1>6
    <3>2. Flush(e) = FlushRepeatedRun(e)
      BY <1>6, <3>1, Zenon DEF Flush
    <3>3. QED
      BY <1>1, <3>2, FlushRepeatedRunFields, Zenon
  <2>2. /\ VlqBytes(e.rep) \in Nat /\ c \in Nat
        /\ e.rep < 64 => VlqBytes(e.rep) = 1
    BY <1>1, VlqType, WidthAssumption DEF MaxVlqBytes
  <2>3. Flush(e).bytes = e.bytes + c /\ e.bytes + c \in Nat
    BY <1>1, <2>1, <2>2, WidthAssumption
  <2>4. m = Len(e.vals)
    <3>1. m = Len(e.vals) + 0
      BY <1>1, <1>6, Zenon
    <3>2. QED
      BY <1>2, <3>1, NatSums, Zenon
  <2>5. e.rep < 64 => c <= SlotBytes
    BY <2>2, WidthAssumption DEF SlotBytes
  <2>6. CASE e.rep >= GroupSize
    <3>1. Paid(c, e.rep)
      BY <1>1, <2>6, RepeatedPaid, Zenon
    <3>2. n = m + e.rep
      BY <1>4, <2>4, <2>6, Zenon
    <3> HIDE DEF c, n, m
    <3>3. Paid(e.bytes + c, m + e.rep)
      BY <1>1, <1>3, <2>2, <3>1, PaidTogether, SMTT(30)
    <3>4. e.bytes + c <= MaxBufferSize(n)
      BY <1>4, <2>3, <3>2, <3>3, PaidFits
    <3>5. QED
      BY <2>3, <3>4, Zenon DEF n
  <2>7. CASE e.rep < GroupSize
    <3>1. n = m + Len(e.buf)
      BY <1>4, <2>7, Zenon
    <3>2. Len(e.buf) > 0 /\ e.rep < 64
      BY <1>1, <1>2, <1>6, <2>7, GroupAssumption
    <3> HIDE DEF c, n, m
    <3>3. m < n /\ c <= SlotBytes
      BY <1>2, <1>3, <2>5, <3>1, <3>2
    <3>4. e.bytes + c <= MaxBufferSize(n)
      BY <1>1, <1>3, <1>4, <2>2, <2>3, <3>3, PaidFitsOneMore
    <3>5. QED
      BY <2>3, <3>4, Zenon DEF n
  <2>8. QED
    BY <1>1, <2>6, <2>7
<1>7. CASE /\ ~(e.lit = 0 /\ e.rep = 0 /\ Len(e.buf) = 0)
           /\ ~(e.rep > 0 /\ e.lit = 0
                  /\ (e.rep = Len(e.buf) \/ Len(e.buf) = 0))
  <2> DEFINE pad == IF Len(e.buf) = 0 THEN 0 ELSE GroupSize - Len(e.buf)
             last == Len(e.buf \o Copies(0, pad))
             b == Flush(e).bytes
  <2>1. /\ e.rep < GroupSize /\ Flush(e) \in Encoder
        /\ last \in {0, GroupSize} /\ last = Len(e.buf) + pad
        /\ b = e.bytes + (IF e.ind THEN 0 ELSE 1)
                  + GroupBytes * (last \div GroupSize)
    BY <1>7, FlushLast, Zenon
  <2>2. n = m + Len(e.buf)
    BY <1>4, <2>1, Zenon
  <2>3. b \in Nat
    BY <2>1, EncoderFieldTypes, Zenon
  <2>4. pad = 0 \/ (Len(e.buf) # 0 /\ pad \in Nat) \/ Len(e.buf) >= GroupSize
    BY <1>2, GroupAssumption
  <2> HIDE DEF n, m, b, last
  <2>5. CASE Len(e.buf) = 0
    <3>1. e.lit # 0
      <4>1. e.rep > 0 \/ e.rep = 0
        BY <1>1
      <4>2. QED
        BY <1>7, <2>5, <4>1, Zenon
    <3>2. e.ind
      BY <1>1, <3>1, Zenon
    <3>3. last = 0
      <4>1. last = 0 + 0
        BY <2>1, <2>5, Zenon
      <4>2. QED
        BY <4>1
    <3>4. b = e.bytes
      <4>1. b = e.bytes + 0 + GroupBytes * 0
        BY <2>1, <3>2, <3>3, GroupDivision, Zenon
      <4>2. GroupBytes * 0 = 0
        BY WidthAssumption
      <4>3. QED
        BY <1>1, <4>1, <4>2
    <3>5. m <= n
      BY <1>3, <2>2, <2>5
    <3>6. e.bytes <= MaxBufferSize(n)
      BY <1>1, <1>3, <1>4, <3>5, PaidByMore, PaidFits
    <3>7. QED
      BY <3>4, <3>6, Zenon DEF b, n
  <2>6. CASE Len(e.buf) # 0
    <3> DEFINE c == (IF e.ind THEN 0 ELSE 1) + GroupBytes
    <3>1. last = GroupSize
      <4>1. pad = GroupSize - Len(e.buf)
        BY <2>6, Zenon
      <4>2. last = Len(e.buf) + (GroupSize - Len(e.buf))
        BY <2>1, <4>1, Zenon
      <4>3. QED
        BY <1>2, <4>2, GroupAssumption
    <3>2. c \in Nat /\ c <= SlotBytes
      <4>1. c = 0 + GroupBytes \/ c = 1 + GroupBytes
        BY Zenon
      <4> HIDE DEF c
      <4>2. QED
        BY <4>1, WidthAssumption DEF SlotBytes
    <3>3. b = e.bytes + c
      <4>1. b = e.bytes + (IF e.ind THEN 0 ELSE 1) + GroupBytes * 1
        BY <2>1, <3>1, GroupDivision, Zenon
      <4>2. (IF e.ind THEN 0 ELSE 1) \in Nat
        OBVIOUS
      <4>3. GroupBytes * 1 = GroupBytes /\ GroupBytes \in Nat
        BY WidthAssumption
      <4>4. QED
        BY <1>1, <4>1, <4>2, <4>3
    <3> HIDE DEF c
    <3>4. m < n
      BY <1>2, <1>3, <2>2, <2>6
    <3>5. e.bytes + c \in Nat
      BY <1>1, <3>2
    <3>6. e.bytes + c <= MaxBufferSize(n)
      BY <1>1, <1>3, <1>4, <3>2, <3>4, <3>5, PaidFitsOneMore
    <3>7. QED
      BY <3>3, <3>6, Zenon DEF b, n
  <2>7. QED
    BY <2>5, <2>6
<1>8. QED
  BY <1>5, <1>6, <1>7

-----------------------------------------------------------------------------
(* The invariant: while the loop runs, the finished runs are paid for by   *)
(* the indices they hold, so that the encoder has never become full.       *)
InLoop ==
    /\ ~encoder.full
    /\ Budget(encoder)
    /\ Contents(encoder) = taken
    /\ encoder.len = IndexBufferSize(count)
    /\ Len(taken) <= count

DictFlushed ==
    /\ encoder.bytes <= MaxBufferSize(count)
    /\ \E n \in 0..(GroupSize - 1) : Contents(encoder) = taken \o Copies(0, n)

DictInv ==
    /\ count \in Nat /\ count \in 0..MaxIndices
    /\ EncoderInv(encoder)
    /\ taken \in Seq(Values)
    /\ flushed \in BOOLEAN
    /\ ~flushed => InLoop
    /\ flushed => DictFlushed

LEMMA BufferLargeEnough ==
    ASSUME NEW n \in Nat
    PROVE  /\ IndexBufferSize(n) \in Nat
           /\ IndexBufferSize(n) >= MinBufferSize
<1>1. Paid(0, n)
  BY NothingPaid, PaidByMore
<1>2. MaxBufferSize(n) \in Nat
  BY <1>1, PaidFits
<1>3. MinBufferSize \in Nat
  BY RunSizes, Zenon
<1>4. QED
  BY <1>2, <1>3 DEF IndexBufferSize

LEMMA DictInvInit == DictInit => DictInv
<1> SUFFICES ASSUME DictInit
             PROVE  DictInv
  OBVIOUS
<1>1. /\ count \in 0..MaxIndices
      /\ encoder = NewEncoder(IndexBufferSize(count))
      /\ taken = <<>> /\ ~flushed /\ flushed \in BOOLEAN
  BY DEF DictInit
<1>2. count \in Nat /\ 0 <= count /\ Len(<<>>) = 0 /\ <<>> \in Seq(Values)
  BY <1>1, MaxIndicesAssumption
<1>3. /\ EncoderInv(encoder) /\ encoder.len = IndexBufferSize(count)
      /\ ~encoder.full /\ Contents(encoder) = <<>>
  BY <1>1, <1>2, BufferLargeEnough, NewEncoderCorrect, Zenon
<1>4. Budget(encoder)
  <2>1. encoder.vals = <<>> /\ encoder.bytes = 0 /\ encoder.ind = FALSE
    BY <1>1, Zenon DEF NewEncoder
  <2>2. RunStart(encoder) = 0 - 0
    BY <2>1, Zenon DEF RunStart
  <2>3. RunStart(encoder) = 0
    BY <2>2
  <2>4. QED
    BY <1>2, <2>1, <2>3, NothingPaid, Zenon DEF Budget
<1>5. InLoop
  BY <1>1, <1>2, <1>3, <1>4, Zenon DEF InLoop
<1>6. QED
  BY <1>1, <1>2, <1>3, <1>5, Zenon DEF DictInv

LEMMA DictPut ==
    ASSUME DictInv, NEW v \in Values, PutNext(v)
    PROVE  DictInv'
<1>1. /\ ~flushed /\ Len(taken) < count /\ taken' = Append(taken, v)
      /\ encoder' = PutIgnored(encoder, v)
      /\ count' = count /\ flushed' = flushed
  BY Zenon DEF PutNext
<1>2. /\ count \in Nat /\ count \in 0..MaxIndices /\ EncoderInv(encoder)
      /\ taken \in Seq(Values) /\ flushed \in BOOLEAN
      /\ ~encoder.full /\ Budget(encoder) /\ Contents(encoder) = taken
      /\ encoder.len = IndexBufferSize(count)
  BY <1>1, Zenon DEF DictInv, InLoop
<1>3. /\ taken' = taken \o <<v>> /\ taken' \in Seq(Values)
      /\ Len(taken) + 1 <= count /\ Len(taken') <= count
  BY <1>1, <1>2
<1>4. encoder' = PutValue(encoder, v)
  BY <1>1, <1>2, Zenon DEF PutIgnored
<1>5. /\ EncoderInv(encoder') /\ encoder'.len = encoder.len
      /\ Contents(encoder') = Contents(encoder) \o <<v>>
  BY <1>2, <1>4, PutCorrect, Zenon
<1>6. Budget(encoder') /\ ~encoder'.full
  BY <1>2, <1>3, <1>4, PutBudget, Zenon
<1>7. InLoop'
  BY <1>1, <1>2, <1>3, <1>5, <1>6, Zenon DEF InLoop
<1>8. QED
  BY <1>1, <1>2, <1>3, <1>5, <1>7, Zenon DEF DictInv

LEMMA DictFlush ==
    ASSUME DictInv, FlushIndices
    PROVE  DictInv'
<1>1. /\ ~flushed /\ Len(taken) = count /\ encoder' = Flush(encoder)
      /\ flushed' /\ flushed' \in BOOLEAN
      /\ count' = count /\ taken' = taken
  BY DEF FlushIndices
<1>2. /\ count \in Nat /\ count \in 0..MaxIndices /\ EncoderInv(encoder)
      /\ taken \in Seq(Values) /\ ~encoder.full /\ Budget(encoder)
      /\ Contents(encoder) = taken
  BY <1>1, Zenon DEF DictInv, InLoop
<1>3. /\ EncoderInv(encoder') /\ Contents(encoder') = encoder'.vals
      /\ \E n \in 0..(GroupSize - 1) : encoder'.vals = taken \o Copies(0, n)
  BY <1>1, <1>2, FlushCorrect, Zenon
<1>4. encoder'.bytes <= MaxBufferSize(count)
  BY <1>1, <1>2, FlushBudget, Zenon
<1>5. DictFlushed'
  BY <1>1, <1>3, <1>4, Zenon DEF DictFlushed
<1>6. QED
  BY <1>1, <1>2, <1>3, <1>5, Zenon DEF DictInv

LEMMA DictInductive == DictSpec => []DictInv
<1>1. DictInv /\ [DictNext]_dictVars => DictInv'
  <2> SUFFICES ASSUME DictInv, [DictNext]_dictVars
               PROVE  DictInv'
    OBVIOUS
  <2>1. CASE \E v \in Values : PutNext(v)
    BY <2>1, DictPut
  <2>2. CASE FlushIndices
    BY <2>2, DictFlush
  <2>3. CASE UNCHANGED dictVars
    BY <2>3, Zenon DEF dictVars, DictInv, InLoop, DictFlushed
  <2>4. QED
    BY <2>1, <2>2, <2>3 DEF DictNext
<1>2. QED
  BY DictInvInit, <1>1, PTL DEF DictSpec

(* The encoder, the number of indices and the history keep their types.    *)
THEOREM DictTypeCorrect == DictSpec => []DictTypeOK
<1>1. DictInv => DictTypeOK
  BY Zenon DEF DictInv, DictTypeOK, EncoderInv
<1>2. QED
  BY DictInductive, <1>1, PTL

LEMMA PaddingOf ==
    ASSUME NEW s \in Seq(Values), NEW n \in Nat
    PROVE  Len(s \o Copies(0, n)) - Len(s) = n
<1>1. 0 \in Values
  BY ValuesAssumption
<1>2. Copies(0, n) \in Seq(Values) /\ Len(Copies(0, n)) = n
  BY <1>1, CopiesType, Zenon
<1>3. Len(s \o Copies(0, n)) = Len(s) + n
  BY <1>2, ConcatLen, Zenon
<1>4. Len(s) \in Nat
  OBVIOUS
<1>5. QED
  BY <1>3, <1>4

(* Put() never refuses an index of the page, so that not looking at its    *)
(* result loses nothing: what dict_encoder::flush writes decodes to the    *)
(* indices of the page, and to less than a group of padding.               *)
THEOREM NoIndexLostHolds == DictSpec => []NoIndexLost
<1>1. DictInv => NoIndexLost
  <2> SUFFICES ASSUME DictInv
               PROVE  NoIndexLost
    OBVIOUS
  <2>1. taken \in Seq(Values) /\ flushed \in BOOLEAN
    BY Zenon DEF DictInv
  <2>2. CASE ~flushed
    <3>1. Contents(encoder) = taken
      BY <2>2, Zenon DEF DictInv, InLoop
    <3>2. IndexPadding = 0
      BY <2>1, <3>1 DEF IndexPadding
    <3>3. taken \o Copies(0, 0) = taken
      BY <2>1, CopiesNone, ConcatEmpty, Zenon
    <3>4. 0 < GroupSize
      BY GroupAssumption
    <3>5. QED
      BY <2>2, <3>1, <3>2, <3>3, <3>4, Zenon DEF NoIndexLost
  <2>3. CASE flushed
    <3>1. PICK n \in 0..(GroupSize - 1) :
             Contents(encoder) = taken \o Copies(0, n)
      BY <2>3, Zenon DEF DictInv, DictFlushed
    <3>2. n \in Nat /\ n < GroupSize
      BY GroupAssumption
    <3>3. IndexPadding = n
      BY <2>1, <3>1, <3>2, PaddingOf, Zenon DEF IndexPadding
    <3>4. QED
      BY <2>3, <3>1, <3>2, <3>3, Zenon DEF NoIndexLost
  <2>4. QED
    BY <2>1, <2>2, <2>3
<1>2. QED
  BY DictInductive, <1>1, PTL

(* What dict_encoder::flush writes is never longer than MaxBufferSize says *)
(* of the number of indices.                                               *)
THEOREM WithinMaxBufferSizeHolds == DictSpec => []WithinMaxBufferSize
<1>1. DictInv => WithinMaxBufferSize
  BY Zenon DEF DictInv, DictFlushed, WithinMaxBufferSize
<1>2. QED
  BY DictInductive, <1>1, PTL
=============================================================================
