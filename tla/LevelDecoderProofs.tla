------------------------- MODULE LevelDecoderProofs -------------------------
(***************************************************************************)
(* Proofs about LevelDecoder: what is handed out is what the source stands *)
(* for, and an intact source is read as BatchReader says.                  *)
(***************************************************************************)
EXTENDS LevelDecoder, SequenceTheorems, TLAPS

(* s is what is behind the first k values of c.                            *)
Matches(s, c, k) ==
    /\ k + Len(s) <= Len(c)
    /\ \A i \in 1..Len(s) : s[i] = c[k + i]

LEMMA MatchesConcat ==
    ASSUME NEW s \in Seq(Nat), NEW p \in Seq(Nat), NEW c \in Seq(Nat),
           NEW k \in Nat,
           Matches(s, c, k), Matches(p, c, k + Len(s))
    PROVE  /\ s \o p \in Seq(Nat)
           /\ Len(s \o p) = Len(s) + Len(p)
           /\ Matches(s \o p, c, k)
<1>1. /\ s \o p \in Seq(Nat)
      /\ Len(s \o p) = Len(s) + Len(p)
      /\ \A i \in 1..Len(s) : (s \o p)[i] = s[i]
      /\ \A i \in (Len(s) + 1)..(Len(s) + Len(p)) :
            (s \o p)[i] = p[i - Len(s)]
  BY ConcatProperties
<1>2. Len(s) \in Nat /\ Len(p) \in Nat /\ Len(c) \in Nat
  BY LenProperties
<1>3. k + Len(s \o p) <= Len(c)
  BY <1>1, <1>2 DEF Matches
<1>4. ASSUME NEW i \in 1..Len(s \o p) PROVE (s \o p)[i] = c[k + i]
  <2>1. CASE i <= Len(s)
    <3>1. i \in 1..Len(s)
      BY <1>1, <1>2, <2>1
    <3>2. (s \o p)[i] = s[i] /\ s[i] = c[k + i]
      BY <1>1, <3>1, Zenon DEF Matches
    <3> QED BY <3>2
  <2>2. CASE i > Len(s)
    <3>1. i - Len(s) \in 1..Len(p) /\ (s \o p)[i] = p[i - Len(s)]
      BY <1>1, <1>2, <2>2
    <3>2. p[i - Len(s)] = c[(k + Len(s)) + (i - Len(s))]
      BY <3>1 DEF Matches
    <3>3. (k + Len(s)) + (i - Len(s)) = k + i
      BY <1>2
    <3> QED BY <3>1, <3>2, <3>3
  <2> QED BY <1>2, <1>1, <2>1, <2>2
<1> QED BY <1>1, <1>3, <1>4 DEF Matches

LEMMA MatchesIsSubSeq ==
    ASSUME NEW s \in Seq(Nat), NEW c \in Seq(Nat), Matches(s, c, 0)
    PROVE  s = SubSeq(c, 1, Len(s))
BY SubSeqProperties, LenProperties, SeqEqual DEF Matches

LEMMA SubSeqMatches ==
    ASSUME NEW c \in Seq(Nat), NEW n \in 0..Len(c)
    PROVE  /\ SubSeq(c, 1, n) \in Seq(Nat)
           /\ Len(SubSeq(c, 1, n)) = n
           /\ Matches(SubSeq(c, 1, n), c, 0)
BY SubSeqProperties, LenProperties DEF Matches

LEMMA EmptyMatches ==
    ASSUME NEW c \in Seq(Nat), NEW k \in 0..Len(c)
    PROVE  Matches(<<>>, c, k)
BY LenProperties DEF Matches

(* The first k values of the first n.                                      *)
LEMMA SubSeqShorter ==
    ASSUME NEW c \in Seq(Nat), NEW n \in 0..Len(c), NEW k \in 0..n
    PROVE  SubSeq(SubSeq(c, 1, n), 1, k) = SubSeq(c, 1, k)
BY SubSeqProperties, LenProperties

-----------------------------------------------------------------------------
(* What SourcesAssumption says of a source and its runs.                   *)
LEMMA SourceFacts ==
    ASSUME NEW s \in Sources
    PROVE  /\ s.num \in Nat
           /\ s.content \in Seq(Nat)
           /\ Len(s.content) \in Nat
           /\ s.runs \in Seq(Run)
           /\ Len(s.runs) \in Nat
           /\ s.coding = "rle" /\ Len(s.runs) = 0 => Len(s.content) = 0
           /\ s.coding \in {"zero width", "packed", "rle"}
<1>1. s \in Source
  BY SourcesAssumption
<1>2. s.num \in Nat /\ s.content \in Seq(Nat) /\ s.runs \in Seq(Run)
      /\ s.coding \in {"zero width", "packed", "rle"}
  BY <1>1 DEF Source
<1>3. Len(s.content) \in Nat /\ Len(s.runs) \in Nat
  BY <1>2, LenProperties
<1>4. Len(s.runs) = 0 => s.runs = <<>>
  BY <1>2, EmptySeq
<1>5. s.runs = <<>> /\ s.coding = "rle" => s.content = <<>>
  BY SourcesAssumption
<1> QED BY <1>2, <1>3, <1>4, <1>5

LEMMA RunFacts ==
    ASSUME NEW s \in Sources, NEW k \in 1..Len(s.runs)
    PROVE  LET run == s.runs[k]
           IN  /\ run.literal \in BOOLEAN
               /\ run.from \in Nat /\ run.count \in Nat /\ run.present \in Nat
               /\ run.value \in Nat
               /\ run.from + run.count <= Len(s.content)
               /\ run.present <= run.count
               /\ k = 1 => run.from = 0
               /\ k + 1 \in 1..Len(s.runs) =>
                     s.runs[k + 1].from = run.from + run.count
               /\ k = Len(s.runs) => Len(s.content) = run.from + run.count
               /\ ~run.literal =>
                     \A i \in 1..run.count :
                        s.content[run.from + i] = run.value
<1>1. s.runs \in Seq(Run) /\ RunsFollow(s)
  BY SourceFacts, SourcesAssumption
<1>2. DOMAIN s.runs = 1..Len(s.runs)
  BY <1>1
<1>3. s.runs[k] \in Run
  BY <1>1, <1>2
<1> QED BY <1>1, <1>2, <1>3 DEF Run, RunsFollow

LEMMA LeastFacts ==
    \A a, b \in Int : /\ Least(a, b) \in Int
                      /\ Least(a, b) <= a /\ Least(a, b) <= b
                      /\ Least(a, b) \in {a, b}
BY DEF Least

-----------------------------------------------------------------------------
(* Where the decoder is in the runs.                                       *)
Placed ==
    IF next = 1
    THEN Len(out) + Len(batch) = 0 /\ rep = 0 /\ lit = 0
    ELSE LET run == source.runs[next - 1]
         IN  /\ Len(out) + Len(batch) = run.from + run.count - rep - lit
             /\ rep <= run.count /\ lit <= run.count
             /\ run.literal => rep = 0
             /\ ~run.literal => lit = 0

(* Nothing of an RleDecoder is in use.                                     *)
Unused ==
    /\ next = 1 /\ rep = 0 /\ lit = 0 /\ want = 0 /\ batch = <<>>
    /\ Matches(out, source.content, 0)

(* The value of a repeated run is that of the content.                     *)
CurRight ==
    rep > 0 => cur = source.runs[next - 1].value

ValuesRight ==
    /\ CurRight
    /\ Matches(out, source.content, 0)
    /\ Matches(batch, source.content, Len(out))

IInv ==
    /\ TypeOK
    /\ source.coding # "rle" => Unused
    /\ source.coding = "rle" => Placed
    /\ source.coding = "rle" /\ ~ValueMissing(source) => ValuesRight
    /\ Intact(source) => have = lit

LEMMA FreshFacts ==
    ASSUME NEW s \in Sources
    PROVE  /\ Matches(<<>>, s.content, 0)
           /\ 0 <= s.num
           /\ 1 \in 1..(Len(s.runs) + 1)
           /\ 0 \in 0..MaxBatch
           /\ <<>> \in Seq(Nat) /\ Len(<<>>) = 0
<1>1. s.content \in Seq(Nat) /\ Len(s.content) \in Nat /\ s.num \in Nat
      /\ Len(s.runs) \in Nat
  BY SourceFacts, Zenon
<1>2. 0 \in 0..Len(s.content)
  BY <1>1
<1>3. MaxBatch \in Nat
  BY SourcesAssumption
<1> QED BY <1>1, <1>2, <1>3, EmptyMatches

LEMMA InitIInv == Init => IInv
<1>1. SUFFICES ASSUME Init PROVE IInv
  OBVIOUS
<1>2. source \in Sources /\ next = 1 /\ cur = 0 /\ rep = 0 /\ lit = 0
      /\ have = 0 /\ want = 0 /\ batch = <<>> /\ out = <<>>
  BY <1>1 DEF Init, Fresh
<1>3. /\ Matches(<<>>, source.content, 0)
      /\ 0 <= source.num
      /\ 1 \in 1..(Len(source.runs) + 1)
      /\ 0 \in 0..MaxBatch
      /\ <<>> \in Seq(Nat) /\ Len(<<>>) = 0
  BY <1>2, FreshFacts, Zenon
<1>4. TypeOK
  <2>1. Len(out) = 0 /\ Len(batch) = 0 /\ want = 0
    BY <1>2, <1>3, Zenon
  <2>2. Len(out) + want <= source.num /\ Len(batch) <= want
    BY <1>3, <2>1
  <2>3. cur \in Nat /\ rep \in Nat /\ lit \in Nat /\ have \in Nat
    BY <1>2
  <2>4. out \in Seq(Nat) /\ batch \in Seq(Nat) /\ want \in 0..MaxBatch
        /\ next \in 1..(Len(source.runs) + 1)
    BY <1>2, <1>3, Zenon
  <2> QED BY <1>2, <2>2, <2>3, <2>4, Zenon DEF TypeOK
<1>5. Unused
  BY <1>2, <1>3, Zenon DEF Unused
<1>6. Placed
  <2>1. Len(out) + Len(batch) = 0
    BY <1>2, <1>3
  <2> QED BY <1>2, <2>1 DEF Placed
<1>7. ValuesRight
  <2>1. Len(out) = 0 /\ ~(rep > 0)
    BY <1>2, <1>3
  <2> QED BY <1>2, <1>3, <2>1, Zenon DEF ValuesRight, CurRight
<1> QED BY <1>2, <1>4, <1>5, <1>6, <1>7 DEF IInv

LEMMA ResetIInv == Reset => IInv'
<1>1. SUFFICES ASSUME Reset PROVE IInv'
  OBVIOUS
<1>2. source' \in Sources /\ next' = 1 /\ cur' = 0 /\ rep' = 0 /\ lit' = 0
      /\ have' = 0 /\ want' = 0 /\ batch' = <<>> /\ out' = <<>>
  BY <1>1 DEF Reset, Fresh
<1>3. /\ Matches(<<>>, source'.content, 0)
      /\ 0 <= source'.num
      /\ 1 \in 1..(Len(source'.runs) + 1)
      /\ 0 \in 0..MaxBatch
      /\ <<>> \in Seq(Nat) /\ Len(<<>>) = 0
  BY <1>2, FreshFacts, Zenon
<1>4. TypeOK'
  <2>1. Len(out') = 0 /\ Len(batch') = 0 /\ want' = 0
    BY <1>2, <1>3, Zenon
  <2>2. Len(out') + want' <= source'.num /\ Len(batch') <= want'
    BY <1>3, <2>1
  <2>3. cur' \in Nat /\ rep' \in Nat /\ lit' \in Nat /\ have' \in Nat
    BY <1>2
  <2>4. out' \in Seq(Nat) /\ batch' \in Seq(Nat) /\ want' \in 0..MaxBatch
        /\ next' \in 1..(Len(source'.runs) + 1)
    BY <1>2, <1>3, Zenon
  <2> QED BY <1>2, <2>2, <2>3, <2>4, Zenon DEF TypeOK
<1>5. Unused'
  BY <1>2, <1>3, Zenon DEF Unused
<1>6. Placed'
  <2>1. Len(out') + Len(batch') = 0
    BY <1>2, <1>3
  <2> QED BY <1>2, <2>1 DEF Placed
<1>7. ValuesRight'
  <2>1. Len(out') = 0 /\ ~(rep' > 0)
    BY <1>2, <1>3
  <2> QED BY <1>2, <1>3, <2>1, Zenon DEF ValuesRight, CurRight
<1> QED BY <1>2, <1>4, <1>5, <1>6, <1>7 DEF IInv

-----------------------------------------------------------------------------
(* What IInv says when a batch is under way.                               *)
LEMMA NumbersAreNumbers ==
    ASSUME TypeOK
    PROVE  /\ Len(out) \in Nat /\ Len(batch) \in Nat
           /\ next \in Nat \ {0} /\ next <= Len(source.runs) + 1
           /\ Len(source.runs) \in Nat
           /\ rep \in Nat /\ lit \in Nat /\ have \in Nat /\ cur \in Nat
           /\ want \in Nat /\ want <= MaxBatch
           /\ source.num \in Nat
           /\ source.content \in Seq(Nat) /\ Len(source.content) \in Nat
           /\ MaxBatch \in Nat
<1>1. source \in Sources /\ out \in Seq(Nat) /\ batch \in Seq(Nat)
      /\ next \in 1..(Len(source.runs) + 1) /\ want \in 0..MaxBatch
      /\ rep \in Nat /\ lit \in Nat /\ have \in Nat /\ cur \in Nat
  BY DEF TypeOK
<1>2. Len(source.runs) \in Nat /\ source.num \in Nat
      /\ source.content \in Seq(Nat) /\ Len(source.content) \in Nat
  BY <1>1, SourceFacts, Zenon
<1>3. MaxBatch \in Nat
  BY SourcesAssumption
<1>4. Len(out) \in Nat /\ Len(batch) \in Nat
  BY <1>1, LenProperties
<1> QED BY <1>1, <1>2, <1>3, <1>4

LEMMA UnderWay ==
    ASSUME IInv, want > 0
    PROVE  /\ source.coding = "rle"
           /\ Placed
           /\ ~ValueMissing(source) => ValuesRight
<1>1. want # 0
  BY NumbersAreNumbers DEF IInv
<1>2. source.coding = "rle"
  BY <1>1 DEF IInv, Unused
<1> QED BY <1>2 DEF IInv

LEMMA RemainingFacts ==
    ASSUME IInv, Remaining > 0
    PROVE  /\ want > 0
           /\ Len(batch) < want
           /\ Remaining \in Nat /\ Remaining = want - Len(batch)
BY NumbersAreNumbers DEF IInv, Remaining

(* The run the decoder is in.                                              *)
LEMMA InRun ==
    ASSUME IInv, Placed, next # 1
    PROVE  LET run == source.runs[next - 1]
           IN  /\ run.literal \in BOOLEAN
               /\ run.from \in Nat /\ run.count \in Nat
               /\ run.from + run.count <= Len(source.content)
               /\ Len(out) + Len(batch) = run.from + run.count - rep - lit
               /\ rep <= run.count /\ lit <= run.count
               /\ rep > 0 => ~run.literal
               /\ lit > 0 => run.literal
               /\ rep = 0 \/ lit = 0
<1> DEFINE run == source.runs[next - 1]
<1>1. source \in Sources /\ next - 1 \in 1..Len(source.runs)
  BY NumbersAreNumbers DEF IInv, TypeOK
<1>2. /\ run.literal \in BOOLEAN
      /\ run.from \in Nat /\ run.count \in Nat
      /\ run.from + run.count <= Len(source.content)
  BY <1>1, RunFacts, Zenon
<1>3. /\ Len(out) + Len(batch) = run.from + run.count - rep - lit
      /\ rep <= run.count /\ lit <= run.count
      /\ run.literal => rep = 0
      /\ ~run.literal => lit = 0
  BY DEF Placed
<1>4. /\ rep > 0 => ~run.literal
      /\ lit > 0 => run.literal
      /\ rep = 0 \/ lit = 0
  BY <1>2, <1>3
<1> QED BY <1>2, <1>3, <1>4, Zenon

LEMMA PositionWithin ==
    ASSUME IInv, Placed
    PROVE  Len(out) + Len(batch) <= Len(source.content)
<1>1. CASE next = 1
  <2>1. Len(out) + Len(batch) = 0
    BY <1>1 DEF Placed
  <2>2. Len(source.content) \in Nat
    BY NumbersAreNumbers, Zenon DEF IInv
  <2> QED BY <2>1, <2>2
<1>2. CASE next # 1
  <2> DEFINE run == source.runs[next - 1]
  <2>1. Len(out) \in Nat /\ Len(batch) \in Nat /\ Len(source.content) \in Nat
        /\ rep \in Nat /\ lit \in Nat
    BY NumbersAreNumbers, Zenon DEF IInv
  <2>2. /\ run.from \in Nat /\ run.count \in Nat
        /\ run.from + run.count <= Len(source.content)
        /\ Len(out) + Len(batch) = run.from + run.count - rep - lit
    BY <1>2, InRun, Zenon
  <2> DEFINE o == Len(out)
             b == Len(batch)
             f == run.from
             c == run.count
             n == Len(source.content)
  <2>3. o \in Nat /\ b \in Nat /\ f \in Nat /\ c \in Nat /\ n \in Nat
        /\ rep \in Nat /\ lit \in Nat
        /\ o + b = f + c - rep - lit /\ f + c <= n
    BY <2>1, <2>2, Zenon
  <2>4. o + b <= n
    <3> HIDE DEF o, b, f, c, n
    <3> QED BY <2>3
  <2> QED BY <2>4
<1> QED BY <1>1, <1>2

(* Between two runs, what was handed out ends where the next run begins.   *)
LEMMA BetweenRuns ==
    ASSUME IInv, Placed, rep = 0, lit = 0
    PROVE  /\ next <= Len(source.runs) =>
                 Len(out) + Len(batch) = source.runs[next].from
           /\ next > Len(source.runs) /\ source.coding = "rle" =>
                 Len(out) + Len(batch) = Len(source.content)
<1>1. source \in Sources /\ Len(source.runs) \in Nat /\ next \in Nat \ {0}
      /\ next <= Len(source.runs) + 1
  BY NumbersAreNumbers DEF IInv, TypeOK
<1>2. CASE next = 1
  <2>1. Len(out) + Len(batch) = 0
    BY <1>2 DEF Placed
  <2>2. ASSUME next <= Len(source.runs) PROVE source.runs[next].from = 0
    <3>1. next \in 1..Len(source.runs)
      BY <1>1, <2>2
    <3> QED BY <1>1, <1>2, <3>1, RunFacts, Zenon
  <2>3. ASSUME next > Len(source.runs), source.coding = "rle"
        PROVE  Len(source.content) = 0
    <3>1. Len(source.runs) = 0
      BY <1>1, <1>2, <2>3
    <3> QED BY <1>1, <2>3, <3>1, SourceFacts, Zenon
  <2> QED BY <2>1, <2>2, <2>3
<1>3. CASE next # 1
  <2> DEFINE run == source.runs[next - 1]
  <2>1. run.from \in Nat /\ run.count \in Nat
        /\ Len(out) + Len(batch) = run.from + run.count
    BY <1>3, InRun
  <2>2. next - 1 \in 1..Len(source.runs)
    BY <1>1, <1>3
  <2>3. ASSUME next <= Len(source.runs)
        PROVE  source.runs[next].from = run.from + run.count
    <3>1. (next - 1) + 1 \in 1..Len(source.runs) /\ (next - 1) + 1 = next
      BY <1>1, <1>3, <2>3
    <3>2. source.runs[(next - 1) + 1].from = run.from + run.count
      BY <1>1, <2>2, <3>1, RunFacts, Zenon
    <3> QED BY <3>1, <3>2
  <2>4. ASSUME next > Len(source.runs)
        PROVE  Len(source.content) = run.from + run.count
    <3>1. next - 1 = Len(source.runs)
      BY <1>1, <1>3, <2>4
    <3> QED BY <1>1, <2>2, <3>1, RunFacts, Zenon
  <2> QED BY <2>1, <2>3, <2>4
<1> QED BY <1>2, <1>3

-----------------------------------------------------------------------------
(* The batch grows by a piece of the content.                              *)
LEMMA Grows ==
    ASSUME IInv, source.coding = "rle", Remaining > 0,
           NEW taken \in Nat, taken <= Remaining,
           NEW piece \in Seq(Nat), Len(piece) = taken,
           batch' = batch \o piece,
           UNCHANGED <<source, want, out>>
    PROVE  /\ batch' \in Seq(Nat)
           /\ Len(batch') = Len(batch) + taken
           /\ Len(batch') <= want'
           /\ Len(out') = Len(out)
           /\ /\ Matches(batch, source.content, Len(out))
              /\ Matches(piece, source.content, Len(out) + Len(batch))
              => Matches(batch', source'.content, Len(out'))
<1>1. batch \in Seq(Nat) /\ source.content \in Seq(Nat) /\ Len(out) \in Nat
      /\ Len(batch) \in Nat /\ want \in Nat
  BY NumbersAreNumbers, Zenon DEF IInv, TypeOK
<1>2. batch \o piece \in Seq(Nat) /\ Len(batch \o piece) = Len(batch) + taken
  BY <1>1, ConcatProperties
<1>3. Remaining = want - Len(batch)
  BY RemainingFacts, Zenon
<1>4. Len(batch) + taken <= want
  BY <1>1, <1>3
<1>5. ASSUME Matches(batch, source.content, Len(out)),
             Matches(piece, source.content, Len(out) + Len(batch))
      PROVE  Matches(batch \o piece, source.content, Len(out))
  BY <1>1, <1>5, MatchesConcat, Zenon
<1> QED BY <1>2, <1>4, <1>5, Zenon

LEMMA PlacedAfter ==
    ASSUME next' # 1,
           LET run == source'.runs[next' - 1]
           IN  /\ Len(out') + Len(batch') = run.from + run.count - rep' - lit'
               /\ rep' <= run.count /\ lit' <= run.count
               /\ run.literal => rep' = 0
               /\ ~run.literal => lit' = 0
    PROVE  Placed'
BY DEF Placed

LEMMA TakeRepeatsIInv == IInv /\ TakeRepeats => IInv'
<1> SUFFICES ASSUME IInv, TakeRepeats PROVE IInv'
  OBVIOUS
<1> DEFINE taken == Least(Remaining, rep)
           piece == [i \in 1..taken |-> cur]
           run   == source.runs[next - 1]
<1>1. /\ Remaining > 0 /\ rep > 0
      /\ batch' = batch \o piece /\ rep' = rep - taken
      /\ UNCHANGED <<source, next, cur, lit, have, want, out>>
  BY DEF TakeRepeats
<1>2. want > 0 /\ Remaining \in Nat /\ Remaining = want - Len(batch)
  BY <1>1, RemainingFacts, Zenon
<1>3. source.coding = "rle" /\ Placed /\ (~ValueMissing(source) => ValuesRight)
  BY <1>2, UnderWay, Zenon
<1>4. /\ Len(out) \in Nat /\ Len(batch) \in Nat /\ cur \in Nat
      /\ rep \in Nat /\ lit \in Nat /\ want \in Nat /\ have \in Nat
      /\ source.content \in Seq(Nat) /\ Len(source.content) \in Nat
  BY NumbersAreNumbers, Zenon DEF IInv
<1>5. taken \in Nat /\ taken <= Remaining /\ taken <= rep
  BY <1>2, <1>4 DEF Least
<1>6. piece \in Seq(Nat) /\ Len(piece) = taken
      /\ \A i \in 1..taken : piece[i] = cur
  BY <1>4, <1>5
<1>7. /\ batch' \in Seq(Nat) /\ Len(batch') = Len(batch) + taken
      /\ Len(batch') <= want' /\ Len(out') = Len(out)
      /\ /\ Matches(batch, source.content, Len(out))
         /\ Matches(piece, source.content, Len(out) + Len(batch))
         => Matches(batch', source'.content, Len(out'))
  <2> HIDE DEF taken, piece
  <2> QED BY <1>1, <1>3, <1>5, <1>6, Grows, Zenon
<1>8. rep' \in Nat
  BY <1>1, <1>4, <1>5
<1>9. next # 1
  BY <1>1, <1>3 DEF Placed
<1>10. /\ run.from \in Nat /\ run.count \in Nat
       /\ run.from + run.count <= Len(source.content)
       /\ Len(out) + Len(batch) = run.from + run.count - rep - lit
       /\ rep <= run.count /\ lit <= run.count
       /\ (rep > 0 => ~run.literal)
  BY <1>3, <1>9, InRun, Zenon
<1>11. ~run.literal /\ lit = 0
  BY <1>1, <1>3, <1>9, <1>10 DEF Placed
<1>12. /\ Len(out) + (Len(batch) + taken) = run.from + run.count - (rep - taken) - lit
      /\ Len(out) + Len(batch) + taken <= Len(source.content)
      /\ rep - taken <= run.count
      /\ \A i \in 1..taken :
            /\ run.count - rep + i \in 1..run.count
            /\ run.from + (run.count - rep + i) = Len(out) + Len(batch) + i
  <2> DEFINE o == Len(out)
             b == Len(batch)
             f == run.from
             c == run.count
             n == Len(source.content)
  <2>1. o \in Nat /\ b \in Nat /\ f \in Nat /\ c \in Nat /\ n \in Nat
        /\ rep \in Nat /\ lit \in Nat /\ rep <= c /\ lit = 0
        /\ o + b = f + c - rep - lit /\ f + c <= n
    BY <1>4, <1>10, <1>11, Zenon
  <2>2. taken \in 0..rep
    BY <1>4, <1>5
  <2>3. /\ o + (b + taken) = f + c - (rep - taken) - lit
        /\ o + b + taken <= n
        /\ rep - taken <= c
        /\ \A i \in 1..taken : /\ c - rep + i \in 1..c
                               /\ f + (c - rep + i) = o + b + i
    <3> HIDE DEF o, b, f, c, n, taken
    <3> QED BY <2>1, <2>2
  <2> QED BY <2>3
<1>13. TypeOK'
  BY <1>1, <1>7, <1>8, Zenon DEF IInv, TypeOK
<1>14. Placed'
  <2>1. /\ Len(out') + Len(batch') = run.from + run.count - rep' - lit'
        /\ rep' <= run.count /\ lit' <= run.count
    <3> HIDE DEF taken, piece, run
    <3> QED BY <1>1, <1>12, <1>7, <1>10, Zenon
  <2> QED BY <1>1, <1>9, <1>11, <2>1, PlacedAfter, Zenon
<1>15. ASSUME ~ValueMissing(source) PROVE ValuesRight'
  <2>1. cur = run.value
        /\ Matches(out, source.content, 0)
        /\ Matches(batch, source.content, Len(out))
    BY <1>1, <1>3, <1>15, Zenon DEF ValuesRight, CurRight
  <2>2. ASSUME NEW i \in 1..taken
        PROVE  source.content[Len(out) + Len(batch) + i] = cur
    <3> DEFINE j == run.count - rep + i
    <3>1. j \in 1..run.count /\ run.from + j = Len(out) + Len(batch) + i
      BY <1>12, Zenon
    <3>2. source \in Sources /\ next - 1 \in 1..Len(source.runs)
      BY <1>9, NumbersAreNumbers DEF IInv, TypeOK
    <3>3. \A k \in 1..run.count :
             source.content[run.from + k] = run.value
      BY <1>11, <3>2, RunFacts, Zenon
    <3>4. source.content[run.from + j] = run.value
      BY <3>1, <3>3, Zenon
    <3> QED BY <2>1, <3>1, <3>4, Zenon
  <2>3. Len(out) + Len(batch) + taken <= Len(source.content)
    BY <1>12, Zenon
  <2>4. Matches(piece, source.content, Len(out) + Len(batch))
    <3> HIDE DEF taken, piece
    <3> QED BY <1>6, <2>2, <2>3 DEF Matches
  <2>5. Matches(batch', source'.content, Len(out'))
    BY <1>7, <2>1, <2>4, Zenon
  <2>6. Matches(out', source'.content, 0)
    BY <1>1, <2>1, Zenon
  <2>7. CurRight'
    BY <1>1, <2>1, Zenon DEF CurRight
  <2> QED BY <2>5, <2>6, <2>7 DEF ValuesRight
<1> QED
  BY <1>1, <1>3, <1>13, <1>14, <1>15, Zenon DEF IInv

LEMMA TakeLiteralsIInv == IInv /\ TakeLiterals => IInv'
<1> SUFFICES ASSUME IInv, TakeLiterals PROVE IInv'
  OBVIOUS
<1> DEFINE taken == Least(Remaining, lit)
           piece == Literals(taken)
           run   == source.runs[next - 1]
<1>1. /\ Remaining > 0 /\ rep = 0 /\ lit > 0 /\ taken <= have
      /\ batch' = batch \o piece /\ lit' = lit - taken /\ have' = have - taken
      /\ UNCHANGED <<source, next, cur, rep, want, out>>
  BY DEF TakeLiterals
<1>2. want > 0 /\ Remaining \in Nat /\ Remaining = want - Len(batch)
  BY <1>1, RemainingFacts, Zenon
<1>3. source.coding = "rle" /\ Placed /\ (~ValueMissing(source) => ValuesRight)
  BY <1>2, UnderWay, Zenon
<1>4. /\ Len(out) \in Nat /\ Len(batch) \in Nat /\ cur \in Nat
      /\ rep \in Nat /\ lit \in Nat /\ want \in Nat /\ have \in Nat
      /\ source.content \in Seq(Nat) /\ Len(source.content) \in Nat
  BY NumbersAreNumbers, Zenon DEF IInv
<1>5. taken \in Nat /\ taken <= Remaining /\ taken <= lit
  BY <1>2, <1>4 DEF Least
<1>6. next # 1
  BY <1>1, <1>3 DEF Placed
<1>7. /\ run.literal
      /\ run.from \in Nat /\ run.count \in Nat
      /\ run.from + run.count <= Len(source.content)
      /\ Len(out) + Len(batch) = run.from + run.count - rep - lit
      /\ rep <= run.count /\ lit <= run.count
  BY <1>1, <1>3, <1>6, InRun, Zenon
<1>8. /\ Len(out) + (Len(batch) + taken)
            = run.from + run.count - rep - (lit - taken)
      /\ Len(out) + Len(batch) + taken <= Len(source.content)
      /\ lit - taken <= run.count
      /\ \A i \in 1..taken :
            /\ run.from + run.count - lit + i = Len(out) + Len(batch) + i
            /\ Len(out) + Len(batch) + i \in 1..Len(source.content)
  <2> DEFINE o == Len(out)
             b == Len(batch)
             f == run.from
             c == run.count
             n == Len(source.content)
  <2>1. o \in Nat /\ b \in Nat /\ f \in Nat /\ c \in Nat /\ n \in Nat
        /\ rep = 0 /\ lit \in Nat /\ lit <= c
        /\ o + b = f + c - rep - lit /\ f + c <= n
    BY <1>1, <1>4, <1>7, Zenon
  <2>2. taken \in 0..lit
    BY <1>4, <1>5
  <2>3. /\ o + (b + taken) = f + c - rep - (lit - taken)
        /\ o + b + taken <= n
        /\ lit - taken <= c
        /\ \A i \in 1..taken : /\ f + c - lit + i = o + b + i
                               /\ o + b + i \in 1..n
    <3> HIDE DEF o, b, f, c, n, taken
    <3> QED BY <2>1, <2>2
  <2> QED BY <2>3
<1>9. /\ piece \in Seq(Nat) /\ Len(piece) = taken
      /\ \A i \in 1..taken :
            piece[i] = source.content[Len(out) + Len(batch) + i]
  <2>1. piece = [i \in 1..taken |->
                    source.content[run.from + run.count - lit + i]]
    BY DEF Literals
  <2> HIDE DEF piece, taken, run
  <2>2. \A i \in 1..taken :
           source.content[run.from + run.count - lit + i]
              = source.content[Len(out) + Len(batch) + i]
    BY <1>8
  <2>3. \A i \in 1..taken : source.content[Len(out) + Len(batch) + i] \in Nat
    BY <1>4, <1>8, ElementOfSeq
  <2>4. piece \in [1..taken -> Nat]
    BY <2>1, <2>2, <2>3
  <2>5. \A i \in 1..taken :
           piece[i] = source.content[Len(out) + Len(batch) + i]
    BY <2>1, <2>2
  <2>6. piece \in Seq(Nat)
    BY <1>5, <2>4
  <2>7. DOMAIN piece = 1..taken
    BY <2>1
  <2>8. Len(piece) = taken
    BY <1>5, <2>6, <2>7, LenProperties
  <2> QED BY <2>5, <2>6, <2>8
<1>10. /\ batch' \in Seq(Nat) /\ Len(batch') = Len(batch) + taken
       /\ Len(batch') <= want' /\ Len(out') = Len(out)
       /\ /\ Matches(batch, source.content, Len(out))
          /\ Matches(piece, source.content, Len(out) + Len(batch))
          => Matches(batch', source'.content, Len(out'))
  <2> HIDE DEF taken, piece
  <2> QED BY <1>1, <1>3, <1>5, <1>9, Grows, Zenon
<1>11. lit' \in Nat /\ have' \in Nat
  BY <1>1, <1>4, <1>5
<1>12. TypeOK'
  BY <1>1, <1>10, <1>11, Zenon DEF IInv, TypeOK
<1>13. Placed'
  <2>1. /\ Len(out') + Len(batch') = run.from + run.count - rep' - lit'
        /\ rep' <= run.count /\ lit' <= run.count
    <3> HIDE DEF taken, piece, run
    <3> QED BY <1>1, <1>7, <1>8, <1>10, Zenon
  <2> QED BY <1>1, <1>6, <1>7, <2>1, PlacedAfter, Zenon
<1>14. ASSUME ~ValueMissing(source) PROVE ValuesRight'
  <2>1. Matches(out, source.content, 0)
        /\ Matches(batch, source.content, Len(out))
    BY <1>3, <1>14, Zenon DEF ValuesRight
  <2>2. Matches(piece, source.content, Len(out) + Len(batch))
    <3> HIDE DEF taken, piece
    <3>1. Len(out) + Len(batch) + Len(piece) <= Len(source.content)
      BY <1>8, <1>9, Zenon
    <3>2. \A i \in 1..Len(piece) :
             piece[i] = source.content[Len(out) + Len(batch) + i]
      BY <1>9, Zenon
    <3> QED BY <3>1, <3>2, Zenon DEF Matches
  <2>3. Matches(batch', source'.content, Len(out'))
    BY <1>10, <2>1, <2>2, Zenon
  <2>4. ~(rep' > 0)
    BY <1>1
  <2>5. Matches(out', source'.content, 0)
    BY <1>1, <2>1, Zenon
  <2> QED BY <2>3, <2>4, <2>5, Zenon DEF ValuesRight, CurRight
<1>15. Intact(source) => have' = lit'
  <2>1. Intact(source) => have = lit
    BY DEF IInv
  <2> QED BY <1>1, <2>1
<1> QED
  BY <1>1, <1>3, <1>12, <1>13, <1>14, <1>15, Zenon DEF IInv

-----------------------------------------------------------------------------
(* The batch is handed out.                                                *)
LEMMA Returned ==
    ASSUME IInv, source.coding = "rle", want > 0, Return, source' = source
    PROVE  /\ out' \in Seq(Nat) /\ Len(out') = Len(out) + Len(batch)
           /\ batch' = <<>> /\ batch' \in Seq(Nat) /\ Len(batch') = 0
           /\ want' = 0 /\ want' \in 0..MaxBatch /\ Len(batch') <= want'
           /\ Len(out') + want' <= source'.num
           /\ Len(out') + Len(batch') = Len(out) + Len(batch)
           /\ ~ValueMissing(source) =>
                 /\ Matches(out', source'.content, 0)
                 /\ Matches(batch', source'.content, Len(out'))
<1>1. /\ out' = out \o batch /\ batch' = <<>> /\ want' = 0
  BY DEF Return
<1>2. /\ out \in Seq(Nat) /\ batch \in Seq(Nat) /\ source.content \in Seq(Nat)
      /\ Len(out) \in Nat /\ Len(batch) \in Nat /\ want \in Nat
      /\ Len(source.content) \in Nat /\ source.num \in Nat /\ MaxBatch \in Nat
      /\ Len(batch) <= want /\ Len(out) + want <= source.num
  BY NumbersAreNumbers, Zenon DEF IInv, TypeOK
<1>3. out \o batch \in Seq(Nat) /\ Len(out \o batch) = Len(out) + Len(batch)
  BY <1>2, ConcatProperties
<1>4. <<>> \in Seq(Nat) /\ Len(<<>>) = 0
  OBVIOUS
<1>5. Len(out') = Len(out) + Len(batch) /\ Len(batch') = 0
  BY <1>1, <1>3, <1>4, Zenon
<1>6. /\ want' \in 0..MaxBatch /\ Len(batch') <= want'
      /\ Len(out') + want' <= source.num
      /\ Len(out') + Len(batch') = Len(out) + Len(batch)
  BY <1>1, <1>2, <1>5
<1>7. source'.num = source.num
  OBVIOUS
<1>8. ASSUME ~ValueMissing(source)
      PROVE  /\ Matches(out', source.content, 0)
             /\ Matches(batch', source.content, Len(out'))
  <2>1. Matches(out, source.content, 0)
        /\ Matches(batch, source.content, Len(out))
    BY <1>8, UnderWay, Zenon DEF ValuesRight
  <2>2. 0 + Len(out) = Len(out)
    BY <1>2
  <2>3. Matches(out', source.content, 0)
    BY <1>1, <1>2, <2>1, <2>2, MatchesConcat, Zenon
  <2>4. 0 + Len(out') <= Len(source.content)
    BY <2>3, Zenon DEF Matches
  <2>5. Len(out') \in 0..Len(source.content)
    BY <1>2, <1>5, <2>4
  <2>6. Matches(<<>>, source.content, Len(out'))
    BY <1>2, <2>5, EmptyMatches, Zenon
  <2> QED BY <1>1, <2>3, <2>6, Zenon
<1> QED BY <1>1, <1>3, <1>4, <1>5, <1>6, <1>7, <1>8, Zenon

(* A batch that is handed out with the decoder where it was.               *)
LEMMA ReturnIInv ==
    ASSUME IInv, want > 0, Return, UNCHANGED <<source, next, cur, rep, lit>>,
           have' \in Nat, Intact(source) => have' = lit
    PROVE  IInv'
<1>1. source.coding = "rle" /\ Placed /\ (~ValueMissing(source) => ValuesRight)
  BY UnderWay, Zenon
<1>2. /\ out' \in Seq(Nat) /\ batch' \in Seq(Nat)
      /\ want' \in 0..MaxBatch /\ Len(batch') <= want'
      /\ Len(out') + want' <= source'.num
      /\ Len(out') + Len(batch') = Len(out) + Len(batch)
      /\ ~ValueMissing(source) =>
            /\ Matches(out', source'.content, 0)
            /\ Matches(batch', source'.content, Len(out'))
  BY <1>1, Returned, Zenon
<1>3. TypeOK'
  BY <1>2, Zenon DEF IInv, TypeOK
<1>4. Placed'
  BY <1>1, <1>2, Zenon DEF Placed
<1>5. ~ValueMissing(source) => ValuesRight'
  BY <1>1, <1>2, Zenon DEF ValuesRight, CurRight
<1> QED BY <1>1, <1>3, <1>4, <1>5, Zenon DEF IInv

LEMMA BatchFullIInv == IInv /\ BatchFull => IInv'
<1> SUFFICES ASSUME IInv, BatchFull PROVE IInv'
  OBVIOUS
<1>1. want > 0 /\ Return /\ UNCHANGED <<source, next, cur, rep, lit, have>>
  BY DEF BatchFull
<1>2. have \in Nat /\ (Intact(source) => have = lit)
  BY Zenon DEF IInv, TypeOK
<1> QED BY <1>1, <1>2, ReturnIInv, Zenon

LEMMA LiteralsCutIInv == IInv /\ LiteralsCut => IInv'
<1> SUFFICES ASSUME IInv, LiteralsCut PROVE IInv'
  OBVIOUS
<1>1. /\ Remaining > 0 /\ have < Least(Remaining, lit) /\ have' = 0
      /\ Return /\ UNCHANGED <<source, next, cur, rep, lit>>
  BY DEF LiteralsCut
<1>2. want > 0 /\ Remaining \in Nat
  BY <1>1, RemainingFacts, Zenon
<1>3. have \in Nat /\ lit \in Nat
  BY DEF IInv, TypeOK
<1>4. have # lit
  BY <1>1, <1>2, <1>3 DEF Least
<1>5. ~Intact(source)
  BY <1>4, Zenon DEF IInv
<1>6. have' \in Nat
  BY <1>1
<1> QED BY <1>1, <1>2, <1>5, <1>6, ReturnIInv, Zenon

LEMMA NoMoreRunsIInv == IInv /\ NoMoreRuns => IInv'
<1> SUFFICES ASSUME IInv, NoMoreRuns PROVE IInv'
  OBVIOUS
<1>1. /\ Remaining > 0 /\ Return
      /\ UNCHANGED <<source, next, cur, rep, lit, have>>
  BY DEF NoMoreRuns, CountsUsed
<1>2. want > 0
  BY <1>1, RemainingFacts, Zenon
<1>3. have \in Nat /\ (Intact(source) => have = lit)
  BY Zenon DEF IInv, TypeOK
<1> QED BY <1>1, <1>2, <1>3, ReturnIInv, Zenon

-----------------------------------------------------------------------------
(* The next run.                                                           *)
LEMMA NextRun ==
    ASSUME IInv, CountsUsed, next <= Len(source.runs)
    PROVE  LET run == source.runs[next]
           IN  /\ want > 0 /\ source.coding = "rle"
               /\ run.literal \in BOOLEAN
               /\ run.from \in Nat /\ run.count \in Nat /\ run.present \in Nat
               /\ run.value \in Nat
               /\ Len(out) + Len(batch) = run.from
               /\ run.from = run.from + run.count - run.count
               /\ next + 1 # 1 /\ (next + 1) - 1 = next
               /\ next + 1 \in 1..(Len(source.runs) + 1)
               /\ next \in DOMAIN source.runs
               /\ run.from + run.count <= Len(source.content)
<1> DEFINE run == source.runs[next]
<1>1. want > 0 /\ source.coding = "rle" /\ Placed
  BY RemainingFacts, UnderWay, Zenon DEF CountsUsed
<1>2. source \in Sources /\ next \in Nat \ {0} /\ Len(source.runs) \in Nat
  BY NumbersAreNumbers DEF IInv, TypeOK
<1>3. next \in 1..Len(source.runs)
  BY <1>2
<1>4. /\ run.literal \in BOOLEAN
      /\ run.from \in Nat /\ run.count \in Nat /\ run.present \in Nat
      /\ run.value \in Nat
      /\ run.from + run.count <= Len(source.content)
  BY <1>2, <1>3, RunFacts, Zenon
<1>5. Len(out) + Len(batch) = run.from
  BY <1>1, BetweenRuns, Zenon DEF CountsUsed
<1>6. run.from = run.from + run.count - run.count
  <2> HIDE DEF run
  <2> QED BY <1>4
<1>7. source.runs \in Seq(Run)
  BY <1>2, SourceFacts, Zenon
<1>8. next \in DOMAIN source.runs
  BY <1>3, <1>7, LenProperties
<1>9. next + 1 # 1 /\ (next + 1) - 1 = next
      /\ next + 1 \in 1..(Len(source.runs) + 1)
  BY <1>2, <1>3
<1> QED BY <1>1, <1>4, <1>5, <1>6, <1>8, <1>9, Zenon

LEMMA NextLiteralIInv == IInv /\ NextLiteral => IInv'
<1> SUFFICES ASSUME IInv, NextLiteral PROVE IInv'
  OBVIOUS
<1> DEFINE run == source.runs[next]
<1>1. /\ CountsUsed /\ next <= Len(source.runs) /\ run.literal
      /\ lit' = run.count /\ have' = run.present /\ next' = next + 1
      /\ UNCHANGED <<source, cur, rep, want, batch, out>>
  BY DEF NextLiteral
<1>2. /\ want > 0 /\ source.coding = "rle"
      /\ run.from \in Nat /\ run.count \in Nat /\ run.present \in Nat
      /\ Len(out) + Len(batch) = run.from
      /\ next + 1 # 1 /\ (next + 1) - 1 = next
      /\ next + 1 \in 1..(Len(source.runs) + 1)
      /\ next \in DOMAIN source.runs
  BY <1>1, NextRun, Zenon
<1>3. rep = 0 /\ (~ValueMissing(source) => ValuesRight)
  BY <1>1, <1>2, UnderWay, Zenon DEF CountsUsed
<1>4. TypeOK'
  BY <1>1, <1>2, Zenon DEF IInv, TypeOK
<1>5. Placed'
  <2>1. /\ Len(out') + Len(batch') = run.from + run.count - rep' - lit'
        /\ rep' <= run.count /\ lit' <= run.count
    <3> DEFINE f == run.from
               c == run.count
               p == Len(out) + Len(batch)
    <3>1. f \in Nat /\ c \in Nat /\ p = f
      BY <1>2
    <3>2. p = f + c - 0 - c /\ 0 <= c /\ c <= c
      <4> HIDE DEF f, c, p
      <4> QED BY <3>1
    <3> QED BY <1>1, <1>3, <3>2, Zenon
  <2>2. rep' = 0
    BY <1>1, <1>3
  <2>3. source'.runs[next' - 1] = run
    BY <1>1, <1>2, Zenon
  <2>4. next' # 1
    BY <1>1, <1>2, Zenon
  <2> QED BY <1>1, <2>1, <2>2, <2>3, <2>4, PlacedAfter, Zenon
<1>6. ~ValueMissing(source) => ValuesRight'
  <2>1. ~(rep' > 0)
    BY <1>1, <1>3
  <2> QED BY <1>1, <1>3, <2>1, Zenon DEF ValuesRight, CurRight
<1>7. Intact(source) => have' = lit'
  BY <1>1, <1>2, Zenon DEF Intact
<1> QED BY <1>1, <1>2, <1>4, <1>5, <1>6, <1>7, Zenon DEF IInv

LEMMA NextRepeatedIInv == IInv /\ NextRepeated => IInv'
<1> SUFFICES ASSUME IInv, NextRepeated PROVE IInv'
  OBVIOUS
<1> DEFINE run == source.runs[next]
<1>1. /\ CountsUsed /\ next <= Len(source.runs) /\ ~run.literal
      /\ rep' = run.count
      /\ cur' = run.value
      /\ next' = next + 1
      /\ UNCHANGED <<source, lit, have, want, batch, out>>
  BY DEF NextRepeated
<1>2. /\ want > 0 /\ source.coding = "rle"
      /\ run.from \in Nat /\ run.count \in Nat /\ run.value \in Nat
      /\ Len(out) + Len(batch) = run.from
      /\ next + 1 # 1 /\ (next + 1) - 1 = next
      /\ next + 1 \in 1..(Len(source.runs) + 1)
      /\ run.from + run.count <= Len(source.content)
  BY <1>1, NextRun, Zenon
<1>3. lit = 0 /\ (~ValueMissing(source) => ValuesRight)
  BY <1>1, <1>2, UnderWay, Zenon DEF CountsUsed
<1>4. source.content \in Seq(Nat) /\ Len(source.content) \in Nat /\ cur \in Nat
  BY NumbersAreNumbers, Zenon DEF IInv
<1>5. cur' \in Nat
  BY <1>1, <1>2
<1>6. TypeOK'
  BY <1>1, <1>2, <1>5, Zenon DEF IInv, TypeOK
<1>7. Placed'
  <2>1. /\ Len(out') + Len(batch') = run.from + run.count - rep' - lit'
        /\ rep' <= run.count /\ lit' <= run.count
    <3> DEFINE f == run.from
               c == run.count
               p == Len(out) + Len(batch)
    <3>1. f \in Nat /\ c \in Nat /\ p = f
      BY <1>2
    <3>2. p = f + c - c - 0 /\ 0 <= c /\ c <= c
      <4> HIDE DEF f, c, p
      <4> QED BY <3>1
    <3> QED BY <1>1, <1>3, <3>2, Zenon
  <2>2. lit' = 0
    BY <1>1, <1>3
  <2>3. source'.runs[next' - 1] = run
    BY <1>1, <1>2, Zenon
  <2>4. next' # 1
    BY <1>1, <1>2, Zenon
  <2> QED BY <1>1, <2>1, <2>2, <2>3, <2>4, PlacedAfter, Zenon
<1>8. ~ValueMissing(source) => ValuesRight'
  <2>2. CurRight'
    BY <1>1, <1>2, Zenon DEF CurRight
  <2> QED BY <1>1, <1>3, <2>2, Zenon DEF ValuesRight
<1>9. Intact(source) => have' = lit'
  BY <1>1, Zenon DEF IInv
<1> QED BY <1>1, <1>2, <1>6, <1>7, <1>8, <1>9, Zenon DEF IInv

LEMMA RepeatedCutIInv == IInv /\ RepeatedCut => IInv'
<1> SUFFICES ASSUME IInv, RepeatedCut PROVE IInv'
  OBVIOUS
<1> DEFINE run == source.runs[next]
<1>1. /\ CountsUsed /\ next <= Len(source.runs) /\ ~run.literal
      /\ run.present < run.count
      /\ rep' = run.count /\ next' = next + 1 /\ Return
      /\ UNCHANGED <<source, cur, lit, have>>
  BY DEF RepeatedCut
<1>2. /\ want > 0 /\ source.coding = "rle"
      /\ run.from \in Nat /\ run.count \in Nat /\ run.present \in Nat
      /\ Len(out) + Len(batch) = run.from
      /\ next + 1 # 1 /\ (next + 1) - 1 = next
      /\ next + 1 \in 1..(Len(source.runs) + 1)
      /\ next \in DOMAIN source.runs
  BY <1>1, NextRun, Zenon
<1>3. lit = 0
  BY <1>1 DEF CountsUsed
<1>4. ValueMissing(source)
  BY <1>1, <1>2, Zenon DEF ValueMissing
<1>5. /\ out' \in Seq(Nat) /\ batch' \in Seq(Nat)
      /\ want' \in 0..MaxBatch /\ Len(batch') <= want'
      /\ Len(out') + want' <= source'.num
      /\ Len(out') + Len(batch') = Len(out) + Len(batch)
  BY <1>1, <1>2, Returned, Zenon
<1>6. TypeOK'
  BY <1>1, <1>2, <1>5, Zenon DEF IInv, TypeOK
<1>7. Placed'
  <2>1. /\ Len(out') + Len(batch') = run.from + run.count - rep' - lit'
        /\ rep' <= run.count /\ lit' <= run.count
    <3> DEFINE f == run.from
               c == run.count
               p == Len(out) + Len(batch)
    <3>1. f \in Nat /\ c \in Nat /\ p = f
      BY <1>2
    <3>2. p = f + c - c - 0 /\ 0 <= c /\ c <= c
      <4> HIDE DEF f, c, p
      <4> QED BY <3>1
    <3> QED BY <1>1, <1>3, <1>5, <3>2, Zenon
  <2>2. lit' = 0
    BY <1>1, <1>3
  <2>3. source'.runs[next' - 1] = run
    BY <1>1, <1>2, Zenon
  <2>4. next' # 1
    BY <1>1, <1>2, Zenon
  <2> QED BY <1>1, <2>1, <2>2, <2>3, <2>4, PlacedAfter, Zenon
<1>8. ~Intact(source)
  <2>1. run.present # run.count
    BY <1>1, <1>2
  <2> QED BY <1>2, <2>1, Zenon DEF Intact
<1> QED BY <1>1, <1>2, <1>4, <1>6, <1>7, <1>8, Zenon DEF IInv

-----------------------------------------------------------------------------
(* A batch begins.                                                         *)
LEMMA AskedFacts ==
    ASSUME IInv, Idle, NEW n \in 1..MaxBatch
    PROVE  /\ Asked(n) \in 0..MaxBatch
           /\ Len(out) + Asked(n) <= source.num
           /\ batch = <<>> /\ Len(batch) = 0
           /\ Len(out) + Asked(n) = Least(Len(out) + n, source.num)
<1>1. /\ Len(out) \in Nat /\ source.num \in Nat /\ MaxBatch \in Nat
      /\ Len(batch) \in Nat /\ batch \in Seq(Nat)
      /\ Len(batch) <= want /\ Len(out) + want <= source.num /\ want = 0
  BY NumbersAreNumbers, Zenon DEF IInv, TypeOK, Idle
<1>2. Len(out) <= source.num /\ Len(batch) = 0
  BY <1>1
<1>3. batch = <<>>
  BY <1>1, <1>2, EmptySeq
<1>4. /\ Asked(n) \in 0..MaxBatch
      /\ Len(out) + Asked(n) <= source.num
      /\ Len(out) + Asked(n) = Least(Len(out) + n, source.num)
  <2> DEFINE num == source.num
             o   == Len(out)
  <2>1. o \in Nat /\ num \in Nat /\ o <= num /\ MaxBatch \in Nat
    BY <1>1, <1>2
  <2>2. /\ Least(n, num - o) \in 0..MaxBatch
        /\ o + Least(n, num - o) <= num
        /\ o + Least(n, num - o) = Least(o + n, num)
    <3> HIDE DEF num, o
    <3> QED BY <2>1 DEF Least
  <2> QED BY <2>2 DEF Asked
<1> QED BY <1>2, <1>3, <1>4

LEMMA BeginBatchIInv ==
    ASSUME NEW n \in 1..MaxBatch
    PROVE  IInv /\ BeginBatch(n) => IInv'
<1> SUFFICES ASSUME IInv, BeginBatch(n) PROVE IInv'
  OBVIOUS
<1>1. /\ Idle /\ source.coding = "rle" /\ want' = Asked(n)
      /\ UNCHANGED <<source, next, cur, rep, lit, have, batch, out>>
  BY DEF BeginBatch
<1>2. /\ want' \in 0..MaxBatch /\ Len(out) + want' <= source.num
      /\ Len(batch) = 0
  BY <1>1, AskedFacts, Zenon
<1>3. Len(batch) <= want'
  <2>1. MaxBatch \in Nat
    BY SourcesAssumption
  <2> QED BY <1>2, <2>1
<1>4. TypeOK'
  BY <1>1, <1>2, <1>3, Zenon DEF IInv, TypeOK
<1>5. Placed' /\ (~ValueMissing(source) => ValuesRight')
  BY <1>1, Zenon DEF IInv, Placed, ValuesRight, CurRight
<1> QED BY <1>1, <1>4, <1>5, Zenon DEF IInv

LEMMA ReadUncodedIInv ==
    ASSUME NEW n \in 1..MaxBatch
    PROVE  IInv /\ ReadUncoded(n) => IInv'
<1> SUFFICES ASSUME IInv, ReadUncoded(n) PROVE IInv'
  OBVIOUS
<1> DEFINE k == Least(Len(out) + Asked(n), Len(source.content))
<1>1. /\ Idle /\ source.coding # "rle"
      /\ out' = SubSeq(source.content, 1, k)
      /\ UNCHANGED <<source, next, cur, rep, lit, have, want, batch>>
  BY DEF ReadUncoded
<1>2. /\ Asked(n) \in 0..MaxBatch /\ Len(out) + Asked(n) <= source.num
      /\ MaxBatch \in Nat /\ source.num \in Nat /\ Len(out) \in Nat
      /\ source.content \in Seq(Nat) /\ Len(source.content) \in Nat
  BY <1>1, AskedFacts, NumbersAreNumbers, Zenon DEF IInv
<1>3. k \in 0..Len(source.content) /\ k <= source.num
  <2> DEFINE a == Asked(n)
             o == Len(out)
             m == Len(source.content)
             num == source.num
  <2>1. a \in 0..MaxBatch /\ MaxBatch \in Nat /\ o \in Nat /\ m \in Nat
        /\ num \in Nat /\ o + a <= num
    BY <1>2, Zenon
  <2>2. Least(o + a, m) \in 0..m /\ Least(o + a, m) <= num
    <3> HIDE DEF a, o, m, num
    <3> QED BY <2>1 DEF Least
  <2> QED BY <2>2
<1>4. out' \in Seq(Nat) /\ Len(out') = k /\ Matches(out', source.content, 0)
  <2> HIDE DEF k
  <2> QED BY <1>1, <1>2, <1>3, SubSeqMatches, Zenon
<1>5. Unused /\ want = 0
  BY <1>1, Zenon DEF IInv, Idle
<1>6. Len(out') + want' <= source'.num
  <2> HIDE DEF k
  <2>1. k + 0 = k
    BY <1>3
  <2> QED BY <1>1, <1>3, <1>4, <1>5, <2>1, Zenon
<1>7. TypeOK'
  BY <1>1, <1>4, <1>6, Zenon DEF IInv, TypeOK
<1>8. Unused'
  BY <1>1, <1>4, <1>5, Zenon DEF Unused
<1> QED BY <1>1, <1>7, <1>8, Zenon DEF IInv

-----------------------------------------------------------------------------
LEMMA NextIInv == IInv /\ [Next]_vars => IInv'
<1> SUFFICES ASSUME IInv, [Next]_vars PROVE IInv'
  OBVIOUS
<1>1. CASE Reset
  BY <1>1, ResetIInv
<1>2. ASSUME NEW n \in 1..MaxBatch, BeginBatch(n) PROVE IInv'
  BY <1>2, BeginBatchIInv
<1>3. ASSUME NEW n \in 1..MaxBatch, ReadUncoded(n) PROVE IInv'
  BY <1>3, ReadUncodedIInv
<1>4. CASE Round
  BY <1>4, BatchFullIInv, TakeRepeatsIInv, TakeLiteralsIInv, LiteralsCutIInv,
     NextLiteralIInv, NextRepeatedIInv, RepeatedCutIInv, NoMoreRunsIInv
     DEF Round
<1>5. CASE UNCHANGED vars
  BY <1>5, Zenon DEF vars, IInv, TypeOK, Unused, Placed, ValuesRight, CurRight
<1> QED BY <1>1, <1>2, <1>3, <1>4, <1>5 DEF Next

(* The decoder is always in a state its Init and steps allow for.          *)
THEOREM IInvHolds == Spec => []IInv
<1>1. Init => IInv
  BY InitIInv
<1>2. IInv /\ [Next]_vars => IInv'
  BY NextIInv
<1> QED BY <1>1, <1>2, PTL DEF Spec

(* Counts, batches and levels handed out stay within their bounds; no page *)
(* gives more levels than its num_values.                                  *)
THEOREM DecoderTypeCorrect == Spec => []TypeOK
<1>1. IInv => TypeOK
  BY DEF IInv
<1> QED BY <1>1, IInvHolds, PTL

(* What read_batch hands out is, in order and without a gap, what the      *)
(* source stands for, for sources and batches of any size, wherever the    *)
(* batches end in the runs.                                                *)
THEOREM GivenInOrderHolds == Spec => []GivenInOrder
<1>1. ASSUME IInv PROVE GivenInOrder
  <2>1. SUFFICES ASSUME ~ValueMissing(source),
                        NEW i \in 1..Len(out \o batch)
                 PROVE  /\ i <= Len(source.content)
                        /\ (out \o batch)[i] = source.content[i]
    BY Zenon DEF GivenInOrder
  <2>2. out \in Seq(Nat) /\ batch \in Seq(Nat) /\ source.content \in Seq(Nat)
        /\ Len(out) \in Nat /\ Len(source.content) \in Nat
    BY <1>1, NumbersAreNumbers, Zenon DEF IInv, TypeOK
  <2>3. Matches(out, source.content, 0)
        /\ Matches(batch, source.content, Len(out))
    <3>1. CASE source.coding = "rle"
      BY <1>1, <2>1, <3>1, Zenon DEF IInv, ValuesRight
    <3>2. CASE source.coding # "rle"
      <4>1. batch = <<>> /\ Matches(out, source.content, 0)
        BY <1>1, <3>2, Zenon DEF IInv, Unused
      <4>2. Len(out) \in 0..Len(source.content)
        BY <2>2, <4>1 DEF Matches
      <4> QED BY <2>2, <4>1, <4>2, EmptyMatches, Zenon
    <3> QED BY <3>1, <3>2
  <2>4. 0 + Len(out) = Len(out)
    BY <2>2
  <2>5. Matches(out \o batch, source.content, 0)
    BY <2>2, <2>3, <2>4, MatchesConcat, Zenon
  <2>6. (out \o batch)[i] = source.content[0 + i] /\ 0 + i = i
    BY <2>5 DEF Matches
  <2>7. i <= Len(source.content)
    <3>1. Len(out \o batch) \in Nat
      BY <2>2, ConcatProperties
    <3>2. 0 + Len(out \o batch) <= Len(source.content)
      BY <2>5, Zenon DEF Matches
    <3> QED BY <2>2, <3>1, <3>2
  <2> QED BY <2>6, <2>7
<1> QED BY <1>1, IInvHolds, PTL

-----------------------------------------------------------------------------
(* A source is read as BatchReader says.                                   *)
LEMMA ContentsFacts ==
    ASSUME NEW s \in Sources
    PROVE  /\ Contents(s) \in Seq(Nat)
           /\ Len(Contents(s)) = Least(s.num, Len(s.content))
           /\ \A k \in 0..Len(Contents(s)) :
                 SubSeq(Contents(s), 1, k) = SubSeq(s.content, 1, k)
<1> DEFINE n == Least(s.num, Len(s.content))
<1>1. s.num \in Nat /\ s.content \in Seq(Nat) /\ Len(s.content) \in Nat
  BY SourceFacts, Zenon
<1>2. n \in 0..Len(s.content)
  <2> DEFINE a == s.num
             b == Len(s.content)
  <2>1. a \in Nat /\ b \in Nat
    BY <1>1
  <2>2. Least(a, b) \in 0..b
    <3> HIDE DEF a, b
    <3> QED BY <2>1 DEF Least
  <2> QED BY <2>2
<1>3. Contents(s) = SubSeq(s.content, 1, n)
  BY DEF Contents
<1> HIDE DEF n
<1>4. Contents(s) \in Seq(Nat) /\ Len(Contents(s)) = n
  BY <1>1, <1>2, <1>3, SubSeqMatches, Zenon
<1>5. \A k \in 0..n : SubSeq(SubSeq(s.content, 1, n), 1, k)
                        = SubSeq(s.content, 1, k)
  BY <1>1, <1>2, SubSeqShorter, Zenon
<1> QED BY <1>3, <1>4, <1>5, Zenon DEF n

LEMMA ReturnReads ==
    ASSUME IInv, want > 0, Return, source' = source, Intact(source),
           Len(out) + Len(batch)
               = Least(Len(out) + want, Len(Contents(source)))
    PROVE  Reader!Next
<1>1. source.coding = "rle" /\ source \in Sources
  BY UnderWay, Zenon DEF IInv, TypeOK
<1>2. ~ValueMissing(source)
  <2>1. ASSUME NEW k \in DOMAIN source.runs,
               source.runs[k].present < source.runs[k].count
        PROVE  FALSE
    <3>1. source.runs[k].present = source.runs[k].count
      BY Zenon DEF Intact
    <3>2. DOMAIN source.runs = 1..Len(source.runs)
      BY <1>1, SourceFacts, LenProperties
    <3>3. source.runs[k].count \in Nat
      BY <1>1, <3>2, RunFacts, Zenon
    <3> QED BY <2>1, <3>1, <3>3
  <2> QED BY <2>1, Zenon DEF ValueMissing
<1>3. out' \in Seq(Nat) /\ Len(out') = Len(out) + Len(batch)
      /\ Matches(out', source.content, 0)
  BY <1>1, <1>2, Returned, Zenon
<1>4. source.content \in Seq(Nat) /\ Len(out) \in Nat /\ want \in Nat
      /\ want <= MaxBatch /\ MaxBatch \in Nat
  BY NumbersAreNumbers, Zenon DEF IInv
<1>5. out' = SubSeq(source.content, 1, Len(out'))
  BY <1>3, <1>4, MatchesIsSubSeq, Zenon
<1>6. Len(out') \in 0..Len(Contents(source))
  <2>1. Len(Contents(source)) \in Nat
    BY <1>1, ContentsFacts, LenProperties
  <2>2. Len(out') \in Nat
    BY <1>3, LenProperties
  <2>3. Least(Len(out) + want, Len(Contents(source))) <= Len(Contents(source))
    BY <1>4, <2>1 DEF Least
  <2> QED BY <1>3, <2>1, <2>2, <2>3
<1>7. out' = SubSeq(Contents(source), 1, Len(out'))
  BY <1>1, <1>5, <1>6, ContentsFacts, Zenon
<1>8. Reader!Least(Len(out) + want, Len(Contents(source))) = Len(out')
  BY <1>3 DEF Reader!Least, Least
<1>9. Contents(source)' = Contents(source) /\ Intact(source)' = Intact(source)
  OBVIOUS
<1>10. Reader!Read(want)
  BY <1>3, <1>7, <1>8, <1>9, Zenon DEF Reader!Read
<1>11. want \in 1..MaxBatch
  BY <1>4
<1> QED BY <1>10, <1>11, Zenon DEF Reader!Next

(* Nothing is promised of a source that is cut.                            *)
LEMMA ReturnReadsCut ==
    ASSUME IInv, want > 0, Return, source' = source, ~Intact(source)
    PROVE  Reader!Next
<1>1. source.coding = "rle"
  BY UnderWay, Zenon
<1>2. out' \in Seq(Nat)
  BY <1>1, Returned, Zenon
<1>3. want \in 1..MaxBatch
  BY NumbersAreNumbers DEF IInv
<1>4. Contents(source)' = Contents(source) /\ Intact(source)' = Intact(source)
  OBVIOUS
<1>5. Reader!Read(want)
  BY <1>2, <1>4, Zenon DEF Reader!Read
<1> QED BY <1>3, <1>5, Zenon DEF Reader!Next

LEMMA AllGiven ==
    ASSUME NEW w \in Nat, NEW num \in Nat, NEW m \in Nat, m <= w, w <= num
    PROVE  m = Least(w, Least(num, m))
BY DEF Least

LEMMA FullGiven ==
    ASSUME NEW w \in Nat, NEW num \in Nat, NEW m \in Nat, w <= num, w <= m
    PROVE  w = Least(w, Least(num, m))
BY DEF Least

LEMMA BatchFullReads ==
    ASSUME IInv, BatchFull, Intact(source)
    PROVE  Reader!Next
<1>1. want > 0 /\ Remaining = 0 /\ Return /\ source' = source
  BY DEF BatchFull
<1>2. Placed /\ source \in Sources
  BY <1>1, UnderWay, Zenon DEF IInv, TypeOK
<1>3. /\ Len(out) \in Nat /\ want \in Nat /\ Len(batch) \in Nat
      /\ source.num \in Nat /\ Len(source.content) \in Nat
      /\ Len(out) + want <= source.num
  BY NumbersAreNumbers, Zenon DEF IInv, TypeOK
<1>4. Len(batch) = want
  BY <1>1, <1>3 DEF Remaining
<1>5. Len(out) + want <= Len(source.content)
  BY <1>2, <1>4, PositionWithin, Zenon
<1>6. Len(out) + want \in Nat
  BY <1>3
<1>7. Len(out) + want
        = Least(Len(out) + want, Least(source.num, Len(source.content)))
  BY <1>3, <1>5, <1>6, FullGiven, Zenon
<1>8. Len(out) + Len(batch) = Least(Len(out) + want, Len(Contents(source)))
  BY <1>2, <1>4, <1>7, ContentsFacts, Zenon
<1> QED BY <1>1, <1>8, ReturnReads, Zenon

LEMMA NoMoreRunsReads ==
    ASSUME IInv, NoMoreRuns, Intact(source)
    PROVE  Reader!Next
<1>1. /\ Remaining > 0 /\ rep = 0 /\ lit = 0 /\ next > Len(source.runs)
      /\ Return /\ source' = source
  BY DEF NoMoreRuns, CountsUsed
<1>2. want > 0 /\ Len(batch) < want
  BY <1>1, RemainingFacts, Zenon
<1>3. Placed /\ source \in Sources /\ source.coding = "rle"
  BY <1>2, UnderWay, Zenon DEF IInv, TypeOK
<1>4. /\ Len(out) \in Nat /\ want \in Nat /\ Len(batch) \in Nat
      /\ source.num \in Nat /\ Len(source.content) \in Nat
      /\ Len(out) + want <= source.num
  BY NumbersAreNumbers, Zenon DEF IInv, TypeOK
<1>5. Len(out) + Len(batch) = Len(source.content)
  BY <1>1, <1>3, BetweenRuns, Zenon
<1>6. /\ Len(out) + want \in Nat /\ Len(out) + Len(batch) \in Nat
      /\ Len(out) + Len(batch) <= Len(out) + want
  BY <1>2, <1>4
<1>7. Len(out) + Len(batch)
        = Least(Len(out) + want, Least(source.num, Len(source.content)))
  <2>1. Len(source.content) <= Len(out) + want
    BY <1>5, <1>6, Zenon
  <2>2. Len(source.content)
          = Least(Len(out) + want, Least(source.num, Len(source.content)))
    BY <1>4, <1>6, <2>1, AllGiven, Zenon
  <2> QED BY <1>5, <2>2, Zenon
<1>8. Len(out) + Len(batch) = Least(Len(out) + want, Len(Contents(source)))
  BY <1>3, <1>7, ContentsFacts, Zenon
<1> QED BY <1>1, <1>2, <1>8, ReturnReads, Zenon

LEMMA ReadUncodedReads ==
    ASSUME IInv, NEW n \in 1..MaxBatch, ReadUncoded(n)
    PROVE  Reader!Next
<1> DEFINE m == Len(source.content)
           k == Least(Len(out) + Asked(n), m)
           c == Len(Contents(source))
<1>1. /\ Idle /\ out' = SubSeq(source.content, 1, k) /\ source' = source
  BY DEF ReadUncoded
<1>2. /\ source \in Sources /\ Len(out) \in Nat /\ source.num \in Nat
      /\ m \in Nat /\ MaxBatch \in Nat
      /\ Len(out) + Asked(n) = Least(Len(out) + n, source.num)
  BY <1>1, AskedFacts, NumbersAreNumbers, Zenon DEF IInv, TypeOK
<1>3. c = Least(source.num, m)
  BY <1>2, ContentsFacts, Zenon
<1>4. k = Reader!Least(Len(out) + n, c) /\ k \in 0..c
  <2> DEFINE o   == Len(out)
             num == source.num
  <2>1. o \in Nat /\ num \in Nat /\ m \in Nat
    BY <1>2
  <2>2. /\ Least(Least(o + n, num), m) = Reader!Least(o + n, Least(num, m))
        /\ Least(Least(o + n, num), m) \in 0..Least(num, m)
    <3> HIDE DEF o, num, m
    <3> QED BY <2>1 DEF Least, Reader!Least
  <2> QED BY <1>2, <1>3, <2>2
<1>5. SubSeq(Contents(source), 1, k) = SubSeq(source.content, 1, k)
  BY <1>2, <1>4, ContentsFacts, Zenon
<1>6. out' = SubSeq(Contents(source), 1, Reader!Least(Len(out) + n, c))
  BY <1>1, <1>4, <1>5, Zenon
<1>7. Contents(source)' = Contents(source) /\ Intact(source)' = Intact(source)
  BY <1>1
<1>8. Reader!Read(n)
  <2>1. out' \in Seq(Nat)
    BY ReadUncodedIInv, Zenon DEF IInv, TypeOK
  <2> QED BY <1>6, <1>7, <2>1, Zenon DEF Reader!Read
<1> QED BY <1>8, Zenon DEF Reader!Next

(* Reading an intact source in batches of any sizes gives each batch in    *)
(* full until what the source stands for, or what its page says it holds,  *)
(* is used up; and a reset leaves nothing of the source before.            *)
THEOREM DecoderImplementsReader == Spec => ImplementsReader
<1>1. Init => Reader!Init
  <2>1. SUFFICES ASSUME Init PROVE Reader!Init
    OBVIOUS
  <2>2. source \in Sources /\ out = <<>>
    BY <2>1 DEF Init, Fresh
  <2>3. Contents(source) \in Seq(Nat)
    BY <2>2, ContentsFacts, Zenon
  <2>4. Intact(source) \in BOOLEAN
    BY DEF Intact
  <2> QED BY <2>2, <2>3, <2>4, Zenon DEF Reader!Init
<1>2. IInv /\ [Next]_vars => [Reader!Next]_(Reader!vars)
  <2> SUFFICES ASSUME IInv, [Next]_vars
               PROVE  Reader!Next \/ UNCHANGED Reader!vars
    OBVIOUS
  <2>1. source \in Sources
    BY Zenon DEF IInv, TypeOK
  <2>2. ASSUME source' = source, out' = out PROVE UNCHANGED Reader!vars
    BY <2>2 DEF Reader!vars
  <2>3. CASE Reset
    <3>1. source' \in Sources /\ out' = <<>>
      BY <2>3 DEF Reset, Fresh
    <3>2. Contents(source)' \in Seq(Nat)
      BY <3>1, ContentsFacts
    <3>3. Intact(source)' \in BOOLEAN
      BY DEF Intact
    <3> QED BY <3>1, <3>2, <3>3, Zenon DEF Reader!Reset, Reader!Next
  <2>4. ASSUME NEW n \in 1..MaxBatch, BeginBatch(n)
        PROVE  UNCHANGED Reader!vars
    BY <2>2, <2>4 DEF BeginBatch
  <2>5. ASSUME NEW n \in 1..MaxBatch, ReadUncoded(n) PROVE Reader!Next
    BY <2>5, ReadUncodedReads, Zenon
  <2>6. CASE Round
    <3>1. CASE TakeRepeats \/ TakeLiterals \/ NextLiteral \/ NextRepeated
      BY <2>2, <3>1 DEF TakeRepeats, TakeLiterals, NextLiteral, NextRepeated
    <3>2. CASE Intact(source) /\ (BatchFull \/ NoMoreRuns)
      BY <3>2, BatchFullReads, NoMoreRunsReads, Zenon
    <3>3. CASE /\ ~Intact(source)
               /\ BatchFull \/ NoMoreRuns \/ LiteralsCut \/ RepeatedCut
      <4>1. Return /\ source' = source /\ (want > 0 \/ Remaining > 0)
        BY <3>3 DEF BatchFull, NoMoreRuns, LiteralsCut, RepeatedCut, CountsUsed
      <4>2. want > 0
        BY <4>1, RemainingFacts, Zenon
      <4> QED BY <3>3, <4>1, <4>2, ReturnReadsCut, Zenon
    <3>4. ASSUME Intact(source) PROVE ~LiteralsCut
      <4>1. ASSUME LiteralsCut PROVE FALSE
        <5>1. /\ Remaining > 0 /\ have < Least(Remaining, lit)
          BY <4>1 DEF LiteralsCut
        <5>2. have \in Nat /\ have = lit
          BY <3>4, Zenon DEF IInv, TypeOK
        <5>3. Remaining \in Nat
          BY <5>1, RemainingFacts, Zenon
        <5> QED BY <5>1, <5>2, <5>3 DEF Least
      <4> QED BY <4>1
    <3>5. ASSUME Intact(source) PROVE ~RepeatedCut
      <4>1. ASSUME RepeatedCut PROVE FALSE
        <5>1. /\ CountsUsed /\ next <= Len(source.runs)
              /\ source.runs[next].present < source.runs[next].count
          BY <4>1 DEF RepeatedCut
        <5>2. next \in DOMAIN source.runs /\ source.runs[next].count \in Nat
          BY <5>1, NextRun, Zenon
        <5>3. source.runs[next].present = source.runs[next].count
          BY <3>5, <5>2, Zenon DEF Intact
        <5> QED BY <5>1, <5>2, <5>3
      <4> QED BY <4>1
    <3> QED BY <2>6, <3>1, <3>2, <3>3, <3>4, <3>5, Zenon DEF Round
  <2>7. CASE UNCHANGED vars
    BY <2>2, <2>7 DEF vars
  <2> QED BY <2>3, <2>4, <2>5, <2>6, <2>7 DEF Next
<1> QED
  BY <1>1, <1>2, IInvHolds, PTL DEF Spec, ImplementsReader, Reader!Spec
=============================================================================
