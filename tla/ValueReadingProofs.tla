------------------------ MODULE ValueReadingProofs ------------------------
(***************************************************************************)
(* What value_decoder gives of a page: for every width of a word, size of  *)
(* a block and page, the values it stands for, as long as it is read in    *)
(* batches (or, of a page of deltas, in its first batch), and never an     *)
(* exception of a page of this library's.                                  *)
(***************************************************************************)
EXTENDS ValueCodingProofs

-----------------------------------------------------------------------------
(* The first round of a page.                                              *)
Openable(numbers) == Len(numbers) >= 4 /\ numbers[2] > 0

FreshIs(bits, numbers, d) ==
    /\ d \in DeltaRecords(bits) /\ d.failed = FALSE
    /\ d.rest = Skipped(numbers, 4) /\ d.minis = numbers[2]
    /\ d.perMini = numbers[1] \div numbers[2] /\ d.remaining = numbers[3]
    /\ d.last = Wrap(bits, UnZigZag(numbers[4])) /\ d.width = 0
    /\ d.idx = d.minis /\ d.current = 0

LEMMA DividedType == \A a \in Nat : \A b \in Nat \ {0} : a \div b \in Nat
OBVIOUS

LEMMA Opened ==
    ASSUME NEW bits \in Nat, NEW numbers \in Seq(Nat)
    PROVE  IF Openable(numbers) THEN FreshIs(bits, numbers, ResetDelta(bits, numbers))
           ELSE ResetDelta(bits, numbers) = FailedDelta
<1>1. PICK l \in Nat : l = Len(numbers)
  BY LenProperties
<1>2. CASE ~Openable(numbers)
  <2>1. Len(numbers) < 4 \/ (Len(numbers) > 1 /\ numbers[2] = 0)
    <3>1. CASE l < 4
      BY <1>1, <3>1
    <3>2. CASE l >= 4
      <4>1. 2 \in 1..l /\ l > 1
        BY <3>2
      <4>2. numbers[2] \in Nat
        BY <1>1, <4>1, ElementOfSeq
      <4>3. QED
        BY <1>1, <1>2, <3>2, <4>1, <4>2 DEF Openable
    <3>3. QED
      BY <3>1, <3>2
  <2>2. QED
    BY <1>2, <2>1, Zenon DEF ResetDelta
<1>3. CASE Openable(numbers)
  <2>1. 1 \in 1..l /\ 2 \in 1..l /\ 3 \in 1..l /\ 4 \in 1..l /\ 4 \in 0..Len(numbers)
    BY <1>1, <1>3 DEF Openable
  <2>2. PICK a \in Nat, m \in Nat, n \in Nat, f \in Nat :
          a = numbers[1] /\ m = numbers[2] /\ n = numbers[3] /\ f = numbers[4]
    <3>1. /\ numbers[1] \in Nat /\ numbers[2] \in Nat /\ numbers[3] \in Nat
          /\ numbers[4] \in Nat
      BY <1>1, <2>1, ElementOfSeq
    <3>2. QED
      BY <3>1
  <2>3. m > 0
    BY <1>3, <2>2 DEF Openable
  <2>4. PICK p \in Nat : p = a \div m
    <3>1. m \in Nat \ {0}
      BY <2>3
    <3>2. a \div m \in Nat
      BY <3>1, DividedType
    <3>3. QED
      BY <3>2
  <2>5. PICK rest \in Seq(Nat) : rest = Skipped(numbers, 4)
    BY <2>1, SkipFacts
  <2>6. PICK W, v : W = Words(bits) /\ v \in W /\ v = Wrap(bits, UnZigZag(f))
    <3>1. UnZigZag(f) \in Int
      BY UnZigZagType
    <3>2. Wrap(bits, UnZigZag(f)) \in Words(bits)
      BY <3>1, WrapFacts
    <3>3. QED
      BY <3>2
  <2>7. PICK d : d = [failed |-> FALSE, bits |-> bits, rest |-> rest, minis |-> m,
                      perMini |-> p, remaining |-> n, last |-> v, least |-> 0,
                      widths |-> <<>>, width |-> 0, idx |-> m, current |-> 0,
                      out |-> <<>>]
    OBVIOUS
  <2>8. d = ResetDelta(bits, numbers)
    <3>1. ~(Len(numbers) < 4 \/ (Len(numbers) > 1 /\ numbers[2] = 0))
      BY <1>1, <1>3, <2>2, <2>3 DEF Openable
    <3>2. rest = SubSeq(numbers, 5, Len(numbers))
      <4>1. 4 + 1 = 5
        OBVIOUS
      <4>2. QED
        BY <2>5, <4>1 DEF Skipped
    <3>3. QED
      BY <2>2, <2>4, <2>6, <2>7, <3>1, <3>2, Zenon DEF ResetDelta
  <2>9. d \in DeltaRecords(bits)
    <3>1. <<>> \in Seq(W) /\ <<>> \in Seq(Nat)
      BY EmptySeq
    <3>2. QED
      BY <2>3, <2>6, <2>7, <3>1 DEF DeltaRecords
  <2>10. FreshIs(bits, numbers, d)
    BY <2>2, <2>4, <2>5, <2>6, <2>7, <2>9 DEF FreshIs
  <2>11. QED
    BY <1>3, <2>8, <2>10
<1>4. QED
  BY <1>2, <1>3

DeltaOf(numbers, i) == IF numbers[6] = 0 THEN 0 ELSE numbers[5 + numbers[2] + i]

NextOf(bits, numbers, spill, before, i) ==
    Wrap(bits, before + (IF numbers[6] <= BufferBits THEN DeltaOf(numbers, i)
                         ELSE Wrap(BufferBits, DeltaOf(numbers, i) + spill))
                      + UnZigZag(numbers[5]))

(* The round decodes k deltas.                                             *)
FirstIs(bits, numbers, spill, k, x) ==
    ~x.failed =>
        /\ Len(x.out) = 1 + k
        /\ x.out[1] = Wrap(bits, UnZigZag(numbers[4]))
        /\ k > 0 => /\ Len(numbers) >= 5 + numbers[2]
                    /\ numbers[6] # 0 => Len(numbers) >= 5 + numbers[2] + k
        /\ \A i \in 1..k :
              x.out[i + 1] = NextOf(bits, numbers, spill, x.out[i], i)

(* And all of a page that has no more values.                              *)
AllIs(numbers, k, x) ==
    numbers[3] = 1 + k =>
        /\ x.failed = ~HasLengths(numbers)
        /\ ~x.failed => /\ x.rest = Skipped(numbers, LengthsEnd(numbers))
                        /\ x.remaining = 0

FirstDeltas(numbers, n) ==
    Fewer(n - 1, Fewer(numbers[1] \div numbers[2], numbers[3] - 1))

LEMMA FirstOne ==
    ASSUME NEW bits \in Nat, NEW numbers \in Seq(Nat), Openable(numbers),
           NEW d, FreshIs(bits, numbers, d), numbers[3] = 1,
           NEW n \in Nat, n >= 1, NEW spill \in Nat,
           NEW x, x = Round(Emptied(d), n, spill)
    PROVE  /\ FirstIs(bits, numbers, spill, 0, x) /\ AllIs(numbers, 0, x)
           /\ x \in DeltaRecords(bits)
<1>1. PICK c : c = Emptied(d)
  OBVIOUS
<1>2. /\ d \in DeltaRecords(bits) /\ d.failed = FALSE
      /\ d.rest = Skipped(numbers, 4) /\ d.remaining = 1
      /\ d.last = Wrap(bits, UnZigZag(numbers[4])) /\ d.width = 0 /\ d.current = 0
  BY DEF FreshIs
<1>3. /\ c \in DeltaRecords(bits) /\ c.out = <<>> /\ c.remaining = 1
      /\ c.failed = FALSE /\ c.last = d.last /\ c.rest = d.rest
      /\ c.current = 0 /\ c.width = 0
  BY <1>1, <1>2, EmptiedIn
<1>4. Len(c.out) = 0
  BY <1>3, EmptySeq
<1>5. ~Done(c, n)
  BY <1>3, <1>4 DEF Done
<1>6. PICK g : g = Given(c) /\ g \in DeltaRecords(bits) /\ GivenIs(c, g)
  BY <1>3, GivenFacts
<1>7. /\ g.failed = FALSE /\ g.remaining = 0 /\ g.rest = d.rest /\ g.width = 0
      /\ g.current = 0 /\ Len(g.out) = 1 /\ g.out[1] = d.last
  <2>1. /\ g.failed = FALSE /\ g.remaining = c.remaining - 1 /\ g.rest = c.rest
        /\ g.width = c.width /\ g.current = c.current
        /\ Len(g.out) = Len(c.out) + 1 /\ g.out[Len(c.out) + 1] = c.last
    BY <1>3, <1>6 DEF GivenIs
  <2>2. QED
    BY <1>3, <1>4, <2>1
<1>8. x = EatFinalPadding(g)
  <2>1. RoundFrom(g, n, spill, x)
    BY <1>1, <1>5, <1>6, RoundSteps
  <2>2. QED
    BY <1>7, <2>1 DEF RoundFrom
<1>9. ~ShortOf(g, g.current)
  BY <1>7 DEF ShortOf
<1>10. /\ x \in DeltaRecords(bits)
       /\ x = [g EXCEPT !.rest = Passed(g, g.current), !.current = 0]
  BY <1>6, <1>8, <1>9, EatFacts
<1>11. Passed(g, g.current) = d.rest
  BY <1>7 DEF Passed
<1>12. x.rest = d.rest /\ x.remaining = 0 /\ x.failed = FALSE /\ x.out = g.out
  BY <1>6, <1>7, <1>10, <1>11 DEF DeltaRecords
<1>13. FirstIs(bits, numbers, spill, 0, x)
  <2>1. Len(x.out) = 1 + 0 /\ x.out[1] = Wrap(bits, UnZigZag(numbers[4]))
    BY <1>2, <1>7, <1>12
  <2>2. ~(0 > 0) /\ \A i \in 1..0 : FALSE
    OBVIOUS
  <2>3. QED
    BY <2>1, <2>2, Zenon DEF FirstIs
<1>14. AllIs(numbers, 0, x)
  <2>1. ~(numbers[3] > 1) /\ numbers[3] <= 1
    OBVIOUS
  <2>2. HasLengths(numbers)
    BY <2>1 DEF HasLengths
  <2>3. LengthsEnd(numbers) = 4
    BY <2>1, Zenon DEF LengthsEnd
  <2>4. QED
    BY <1>2, <1>12, <2>2, <2>3, Zenon DEF AllIs
<1>15. QED
  BY <1>10, <1>13, <1>14

(* The first block of a page, begun.                                       *)
FirstBlock(bits, numbers, e) ==
    /\ e \in DeltaRecords(bits) /\ e.failed = FALSE /\ Begun(e)
    /\ Len(numbers) >= 5 + numbers[2]
    /\ e.rest = Skipped(numbers, 5 + numbers[2]) /\ e.width = numbers[6]
    /\ e.least = UnZigZag(numbers[5])
    /\ e.current = numbers[1] \div numbers[2] /\ e.remaining = numbers[3] - 1
    /\ Len(e.out) = 1 /\ e.out[1] = Wrap(bits, UnZigZag(numbers[4]))

LEMMA FirstNumbers ==
    ASSUME NEW numbers \in Seq(Nat), Openable(numbers)
    PROVE  \E l \in Nat, a \in Nat, m \in Nat \ {0}, c \in Nat, p \in Nat :
              /\ l = Len(numbers) /\ a = numbers[1] /\ m = numbers[2]
              /\ c = numbers[3] /\ p = numbers[1] \div numbers[2] /\ l >= 4
<1>1. PICK l \in Nat : l = Len(numbers)
  BY LenProperties
<1>2. 1 \in 1..l /\ 2 \in 1..l /\ 3 \in 1..l
  BY <1>1 DEF Openable
<1>3. numbers[1] \in Nat /\ numbers[2] \in Nat /\ numbers[3] \in Nat
  BY <1>1, <1>2, ElementOfSeq
<1>4. numbers[2] \in Nat \ {0} /\ l >= 4
  BY <1>1, <1>3 DEF Openable
<1>5. numbers[1] \div numbers[2] \in Nat
  BY <1>3, <1>4, DividedType
<1>6. QED
  BY <1>1, <1>3, <1>4, <1>5

LEMMA FirstBegun ==
    ASSUME NEW bits \in Nat, NEW numbers \in Seq(Nat), Openable(numbers),
           NEW d, FreshIs(bits, numbers, d), numbers[3] > 1,
           NEW e, e = NextMiniblock(Given(Emptied(d)))
    PROVE  /\ Given(Emptied(d)).remaining # 0
           /\ Len(numbers) < 5 + numbers[2] => e.failed = TRUE
           /\ ~(Len(numbers) < 5 + numbers[2]) => FirstBlock(bits, numbers, e)
           /\ e \in DeltaRecords(bits)
<1>1. PICK l \in Nat, a \in Nat, m \in Nat \ {0}, c \in Nat, p \in Nat :
        /\ l = Len(numbers) /\ a = numbers[1] /\ m = numbers[2]
        /\ c = numbers[3] /\ p = numbers[1] \div numbers[2] /\ l >= 4
  BY FirstNumbers
<1>2. /\ d \in DeltaRecords(bits) /\ d.failed = FALSE
      /\ d.rest = Skipped(numbers, 4) /\ d.remaining = c
      /\ d.last = Wrap(bits, UnZigZag(numbers[4])) /\ d.width = 0
      /\ d.current = 0 /\ d.minis = m /\ d.perMini = p /\ d.idx = m
  BY <1>1 DEF FreshIs
<1>3. PICK b : /\ b = Emptied(d) /\ b \in DeltaRecords(bits) /\ b.out = <<>>
               /\ b.remaining = c /\ b.failed = FALSE /\ b.last = d.last
               /\ b.rest = d.rest /\ b.current = 0 /\ b.idx = m /\ SameElse(d, b)
  BY <1>2, EmptiedIn
<1>4. Len(b.out) = 0
  BY <1>3, EmptySeq
<1>5. PICK g : g = Given(b) /\ g \in DeltaRecords(bits) /\ GivenIs(b, g)
  BY <1>1, <1>3, GivenFacts
<1>6. /\ g.failed = FALSE /\ g.remaining = c - 1 /\ g.rest = d.rest
      /\ g.current = 0 /\ Len(g.out) = 1 /\ g.out[1] = d.last /\ Begun(g)
      /\ g.minis = m /\ g.perMini = p /\ g.idx = m
  <2>1. /\ g.failed = FALSE /\ g.remaining = b.remaining - 1 /\ g.rest = b.rest
        /\ g.current = b.current /\ g.idx = b.idx /\ SameElse(b, g) /\ Begun(g)
        /\ Len(g.out) = Len(b.out) + 1 /\ g.out[Len(b.out) + 1] = b.last
    BY <1>3, <1>5 DEF GivenIs
  <2>2. g.minis = m /\ g.perMini = p
    BY <1>2, <1>3, <2>1 DEF SameElse
  <2>3. QED
    BY <1>3, <1>4, <2>1, <2>2
<1>7. e \in DeltaRecords(bits) /\ NextIs(g, e)
  BY <1>3, <1>5, <1>6, NextFacts
<1>8. 4 \in 0..Len(numbers)
  BY <1>1
<1>9. PICK r : r = d.rest /\ r \in Seq(Nat) /\ Len(r) = l - 4
               /\ \A i \in 1..(l - 4) : r[i] = numbers[4 + i]
  <2>1. /\ Skipped(numbers, 4) \in Seq(Nat)
        /\ Len(Skipped(numbers, 4)) = Len(numbers) - 4
        /\ \A i \in 1..(Len(numbers) - 4) : Skipped(numbers, 4)[i] = numbers[4 + i]
    BY <1>8, SkipFacts
  <2>2. QED
    BY <1>1, <1>2, <2>1, Zenon
<1>10. Given(Emptied(d)).remaining # 0
  <2>1. g.remaining # 0
    BY <1>1, <1>6
  <2>2. QED
    BY <1>3, <1>5, <2>1
<1>11. CASE l < 5 + m
  <2>1. Len(r) < 1 + m
    BY <1>1, <1>9, <1>11, SMTT(30)
  <2>2. e.failed = TRUE
    BY <1>6, <1>7, <1>9, <2>1 DEF NextIs
  <2>3. Len(numbers) < 5 + numbers[2]
    BY <1>1, <1>11, Zenon
  <2>4. QED
    BY <1>7, <1>10, <2>2, <2>3
<1>12. CASE l >= 5 + m
  <2>1. ~(Len(r) < 1 + m) /\ ~(l < 5 + m)
    <3>1. ~(l - 4 < 1 + m) /\ ~(l < 5 + m)
      BY <1>12
    <3>2. QED
      BY <1>9, <3>1, Zenon
  <2>2. /\ e.failed = FALSE /\ BlockStarted(g, e)
        /\ e.remaining = c - 1 /\ e.last = g.last /\ e.out = g.out
    <3>1. ~(g.current > 0)
      BY <1>6
    <3>2. QED
      BY <1>6, <1>7, <1>9, <2>1, <3>1, Zenon DEF NextIs
  <2>3. /\ e.least = UnZigZag(r[1]) /\ e.width = r[2]
        /\ e.rest = Skipped(r, 1 + m) /\ e.current = p
    BY <1>6, <1>9, <2>2, Zenon DEF BlockStarted
  <2>4. r[1] = numbers[5] /\ r[2] = numbers[6]
    <3>1. 1 \in 1..(l - 4) /\ 2 \in 1..(l - 4) /\ 4 + 1 = 5 /\ 4 + 2 = 6
      BY <1>12
    <3>2. r[1] = numbers[4 + 1] /\ r[2] = numbers[4 + 2]
      BY <1>9, <3>1
    <3>3. QED
      BY <3>1, <3>2
  <2>5. e.rest = Skipped(numbers, 5 + m)
    <3>1. 4 \in Nat /\ 1 + m \in Nat /\ 4 + (1 + m) <= Len(numbers)
          /\ 4 + (1 + m) = 5 + m
      BY <1>1, <1>12, SMTT(30)
    <3>2. Skipped(Skipped(numbers, 4), 1 + m) = Skipped(numbers, 4 + (1 + m))
      BY <3>1, SkipSkip
    <3>3. QED
      BY <1>2, <1>9, <2>3, <3>1, <3>2
  <2>6. Begun(e) /\ Len(e.out) = 1 /\ e.out[1] = Wrap(bits, UnZigZag(numbers[4]))
    BY <1>2, <1>6, <2>2, Zenon DEF Begun
  <2>7. Len(numbers) >= 5 + numbers[2]
    BY <1>1, <1>12
  <2>8. FirstBlock(bits, numbers, e)
    BY <1>1, <1>7, <2>2, <2>3, <2>4, <2>5, <2>6, <2>7, Zenon DEF FirstBlock
  <2>9. ~(Len(numbers) < 5 + numbers[2])
    BY <1>1, <2>1, Zenon
  <2>10. QED
    BY <1>7, <1>10, <2>8, <2>9
<1>13. QED
  <2>1. l < 5 + m \/ l >= 5 + m
    OBVIOUS
  <2>2. QED
    BY <1>11, <1>12, <2>1

LEMMA EndIs ==
    ASSUME NEW numbers, NEW c \in Nat, c = numbers[3], c > 1, NEW w, w = numbers[6]
    PROVE  /\ w = 0 => LengthsEnd(numbers) = 5 + numbers[2] + 0
           /\ w # 0 => LengthsEnd(numbers) = 5 + numbers[2] + numbers[1] \div numbers[2]
           /\ HasLengths(numbers) = (/\ Len(numbers) >= 5 + numbers[2]
                                     /\ Len(numbers) >= LengthsEnd(numbers))
<1>1. ~(numbers[3] <= 1) /\ numbers[3] > 1
  <2>1. ~(c <= 1)
    OBVIOUS
  <2>2. QED
    BY <2>1
<1>2. QED
  BY <1>1, Zenon DEF LengthsEnd, HasLengths

LEMMA FirstEnds ==
    ASSUME NEW bits \in Nat, NEW numbers \in Seq(Nat), Openable(numbers),
           numbers[3] > 1, NEW e, FirstBlock(bits, numbers, e),
           NEW spill \in Nat, NEW k \in Nat, k <= numbers[1] \div numbers[2],
           k <= numbers[3] - 1, NEW x, RoundEnds(TakeDeltas(e, k, spill), x)
    PROVE  FirstIs(bits, numbers, spill, k, x) /\ AllIs(numbers, k, x)
<1>1. PICK l \in Nat, a \in Nat, m \in Nat \ {0}, c \in Nat, p \in Nat :
        /\ l = Len(numbers) /\ a = numbers[1] /\ m = numbers[2]
        /\ c = numbers[3] /\ p = numbers[1] \div numbers[2] /\ l >= 4
  BY FirstNumbers
<1>2. k <= p /\ k <= c - 1
  BY <1>1
<1>3. /\ e \in DeltaRecords(bits) /\ e.failed = FALSE /\ Begun(e)
      /\ l >= 5 + m /\ e.rest = Skipped(numbers, 5 + m)
      /\ e.width = numbers[6] /\ e.least = UnZigZag(numbers[5])
      /\ e.current = p /\ e.remaining = c - 1
      /\ Len(e.out) = 1 /\ e.out[1] = Wrap(bits, UnZigZag(numbers[4]))
  BY <1>1, Zenon DEF FirstBlock
<1>4. PICK w \in Nat : w = numbers[6] /\ w = e.width
  BY <1>3, DeltaFields
<1>5. PICK r \in Seq(Nat) : r = e.rest /\ Len(r) = l - (5 + m)
                            /\ \A i \in 1..(l - (5 + m)) : r[i] = numbers[5 + m + i]
  <2>1. 5 + m \in 0..Len(numbers)
    <3>1. 5 + m \in 0..l
      BY <1>3
    <3>2. QED
      BY <1>1, <3>1
  <2>2. /\ Skipped(numbers, 5 + m) \in Seq(Nat)
        /\ Len(Skipped(numbers, 5 + m)) = Len(numbers) - (5 + m)
        /\ \A i \in 1..(Len(numbers) - (5 + m)) :
              Skipped(numbers, 5 + m)[i] = numbers[5 + m + i]
    BY <2>1, SkipFacts
  <2>3. QED
    BY <1>1, <1>3, <2>2, Zenon
<1>6. /\ w = 0 => LengthsEnd(numbers) = 5 + m
      /\ w # 0 => LengthsEnd(numbers) = 5 + m + p
      /\ HasLengths(numbers) = (l >= 5 + m /\ l >= LengthsEnd(numbers))
  <2>1. /\ w = 0 => LengthsEnd(numbers) = 5 + numbers[2] + 0
        /\ w # 0 => LengthsEnd(numbers) = 5 + numbers[2] + numbers[1] \div numbers[2]
        /\ HasLengths(numbers) = (/\ Len(numbers) >= 5 + numbers[2]
                                  /\ Len(numbers) >= LengthsEnd(numbers))
    <3>1. c > 1
      BY <1>1
    <3>2. QED
      BY <1>1, <1>4, <3>1, EndIs
  <2>2. 5 + m + 0 = 5 + m
    OBVIOUS
  <2>3. QED
    BY <1>1, <2>1, <2>2, Zenon
<1>7. /\ w = 0 \/ l >= 5 + m + p => HasLengths(numbers)
      /\ w # 0 /\ ~(l >= 5 + m + p) => ~HasLengths(numbers)
  BY <1>3, <1>6
<1>8. PICK t : t = TakeDeltas(e, k, spill) /\ RoundEnds(t, x)
  OBVIOUS
<1>9. e.current \in Nat /\ k <= e.current /\ k <= e.remaining
  BY <1>2, <1>3
<1>10. CASE ShortOf(e, k)
  <2>1. w > 0 /\ l - (5 + m) < k
    BY <1>4, <1>5, <1>10, Zenon DEF ShortOf
  <2>2. ~HasLengths(numbers)
    <3>1. ~(l >= 5 + m + p) /\ w # 0
      BY <1>2, <2>1
    <3>2. QED
      BY <1>7, <3>1
  <2>3. t = [e EXCEPT !.failed = TRUE]
    BY <1>3, <1>8, <1>9, <1>10, TakeFacts
  <2>4. t.failed = TRUE
    BY <1>3, <2>3 DEF DeltaRecords
  <2>5. x.failed = TRUE
    BY <1>8, <2>4, Zenon DEF RoundEnds
  <2>6. QED
    BY <2>2, <2>5 DEF FirstIs, AllIs
<1>11. CASE ~ShortOf(e, k)
  <2>1. t \in DeltaRecords(bits) /\ TakenIs(e, k, spill, t)
    BY <1>3, <1>8, <1>9, <1>11, TakeFacts
  <2>2. /\ t.failed = FALSE /\ t.rest = Passed(e, k) /\ t.current = p - k
        /\ t.remaining = c - 1 - k /\ t.width = w /\ Len(t.out) = 1 + k
        /\ \A i \in 1..1 : t.out[i] = e.out[i]
        /\ \A i \in 1..k : t.out[1 + i] =
              DeltaAdded(e, IF w = 0 THEN 0 ELSE r[i], spill, t.out[1 + i - 1])
    BY <1>3, <1>4, <1>5, <2>1, Zenon DEF TakenIs
  <2>3. /\ t.rest \in Seq(Nat)
        /\ t.rest = IF w = 0 THEN r ELSE Skipped(r, k)
    <3>1. /\ Passed(e, k) \in Seq(Nat)
          /\ Passed(e, k) = IF e.width = 0 THEN e.rest ELSE Skipped(e.rest, k)
      BY <1>3, <1>11, AheadFacts
    <3>2. t.rest = Passed(e, k)
      BY <2>2, Zenon
    <3>3. QED
      BY <1>4, <1>5, <3>1, <3>2
  <2>4. w # 0 => l >= 5 + m + k
    <3>1. w # 0 => ~(l - (5 + m) < k)
      BY <1>4, <1>5, <1>11 DEF ShortOf
    <3>2. QED
      BY <3>1
  <2>5. FirstIs(bits, numbers, spill, k, t)
    <3>1. t.out[1] = Wrap(bits, UnZigZag(numbers[4]))
      <4>1. 1 \in 1..1
        OBVIOUS
      <4>2. QED
        BY <1>3, <2>2, <4>1, Zenon
    <3>2. ASSUME NEW i \in 1..k
          PROVE  t.out[i + 1] = NextOf(bits, numbers, spill, t.out[i], i)
      <4>1. (IF w = 0 THEN 0 ELSE r[i]) = DeltaOf(numbers, i)
        <5>1. CASE w = 0
          BY <1>4, <5>1, Zenon DEF DeltaOf
        <5>2. CASE w # 0
          <6>1. i \in 1..(l - (5 + m))
            BY <2>4, <5>2
          <6>2. r[i] = numbers[5 + m + i]
            BY <1>5, <6>1
          <6>3. QED
            BY <1>1, <1>4, <5>2, <6>2, Zenon DEF DeltaOf
        <5>3. QED
          BY <5>1, <5>2
      <4>2. 1 + i = i + 1 /\ 1 + i - 1 = i
        OBVIOUS
      <4>3. t.out[i + 1] = DeltaAdded(e, DeltaOf(numbers, i), spill, t.out[i])
        BY <2>2, <4>1, <4>2, Zenon
      <4>4. e.bits = bits
        BY <1>3, DeltaFields
      <4>5. NextOf(bits, numbers, spill, t.out[i], i) =
               DeltaAdded(e, DeltaOf(numbers, i), spill, t.out[i])
        BY <1>3, <4>4, Zenon DEF NextOf, DeltaAdded, Narrow
      <4>6. QED
        BY <4>3, <4>5
    <3>3. k > 0 => /\ Len(numbers) >= 5 + numbers[2]
                   /\ numbers[6] # 0 => Len(numbers) >= 5 + numbers[2] + k
      BY <1>1, <1>3, <1>4, <2>4, Zenon
    <3>4. QED
      BY <2>2, <3>1, <3>2, <3>3, Zenon DEF FirstIs
  <2>6. CASE t.remaining # 0
    <3>1. x = t
      BY <1>8, <2>6, Zenon DEF RoundEnds
    <3>2. c # 1 + k
      BY <2>2, <2>6
    <3>3. AllIs(numbers, k, x)
      BY <1>1, <3>2, Zenon DEF AllIs
    <3>4. QED
      BY <2>5, <3>1, <3>3
  <2>7. CASE t.remaining = 0
    <3>1. x = EatFinalPadding(t)
      BY <1>8, <2>2, <2>7, Zenon DEF RoundEnds
    <3>2. /\ ShortOf(t, t.current) => ~HasLengths(numbers)
          /\ ~ShortOf(t, t.current) => HasLengths(numbers)
      <4>1. CASE w = 0
        <5>1. t.width = 0 /\ ~(0 > 0)
          BY <2>2, <4>1
        <5>2. ~ShortOf(t, t.current)
          BY <5>1 DEF ShortOf
        <5>3. QED
          BY <1>7, <4>1, <5>2, Zenon
      <4>2. CASE w # 0
        <5>1. k \in 0..Len(r)
          BY <1>5, <2>4, <4>2
        <5>2. Len(t.rest) = l - (5 + m) - k
          <6>1. Len(Skipped(r, k)) = Len(r) - k
            BY <5>1, SkipFacts
          <6>2. QED
            BY <1>5, <2>3, <4>2, <6>1
        <5>3. w > 0
          BY <4>2
        <5>4. t.width = w /\ t.current = p - k
          BY <2>2, Zenon
        <5>5. CASE l >= 5 + m + p
          <6>1. ~(l - (5 + m) - k < p - k)
            BY <5>5
          <6>2. ~ShortOf(t, t.current)
            BY <5>2, <5>4, <6>1, Zenon DEF ShortOf
          <6>3. QED
            BY <1>7, <5>5, <6>2, Zenon
        <5>6. CASE ~(l >= 5 + m + p)
          <6>1. l - (5 + m) - k < p - k
            BY <5>6
          <6>2. ShortOf(t, t.current)
            BY <5>2, <5>3, <5>4, <6>1, Zenon DEF ShortOf
          <6>3. QED
            BY <1>7, <4>2, <5>6, <6>2, Zenon
        <5>7. QED
          BY <5>5, <5>6
      <4>3. QED
        BY <4>1, <4>2
    <3>3. CASE ShortOf(t, t.current)
      <4>1. x = [t EXCEPT !.failed = TRUE]
        BY <2>1, <3>1, <3>3, EatFacts
      <4>2. x.failed = TRUE
        BY <2>1, <4>1 DEF DeltaRecords
      <4>3. QED
        BY <3>2, <3>3, <4>2 DEF FirstIs, AllIs
    <3>4. CASE ~ShortOf(t, t.current)
      <4>1. x = [t EXCEPT !.rest = Passed(t, t.current), !.current = 0]
        BY <2>1, <3>1, <3>4, EatFacts
      <4>2. /\ x.rest = Passed(t, t.current) /\ x.out = t.out
            /\ x.failed = FALSE /\ x.remaining = 0
        BY <2>1, <2>2, <2>7, <4>1 DEF DeltaRecords
      <4>3. FirstIs(bits, numbers, spill, k, x)
        BY <2>2, <2>5, <4>2, Zenon DEF FirstIs
      <4>4. x.rest = Skipped(numbers, LengthsEnd(numbers))
        <5>1. CASE w = 0
          BY <1>3, <1>5, <1>6, <2>2, <2>3, <4>2, <5>1 DEF Passed
        <5>2. CASE w # 0
          <6>1. l >= 5 + m + p
            BY <1>7, <3>2, <3>4, <5>2, Zenon
          <6>2. x.rest = Skipped(t.rest, p - k)
            <7>1. t.current = p - k
              BY <2>2
            <7>2. x.rest = SubSeq(t.rest, t.current + 1, Len(t.rest))
              BY <2>2, <4>2, <5>2, Zenon DEF Passed
            <7>3. QED
              BY <7>1, <7>2 DEF Skipped
          <6>3. x.rest = Skipped(Skipped(r, k), p - k)
            BY <2>3, <5>2, <6>2
          <6>4. k + (p - k) <= Len(r) /\ k + (p - k) = p /\ p - k \in Nat
            BY <1>2, <1>5, <6>1
          <6>5. Skipped(Skipped(r, k), p - k) = Skipped(r, k + (p - k))
            BY <6>4, SkipSkip
          <6>6. x.rest = Skipped(Skipped(numbers, 5 + m), p)
            BY <1>3, <1>5, <6>3, <6>4, <6>5
          <6>7. 5 + m \in Nat /\ (5 + m) + p <= Len(numbers)
            <7>1. 5 + m \in Nat /\ (5 + m) + p <= l
              BY <6>1
            <7>2. QED
              BY <1>1, <7>1, Zenon
          <6>8. Skipped(Skipped(numbers, 5 + m), p) = Skipped(numbers, (5 + m) + p)
            BY <6>7, SkipSkip
          <6>9. (5 + m) + p = 5 + m + p
            OBVIOUS
          <6>10. QED
            BY <1>6, <5>2, <6>6, <6>8, <6>9
        <5>3. QED
          BY <5>1, <5>2
      <4>5. AllIs(numbers, k, x)
        BY <3>2, <3>4, <4>2, <4>4, Zenon DEF AllIs
      <4>6. QED
        BY <4>3, <4>5
    <3>5. QED
      BY <3>3, <3>4
  <2>8. QED
    BY <2>6, <2>7
<1>12. QED
  BY <1>10, <1>11

LEMMA FirstMore ==
    ASSUME NEW bits \in Nat, NEW numbers \in Seq(Nat), Openable(numbers),
           NEW d, FreshIs(bits, numbers, d), numbers[3] > 1,
           NEW n \in Nat, n >= 1, NEW spill \in Nat,
           NEW x, x = Round(Emptied(d), n, spill)
    PROVE  /\ FirstDeltas(numbers, n) \in Nat
           /\ FirstIs(bits, numbers, spill, FirstDeltas(numbers, n), x)
           /\ AllIs(numbers, FirstDeltas(numbers, n), x)
<1>1. PICK l \in Nat, a \in Nat, m \in Nat \ {0}, c \in Nat, p \in Nat :
        /\ l = Len(numbers) /\ a = numbers[1] /\ m = numbers[2]
        /\ c = numbers[3] /\ p = numbers[1] \div numbers[2] /\ l >= 4
  BY FirstNumbers
<1>2. PICK k \in Nat : /\ k = FirstDeltas(numbers, n)
                       /\ k = Fewer(n - 1, Fewer(p, c - 1))
                       /\ k <= p /\ k <= c - 1 /\ k <= n - 1
                       /\ (k = p \/ k = c - 1 \/ k = n - 1)
  <2>1. n - 1 \in Nat /\ c - 1 \in Nat
    BY <1>1, SMTT(30)
  <2>2. PICK k \in Nat : /\ k = Fewer(n - 1, Fewer(p, c - 1))
                         /\ k <= p /\ k <= c - 1 /\ k <= n - 1
                         /\ (k = p \/ k = c - 1 \/ k = n - 1)
    BY <2>1 DEF Fewer
  <2>3. FirstDeltas(numbers, n) = Fewer(n - 1, Fewer(p, c - 1))
    BY <1>1, Zenon DEF FirstDeltas
  <2>4. QED
    BY <2>2, <2>3
<1>3. PICK b, g, e : b = Emptied(d) /\ g = Given(b) /\ e = NextMiniblock(g)
  OBVIOUS
<1>4. /\ g.remaining # 0
      /\ Len(numbers) < 5 + numbers[2] => e.failed = TRUE
      /\ ~(Len(numbers) < 5 + numbers[2]) => FirstBlock(bits, numbers, e)
      /\ e \in DeltaRecords(bits)
  BY <1>3, FirstBegun
<1>5. ~Done(b, n)
  <2>1. d \in DeltaRecords(bits) /\ d.failed = FALSE /\ d.remaining = c
    BY <1>1 DEF FreshIs
  <2>2. b.out = <<>> /\ b.remaining = c /\ b.failed = FALSE
    BY <1>3, <2>1, EmptiedIn
  <2>3. Len(b.out) = 0
    BY <2>2, EmptySeq
  <2>4. c # 0
    BY <1>1
  <2>5. QED
    BY <2>2, <2>3, <2>4 DEF Done
<1>6. RoundFrom(g, n, spill, x)
  BY <1>3, <1>5, RoundSteps
<1>7. IF e.failed THEN x = e ELSE RoundEnds(TakeDeltas(e, Takeable(e, n), spill), x)
  BY <1>3, <1>4, <1>6, Zenon DEF RoundFrom
<1>8. CASE Len(numbers) < 5 + numbers[2]
  <2>1. x.failed = TRUE
    BY <1>4, <1>7, <1>8
  <2>2. ~HasLengths(numbers)
    <3>1. ~(Len(numbers) >= 5 + numbers[2])
      BY <1>1, <1>8, SMTT(30)
    <3>2. HasLengths(numbers) => Len(numbers) >= 5 + numbers[2]
      BY Zenon DEF HasLengths
    <3>3. QED
      BY <3>1, <3>2
  <2>3. QED
    BY <1>2, <2>1, <2>2 DEF FirstIs, AllIs
<1>9. CASE ~(Len(numbers) < 5 + numbers[2])
  <2>1. FirstBlock(bits, numbers, e)
    BY <1>4, <1>9
  <2>2. e.failed = FALSE /\ e.current = p /\ e.remaining = c - 1 /\ Len(e.out) = 1
    BY <1>1, <2>1, Zenon DEF FirstBlock
  <2>3. Takeable(e, n) = k
    <3>1. /\ e.current \in Nat /\ e.remaining \in Nat /\ Len(e.out) \in Nat
          /\ Len(e.out) <= n
      BY <1>1, <2>2, SMTT(30)
    <3>2. PICK j \in Nat :
            /\ j = Takeable(e, n) /\ j <= n - Len(e.out)
            /\ j <= e.current /\ j <= e.remaining
            /\ j = n - Len(e.out) \/ j = e.current \/ j = e.remaining
      BY <3>1, TakeableFacts
    <3>3. /\ j <= n - 1 /\ j <= p /\ j <= c - 1
          /\ j = n - 1 \/ j = p \/ j = c - 1
      BY <2>2, <3>2, Zenon
    <3>4. j = k
      BY <1>2, <3>3
    <3>5. QED
      BY <3>2, <3>4
  <2>4. RoundEnds(TakeDeltas(e, k, spill), x)
    BY <1>7, <2>2, <2>3
  <2>5. k <= numbers[1] \div numbers[2] /\ k <= numbers[3] - 1
    BY <1>1, <1>2, Zenon
  <2>6. FirstIs(bits, numbers, spill, k, x) /\ AllIs(numbers, k, x)
    BY <2>1, <2>4, <2>5, FirstEnds
  <2>7. QED
    BY <1>2, <2>6, Zenon
<1>10. QED
  BY <1>8, <1>9

(* The first values of a page are those it stands for.                     *)
FirstSure(numbers) ==
    IF numbers[3] > 1 /\ ~(numbers[6] <= BufferBits) THEN 1
    ELSE 1 + numbers[1] \div numbers[2]

FirstRead(numbers, values, r) ==
    ~r.failed => \A i \in 1..Len(r.out) :
                    i <= FirstSure(numbers) => r.out[i] = values[i]

PerFirst(numbers) == numbers[1] \div numbers[2]

FirstNarrow(numbers, k) == k = 0 \/ numbers[6] <= BufferBits

FirstAre(values, k, x) == \A i \in 0..k : x.out[i + 1] = values[i + 1]

LEMMA WordInt ==
    ASSUME NEW bits \in Nat, NEW w \in Words(bits)
    PROVE  w \in Int
BY Pow2Facts DEF Words

LEMMA FirstRight ==
    ASSUME NEW bits \in Nat, NEW numbers \in Seq(Nat), Openable(numbers),
           NEW values, Len(values) \in Nat, FirstValues(bits, numbers, values),
           NEW spill, NEW k \in Nat, k + 1 <= Len(values),
           k <= PerFirst(numbers), FirstNarrow(numbers, k),
           NEW x, FirstIs(bits, numbers, spill, k, x), ~x.failed,
           x.out \in Seq(Words(bits))
    PROVE  FirstAre(values, k, x)
<1>1. PICK l \in Nat, a \in Nat, m \in Nat \ {0}, c \in Nat, p \in Nat :
        /\ l = Len(numbers) /\ a = numbers[1] /\ m = numbers[2]
        /\ c = numbers[3] /\ p = PerFirst(numbers) /\ l >= 4
  BY FirstNumbers DEF PerFirst
<1>2. PICK o : /\ o = x.out /\ o \in Seq(Words(bits)) /\ Len(o) = 1 + k
               /\ o[1] = Wrap(bits, UnZigZag(numbers[4]))
               /\ k > 0 => /\ l >= 5 + m /\ (numbers[6] # 0 => l >= 5 + m + k)
               /\ \A i \in 1..k : o[i + 1] = NextOf(bits, numbers, spill, o[i], i)
  BY <1>1, Zenon DEF FirstIs
<1>3. PICK v \in Nat : v = Len(values) /\ c = v /\ k <= v - 1 /\ k <= p
  <2>1. c = Len(values)
    BY <1>1, Zenon DEF FirstValues
  <2>2. k <= p
    BY <1>1, Zenon
  <2>3. QED
    BY <2>1, <2>2
<1> DEFINE S == {i \in 0..k : o[i + 1] = values[i + 1]}
<1>4. 0 \in S
  <2>1. values # <<>>
    BY <1>3, EmptySeq
  <2>2. values[1] = Wrap(bits, UnZigZag(numbers[4]))
    BY <2>1 DEF FirstValues
  <2>3. 0 + 1 = 1 /\ 0 \in 0..k
    OBVIOUS
  <2>4. o[0 + 1] = values[0 + 1]
    BY <1>2, <2>2, <2>3, Zenon
  <2>5. QED
    BY <2>3, <2>4
<1>5. ASSUME NEW i \in 1..k, i - 1 \in S PROVE i \in S
  <2>1. /\ i - 1 + 1 = i /\ k > 0 /\ i \in Nat /\ i \in 1..Len(o) /\ i \in 0..k
        /\ k # 0
    <3>1. Len(o) = 1 + k
      BY <1>2, Zenon
    <3>2. QED
      BY <3>1
  <2>2. o[i] = values[i]
    BY <1>5, <2>1
  <2>3. PICK b \in Int : b = o[i]
    <3>1. o[i] \in Words(bits)
      BY <1>2, <2>1, ElementOfSeq
    <3>2. o[i] \in Int
      BY <3>1, WordInt
    <3>3. QED
      BY <3>2
  <2>4. PICK u \in Int : u = UnZigZag(numbers[5])
    <3>1. 5 \in 1..l
      BY <1>2, <2>1
    <3>2. numbers[5] \in Nat
      BY <1>1, <3>1, ElementOfSeq
    <3>3. QED
      BY <3>2, UnZigZagType
  <2>5. PICK e \in Nat : e = DeltaOf(numbers, i)
    <3>1. CASE numbers[6] = 0
      BY <3>1, Zenon DEF DeltaOf
    <3>2. CASE numbers[6] # 0
      <4>1. 5 + m + i \in 1..l
        <5>1. l >= 5 + m + k
          BY <1>2, <2>1, <3>2, Zenon
        <5>2. QED
          BY <5>1
      <4>2. numbers[5 + m + i] \in Nat
        BY <1>1, <4>1, ElementOfSeq
      <4>3. DeltaOf(numbers, i) = numbers[5 + m + i]
        BY <1>1, <3>2, Zenon DEF DeltaOf
      <4>4. QED
        BY <4>2, <4>3
    <3>3. QED
      BY <3>1, <3>2
  <2>6. numbers[6] <= BufferBits
    BY <2>1, Zenon DEF FirstNarrow
  <2>7. o[i + 1] = Wrap(bits, b + e + u)
    BY <1>2, <2>1, <2>3, <2>4, <2>5, <2>6, Zenon DEF NextOf
  <2>8. values[i + 1] = Wrap(bits, b + u + e)
    <3>1. i \in 1..Fewer(numbers[1] \div numbers[2], Len(values) - 1)
      <4>1. i \in 1..Fewer(p, v - 1)
        BY <1>3 DEF Fewer
      <4>2. QED
        BY <1>1, <1>3, <4>1, Zenon DEF PerFirst
    <3>2. values[i + 1] = Wrap(bits, values[i] + UnZigZag(numbers[5])
                                        + DeltaOf(numbers, i))
      BY <3>1, Zenon DEF FirstValues, DeltaOf
    <3>3. QED
      BY <2>2, <2>3, <2>4, <2>5, <3>2, Zenon
  <2>9. b + e + u = b + u + e
    OBVIOUS
  <2>10. o[i + 1] = values[i + 1]
    BY <2>7, <2>8, <2>9, Zenon
  <2>11. QED
    BY <2>1, <2>10
<1>6. 0..k \subseteq S
  <2> HIDE DEF S
  <2>1. QED
    BY <1>4, <1>5, UpTo, Zenon
<1>7. QED
  BY <1>2, <1>6 DEF FirstAre

(* The first round: its deltas, and what it gives.                         *)
FirstRound(bits, numbers, spill, n, x) ==
    /\ FirstDeltas(numbers, n) \in Nat
    /\ FirstIs(bits, numbers, spill, FirstDeltas(numbers, n), x)
    /\ AllIs(numbers, FirstDeltas(numbers, n), x)
    /\ x \in DeltaRecords(bits)

LEMMA FirstRoundIs ==
    ASSUME NEW bits \in Nat, NEW numbers \in Seq(Nat), Openable(numbers),
           NEW d, FreshIs(bits, numbers, d), numbers[3] # 0,
           NEW n \in Nat, n >= 1, NEW spill \in Nat,
           NEW x, x = Round(Emptied(d), n, spill)
    PROVE  FirstRound(bits, numbers, spill, n, x)
<1>1. PICK l \in Nat, a \in Nat, m \in Nat \ {0}, c \in Nat, p \in Nat :
        /\ l = Len(numbers) /\ a = numbers[1] /\ m = numbers[2]
        /\ c = numbers[3] /\ p = numbers[1] \div numbers[2] /\ l >= 4
  BY FirstNumbers
<1>2. x \in DeltaRecords(bits)
  <2>1. d \in DeltaRecords(bits)
    BY DEF FreshIs
  <2>2. Emptied(d) \in Rounds(bits, n)
    BY <2>1, EmptiedIn
  <2>3. x \in Rounds(bits, n)
    BY <2>2, RoundIn
  <2>4. QED
    BY <2>3 DEF Rounds
<1>3. CASE c = 1
  <2>1. FirstIs(bits, numbers, spill, 0, x) /\ AllIs(numbers, 0, x)
    BY <1>1, <1>3, FirstOne
  <2>2. Fewer(n - 1, Fewer(p, c - 1)) = 0
    BY <1>3 DEF Fewer
  <2>3. FirstDeltas(numbers, n) = 0
    BY <1>1, <2>2, Zenon DEF FirstDeltas
  <2>4. QED
    BY <1>2, <2>1, <2>3 DEF FirstRound
<1>4. CASE c # 1
  <2>1. numbers[3] > 1
    BY <1>1, <1>4, SMTT(30)
  <2>2. /\ FirstDeltas(numbers, n) \in Nat
        /\ FirstIs(bits, numbers, spill, FirstDeltas(numbers, n), x)
        /\ AllIs(numbers, FirstDeltas(numbers, n), x)
    BY <2>1, FirstMore
  <2>3. QED
    BY <1>2, <2>2 DEF FirstRound
<1>5. QED
  BY <1>3, <1>4

LEMMA FewerLess ==
    ASSUME NEW a \in Int, NEW b \in Int, NEW c \in Int
    PROVE  /\ Fewer(a, Fewer(b, c)) <= a /\ Fewer(a, Fewer(b, c)) <= b
           /\ Fewer(a, Fewer(b, c)) <= c
           /\ \A j \in Int : j <= a /\ j <= b /\ j <= c => j <= Fewer(a, Fewer(b, c))
BY DEF Fewer

LEMMA FirstBatch ==
    ASSUME NEW bits \in Nat, NEW numbers \in Seq(Nat), Openable(numbers),
           NEW d, FreshIs(bits, numbers, d),
           NEW values, Len(values) \in Nat, FirstValues(bits, numbers, values),
           NEW n \in Nat, n >= 1, NEW spill \in Nat
    PROVE  FirstRead(numbers, values, ReadDelta(d, n, spill))
<1>1. PICK l \in Nat, a \in Nat, m \in Nat \ {0}, c \in Nat, p \in Nat :
        /\ l = Len(numbers) /\ a = numbers[1] /\ m = numbers[2]
        /\ c = numbers[3] /\ p = numbers[1] \div numbers[2] /\ l >= 4
  BY FirstNumbers
<1>2. PICK r, x : r = ReadDelta(d, n, spill) /\ x = Round(Emptied(d), n, spill)
  OBVIOUS
<1>3. d \in DeltaRecords(bits) /\ d.failed = FALSE /\ d.remaining = c
  BY <1>1 DEF FreshIs
<1>4. r \in DeltaRecords(bits) /\ ReadMade(d, n, r)
  BY <1>2, <1>3, ReadFacts
<1>5. CASE r.failed = TRUE
  BY <1>2, <1>5 DEF FirstRead
<1>6. CASE r.failed = FALSE
  <2>1. Len(r.out) + r.remaining = c /\ Len(r.out) <= n
    BY <1>3, <1>4, <1>6 DEF ReadMade
  <2>2. PICK j \in Nat : j = Len(r.out) /\ j <= c /\ j <= n
    <3>1. Len(r.out) \in Nat /\ r.remaining \in Nat
      BY <1>4, DeltaFields, LenProperties
    <3>2. QED
      BY <2>1, <3>1
  <2>3. CASE c = 0
    <3>1. j = 0
      BY <2>2, <2>3
    <3>2. \A i \in 1..j : FALSE
      BY <3>1
    <3>3. QED
      BY <1>2, <2>2, <3>2, Zenon DEF FirstRead
  <2>4. CASE c # 0
    <3>1. FirstRound(bits, numbers, spill, n, x)
      BY <1>1, <1>2, <2>4, FirstRoundIs
    <3>2. PICK k \in Nat : /\ k = FirstDeltas(numbers, n)
                           /\ k = Fewer(n - 1, Fewer(p, c - 1))
      <4>1. FirstDeltas(numbers, n) \in Nat
        BY <3>1 DEF FirstRound
      <4>2. FirstDeltas(numbers, n) = Fewer(n - 1, Fewer(p, c - 1))
        BY <1>1, Zenon DEF FirstDeltas
      <4>3. QED
        BY <4>1, <4>2
    <3>3. k <= n - 1 /\ k <= p /\ k <= c - 1
          /\ \A i \in Int : i <= n - 1 /\ i <= p /\ i <= c - 1 => i <= k
      BY <3>2, FewerLess
    <3>4. FirstIs(bits, numbers, spill, k, x) /\ x \in DeltaRecords(bits)
      BY <3>1, <3>2, Zenon DEF FirstRound
    <3>5. BeginsWith(x, r)
      BY <1>2, <1>3, ReadBegins
    <3>6. /\ ~x.failed /\ Len(x.out) <= j
          /\ \A i \in 1..Len(x.out) : r.out[i] = x.out[i]
      BY <1>6, <2>2, <3>5 DEF BeginsWith
    <3>7. Len(x.out) = 1 + k /\ x.out \in Seq(Words(bits))
      BY <3>4, <3>6, DeltaFields DEF FirstIs
    <3>8. c = Len(values)
      BY <1>1 DEF FirstValues
    <3>9. CASE ~(numbers[3] > 1 /\ ~(numbers[6] <= BufferBits))
      <4>1. k = 0 \/ numbers[6] <= BufferBits
        <5>1. CASE c > 1
          BY <1>1, <3>9, <5>1
        <5>2. CASE ~(c > 1)
          BY <3>3, <5>2
        <5>3. QED
          BY <5>1, <5>2
      <4>2. k + 1 <= Len(values)
        BY <3>3, <3>8
      <4>3. k <= PerFirst(numbers)
        BY <1>1, <3>3, Zenon DEF PerFirst
      <4>4. FirstNarrow(numbers, k)
        BY <4>1 DEF FirstNarrow
      <4>5. FirstAre(values, k, x)
        <5>1. ~x.failed /\ x.out \in Seq(Words(bits))
          BY <3>6, <3>7, Zenon
        <5>2. QED
          BY <3>4, <4>2, <4>3, <4>4, <5>1, FirstRight
      <4>6. \A i \in 0..k : x.out[i + 1] = values[i + 1]
        BY <4>5 DEF FirstAre
      <4>7. FirstSure(numbers) = 1 + p
        BY <1>1, <3>9, Zenon DEF FirstSure
      <4>8. ASSUME NEW i \in 1..j, i <= 1 + p PROVE r.out[i] = values[i]
        <5>1. i - 1 <= k
          <6>1. i - 1 \in Int /\ i - 1 <= n - 1 /\ i - 1 <= p /\ i - 1 <= c - 1
            BY <2>2, <4>8
          <6>2. QED
            BY <3>3, <6>1
        <5>2. i \in 1..(1 + k) /\ i - 1 \in 0..k /\ i - 1 + 1 = i
          BY <5>1
        <5>3. r.out[i] = x.out[i]
          BY <3>6, <3>7, <5>2
        <5>4. x.out[i] = values[i]
          BY <4>6, <5>2
        <5>5. QED
          BY <5>3, <5>4
      <4>9. QED
        BY <1>2, <2>2, <4>7, <4>8 DEF FirstRead
    <3>10. CASE numbers[3] > 1 /\ ~(numbers[6] <= BufferBits)
      <4>1. FirstSure(numbers) = 1
        BY <3>10, Zenon DEF FirstSure
      <4>2. x.out[1] = Wrap(bits, UnZigZag(numbers[4]))
        BY <3>4, <3>6, Zenon DEF FirstIs
      <4>3. values[1] = Wrap(bits, UnZigZag(numbers[4]))
        <5>1. values # <<>>
          BY <2>4, <3>8, EmptySeq
        <5>2. QED
          BY <5>1, Zenon DEF FirstValues
      <4>4. 1 \in 1..(1 + k)
        OBVIOUS
      <4>5. r.out[1] = values[1]
        BY <3>6, <3>7, <4>2, <4>3, <4>4
      <4>6. \A i \in 1..j : i <= 1 => i = 1
        OBVIOUS
      <4>7. QED
        BY <1>2, <2>2, <4>1, <4>5, <4>6, Zenon DEF FirstRead
    <3>11. QED
      BY <3>9, <3>10, Zenon
  <2>5. QED
    BY <2>3, <2>4
<1>7. QED
  BY <1>4, <1>5, <1>6, DeltaFields

-----------------------------------------------------------------------------
(* Deltas that are read to their end.                                      *)
AllRead(bits) == [d : DeltaRecords(bits), values : Seq(Nat)]

AllBegun(d) == [d |-> d, values |-> <<>>]

AllAre(bits, d, n, g) ==
    /\ g \in [0..d.remaining -> AllRead(bits)] /\ g[0] = AllBegun(d)
    /\ \A k \in 1..d.remaining : g[k] = ReadMore(g[k - 1], n)
    /\ ReadAllDelta(d, n) = g[d.remaining]

LEMMA WordsNat ==
    ASSUME NEW bits \in Nat
    PROVE  Words(bits) \subseteq Nat
BY Pow2Facts DEF Words

LEMMA OutNat ==
    ASSUME NEW bits \in Nat, NEW d \in DeltaRecords(bits)
    PROVE  d.out \in Seq(Nat)
<1>1. PICK W : W = Words(bits) /\ W \subseteq Nat
  BY WordsNat
<1>2. d.out \in Seq(W)
  BY <1>1, DeltaFields
<1>3. Len(d.out) \in Nat /\ d.out = [i \in 1..Len(d.out) |-> d.out[i]]
      /\ \A i \in 1..Len(d.out) : d.out[i] \in W
  BY <1>2, LenProperties, ElementOfSeq
<1>4. d.out \in [1..Len(d.out) -> Nat]
  BY <1>1, <1>3
<1>5. QED
  BY <1>3, <1>4, SeqIs

LEMMA MoreIn ==
    ASSUME NEW bits \in Nat, NEW x \in AllRead(bits), NEW n \in Nat
    PROVE  ReadMore(x, n) \in AllRead(bits)
<1>1. PICK d, values : d = x.d /\ values = x.values
  OBVIOUS
<1>2. d \in DeltaRecords(bits) /\ values \in Seq(Nat)
  BY <1>1 DEF AllRead
<1>3. CASE d.failed
  <2>1. ReadMore(x, n) = x
    BY <1>1, <1>3, Zenon DEF ReadMore
  <2>2. QED
    BY <2>1
<1>4. CASE ~d.failed
  <2>1. d.failed = FALSE
    BY <1>2, <1>4, DeltaFields
  <2>2. PICK r : r = ReadDelta(d, n, 0) /\ r \in DeltaRecords(bits)
    BY <1>2, <2>1, ReadFacts
  <2>3. values \o r.out \in Seq(Nat)
    BY <1>2, <2>2, OutNat, ConcatFacts
  <2>4. ReadMore(x, n) = [d |-> r, values |-> values \o r.out]
    BY <1>1, <1>4, <2>2, Zenon DEF ReadMore, Joined
  <2>5. QED
    BY <2>2, <2>3, <2>4 DEF AllRead
<1>5. QED
  BY <1>3, <1>4

LEMMA AllRuns ==
    ASSUME NEW bits \in Nat, NEW d \in DeltaRecords(bits), d.failed = FALSE,
           NEW n \in Nat
    PROVE  \E g : AllAre(bits, d, n, g)
<1>1. PICK X, base : X = AllRead(bits) /\ base = AllBegun(d)
  OBVIOUS
<1>2. base \in X
  <2>1. <<>> \in Seq(Nat)
    BY EmptySeq
  <2>2. QED
    BY <1>1, <2>1 DEF AllRead, AllBegun
<1> DEFINE total == IF d.failed THEN 0 ELSE d.remaining
           Def(f, k) == IF k = 0 THEN base ELSE ReadMore(f[k - 1], n)
           Upto(f) == f = [k \in 0..total |-> Def(f, k)]
           Loop == CHOOSE f : Upto(f)
<1>3. ReadAllDelta(d, n) = Loop[total]
  BY <1>1, Zenon DEF ReadAllDelta, AllBegun
<1>4. total = d.remaining
  OBVIOUS
<1>5. PICK c \in Nat : c = d.remaining
  BY DeltaFields
<1>6. total = c
  BY <1>4, <1>5
<1> HIDE DEF total
<1>7. PICK step : step = [k \in 1..c |-> [x \in X |-> ReadMore(x, n)]]
  OBVIOUS
<1>8. \A x \in X : ReadMore(x, n) \in X
  BY <1>1, MoreIn
<1>9. step \in [1..c -> [X -> X]]
  BY <1>7, <1>8
<1>10. PICK g \in [0..c -> X] :
         g[0] = base /\ \A k \in 1..c : g[k] = step[k][g[k - 1]]
  <2>1. Runs(c, X, base, step)
    BY <1>2, <1>9, LoopRuns
  <2>2. QED
    BY <2>1, Zenon DEF Runs
<1>11. ASSUME NEW k \in 1..c PROVE g[k] = ReadMore(g[k - 1], n)
  <2>1. k - 1 \in 0..c
    OBVIOUS
  <2>2. g[k - 1] \in X
    BY <1>10, <2>1
  <2>3. QED
    BY <1>7, <1>10, <2>2
<1>12. Upto(g)
  <2>1. ASSUME NEW k \in 0..c PROVE g[k] = Def(g, k)
    <3>1. k # 0 => k \in 1..c
      OBVIOUS
    <3>2. QED
      BY <1>10, <1>11, <3>1
  <2> HIDE DEF Def
  <2>2. QED
    BY <1>10, <1>6, <2>1
<1>13. Upto(Loop)
  <2> HIDE DEF Upto
  <2>1. QED
    BY <1>12
<1> HIDE DEF Loop
<1>14. \A k \in 0..c : Loop[k] = Def(Loop, k)
  <2> HIDE DEF Def
  <2>1. QED
    BY <1>13, <1>6
<1>15. Loop[0] = base /\ \A k \in 1..c : Loop[k] = ReadMore(Loop[k - 1], n)
  <2>1. 0 \in 0..c /\ \A k \in 1..c : k \in 0..c /\ k # 0
    OBVIOUS
  <2>2. QED
    BY <1>14, <2>1
<1>16. Loop[c] = g[c]
  <2> DEFINE S == {k \in 0..c : Loop[k] = g[k]}
  <2>1. 0 \in S
    BY <1>10, <1>15
  <2>2. \A k \in 1..c : k - 1 \in S => k \in S
    BY <1>11, <1>15
  <2>3. 0..c \subseteq S
    <3> HIDE DEF S
    <3>1. QED
      BY <2>1, <2>2, UpTo, Zenon
  <2>4. QED
    BY <2>3
<1>17. AllAre(bits, d, n, g)
  <2>1. \A k \in 1..d.remaining : g[k] = ReadMore(g[k - 1], n)
    BY <1>11, <1>5
  <2>2. ReadAllDelta(d, n) = g[d.remaining]
    BY <1>3, <1>16, <1>5, <1>6
  <2>3. g \in [0..d.remaining -> AllRead(bits)] /\ g[0] = AllBegun(d)
    BY <1>1, <1>10, <1>5
  <2>4. QED
    BY <2>1, <2>2, <2>3 DEF AllAre
<1>18. QED
  BY <1>17

LEMMA AllFailed ==
    ASSUME NEW n
    PROVE  ReadAllDelta(FailedDelta, n) = AllBegun(FailedDelta)
<1>1. PICK d : d = FailedDelta /\ d.failed = TRUE
  <2>1. FailedDelta.failed = TRUE
    BY DEF FailedDelta
  <2>2. QED
    BY <2>1
<1>2. PICK base : base = AllBegun(d)
  OBVIOUS
<1> DEFINE total == IF d.failed THEN 0 ELSE d.remaining
           Def(f, k) == IF k = 0 THEN base ELSE ReadMore(f[k - 1], n)
           Upto(f) == f = [k \in 0..total |-> Def(f, k)]
           Loop == CHOOSE f : Upto(f)
<1>3. ReadAllDelta(d, n) = Loop[total]
  BY <1>2, Zenon DEF ReadAllDelta, AllBegun
<1>4. total = 0
  BY <1>1
<1> HIDE DEF total
<1>5. PICK g : g = [k \in {0} |-> base]
  OBVIOUS
<1>6. Upto(g)
  <2>1. 0..total = {0}
    BY <1>4
  <2>2. \A k \in {0} : Def(g, k) = base
    OBVIOUS
  <2> HIDE DEF Def
  <2>3. QED
    BY <1>5, <2>1, <2>2
<1>7. Upto(Loop)
  <2> HIDE DEF Upto
  <2>1. QED
    BY <1>6
<1> HIDE DEF Loop
<1>8. Loop[0] = Def(Loop, 0)
  <2>1. 0 \in 0..total
    BY <1>4
  <2> HIDE DEF Def
  <2>2. QED
    BY <1>7, <2>1
<1>9. QED
  BY <1>1, <1>2, <1>3, <1>4, <1>8

(* All of them are numbers, and so is what is behind them.                 *)
AllTyped(bits, read) ==
    /\ read.values \in Seq(Nat)
    /\ read.d = FailedDelta \/ read.d \in DeltaRecords(bits)
    /\ ~read.d.failed => read.d.rest \in Seq(Nat)

LEMMA AllType ==
    ASSUME NEW bits \in Nat, NEW numbers \in Seq(Nat), NEW n \in Nat
    PROVE  AllTyped(bits, ReadAllDelta(ResetDelta(bits, numbers), n))
<1>1. PICK d, read : d = ResetDelta(bits, numbers) /\ read = ReadAllDelta(d, n)
  OBVIOUS
<1>2. CASE Openable(numbers)
  <2>1. FreshIs(bits, numbers, d)
    BY <1>1, <1>2, Opened
  <2>2. d \in DeltaRecords(bits) /\ d.failed = FALSE
    BY <2>1 DEF FreshIs
  <2>3. PICK g : AllAre(bits, d, n, g)
    BY <2>2, AllRuns
  <2>4. d.remaining \in 0..d.remaining
    BY <2>2, DeltaFields
  <2>5. read \in AllRead(bits)
    <3>1. g \in [0..d.remaining -> AllRead(bits)] /\ read = g[d.remaining]
      BY <1>1, <2>3 DEF AllAre
    <3>2. QED
      BY <2>4, <3>1
  <2>6. read.d \in DeltaRecords(bits) /\ read.values \in Seq(Nat)
    BY <2>5 DEF AllRead
  <2>7. read.d.rest \in Seq(Nat)
    BY <2>6, DeltaFields
  <2>8. QED
    BY <1>1, <2>6, <2>7 DEF AllTyped
<1>3. CASE ~Openable(numbers)
  <2>1. d = FailedDelta
    BY <1>1, <1>3, Opened
  <2>2. read = AllBegun(FailedDelta)
    BY <1>1, <2>1, AllFailed
  <2>3. read.d = FailedDelta /\ read.values = <<>> /\ FailedDelta.failed = TRUE
    BY <2>2 DEF AllBegun, FailedDelta
  <2>4. <<>> \in Seq(Nat)
    BY EmptySeq
  <2>5. QED
    BY <1>1, <2>3, <2>4 DEF AllTyped
<1>4. QED
  BY <1>2, <1>3

(* Those of one miniblock, and what is behind them.                        *)
LengthsGiven(numbers, lengths, read) ==
    /\ HasLengths(numbers) =>
          /\ read.d.failed = FALSE /\ read.d.remaining = 0
          /\ read.values = lengths
          /\ read.d.rest = Skipped(numbers, LengthsEnd(numbers))
    /\ ~HasLengths(numbers) => read.d.failed = TRUE

LEMMA NoneLeft ==
    ASSUME NEW bits \in Nat, NEW d \in DeltaRecords(bits), d.failed = FALSE,
           d.remaining = 0, NEW n \in Nat, n >= 1, NEW spill \in Nat
    PROVE  ReadDelta(d, n, spill) = Emptied(d)
<1>1. PICK e : e = Emptied(d) /\ e.remaining = 0
  BY EmptiedIn
<1>2. Done(e, n)
  BY <1>1 DEF Done
<1>3. Round(e, n, spill) = e
  BY <1>2, Zenon DEF Round
<1>4. QED
  BY <1>1, <1>2, <1>3, ReadBegins

LEMMA MoreStays ==
    ASSUME NEW numbers, NEW lengths \in Seq(Nat), NEW y \in AllRead(BufferBits),
           LengthsGiven(numbers, lengths, y), NEW n \in Nat, n >= 1
    PROVE  LengthsGiven(numbers, lengths, ReadMore(y, n))
<1>1. PICK d, values : d = y.d /\ values = y.values
  OBVIOUS
<1>2. d \in DeltaRecords(BufferBits) /\ values \in Seq(Nat)
  BY <1>1 DEF AllRead
<1>3. CASE ~HasLengths(numbers)
  <2>1. d.failed = TRUE
    BY <1>1, <1>3 DEF LengthsGiven
  <2>2. ReadMore(y, n) = y
    BY <1>1, <2>1, Zenon DEF ReadMore
  <2>3. QED
    BY <2>2
<1>4. CASE HasLengths(numbers)
  <2>1. /\ d.failed = FALSE /\ d.remaining = 0 /\ values = lengths
        /\ d.rest = Skipped(numbers, LengthsEnd(numbers))
    BY <1>1, <1>4 DEF LengthsGiven
  <2>2. PICK e : /\ e = Emptied(d) /\ e.out = <<>> /\ e.failed = FALSE
                 /\ e.remaining = 0 /\ e.rest = d.rest
    BY <1>2, <2>1, EmptiedIn
  <2>3. ReadDelta(d, n, 0) = e
    <3>1. BufferBits \in Nat
      BY DeltaConstants
    <3>2. QED
      BY <1>2, <2>1, <2>2, <3>1, NoneLeft
  <2>4. values \o <<>> = values
    BY <1>2
  <2>5. ReadMore(y, n) = [d |-> e, values |-> values \o e.out]
    BY <1>1, <2>1, <2>3, Zenon DEF ReadMore, Joined
  <2>6. ReadMore(y, n) = [d |-> e, values |-> lengths]
    BY <2>1, <2>2, <2>4, <2>5
  <2>7. QED
    BY <1>4, <2>1, <2>2, <2>6 DEF LengthsGiven
<1>5. QED
  BY <1>3, <1>4

LEMMA FirstMoreGives ==
    ASSUME NEW numbers \in Seq(Nat), Openable(numbers), NEW lengths \in Seq(Nat),
           numbers[3] = Len(lengths), Len(lengths) # 0,
           Len(lengths) <= 1 + PerFirst(numbers),
           HasLengths(numbers) => LengthsAre(numbers, lengths),
           NEW n \in Nat, n >= 1, Len(lengths) <= n,
           NEW d, FreshIs(BufferBits, numbers, d)
    PROVE  LengthsGiven(numbers, lengths, ReadMore(AllBegun(d), n))
<1>1. PICK l \in Nat, a \in Nat, m \in Nat \ {0}, c \in Nat, p \in Nat :
        /\ l = Len(numbers) /\ a = numbers[1] /\ m = numbers[2]
        /\ c = numbers[3] /\ p = PerFirst(numbers) /\ l >= 4
  BY FirstNumbers DEF PerFirst
<1>2. c >= 1 /\ c <= 1 + p /\ c <= n /\ c = Len(lengths) /\ numbers[3] # 0
  BY <1>1
<1>3. BufferBits \in Nat
  BY DeltaConstants
<1>4. d \in DeltaRecords(BufferBits) /\ d.failed = FALSE
  BY DEF FreshIs
<1>5. PICK x, r : x = Round(Emptied(d), n, 0) /\ r = ReadDelta(d, n, 0)
  OBVIOUS
<1>6. FirstRound(BufferBits, numbers, 0, n, x)
  BY <1>2, <1>3, <1>5, FirstRoundIs
<1>7. PICK k \in Nat : k = FirstDeltas(numbers, n) /\ k = c - 1
  <2>1. Fewer(n - 1, Fewer(p, c - 1)) = c - 1
    BY <1>2 DEF Fewer
  <2>2. FirstDeltas(numbers, n) = Fewer(n - 1, Fewer(p, c - 1))
    BY <1>1, Zenon DEF FirstDeltas, PerFirst
  <2>3. c - 1 \in Nat
    BY <1>2
  <2>4. QED
    BY <2>1, <2>2, <2>3
<1>8. /\ FirstIs(BufferBits, numbers, 0, k, x) /\ AllIs(numbers, k, x)
      /\ x \in DeltaRecords(BufferBits)
  BY <1>6, <1>7, Zenon DEF FirstRound
<1>9. /\ x.failed = ~HasLengths(numbers)
      /\ ~x.failed => /\ x.rest = Skipped(numbers, LengthsEnd(numbers))
                      /\ x.remaining = 0
  <2>1. c = 1 + k
    BY <1>7
  <2>2. numbers[3] = 1 + k
    BY <1>1, <2>1, Zenon
  <2>3. QED
    BY <1>8, <2>2, Zenon DEF AllIs
<1>10. r = x
  <2>1. Done(x, n)
    BY <1>9, Zenon DEF Done
  <2>2. Done(x, n) => ReadDelta(d, n, 0) = x
    BY <1>3, <1>4, <1>5, ReadBegins
  <2>3. QED
    BY <1>5, <2>1, <2>2
<1>11. ReadMore(AllBegun(d), n) = [d |-> x, values |-> <<>> \o x.out]
  <2>1. AllBegun(d) = [d |-> d, values |-> <<>>]
    BY DEF AllBegun
  <2>2. AllBegun(d).d = d /\ AllBegun(d).values = <<>>
    BY <2>1
  <2>3. QED
    BY <1>4, <1>5, <1>10, <2>2, Zenon DEF ReadMore, Joined
<1>12. <<>> \o x.out = x.out
  <2>1. x.out \in Seq(Nat)
    BY <1>3, <1>8, OutNat
  <2>2. QED
    BY <2>1
<1>13. CASE ~HasLengths(numbers)
  <2>1. x.failed = TRUE
    BY <1>9, <1>13
  <2>2. QED
    BY <1>11, <1>13, <2>1 DEF LengthsGiven
<1>14. CASE HasLengths(numbers)
  <2>1. x.failed = FALSE
    BY <1>9, <1>14
  <2>2. /\ FirstValues(BufferBits, numbers, lengths)
        /\ Len(lengths) > 1 => numbers[6] <= BufferBits
    BY <1>14 DEF LengthsAre
  <2>3. FirstNarrow(numbers, k)
    <3>1. k = 0 \/ c > 1
      BY <1>7
    <3>2. QED
      BY <1>2, <2>2, <3>1, Zenon DEF FirstNarrow
  <2>4. /\ Len(lengths) \in Nat /\ k + 1 <= Len(lengths) /\ k <= PerFirst(numbers)
    BY <1>1, <1>2, <1>7
  <2>5. x.out \in Seq(Words(BufferBits)) /\ ~x.failed
    BY <1>8, <2>1, DeltaFields
  <2>6. FirstAre(lengths, k, x)
    BY <1>3, <1>8, <2>2, <2>3, <2>4, <2>5, FirstRight
  <2>7. Len(x.out) = 1 + k
    BY <1>8, <2>5, Zenon DEF FirstIs
  <2>8. x.out = lengths
    <3>1. Len(x.out) = c
      BY <1>7, <2>7
    <3>2. ASSUME NEW i \in 1..c PROVE x.out[i] = lengths[i]
      <4>1. i - 1 \in 0..k /\ i - 1 + 1 = i
        BY <1>7
      <4>2. QED
        BY <2>6, <4>1 DEF FirstAre
    <3>3. x.out \in Seq(Nat)
      BY <1>3, <1>8, OutNat
    <3>4. QED
      BY <1>2, <3>1, <3>2, <3>3, SeqEqual
  <2>9. /\ x.rest = Skipped(numbers, LengthsEnd(numbers)) /\ x.remaining = 0
    BY <1>9, <2>5
  <2>10. QED
    BY <1>11, <1>12, <1>14, <2>1, <2>8, <2>9 DEF LengthsGiven
<1>15. QED
  BY <1>13, <1>14

LEMMA AllGives ==
    ASSUME NEW numbers \in Seq(Nat), Openable(numbers), NEW lengths \in Seq(Nat),
           numbers[3] = Len(lengths), Len(lengths) <= 1 + PerFirst(numbers),
           HasLengths(numbers) => LengthsAre(numbers, lengths),
           NEW n \in Nat, n >= 1, Len(lengths) <= n
    PROVE  LengthsGiven(numbers, lengths,
                        ReadAllDelta(ResetDelta(BufferBits, numbers), n))
<1>1. PICK d, read : d = ResetDelta(BufferBits, numbers) /\ read = ReadAllDelta(d, n)
  OBVIOUS
<1>2. BufferBits \in Nat
  BY DeltaConstants
<1>3. FreshIs(BufferBits, numbers, d)
  BY <1>1, <1>2, Opened
<1>4. /\ d \in DeltaRecords(BufferBits) /\ d.failed = FALSE
      /\ d.rest = Skipped(numbers, 4) /\ d.remaining = numbers[3]
  BY <1>3 DEF FreshIs
<1>5. PICK c \in Nat : c = Len(lengths) /\ c = numbers[3] /\ c = d.remaining
  BY <1>4, LenProperties
<1>6. PICK g : AllAre(BufferBits, d, n, g)
  BY <1>2, <1>4, AllRuns
<1>7. /\ g \in [0..c -> AllRead(BufferBits)] /\ g[0] = AllBegun(d)
      /\ \A k \in 1..c : g[k] = ReadMore(g[k - 1], n) /\ read = g[c]
  BY <1>1, <1>5, <1>6 DEF AllAre
<1>8. read = g[c]
  BY <1>1, <1>5, <1>6 DEF AllAre
<1>9. CASE c = 0
  <2>1. read = [d |-> d, values |-> <<>>]
    BY <1>7, <1>8, <1>9 DEF AllBegun
  <2>2. lengths = <<>>
    BY <1>5, <1>9, EmptySeq
  <2>3. ~(numbers[3] > 1) /\ numbers[3] <= 1
    BY <1>5, <1>9
  <2>4. LengthsEnd(numbers) = 4 /\ HasLengths(numbers)
    BY <2>3, Zenon DEF LengthsEnd, HasLengths
  <2>5. QED
    BY <1>1, <1>4, <1>5, <1>9, <2>1, <2>2, <2>4 DEF LengthsGiven
<1>10. CASE c # 0
  <2> DEFINE S == {k \in 0..c : k = 0 \/ LengthsGiven(numbers, lengths, g[k])}
  <2>1. 0 \in S
    OBVIOUS
  <2>2. ASSUME NEW k \in 1..c, k - 1 \in S PROVE k \in S
    <3>1. g[k] = ReadMore(g[k - 1], n) /\ k - 1 \in 0..c /\ k \in 0..c
      BY <1>7
    <3>2. CASE k = 1
      <4>1. g[k] = ReadMore(AllBegun(d), n)
        <5>1. k - 1 = 0
          BY <3>2
        <5>2. QED
          BY <1>7, <3>1, <5>1
      <4>2. Len(lengths) # 0
        BY <1>5, <1>10
      <4>3. LengthsGiven(numbers, lengths, g[k])
        BY <1>3, <4>1, <4>2, FirstMoreGives
      <4>4. QED
        BY <3>1, <4>3
    <3>3. CASE k # 1
      <4>1. k - 1 # 0
        BY <3>3
      <4>2. LengthsGiven(numbers, lengths, g[k - 1]) /\ g[k - 1] \in AllRead(BufferBits)
        BY <1>7, <2>2, <3>1, <4>1
      <4>3. LengthsGiven(numbers, lengths, g[k])
        BY <3>1, <4>2, MoreStays
      <4>4. QED
        BY <3>1, <4>3
    <3>4. QED
      BY <3>2, <3>3
  <2>3. 0..c \subseteq S
    <3> HIDE DEF S
    <3>1. QED
      BY <2>1, <2>2, UpTo, Zenon
  <2>4. LengthsGiven(numbers, lengths, g[c])
    <3>1. c \in 0..c
      OBVIOUS
    <3>2. QED
      BY <1>10, <2>3, <3>1
  <2>5. QED
    BY <1>1, <1>8, <2>4
<1>11. QED
  BY <1>9, <1>10

-----------------------------------------------------------------------------
(* Pages that begin with lengths.                                          *)
LengthsReset(read) ==
    [coding |-> "DELTA_LENGTH_BYTE_ARRAY", lengths |-> read.values, idx |-> 0,
     rest |-> read.d.rest]

LEMMA ResetIs ==
    ASSUME NEW numbers \in Seq(Nat),
           NEW read, read = ReadAllDelta(ResetDelta(BufferBits, numbers), BatchSize)
    PROVE  /\ read.d.failed => ResetLengths(numbers) = Refused
           /\ ~read.d.failed => /\ ResetLengths(numbers) = LengthsReset(read)
                                /\ LengthsReset(read) \in LengthDecoders
           /\ read.d.failed \in BOOLEAN
<1>1. BufferBits \in Nat /\ BatchSize \in Nat
  BY DeltaConstants, CodingAssumption
<1>2. AllTyped(BufferBits, read)
  BY <1>1, AllType
<1>3. /\ read.values \in Seq(Nat) /\ (~read.d.failed => read.d.rest \in Seq(Nat))
      /\ (read.d = FailedDelta \/ read.d \in DeltaRecords(BufferBits))
  BY <1>2 DEF AllTyped
<1>4. read.d.failed \in BOOLEAN
  <2>1. FailedDelta.failed \in BOOLEAN
    BY DEF FailedDelta
  <2>2. QED
    BY <1>3, <2>1, DeltaFields
<1>5. 0 <= Len(read.values)
  BY <1>3, LenProperties
<1>6. CASE read.d.failed
  BY <1>4, <1>6, Zenon DEF ResetLengths, LengthsRead
<1>7. CASE ~read.d.failed
  <2>1. ResetLengths(numbers) = LengthsReset(read)
    BY <1>7, Zenon DEF ResetLengths, LengthsRead, LengthsReset
  <2>2. LengthsReset(read) \in LengthDecoders
    BY <1>3, <1>5, <1>7 DEF LengthsReset, LengthDecoders
  <2>3. QED
    BY <1>4, <1>7, <2>1, <2>2
<1>8. QED
  BY <1>6, <1>7

(* A page of lengths as the decoder finds it.                              *)
LengthsFound(numbers, content, whole) ==
    /\ Openable(numbers) /\ numbers[3] = Len(content)
    /\ Len(content) <= 1 + PerFirst(numbers) /\ Len(content) <= BatchSize
    /\ HasLengths(numbers) =>
          /\ LengthsAre(numbers, Lengths(content))
          /\ Part(whole, Skipped(numbers, LengthsEnd(numbers)), FlattenSeq(content))

LEMMA LengthsFresh ==
    ASSUME NEW numbers \in Seq(Nat), NEW content \in Seq(Seq(Nat)), NEW whole,
           LengthsFound(numbers, content, whole)
    PROVE  /\ HasLengths(numbers) =>
                 /\ ResetLengths(numbers) # Refused
                 /\ ResetLengths(numbers) \in AtLengths(content, whole)[0]
                 /\ ResetLengths(numbers).lengths = Lengths(content)
           /\ ~HasLengths(numbers) => ResetLengths(numbers) = Refused
<1>1. PICK read :
        read = ReadAllDelta(ResetDelta(BufferBits, numbers), BatchSize)
  OBVIOUS
<1>2. PICK lengths \in Seq(Nat) :
        lengths = Lengths(content) /\ Len(lengths) = Len(content)
  BY LengthsFacts
<1>3. LengthsGiven(numbers, lengths, read)
  <2>1. BatchSize \in Nat /\ BatchSize >= 1
    BY CodingAssumption
  <2>2. /\ Openable(numbers) /\ numbers[3] = Len(lengths)
        /\ Len(lengths) <= 1 + PerFirst(numbers) /\ Len(lengths) <= BatchSize
        /\ HasLengths(numbers) => LengthsAre(numbers, lengths)
    BY <1>2, Zenon DEF LengthsFound
  <2>3. QED
    BY <1>1, <2>1, <2>2, AllGives
<1>4. CASE ~HasLengths(numbers)
  <2>1. read.d.failed = TRUE
    BY <1>3, <1>4 DEF LengthsGiven
  <2>2. QED
    BY <1>1, <1>4, <2>1, ResetIs
<1>5. CASE HasLengths(numbers)
  <2>1. /\ read.d.failed = FALSE /\ read.values = lengths
        /\ read.d.rest = Skipped(numbers, LengthsEnd(numbers))
    BY <1>3, <1>5 DEF LengthsGiven
  <2>2. PICK d : /\ d = ResetLengths(numbers) /\ d = LengthsReset(read)
                 /\ d \in LengthDecoders
    BY <1>1, <2>1, ResetIs
  <2>3. d.idx = 0 /\ d.lengths = lengths /\ d.rest = read.d.rest
    BY <2>1, <2>2 DEF LengthsReset
  <2>4. d # Refused
    <3>1. d.coding = "DELTA_LENGTH_BYTE_ARRAY" /\ Refused.coding = "refused"
      BY <2>2 DEF LengthsReset, Refused
    <3>2. QED
      BY <3>1
  <2>5. Part(whole, d.rest, FlattenSeq(Skipped(content, 0)))
    <3>1. Skipped(content, 0) = content
      <4>1. PICK T : T = Seq(Nat) /\ content \in Seq(T)
        OBVIOUS
      <4>2. QED
        BY <4>1, SkipNone
    <3>2. Part(whole, Skipped(numbers, LengthsEnd(numbers)), FlattenSeq(content))
      BY <1>5, Zenon DEF LengthsFound
    <3>3. QED
      BY <2>1, <2>3, <3>1, <3>2, Zenon
  <2>6. d \in AtLengths(content, whole)[0]
    <3>1. 0 \in 0..Len(content)
      BY LenProperties
    <3>2. QED
      BY <1>2, <2>2, <2>3, <2>5, <3>1 DEF AtLengths
  <2>7. QED
    BY <1>2, <1>5, <2>2, <2>3, <2>4, <2>6
<1>6. QED
  BY <1>4, <1>5

(* Prefixes and suffixes.                                                  *)
PrefixesOf(d, content) ==
    /\ d \in PrefixDecoders /\ d.last = <<>> /\ Len(d.suffixes) = Len(content)
    /\ \A i \in 1..Len(content) :
          d.lengths[i] <= Len(PrefixBefore(content, i)) =>
              content[i] = SubSeq(PrefixBefore(content, i), 1, d.lengths[i])
                               \o d.suffixes[i]

PrefixMore(d, content, j, b, m) ==
    /\ m <= Len(content) /\ (m = j \/ m = Len(content))
    /\ b = Batch([d EXCEPT !.last = PrefixBefore(content, m + 1)],
                 SubSeq(content, 1, m))

PrefixGiven(d, content, j, b) ==
    \/ b.threw = TRUE /\ b.values = <<>>
    \/ \E m \in 0..j : PrefixMore(d, content, j, b, m)

PrefixStep(content, d, m, b, c) ==
    \/ c.threw = TRUE /\ c.values = <<>>
    \/ m = Len(content) /\ c = b
    \/ /\ m + 1 <= Len(content)
       /\ c = Batch([d EXCEPT !.last = PrefixBefore(content, m + 2)],
                    SubSeq(content, 1, m + 1))

LEMMA PrefixOne ==
    ASSUME NEW content \in Seq(Seq(Nat)), NEW d, PrefixesOf(d, content),
           NEW m \in Nat, m <= Len(content),
           NEW b, b = Batch([d EXCEPT !.last = PrefixBefore(content, m + 1)],
                            SubSeq(content, 1, m))
    PROVE  PrefixStep(content, d, m, b, Take(b))
<1>1. PICK l \in Nat : l = Len(content) /\ m <= l
  BY LenProperties
<1>2. /\ d \in PrefixDecoders /\ Len(d.suffixes) = l
      /\ \A i \in 1..l :
            d.lengths[i] <= Len(PrefixBefore(content, i)) =>
                content[i] = SubSeq(PrefixBefore(content, i), 1, d.lengths[i])
                                 \o d.suffixes[i]
  BY <1>1 DEF PrefixesOf
<1>3. PICK last, values : /\ last = PrefixBefore(content, m + 1)
                          /\ values = SubSeq(content, 1, m)
  OBVIOUS
<1>4. PICK e : e = [d EXCEPT !.last = last]
  OBVIOUS
<1>5. /\ e.coding = "DELTA_BYTE_ARRAY" /\ e.lengths = d.lengths
      /\ e.suffixes = d.suffixes /\ e.last = last
      /\ \A v : [e EXCEPT !.last = v] = [d EXCEPT !.last = v]
  BY <1>2, <1>4 DEF PrefixDecoders
<1>6. b = Batch(e, values) /\ b.decoder = e /\ b.values = values /\ b.threw = FALSE
  BY <1>3, <1>4 DEF Batch
<1>7. Len(values) = m
  <2>1. PICK T : T = Seq(Nat) /\ content \in Seq(T)
    OBVIOUS
  <2>2. m \in 0..Len(content)
    BY <1>1
  <2>3. QED
    BY <1>3, <2>1, <2>2, FrontFacts
<1>8. Take(b) = TakePrefix(b)
  BY <1>5, <1>6 DEF Take
<1>9. CASE m = l
  <2>1. Len(values) + 1 > Len(e.suffixes)
    BY <1>2, <1>5, <1>7, <1>9
  <2>2. TakePrefix(b) = b
    BY <1>6, <2>1, Zenon DEF TakePrefix
  <2>3. m = Len(content) /\ Take(b) = b
    BY <1>1, <1>8, <1>9, <2>2
  <2>4. QED
    BY <2>3, Zenon DEF PrefixStep
<1>10. CASE m # l
  <2>1. /\ ~(Len(values) + 1 > Len(e.suffixes)) /\ Len(values) + 1 = m + 1
        /\ m + 1 \in 1..l
    BY <1>1, <1>2, <1>5, <1>7, <1>10
  <2>2. CASE d.lengths[m + 1] > Len(last)
    <3>1. TakePrefix(b) = Threw(e)
      BY <1>5, <1>6, <2>1, <2>2, Zenon DEF TakePrefix
    <3>2. Take(b).threw = TRUE /\ Take(b).values = <<>>
      BY <1>8, <3>1 DEF Threw
    <3>3. QED
      BY <3>2, Zenon DEF PrefixStep
  <2>3. CASE ~(d.lengths[m + 1] > Len(last))
    <3>1. PICK v : v = SubSeq(last, 1, d.lengths[m + 1]) \o d.suffixes[m + 1]
      OBVIOUS
    <3>2. TakePrefix(b) = Batch([e EXCEPT !.last = v], Append(values, v))
      BY <1>5, <1>6, <2>1, <2>3, <3>1, Zenon DEF TakePrefix
    <3>3. content[m + 1] = v
      <4>1. d.lengths[m + 1] <= Len(last)
        <5>1. d.lengths \in Seq(Nat) /\ Len(d.suffixes) <= Len(d.lengths)
          BY <1>2 DEF PrefixDecoders
        <5>2. m + 1 \in 1..Len(d.lengths)
          <6>1. Len(d.lengths) \in Nat /\ l <= Len(d.lengths)
            BY <1>2, <5>1, LenProperties
          <6>2. QED
            BY <2>1, <6>1
        <5>3. d.lengths[m + 1] \in Nat
          BY <5>1, <5>2, ElementOfSeq
        <5>4. Len(last) \in Nat
          <6>1. last \in Seq(Nat)
            <7>1. CASE m + 1 = 1
              <8>1. last = <<>>
                BY <1>3, <7>1, Zenon DEF PrefixBefore
              <8>2. QED
                BY <8>1, EmptySeq
            <7>2. CASE m + 1 # 1
              <8>1. m + 1 - 1 \in 1..l
                BY <1>1, <7>2
              <8>2. content[m + 1 - 1] \in Seq(Nat)
                BY <1>1, <8>1, ElementOfSeq
              <8>3. last = content[m + 1 - 1]
                BY <1>3, <7>2 DEF PrefixBefore
              <8>4. QED
                BY <8>2, <8>3
            <7>3. QED
              BY <7>1, <7>2
          <6>2. QED
            BY <6>1, LenProperties
        <5>5. QED
          BY <2>3, <5>3, <5>4
      <4>2. QED
        BY <1>2, <1>3, <2>1, <3>1, <4>1
    <3>4. Append(values, v) = SubSeq(content, 1, m + 1)
      <4>1. PICK T : T = Seq(Nat) /\ content \in Seq(T)
        OBVIOUS
      <4>2. 0 \in Nat /\ 0 + m < Len(content) /\ 0 + m + 1 = m + 1
            /\ 0 + (m + 1) = m + 1 /\ 0 + m = m /\ 0 + 1 = 1
        BY <1>1, <1>10
      <4>3. Append(SubSeq(content, 0 + 1, 0 + m), content[0 + m + 1]) =
               SubSeq(content, 0 + 1, 0 + (m + 1))
        BY <4>1, <4>2, PartAppend
      <4>4. QED
        BY <1>3, <3>3, <4>2, <4>3
    <3>5. PrefixBefore(content, m + 2) = v
      <4>1. m + 2 # 1 /\ m + 2 - 1 = m + 1
        OBVIOUS
      <4>2. PrefixBefore(content, m + 2) = content[m + 2 - 1]
        BY <4>1 DEF PrefixBefore
      <4>3. QED
        BY <3>3, <4>1, <4>2
    <3>6. Take(b) = Batch([d EXCEPT !.last = PrefixBefore(content, m + 2)],
                          SubSeq(content, 1, m + 1))
      BY <1>5, <1>8, <3>2, <3>4, <3>5
    <3>7. m + 1 <= Len(content)
      BY <1>1, <2>1
    <3>8. QED
      BY <3>6, <3>7, Zenon DEF PrefixStep
  <2>4. QED
    BY <2>2, <2>3
<1>11. QED
  BY <1>9, <1>10

LEMMA PrefixesGive ==
    ASSUME NEW content \in Seq(Seq(Nat)), NEW d, PrefixesOf(d, content),
           NEW n \in Nat
    PROVE  PrefixGiven(d, content, n, Times(d, n))
<1>1. PICK D : D = PrefixDecoders /\ Copies(D)
  BY PrefixCopy
<1>2. d \in D /\ d.last = <<>>
  BY <1>1 DEF PrefixesOf
<1>3. PICK f : TimesIs(D, d, n, f)
  <2>1. \A batch \in Batches(D) : Take(batch) \in Batches(D)
    BY <1>1 DEF Copies
  <2>2. QED
    BY <1>2, <2>1, TimesRuns
<1>4. /\ f \in [0..n -> Batches(D)] /\ f[0] = Batch(d, <<>>)
      /\ \A j \in 1..n : f[j] = Take(f[j - 1])
      /\ Times(d, n) = f[n]
  BY <1>3 DEF TimesIs
<1> DEFINE S == {j \in 0..n : PrefixGiven(d, content, j, f[j])}
<1>5. 0 \in S
  <2>1. SubSeq(content, 1, 0) = <<>>
    BY SubSeqEmpty
  <2>2. PrefixBefore(content, 0 + 1) = <<>>
    BY DEF PrefixBefore
  <2>3. [d EXCEPT !.last = <<>>] = d
    BY <1>1, <1>2 DEF PrefixDecoders
  <2>4. 0 <= Len(content) /\ 0 \in 0..0 /\ 0 \in 0..n
    BY LenProperties
  <2>5. PrefixMore(d, content, 0, f[0], 0)
    BY <1>4, <2>1, <2>2, <2>3, <2>4 DEF PrefixMore
  <2>6. PrefixGiven(d, content, 0, f[0])
    BY <2>4, <2>5, Zenon DEF PrefixGiven
  <2>7. QED
    BY <2>4, <2>6
<1>6. ASSUME NEW j \in 1..n, j - 1 \in S PROVE j \in S
  <2>1. /\ PrefixGiven(d, content, j - 1, f[j - 1])
        /\ f[j] = Take(f[j - 1]) /\ f[j - 1] \in Batches(D) /\ j \in 0..n
    BY <1>4, <1>6
  <2>2. PICK b \in Batches(D) : b = f[j - 1] /\ f[j] = Take(b)
    BY <2>1
  <2>3. PrefixGiven(d, content, j, Take(b))
    <3>1. CASE b.threw = TRUE /\ b.values = <<>>
      <4>1. Take(b) = b
        <5>1. b.decoder.coding \in Copied
          BY <1>1 DEF Batches, Copies
        <5>2. QED
          BY <3>1, <5>1, ThrewStays
      <4>2. QED
        BY <3>1, <4>1, Zenon DEF PrefixGiven
    <3>2. CASE \E m \in 0..(j - 1) : PrefixMore(d, content, j - 1, b, m)
      <4>1. PICK m \in 0..(j - 1) : PrefixMore(d, content, j - 1, b, m)
        BY <3>2
      <4>2. /\ m <= Len(content) /\ (m = j - 1 \/ m = Len(content))
            /\ b = Batch([d EXCEPT !.last = PrefixBefore(content, m + 1)],
                         SubSeq(content, 1, m))
        BY <4>1 DEF PrefixMore
      <4>3. \/ Take(b).threw = TRUE /\ Take(b).values = <<>>
            \/ m = Len(content) /\ Take(b) = b
            \/ /\ m + 1 <= Len(content)
               /\ Take(b) = Batch([d EXCEPT !.last = PrefixBefore(content, m + 2)],
                                  SubSeq(content, 1, m + 1))
        <5>1. m \in Nat
          OBVIOUS
        <5>2. PrefixStep(content, d, m, b, Take(b))
          BY <4>2, <5>1, PrefixOne
        <5>3. QED
          BY <5>2, Zenon DEF PrefixStep
      <4>4. CASE Take(b).threw = TRUE /\ Take(b).values = <<>>
        BY <4>4, Zenon DEF PrefixGiven
      <4>5. CASE m = Len(content) /\ Take(b) = b
        <5>1. PrefixMore(d, content, j, b, m)
          BY <4>2, <4>5, Zenon DEF PrefixMore
        <5>2. m \in 0..j
          OBVIOUS
        <5>3. QED
          BY <4>5, <5>1, <5>2, Zenon DEF PrefixGiven
      <4>6. CASE /\ m + 1 <= Len(content)
                 /\ Take(b) = Batch([d EXCEPT !.last = PrefixBefore(content, m + 2)],
                                    SubSeq(content, 1, m + 1))
        <5>1. m + 1 \in 0..j /\ m + 1 + 1 = m + 2
          OBVIOUS
        <5>2. m + 1 = j \/ m + 1 = Len(content)
          <6>1. Len(content) \in Nat
            BY LenProperties
          <6>2. QED
            BY <4>2, <4>6, <6>1
        <5>3. PrefixMore(d, content, j, Take(b), m + 1)
          BY <4>6, <5>1, <5>2, Zenon DEF PrefixMore
        <5>4. QED
          BY <5>1, <5>3, Zenon DEF PrefixGiven
      <4>7. QED
        BY <4>3, <4>4, <4>5, <4>6
    <3>3. QED
      BY <2>1, <2>2, <3>1, <3>2, Zenon DEF PrefixGiven
  <2>4. PrefixGiven(d, content, j, f[j])
    BY <2>2, <2>3, Zenon
  <2>5. QED
    BY <2>1, <2>4
<1>7. 0..n \subseteq S
  <2> HIDE DEF S
  <2>1. QED
    BY <1>5, <1>6, UpTo, Zenon
<1>8. n \in S
  <2>1. n \in 0..n
    OBVIOUS
  <2>2. QED
    BY <1>7, <2>1
<1>9. QED
  BY <1>4, <1>8

(* What a reset leaves of a page of prefixes.                              *)
LEMMA PrefixesType ==
    ASSUME NEW numbers \in Seq(Nat),
           ResetPrefixes(numbers) # Refused =>
               Len(ResetPrefixes(numbers).suffixes) <= Len(ResetPrefixes(numbers).lengths)
    PROVE  \/ ResetPrefixes(numbers) = Refused
           \/ ResetPrefixes(numbers) \in PrefixDecoders
<1>1. PICK read, reset :
        /\ read = ReadAllDelta(ResetDelta(BufferBits, numbers), BatchSize)
        /\ reset = ResetPrefixes(numbers)
  OBVIOUS
<1>2. reset = ThenSuffixes(read)
  BY <1>1, Zenon DEF ResetPrefixes
<1>3. CASE read.d.failed
  <2>1. reset = Refused
    BY <1>2, <1>3, Zenon DEF ThenSuffixes
  <2>2. QED
    BY <1>1, <2>1
<1>4. CASE ~read.d.failed
  <2>1. PICK s : s = ResetLengths(read.d.rest)
    OBVIOUS
  <2>2. reset = PrefixesRead(read, s)
    BY <1>2, <1>4, <2>1, Zenon DEF ThenSuffixes
  <2>3. read.values \in Seq(Nat) /\ read.d.rest \in Seq(Nat)
    <3>1. BufferBits \in Nat /\ BatchSize \in Nat
      BY DeltaConstants, CodingAssumption
    <3>2. AllTyped(BufferBits, read)
      BY <1>1, <3>1, AllType
    <3>3. QED
      BY <1>4, <3>2, Zenon DEF AllTyped
  <2>4. s = Refused \/ s \in LengthDecoders
    BY <2>1, <2>3, ResetIs
  <2>5. CASE s = Refused
    <3>1. reset = Refused
      BY <2>2, <2>5, Zenon DEF PrefixesRead
    <3>2. QED
      BY <1>1, <3>1
  <2>6. CASE s # Refused
    <3>1. PICK all : all = Times(s, Len(s.lengths))
      OBVIOUS
    <3>2. reset = SuffixesRead(read, all)
      BY <2>2, <2>6, <3>1, Zenon DEF PrefixesRead
    <3>3. all \in Batches(LengthDecoders)
      <4>1. PICK D : D = LengthDecoders /\ Copies(D) /\ s \in D
        BY <2>4, <2>6, LengthsCopy
      <4>2. PICK n \in Nat : n = Len(s.lengths)
        <5>1. s.lengths \in Seq(Nat)
          BY <4>1 DEF LengthDecoders
        <5>2. QED
          BY <5>1, LenProperties
      <4>3. \A batch \in Batches(D) : Take(batch) \in Batches(D)
        BY <4>1 DEF Copies
      <4>4. PICK f : TimesIs(D, s, n, f)
        BY <4>1, <4>2, <4>3, TimesRuns
      <4>5. f[n] \in Batches(D) /\ Times(s, n) = f[n]
        BY <4>4 DEF TimesIs
      <4>6. QED
        BY <3>1, <4>1, <4>2, <4>5
    <3>4. CASE all.threw
      <4>1. reset = Refused
        BY <3>2, <3>4, Zenon DEF SuffixesRead
      <4>2. QED
        BY <1>1, <4>1
    <3>5. CASE ~all.threw
      <4>1. reset = [coding |-> "DELTA_BYTE_ARRAY", lengths |-> read.values,
                     suffixes |-> all.values, last |-> <<>>]
        BY <3>2, <3>5, Zenon DEF SuffixesRead
      <4>2. reset # Refused
        <5>1. reset.coding = "DELTA_BYTE_ARRAY" /\ Refused.coding = "refused"
          BY <4>1 DEF Refused
        <5>2. QED
          BY <5>1
      <4>3. Len(all.values) <= Len(read.values)
        <5>1. Len(reset.suffixes) <= Len(reset.lengths)
          BY <1>1, <4>2
        <5>2. QED
          BY <4>1, <5>1
      <4>4. all.values \in Seq(Seq(Nat)) /\ <<>> \in Seq(Nat)
        BY <3>3, EmptySeq DEF Batches
      <4>5. reset \in PrefixDecoders
        BY <2>3, <4>1, <4>3, <4>4 DEF PrefixDecoders
      <4>6. QED
        BY <1>1, <4>5
    <3>6. QED
      BY <3>4, <3>5
  <2>7. QED
    BY <2>5, <2>6
<1>5. QED
  BY <1>3, <1>4

LEMMA SuffixesGiven ==
    ASSUME NEW numbers \in Seq(Nat), NEW suffixes \in Seq(Seq(Nat)),
           SuffixesStand(numbers, suffixes), Len(suffixes) <= BatchSize
    PROVE  /\ ResetLengths(numbers) # Refused
           /\ Times(ResetLengths(numbers), Len(ResetLengths(numbers).lengths)).threw
                 = FALSE
           /\ Times(ResetLengths(numbers), Len(ResetLengths(numbers).lengths)).values
                 = suffixes
<1>1. PICK c \in Nat : c = Len(suffixes)
  BY LenProperties
<1>2. /\ LengthsAre(numbers, Lengths(suffixes)) /\ HasLengths(numbers)
      /\ Len(suffixes) <= 1 + PerFirst(numbers)
      /\ Skipped(numbers, LengthsEnd(numbers)) = FlattenSeq(suffixes)
  BY DEF SuffixesStand, Lengths, PerFirst
<1>3. Len(Lengths(suffixes)) = c
  BY <1>1, LengthsFacts
<1>4. Openable(numbers) /\ numbers[3] = c
  BY <1>2, <1>3 DEF LengthsAre, FirstValues, Openable
<1>5. Part(TRUE, Skipped(numbers, LengthsEnd(numbers)), FlattenSeq(suffixes))
  <2>1. PICK s : s = FlattenSeq(suffixes) /\ s \in Seq(Nat)
    BY FlattenType
  <2>2. Part(TRUE, s, s)
    <3>1. PartIs(TRUE, s, s)
      <4>1. Len(s) <= Len(s)
        BY <2>1, LenProperties
      <4>2. QED
        BY <4>1 DEF PartIs
    <3>2. QED
      BY <2>1, <3>1, PartMeans
  <2>3. QED
    BY <1>2, <2>1, <2>2
<1>6. LengthsFound(numbers, suffixes, TRUE)
  BY <1>1, <1>2, <1>4, <1>5 DEF LengthsFound
<1>7. PICK d : /\ d = ResetLengths(numbers) /\ d # Refused
               /\ d \in AtLengths(suffixes, TRUE)[0] /\ d.lengths = Lengths(suffixes)
  BY <1>2, <1>6, LengthsFresh
<1>8. PICK b : b = Times(d, c)
  OBVIOUS
<1>9. Gives(b, AtLengths(suffixes, TRUE), suffixes, TRUE, 0, c)
  <2>1. 0 \in 0..Len(suffixes)
    BY <1>1
  <2>2. QED
    BY <1>7, <1>8, <2>1, LengthsGive
<1>10. PICK m \in 0..c : MoreGiven(b, AtLengths(suffixes, TRUE), suffixes, TRUE, 0, c, m)
  BY <1>9 DEF Gives
<1>11. /\ b.threw = FALSE /\ b.values = SubSeq(suffixes, 0 + 1, 0 + m)
       /\ m = c \/ 0 + m = c
  BY <1>1, <1>10 DEF MoreGiven
<1>12. m = c /\ 0 + m = c /\ 0 + 1 = 1
  BY <1>11
<1>13. b.values = suffixes
  <2>1. PICK T : T = Seq(Nat) /\ suffixes \in Seq(T)
    OBVIOUS
  <2>2. SubSeq(suffixes, 1, Len(suffixes)) = suffixes
    BY <2>1, SubSeqFull
  <2>3. QED
    BY <1>1, <1>11, <1>12, <2>2
<1>14. QED
  BY <1>3, <1>7, <1>8, <1>11, <1>13

LEMMA PrefixesFresh ==
    ASSUME NEW p \in Page, PrefixesStand(p), p.whole, LengthsSure(p)
    PROVE  /\ ResetPrefixes(p.numbers) # Refused
           /\ PrefixesOf(ResetPrefixes(p.numbers), p.content)
<1>1. PICK numbers \in Seq(Nat), content \in Seq(Seq(Nat)), c \in Nat :
        numbers = p.numbers /\ content = p.content /\ c = Len(content)
        /\ DOMAIN content = 1..c
  <2>1. p.numbers \in Seq(Nat) /\ p.content \in Seq(Seq(Nat))
    BY DEF Page
  <2>2. Len(p.content) \in Nat /\ DOMAIN p.content = 1..Len(p.content)
    BY <2>1, LenProperties
  <2>3. QED
    BY <2>1, <2>2
<1>2. /\ Openable(numbers) /\ c <= 1 + PerFirst(numbers) /\ c <= BatchSize
  BY <1>1 DEF LengthsSure, Sure, Openable, PerFirst
<1>3. /\ HasLengths(numbers)
      /\ \E lengths \in [DOMAIN content -> 0..(Pow2(BufferBits) - 1)] :
            PrefixesAre(numbers, content, lengths)
  BY <1>1, Zenon DEF PrefixesStand
<1>4. PICK lengths \in [1..c -> 0..(Pow2(BufferBits) - 1)] :
            /\ LengthsAre(numbers, lengths)
            /\ \A i \in 1..c :
                  content[i] = SubSeq(PrefixBefore(content, i), 1, Shared(content, lengths, i))
                                   \o Behind(content, lengths)[i]
            /\ SuffixesStand(Skipped(numbers, LengthsEnd(numbers)), Behind(content, lengths))
  BY <1>1, <1>3, Zenon DEF PrefixesAre
<1>5. PICK suffixes : suffixes = Behind(content, lengths)
  OBVIOUS
<1>6. lengths \in Seq(Nat) /\ Len(lengths) = c /\ \A i \in 1..c : lengths[i] \in Nat
  <2>1. lengths \in [1..c -> Nat]
    OBVIOUS
  <2>2. QED
    BY <2>1, SeqIs
<1>7. ASSUME NEW i \in 1..c
      PROVE  /\ PrefixBefore(content, i) \in Seq(Nat) /\ Len(PrefixBefore(content, i)) \in Nat
             /\ content[i] \in Seq(Nat) /\ Len(content[i]) \in Nat
             /\ Shared(content, lengths, i) \in Nat
             /\ Skipped(content[i], Shared(content, lengths, i)) \in Seq(Nat)
  <2>1. PrefixBefore(content, i) \in Seq(Nat)
    <3>1. CASE i = 1
      BY <3>1, EmptySeq DEF PrefixBefore
    <3>2. CASE i # 1
      <4>1. i - 1 \in 1..c
        BY <3>2
      <4>2. content[i - 1] \in Seq(Nat)
        BY <1>1, <4>1, ElementOfSeq
      <4>3. QED
        BY <3>2, <4>2 DEF PrefixBefore
    <3>3. QED
      BY <3>1, <3>2
  <2>2. content[i] \in Seq(Nat)
    BY <1>1, ElementOfSeq
  <2>3. PICK l \in Nat, k \in Nat : l = Len(PrefixBefore(content, i)) /\ k = Len(content[i])
    <3>1. Len(PrefixBefore(content, i)) \in Nat
    BY <2>1, LenProperties
    <3>2. QED
      BY <2>2, <3>1, LenProperties
  <2>4. Shared(content, lengths, i) \in Nat
    <3>1. lengths[i] \in Nat
      BY <1>6
    <3>2. QED
      BY <2>3, <3>1 DEF Fewer, Shared
  <2>5. Skipped(content[i], Shared(content, lengths, i)) \in Seq(Nat)
    <3>1. PICK h \in Nat : h = Shared(content, lengths, i)
      BY <2>4
    <3>2. h + 1 \in Nat /\ h + 1 >= 1 /\ k \in Int /\ k <= Len(content[i])
      BY <2>3
    <3>3. SubSeq(content[i], h + 1, k) \in Seq(Nat)
      BY <2>2, <3>2, SubSeqType
    <3>4. QED
      BY <2>3, <3>1, <3>3 DEF Skipped
  <2>6. QED
    BY <2>1, <2>2, <2>3, <2>4, <2>5
<1>8. /\ suffixes \in Seq(Seq(Nat)) /\ Len(suffixes) = c
      /\ \A i \in 1..c : suffixes[i] = Skipped(content[i], Shared(content, lengths, i))
  <2>1. PICK T : T = Seq(Nat)
    OBVIOUS
  <2>2. suffixes \in [1..c -> T]
    BY <1>1, <1>5, <1>7, <2>1 DEF Behind
  <2>3. \A i \in 1..c : suffixes[i] = Skipped(content[i], Shared(content, lengths, i))
    BY <1>1, <1>5 DEF Behind
  <2>4. suffixes \in Seq(T) /\ Len(suffixes) = c
    BY <2>2, SeqIs
  <2>5. QED
    BY <2>1, <2>3, <2>4
<1>9. PICK read :
        read = ReadAllDelta(ResetDelta(BufferBits, numbers), BatchSize)
  OBVIOUS
<1>10. /\ read.d.failed = FALSE /\ read.values = lengths
       /\ read.d.rest = Skipped(numbers, LengthsEnd(numbers))
  <2>1. numbers[3] = Len(lengths)
    BY <1>4, <1>6 DEF LengthsAre, FirstValues
  <2>2. BatchSize \in Nat /\ BatchSize >= 1
    BY CodingAssumption
  <2>3. HasLengths(numbers) => LengthsAre(numbers, lengths)
    BY <1>4
  <2>4. Len(lengths) <= 1 + PerFirst(numbers) /\ Len(lengths) <= BatchSize
    BY <1>2, <1>6
  <2>5. LengthsGiven(numbers, lengths, read)
    BY <1>2, <1>6, <1>9, <2>1, <2>2, <2>3, <2>4, AllGives
  <2>6. QED
    BY <1>3, <2>5, Zenon DEF LengthsGiven
<1>11. PICK s, all : s = ResetLengths(read.d.rest) /\ all = Times(s, Len(s.lengths))
  OBVIOUS
<1>12. s # Refused /\ all.threw = FALSE /\ all.values = suffixes
  <2>1. read.d.rest \in Seq(Nat)
    <3>1. BufferBits \in Nat /\ BatchSize \in Nat
      BY DeltaConstants, CodingAssumption
    <3>2. AllTyped(BufferBits, read)
      BY <1>9, <3>1, AllType
    <3>3. QED
      BY <1>10, <3>2 DEF AllTyped
  <2>2. SuffixesStand(read.d.rest, suffixes)
    BY <1>4, <1>5, <1>10
  <2>3. Len(suffixes) <= BatchSize
    BY <1>2, <1>8
  <2>4. QED
    BY <1>8, <1>11, <2>1, <2>2, <2>3, SuffixesGiven
<1>13. PICK reset : reset = ResetPrefixes(numbers)
  OBVIOUS
<1>14. reset = [coding |-> "DELTA_BYTE_ARRAY", lengths |-> lengths,
                suffixes |-> suffixes, last |-> <<>>]
  <2>1. reset = ThenSuffixes(read)
    BY <1>9, <1>13, Zenon DEF ResetPrefixes
  <2>2. reset = PrefixesRead(read, s)
    BY <1>10, <1>11, <2>1, Zenon DEF ThenSuffixes
  <2>3. reset = SuffixesRead(read, all)
    BY <1>11, <1>12, <2>2, Zenon DEF PrefixesRead
  <2>4. QED
    BY <1>10, <1>12, <2>3, Zenon DEF SuffixesRead
<1>15. reset # Refused
  <2>1. reset.coding = "DELTA_BYTE_ARRAY" /\ Refused.coding = "refused"
    BY <1>14 DEF Refused
  <2>2. QED
    BY <2>1
<1>16. reset \in PrefixDecoders
  <2>1. <<>> \in Seq(Nat) /\ Len(suffixes) <= Len(lengths)
    BY <1>6, <1>8, EmptySeq
  <2>2. QED
    BY <1>6, <1>8, <1>14, <2>1 DEF PrefixDecoders
<1>17. ASSUME NEW i \in 1..c, lengths[i] <= Len(PrefixBefore(content, i))
       PROVE  content[i] = SubSeq(PrefixBefore(content, i), 1, lengths[i])
                               \o suffixes[i]
  <2>1. PrefixBefore(content, i) = PrefixBefore(content, i)
    OBVIOUS
  <2>2. Len(PrefixBefore(content, i)) \in Nat /\ lengths[i] \in Nat
    BY <1>6, <1>7
  <2>3. Shared(content, lengths, i) = lengths[i]
    <3>1. QED
      BY <1>17, <2>1, <2>2 DEF Fewer, Shared
  <2>4. content[i] =
           SubSeq(PrefixBefore(content, i), 1, Shared(content, lengths, i))
               \o suffixes[i]
    BY <1>4, <1>5
  <2>5. QED
    BY <2>1, <2>3, <2>4
<1>18. PrefixesOf(reset, content)
  <2>1. /\ reset.last = <<>> /\ reset.suffixes = suffixes /\ reset.lengths = lengths
    BY <1>14
  <2>2. QED
    BY <1>1, <1>8, <1>16, <1>17, <2>1 DEF PrefixesOf
<1>19. QED
  BY <1>1, <1>13, <1>15, <1>18

-----------------------------------------------------------------------------
(* An encoder that is not one of deltas holds the values put: their        *)
(* indices while it uses its dictionary, then the values themselves.       *)
EncodersOf(T) ==
    [dict : BOOLEAN, fallen : BOOLEAN, entries : Seq(T), indices : Seq(Nat),
     plain : Seq(T)]

IndicesHold(e, values) ==
    /\ Len(e.indices) = Len(values) /\ e.plain = <<>>
    /\ Len(e.entries) <= FallbackThreshold + Len(values)
    /\ \A i \in 1..Len(values) :
          /\ e.indices[i] < Len(e.entries)
          /\ e.entries[e.indices[i] + 1] = values[i]

ValuesHeld(T, dict, e, values) ==
    /\ e \in EncodersOf(T) /\ values \in Seq(T) /\ e.dict = dict
    /\ IF UsesDict(e) THEN IndicesHold(e, values) ELSE e.plain = values

(* A value is added to the dictionary when it is not one of its entries.   *)
Entered(T, e, v, new, i) ==
    /\ new \in Seq(T) /\ Len(new) \in Nat /\ i \in 1..Len(new) /\ new[i] = v
    /\ Len(e.entries) <= Len(new) /\ Len(new) <= Len(e.entries) + 1
    /\ \A k \in 1..Len(e.entries) : new[k] = e.entries[k]
    /\ PutIndex(e, v) = [e EXCEPT !.entries = new,
                                  !.indices = Append(e.indices, i - 1)]

LEMMA IndexEntered ==
    ASSUME NEW T, NEW e \in EncodersOf(T), NEW v \in T
    PROVE  \E new, i : Entered(T, e, v, new, i)
<1>1. PICK s \in Seq(T) : s = e.entries /\ Len(s) \in Nat
  BY LenProperties DEF EncodersOf
<1>2. PICK new : new = IF v \in ToSet(s) THEN s ELSE Append(s, v)
  OBVIOUS
<1>3. /\ new \in Seq(T) /\ Len(new) \in Nat
      /\ Len(s) <= Len(new) /\ Len(new) <= Len(s) + 1
      /\ \A k \in 1..Len(s) : new[k] = s[k]
      /\ \E k \in 1..Len(new) : new[k] = v
  <2>1. CASE v \in ToSet(s)
    <3>1. \E k \in 1..Len(s) : s[k] = v
      BY <1>1, <2>1 DEF ToSet
    <3>2. QED
      BY <1>1, <1>2, <2>1, <3>1
  <2>2. CASE v \notin ToSet(s)
    <3>1. PICK a : a = Append(s, v)
      OBVIOUS
    <3>2. /\ a \in Seq(T) /\ Len(a) = Len(s) + 1 /\ a[Len(s) + 1] = v
          /\ \A k \in 1..Len(s) : a[k] = s[k]
      BY <1>1, <3>1, AppendProperties
    <3>3. new = a
      BY <1>2, <2>2, <3>1
    <3>4. QED
      BY <1>1, <3>2, <3>3
  <2>3. QED
    BY <2>1, <2>2
<1>4. PICK i : i = CHOOSE k \in 1..Len(new) : new[k] = v
  OBVIOUS
<1>5. i \in 1..Len(new) /\ new[i] = v
  BY <1>3, <1>4
<1>6. PutIndex(e, v) = [e EXCEPT !.entries = new,
                                 !.indices = Append(e.indices, i - 1)]
  BY <1>1, <1>2, <1>4 DEF PutIndex
<1>7. Entered(T, e, v, new, i)
  BY <1>1, <1>3, <1>5, <1>6 DEF Entered
<1>8. QED
  BY <1>7

LEMMA IndexFields ==
    ASSUME NEW T, NEW e \in EncodersOf(T), NEW v \in T,
           NEW new, NEW i, Entered(T, e, v, new, i),
           NEW f, f = PutIndex(e, v)
    PROVE  /\ f \in EncodersOf(T) /\ f.dict = e.dict /\ f.fallen = e.fallen
           /\ f.entries = new /\ f.indices = Append(e.indices, i - 1)
           /\ f.plain = e.plain
<1>1. f = [e EXCEPT !.entries = new, !.indices = Append(e.indices, i - 1)]
  BY Zenon DEF Entered
<1>2. new \in Seq(T) /\ i - 1 \in Nat
  BY DEF Entered
<1>3. PICK a : a = Append(e.indices, i - 1)
  OBVIOUS
<1>4. a \in Seq(Nat)
  <2>1. e.indices \in Seq(Nat)
    BY DEF EncodersOf
  <2>2. QED
    BY <1>2, <1>3, <2>1, AppendProperties
<1>5. f = [e EXCEPT !.entries = new, !.indices = a]
  BY <1>1, <1>3
<1>6. QED
  BY <1>2, <1>3, <1>4, <1>5 DEF EncodersOf

LEMMA IndexHeld ==
    ASSUME NEW T, NEW dict, NEW e, NEW values, NEW v \in T,
           ValuesHeld(T, dict, e, values), UsesDict(e)
    PROVE  /\ ValuesHeld(T, dict, PutIndex(e, v), Append(values, v))
           /\ UsesDict(PutIndex(e, v))
<1>1. /\ e \in EncodersOf(T) /\ values \in Seq(T) /\ e.dict = dict
      /\ IndicesHold(e, values)
  BY DEF ValuesHeld
<1>2. PICK f : f = PutIndex(e, v)
  OBVIOUS
<1>3. PICK new, i : Entered(T, e, v, new, i)
  BY <1>1, IndexEntered
<1>4. /\ f \in EncodersOf(T) /\ f.dict = e.dict /\ f.fallen = e.fallen
      /\ f.entries = new /\ f.indices = Append(e.indices, i - 1)
      /\ f.plain = e.plain
  BY <1>1, <1>2, <1>3, IndexFields
<1>5. PICK n \in Nat, m \in Nat : n = Len(values) /\ m = Len(e.entries)
                                  /\ e.indices \in Seq(Nat) /\ Len(e.indices) = n
  <2>1. e.entries \in Seq(T) /\ e.indices \in Seq(Nat)
    BY <1>1 DEF EncodersOf
  <2>2. Len(values) \in Nat /\ Len(e.entries) \in Nat
    BY <1>1, <2>1, LenProperties
  <2>3. QED
    BY <1>1, <2>1, <2>2 DEF IndicesHold
<1>6. /\ Append(values, v) \in Seq(T) /\ Len(Append(values, v)) = n + 1
      /\ Append(values, v)[n + 1] = v
      /\ \A k \in 1..n : Append(values, v)[k] = values[k]
  BY <1>1, <1>5, AppendProperties
<1>7. PICK l \in Nat : l = Len(new) /\ m <= l /\ l <= m + 1 /\ i \in 1..l /\ new[i] = v
                       /\ \A k \in 1..m : new[k] = e.entries[k]
  BY <1>3, <1>5 DEF Entered
<1>8. /\ Len(f.indices) = n + 1 /\ f.indices[n + 1] = i - 1
      /\ \A k \in 1..n : f.indices[k] = e.indices[k]
  <2>1. i - 1 \in Nat
    BY <1>7
  <2>2. QED
    BY <1>4, <1>5, <2>1, AppendProperties
<1>9. ASSUME NEW k \in 1..(n + 1)
      PROVE  f.indices[k] < l /\ new[f.indices[k] + 1] = Append(values, v)[k]
  <2>1. CASE k = n + 1
    <3>1. i - 1 < l /\ (i - 1) + 1 = i
      BY <1>7
    <3>2. QED
      BY <1>6, <1>7, <1>8, <2>1, <3>1
  <2>2. CASE k # n + 1
    <3>1. k \in 1..n
      BY <2>2
    <3>2. e.indices[k] < m /\ e.entries[e.indices[k] + 1] = values[k]
      BY <1>1, <1>5, <3>1 DEF IndicesHold
    <3>3. e.indices[k] \in Nat
      BY <1>5, <3>1, ElementOfSeq
    <3>4. e.indices[k] + 1 \in 1..m /\ e.indices[k] < l
      BY <1>7, <3>2, <3>3
    <3>5. new[e.indices[k] + 1] = values[k]
      BY <1>7, <3>2, <3>4
    <3>6. QED
      BY <1>6, <1>8, <3>1, <3>4, <3>5
  <2>3. QED
    BY <2>1, <2>2
<1>10. IndicesHold(f, Append(values, v))
  <2>1. Len(f.entries) <= FallbackThreshold + (n + 1)
    <3>1. m <= FallbackThreshold + n
      BY <1>1, <1>5 DEF IndicesHold
    <3>2. FallbackThreshold \in Nat
      BY ThresholdAssumption
    <3>3. QED
      BY <1>4, <1>7, <3>1, <3>2
  <2>2. f.plain = <<>>
    BY <1>1, <1>4 DEF IndicesHold
  <2>3. QED
    BY <1>4, <1>6, <1>7, <1>8, <1>9, <2>1, <2>2 DEF IndicesHold
<1>11. UsesDict(f)
  BY <1>4 DEF UsesDict
<1>12. QED
  BY <1>1, <1>2, <1>4, <1>6, <1>10, <1>11 DEF ValuesHeld

LEMMA IndexType ==
    ASSUME NEW T, NEW e \in EncodersOf(T), NEW v \in T
    PROVE  PutIndex(e, v) \in EncodersOf(T)
<1>1. PICK new, i : Entered(T, e, v, new, i)
  BY IndexEntered
<1>2. QED
  BY <1>1, IndexFields

(* One index after the other.                                              *)
IndicesAfter(T, e, vals, g) ==
    /\ g \in [0..Len(vals) -> EncodersOf(T)] /\ g[0] = e
    /\ \A k \in 1..Len(vals) : g[k] = PutIndex(g[k - 1], vals[k])
    /\ PutIndices(e, vals) = g[Len(vals)]

LEMMA IndicesRun ==
    ASSUME NEW T, NEW e \in EncodersOf(T), NEW vals \in Seq(T)
    PROVE  \E g : IndicesAfter(T, e, vals, g)
<1>1. PICK n \in Nat : n = Len(vals) /\ \A k \in 1..n : vals[k] \in T
  BY LenProperties, ElementOfSeq
<1>2. PICK X : X = EncodersOf(T)
  OBVIOUS
<1> DEFINE Def(f, k) == IF k = 0 THEN e ELSE PutIndex(f[k - 1], vals[k])
           Upto(f) == f = [k \in 0..Len(vals) |-> Def(f, k)]
           Loop == CHOOSE f : Upto(f)
<1>3. PutIndices(e, vals) = Loop[Len(vals)]
  BY Zenon DEF PutIndices
<1>4. PICK step : step = [k \in 1..n |-> [x \in X |-> PutIndex(x, vals[k])]]
  OBVIOUS
<1>5. step \in [1..n -> [X -> X]]
  <2>1. \A k \in 1..n : \A x \in X : PutIndex(x, vals[k]) \in X
    BY <1>1, <1>2, IndexType
  <2>2. QED
    BY <1>4, <2>1
<1>6. PICK g \in [0..n -> X] :
        g[0] = e /\ \A k \in 1..n : g[k] = step[k][g[k - 1]]
  <2>1. Runs(n, X, e, step)
    BY <1>2, <1>5, LoopRuns
  <2>2. QED
    BY <2>1, Zenon DEF Runs
<1>7. ASSUME NEW k \in 1..n PROVE g[k] = PutIndex(g[k - 1], vals[k])
  <2>1. k - 1 \in 0..n
    OBVIOUS
  <2>2. g[k - 1] \in X
    BY <1>6, <2>1
  <2>3. QED
    BY <1>4, <1>6, <2>2
<1>8. Upto(g)
  <2>1. ASSUME NEW k \in 0..n PROVE g[k] = Def(g, k)
    <3>1. k # 0 => k \in 1..n
      OBVIOUS
    <3>2. QED
      BY <1>6, <1>7, <3>1
  <2> HIDE DEF Def
  <2>2. QED
    BY <1>1, <1>6, <2>1
<1>9. Upto(Loop)
  <2> HIDE DEF Upto
  <2>1. QED
    BY <1>8
<1> HIDE DEF Loop
<1>10. \A k \in 0..n : Loop[k] = Def(Loop, k)
  <2> HIDE DEF Def
  <2>1. QED
    BY <1>1, <1>9
<1>11. Loop[0] = e /\ \A k \in 1..n : Loop[k] = PutIndex(Loop[k - 1], vals[k])
  <2>1. 0 \in 0..n /\ \A k \in 1..n : k \in 0..n /\ k # 0
    OBVIOUS
  <2>2. QED
    BY <1>10, <2>1
<1>12. Loop[n] = g[n]
  <2> DEFINE S == {k \in 0..n : Loop[k] = g[k]}
  <2>1. 0 \in S
    BY <1>6, <1>11
  <2>2. \A k \in 1..n : k - 1 \in S => k \in S
    BY <1>7, <1>11
  <2>3. 0..n \subseteq S
    <3> HIDE DEF S
    <3>1. QED
      BY <2>1, <2>2, UpTo, Zenon
  <2>4. QED
    BY <2>3
<1>13. IndicesAfter(T, e, vals, g)
  <2>1. PutIndices(e, vals) = g[n]
    BY <1>1, <1>3, <1>12
  <2>2. QED
    BY <1>1, <1>2, <1>6, <1>7, <2>1 DEF IndicesAfter
<1>14. QED
  BY <1>13

LEMMA ValuesPut ==
    ASSUME NEW T, NEW dict, NEW e, NEW values, ValuesHeld(T, dict, e, values),
           NEW vals \in Seq(T)
    PROVE  ValuesHeld(T, dict, PutValues(e, vals), values \o vals)
<1>1. e \in EncodersOf(T) /\ values \in Seq(T) /\ e.dict = dict
  BY DEF ValuesHeld
<1>2. CASE ~UsesDict(e)
  <2>1. e.plain = values /\ values \o vals \in Seq(T)
    BY <1>1, <1>2, ConcatFacts DEF ValuesHeld
  <2>2. PICK f, all : f = PutValues(e, vals) /\ all = values \o vals
    OBVIOUS
  <2>3. f = [e EXCEPT !.plain = all]
    BY <1>2, <2>1, <2>2 DEF PutValues
  <2>4. f \in EncodersOf(T) /\ f.plain = all /\ f.dict = e.dict /\ f.fallen = e.fallen
    BY <1>1, <2>1, <2>2, <2>3 DEF EncodersOf
  <2>5. ~UsesDict(f)
    BY <1>2, <2>4 DEF UsesDict
  <2>6. QED
    BY <1>1, <2>1, <2>2, <2>4, <2>5 DEF ValuesHeld
<1>3. CASE UsesDict(e)
  <2>1. PICK g : IndicesAfter(T, e, vals, g)
    BY <1>1, IndicesRun
  <2>2. PICK n \in Nat : n = Len(vals) /\ \A k \in 1..n : vals[k] \in T
    BY LenProperties, ElementOfSeq
  <2>3. /\ g[0] = e /\ \A k \in 1..n : g[k] = PutIndex(g[k - 1], vals[k])
        /\ PutIndices(e, vals) = g[n]
    BY <2>1, <2>2 DEF IndicesAfter
  <2> DEFINE So(k) == values \o SubSeq(vals, 1, k)
             Right(k) == ValuesHeld(T, dict, g[k], So(k)) /\ UsesDict(g[k])
             S == {k \in 0..n : Right(k)}
  <2>4. So(0) = values /\ So(n) = values \o vals
    <3>1. SubSeq(vals, 1, 0) = <<>> /\ SubSeq(vals, 1, n) = vals
      BY <2>2, SubSeqEmpty, SubSeqFull
    <3>2. values \o <<>> = values
      BY <1>1, ConcatEmptySeq
    <3>3. QED
      BY <3>1, <3>2
  <2> HIDE DEF So
  <2>5. 0 \in S
    BY <1>3, <2>3, <2>4
  <2>6. ASSUME NEW k \in 1..n, k - 1 \in S PROVE k \in S
    <3>1. ValuesHeld(T, dict, g[k - 1], So(k - 1)) /\ UsesDict(g[k - 1])
      BY <2>6
    <3>2. vals[k] \in T /\ g[k] = PutIndex(g[k - 1], vals[k])
      BY <2>2, <2>3
    <3>3. /\ ValuesHeld(T, dict, PutIndex(g[k - 1], vals[k]), Append(So(k - 1), vals[k]))
          /\ UsesDict(PutIndex(g[k - 1], vals[k]))
      BY <3>1, <3>2, IndexHeld
    <3>4. Append(So(k - 1), vals[k]) = So(k)
      <4>1. PICK front : front = SubSeq(vals, 1, k - 1)
        OBVIOUS
      <4>2. front \in Seq(T)
        <5>1. k - 1 \in 0..Len(vals)
          BY <2>2
        <5>2. QED
          BY <4>1, <5>1, FrontFacts
      <4>3. SubSeq(vals, 1, k) = Append(front, vals[k])
        <5>1. 1 \in 1..(Len(vals) + 1) /\ k - 1 \in 0..Len(vals) /\ k \in 1..Len(vals)
          BY <2>2
        <5>2. QED
          BY <2>2, <4>1, <5>1, SubSeqRecursiveSecond
      <4>4. values \o Append(front, vals[k]) = Append(values \o front, vals[k])
        BY <1>1, <3>2, <4>2, AppendBehind
      <4>5. QED
        BY <4>1, <4>3, <4>4 DEF So
    <3>5. Right(k)
      BY <3>2, <3>3, <3>4
    <3>6. QED
      BY <3>5
  <2>7. Right(n)
    <3>1. 0..n \subseteq S
      <4> HIDE DEF S
      <4>1. QED
        BY <2>5, <2>6, UpTo, Zenon
    <3>2. QED
      BY <3>1
  <2>8. PutValues(e, vals) = g[n]
    BY <1>3, <2>3 DEF PutValues
  <2>9. QED
    BY <2>4, <2>7, <2>8
<1>4. QED
  BY <1>2, <1>3

(* After a page the dictionary is kept, unless it has grown too big.       *)
LEMMA ValuesFlushed ==
    ASSUME NEW T, NEW dict, NEW e, NEW values, ValuesHeld(T, dict, e, values)
    PROVE  ValuesHeld(T, dict, Flushed(e), <<>>)
<1>1. e \in EncodersOf(T) /\ values \in Seq(T) /\ e.dict = dict
  BY DEF ValuesHeld
<1>2. <<>> \in Seq(T) /\ <<>> \in Seq(Nat) /\ Len(<<>>) = 0
  BY EmptySeq
<1>3. PICK f : f = Flushed(e)
  OBVIOUS
<1>4. CASE ~UsesDict(e)
  <2>1. f = [e EXCEPT !.plain = <<>>]
    BY <1>3, <1>4 DEF Flushed
  <2>2. /\ f \in EncodersOf(T) /\ f.plain = <<>> /\ f.dict = e.dict
        /\ f.fallen = e.fallen
    BY <1>1, <1>2, <2>1 DEF EncodersOf
  <2>3. ~UsesDict(f)
    BY <1>4, <2>2 DEF UsesDict
  <2>4. ValuesHeld(T, dict, f, <<>>)
    BY <1>1, <1>2, <2>2, <2>3, Zenon DEF ValuesHeld
  <2>5. QED
    BY <1>3, <2>4, Zenon
<1>5. CASE UsesDict(e)
  <2>1. (Len(e.entries) > FallbackThreshold) \in BOOLEAN
    OBVIOUS
  <2>2. PICK big : big = (Len(e.entries) > FallbackThreshold) /\ big \in BOOLEAN
    BY <2>1, Zenon
  <2>3. f = [e EXCEPT !.indices = <<>>, !.fallen = big]
    BY <1>3, <1>5, <2>2 DEF Flushed
  <2>4. e.plain = <<>>
    BY <1>5 DEF ValuesHeld, IndicesHold
  <2>5. /\ f \in EncodersOf(T) /\ f.indices = <<>> /\ f.dict = e.dict
        /\ f.fallen = big /\ f.entries = e.entries /\ f.plain = e.plain
    <3>1. big \in BOOLEAN
      BY <2>2
    <3>2. QED
      BY <1>1, <1>2, <2>3, <3>1 DEF EncodersOf
  <2>6. CASE big
    <3>1. ~UsesDict(f)
      BY <2>5, <2>6 DEF UsesDict
    <3>2. QED
      BY <1>1, <1>2, <1>3, <2>4, <2>5, <3>1 DEF ValuesHeld
  <2>7. CASE ~big
    <3>1. Len(f.entries) <= FallbackThreshold + 0
      <4>1. e.entries \in Seq(T)
        BY <1>1 DEF EncodersOf
      <4>2. Len(e.entries) \in Nat
        BY <4>1, LenProperties
      <4>3. FallbackThreshold \in Nat
        BY ThresholdAssumption
      <4>4. ~(Len(e.entries) > FallbackThreshold)
        BY <2>2, <2>7, Zenon
      <4>5. QED
        BY <2>5, <4>2, <4>3, <4>4
    <3>2. UsesDict(f)
      BY <1>5, <2>5, <2>7 DEF UsesDict
    <3>3. IndicesHold(f, <<>>)
      BY <1>2, <2>4, <2>5, <3>1 DEF IndicesHold
    <3>4. QED
      BY <1>1, <1>2, <1>3, <2>5, <3>2, <3>3 DEF ValuesHeld
  <2>8. QED
    BY <2>6, <2>7
<1>6. QED
  BY <1>3, <1>4, <1>5

-----------------------------------------------------------------------------
(* The pages it writes stand for the values it holds.                      *)
LEMMA StoredWhole ==
    ASSUME NEW s \in Seq(Nat)
    PROVE  IsPrefixOf(s, s)
<1>1. PICK T : T = Nat /\ s \in Seq(T)
  OBVIOUS
<1>2. Len(s) \in Nat /\ SubSeq(s, 1, Len(s)) = s
  BY <1>1, LenProperties, SubSeqFull
<1>3. QED
  BY <1>2 DEF IsPrefixOf

LEMMA PlainCodings ==
    ASSUME NEW type \in Types
    PROVE  /\ CodingFor(type, "PLAIN") \in
                 {"as is", "bits", "lengths and bytes", "fixed"}
           /\ CodingFor(type, "PLAIN") = "bits" => type = "BOOLEAN"
           /\ CodingFor(type, "RLE_DICTIONARY") = "indices"
BY DEF CodingFor, PlainCoding

ValuesSized(type, content) ==
    \A i \in 1..Len(content) : Len(content[i]) \in ValueSizes(type)

LEMMA PlainNumbersType ==
    ASSUME NEW type, NEW data \in Seq(Seq(Nat))
    PROVE  PlainNumbers(type, data) \in Seq(Nat)
<1>1. Codes(type, data) \in Seq(Seq(Nat))
  BY CodesFacts
<1>2. FlattenSeq(Codes(type, data)) \in Seq(Nat)
  BY <1>1, FlattenType
<1>3. QED
  BY <1>2, PlainIs

LEMMA PlainPageStands ==
    ASSUME NEW p, p.type \in Types, p.encoding = "PLAIN", p.own, p.whole,
           p.content \in Seq(Seq(Nat)), ValuesSized(p.type, p.content),
           p.padding = <<>>, p.numbers = PlainNumbers(p.type, p.content)
    PROVE  StandsFor(p)
<1>1. PICK coding : coding = CodingFor(p.type, p.encoding)
  OBVIOUS
<1>2. /\ coding \in {"as is", "bits", "lengths and bytes", "fixed"}
      /\ coding = "bits" => p.type = "BOOLEAN"
  BY <1>1, PlainCodings
<1>3. InBatches(p) => p.type # "BOOLEAN"
  BY DEF InBatches
<1>4. ASSUME InBatches(p) PROVE PlainStands(p)
  <2>1. CodingFor(p.type, p.encoding) # "bits"
    BY <1>1, <1>2, <1>3, <1>4
  <2>2. IsPrefixOf(p.numbers, PlainNumbers(p.type, p.content))
    <3>1. PlainNumbers(p.type, p.content) \in Seq(Nat)
      BY PlainNumbersType
    <3>2. QED
      BY <3>1, StoredWhole
  <2>3. Stored(p, p.numbers, PlainNumbers(p.type, p.content))
    BY <2>2 DEF Stored
  <2>4. \A i \in DOMAIN p.content : Len(p.content[i]) \in ValueSizes(p.type)
    <3>1. DOMAIN p.content = 1..Len(p.content)
      BY LenProperties
    <3>2. QED
      BY <3>1, Zenon DEF ValuesSized
  <2>5. QED
    BY <2>1, <2>3, <2>4, Zenon DEF PlainStands
<1>5. InBatches(p) => PlainStands(p)
  BY <1>4
<1>6. QED
  BY <1>1, <1>2, <1>5, Zenon DEF StandsFor

IndexPage(p, e, stream) ==
    /\ p.type \in Types /\ p.encoding = "RLE_DICTIONARY"
    /\ p.numbers = IndexNumbers(e, stream) /\ p.runs = stream.runs
    /\ p.dict = e.entries /\ p.padding = IndexPadding(e, stream)

LEMMA PrefixSame ==
    ASSUME NEW s \in Seq(Nat), NEW t \in Seq(Nat), IsPrefixOf(s, t)
    PROVE  /\ Len(s) \in Nat /\ Len(t) \in Nat /\ Len(s) <= Len(t)
           /\ \A i \in 1..Len(s) : t[i] = s[i]
<1>1. PICK n \in Nat, m \in Nat : n = Len(s) /\ m = Len(t) /\ n <= m
  BY LenProperties DEF IsPrefixOf
<1>2. s = SubSeq(t, 1, n)
  BY <1>1 DEF IsPrefixOf
<1>3. ASSUME NEW i \in 1..n PROVE t[i] = s[i]
  <2>1. \A j \in 1..n : t[j] \in Nat
    BY <1>1, ElementOfSeq
  <2>2. SubSeq(t, 1, n)[i] = t[1 + i - 1]
    <3>1. i \in 1..(n - 1 + 1)
      OBVIOUS
    <3>2. QED
      BY <2>1, <3>1, SubSeqProperties
  <2>3. 1 + i - 1 = i
    OBVIOUS
  <2>4. QED
    BY <1>2, <2>2, <2>3, Zenon
<1>4. QED
  BY <1>1, <1>3

(* What the parts of a concatenation are. *)
LEMMA HeldConcat ==
    ASSUME NEW T, NEW c \in Seq(T), NEW g \in Seq(T), NEW h, h = c \o g
    PROVE  /\ h \in Seq(T) /\ Len(h) = Len(c) + Len(g)
           /\ \A i \in 1..Len(c) : h[i] = c[i]
           /\ \A i \in 1..Len(g) : h[Len(c) + i] = g[i]
<1>1. /\ c \o g \in Seq(T) /\ Len(c \o g) = Len(c) + Len(g)
      /\ \A i \in 1..Len(c) : (c \o g)[i] = c[i]
      /\ \A i \in 1..Len(g) : (c \o g)[Len(c) + i] = g[i]
  BY ConcatFacts
<1>2. QED
  BY <1>1

(* The values of a page of indices with those that fill up its last group. *)
HeldIs(p, e, stream) ==
    /\ Held(p) \in Seq(Seq(Nat)) /\ Len(Held(p)) = Len(stream.numbers)
    /\ \A i \in 1..Len(stream.numbers) :
          /\ stream.numbers[i] < Len(e.entries)
          /\ Held(p)[i] = e.entries[stream.numbers[i] + 1]

LEMMA IndexPadded ==
    ASSUME NEW T, T = Seq(Nat), NEW e \in EncodersOf(T), NEW p,
           NEW stream \in [numbers : Seq(Nat), runs : Seq(Run)],
           IndexPage(p, e, stream), IndexStream(stream, e.indices),
           p.content \in Seq(T), IndicesHold(e, p.content)
    PROVE  /\ p.padding \in Seq(T) /\ Len(p.padding) < GroupSize
           /\ HeldIs(p, e, stream)
<1>1. PICK n \in Nat, l \in Nat, m \in Nat, indices \in Seq(Nat), all \in Seq(Nat) :
        /\ n = Len(p.content) /\ l = Len(e.entries) /\ indices = e.indices
        /\ Len(indices) = n /\ all = stream.numbers /\ m = Len(all)
        /\ e.entries \in Seq(T)
  <2>1. e.entries \in Seq(T) /\ e.indices \in Seq(Nat)
    BY DEF EncodersOf
  <2>2. Len(p.content) \in Nat /\ Len(e.entries) \in Nat
    BY <2>1, LenProperties
  <2>3. stream.numbers \in Seq(Nat)
    OBVIOUS
  <2>4. Len(stream.numbers) \in Nat
    BY <2>3, LenProperties
  <2>5. Len(e.indices) = Len(p.content)
    BY DEF IndicesHold
  <2>6. QED
    BY <2>1, <2>2, <2>3, <2>4, <2>5
<1>2. /\ n <= m /\ \A i \in 1..n : all[i] = indices[i]
      /\ \A i \in 1..m : i > n => all[i] = 0
      /\ m - n < GroupSize
      /\ n = 0 => m = 0
  <2>1. IsPrefixOf(indices, all)
    BY <1>1 DEF IndexStream
  <2>2. DOMAIN all = 1..m
    BY <1>1, LenProperties
  <2>3. n = 0 => all = <<>>
    BY <1>1 DEF IndexStream
  <2>4. m - n < GroupSize /\ \A i \in DOMAIN all : i > n => all[i] = 0
    BY <1>1 DEF IndexStream
  <2>5. n <= m /\ \A i \in 1..n : all[i] = indices[i]
    BY <1>1, <2>1, PrefixSame
  <2>6. n = 0 => m = 0
    BY <1>1, <2>3
  <2>7. QED
    BY <2>2, <2>4, <2>5, <2>6
<1>3. \A i \in 1..n : indices[i] < l /\ p.content[i] = e.entries[indices[i] + 1]
  BY <1>1 DEF IndicesHold
<1>4. n > 0 => l >= 1
  <2>1. ASSUME n > 0 PROVE l >= 1
    <3>1. 1 \in 1..n
      BY <2>1
    <3>2. indices[1] \in Nat /\ indices[1] < l
      BY <1>1, <1>3, <3>1, ElementOfSeq
    <3>3. QED
      BY <3>2
  <2>2. QED
    BY <2>1
<1>5. PICK k \in Nat : k = m - n /\ m = n + k /\ (k > 0 => l >= 1)
  <2>1. n <= m /\ (n = 0 => m = 0) /\ (n > 0 => l >= 1)
    BY <1>2, <1>4
  <2>2. m - n \in Nat /\ m = n + (m - n)
    BY <2>1
  <2>3. m - n > 0 => l >= 1
    <3>1. n = 0 => m - n = 0
      BY <2>1
    <3>2. n = 0 \/ n > 0
      OBVIOUS
    <3>3. QED
      BY <2>1, <3>1, <3>2
  <2>4. QED
    BY <2>2, <2>3
<1>6. PICK f : f = [i \in 1..k |-> e.entries[1]] /\ p.padding = f
  BY <1>1, <1>5 DEF IndexPage, IndexPadding
<1>7. f \in [1..k -> T]
  <2>1. ASSUME NEW i \in 1..k PROVE e.entries[1] \in T
    <3>1. 1 \in 1..l
      BY <1>5
    <3>2. QED
      BY <1>1, <3>1, ElementOfSeq
  <2>2. QED
    BY <1>6, <2>1
<1>8. f \in Seq(T) /\ Len(f) = k
  BY <1>7, SeqIs
<1>9. PICK held : /\ held = Held(p) /\ held \in Seq(T) /\ Len(held) = m
                  /\ \A i \in 1..n : held[i] = p.content[i]
                  /\ \A i \in 1..k : held[n + i] = f[i]
  <2>1. Held(p) = p.content \o f
    BY <1>6 DEF Held
  <2>2. PICK c, g, held :
           /\ c = p.content /\ g = f /\ held = c \o g
           /\ c \in Seq(T) /\ g \in Seq(T) /\ Len(c) = n /\ Len(g) = k
    BY <1>1, <1>8
  <2>3. /\ held \in Seq(T) /\ Len(held) = Len(c) + Len(g)
        /\ \A i \in 1..Len(c) : held[i] = c[i]
        /\ \A i \in 1..Len(g) : held[Len(c) + i] = g[i]
    <3>1. c \in Seq(T) /\ g \in Seq(T) /\ held = c \o g
      BY <2>2
    <3>2. QED
      BY <3>1, HeldConcat
  <2>4. Len(held) = m
    BY <1>1, <1>5, <2>2, <2>3
  <2>5. QED
    BY <2>1, <2>2, <2>3, <2>4, ZenonT(30)
<1>10. ASSUME NEW i \in 1..m
       PROVE  all[i] < l /\ held[i] = e.entries[all[i] + 1]
  <2>1. CASE i <= n
    <3>1. i \in 1..n
      BY <2>1
    <3>2. QED
      BY <1>2, <1>3, <1>9, <3>1
  <2>2. CASE i > n
    <3>1. PICK j \in 1..k : i = n + j
      <4>1. i - n \in 1..k /\ i = n + (i - n)
        BY <1>5, <2>2
      <4>2. QED
        BY <4>1
    <3>2. held[i] = f[j] /\ f[j] = e.entries[1]
      BY <1>6, <1>9, <3>1, Zenon
    <3>3. all[i] = 0
      BY <1>2, <2>2
    <3>4. k > 0
      BY <3>1
    <3>5. l >= 1
      BY <1>5, <3>4
    <3>6. QED
      BY <3>2, <3>3, <3>5
  <2>3. QED
    BY <2>1, <2>2
<1>11. p.padding \in Seq(T) /\ Len(p.padding) < GroupSize
  BY <1>2, <1>5, <1>6, <1>8
<1>12. /\ Held(p) \in Seq(T) /\ Len(Held(p)) = Len(stream.numbers)
       /\ \A i \in 1..Len(stream.numbers) :
             /\ stream.numbers[i] < Len(e.entries)
             /\ Held(p)[i] = e.entries[stream.numbers[i] + 1]
  BY <1>1, <1>9, <1>10, Zenon
<1>13. QED
  BY <1>11, <1>12 DEF HeldIs

LEMMA IndexPageStands ==
    ASSUME NEW T, T = Seq(Nat), NEW e \in EncodersOf(T), NEW p,
           NEW stream \in [numbers : Seq(Nat), runs : Seq(Run)],
           IndexPage(p, e, stream), IndexStream(stream, e.indices),
           p.content \in Seq(T), IndicesHold(e, p.content), HeldIs(p, e, stream),
           NEW most \in Nat, Len(p.content) <= most,
           BitWidth(FallbackThreshold + most) <= 32
    PROVE  /\ StandsFor(p) /\ p.numbers \in Seq(Nat) /\ p.numbers # <<>>
           /\ p.numbers[1] <= 32
<1>1. PICK all, held : all = stream.numbers /\ held = Held(p)
  OBVIOUS
<1>2. e.entries \in Seq(T) /\ all \in Seq(Nat)
  BY <1>1 DEF EncodersOf
<1>3. PICK n \in Nat, l \in Nat, m \in Nat :
        n = Len(p.content) /\ l = Len(e.entries) /\ m = Len(all)
  <2>1. Len(p.content) \in Nat /\ Len(e.entries) \in Nat /\ Len(all) \in Nat
    BY <1>2, LenProperties
  <2>2. QED
    BY <2>1
<1>4. /\ held \in Seq(T) /\ Len(held) = m
      /\ \A i \in 1..m : all[i] < l /\ held[i] = e.entries[all[i] + 1]
  <2>1. /\ Held(p) \in Seq(Seq(Nat)) /\ Len(Held(p)) = Len(stream.numbers)
        /\ \A i \in 1..Len(stream.numbers) :
              /\ stream.numbers[i] < Len(e.entries)
              /\ Held(p)[i] = e.entries[stream.numbers[i] + 1]
    BY Zenon DEF HeldIs
  <2>2. QED
    BY <1>1, <1>3, <2>1, Zenon
<1>5. BitWidth(l) \in Nat /\ BitWidth(l) <= 32
  <2>1. PICK f \in Nat : f = FallbackThreshold
    BY ThresholdAssumption
  <2>2. l <= f + n /\ n <= most
    BY <1>1, <1>2, <1>3, <1>4, <2>1 DEF IndicesHold
  <2>3. f + most \in Nat /\ l <= f + most
    BY <2>2
  <2>4. PICK w \in Nat : w = BitWidth(f + most)
    BY <2>3, BitWidthFits
  <2>5. f + most < Pow2(w)
    BY <2>3, <2>4, BitWidthFits
  <2>6. l < Pow2(w)
    <3>1. Pow2(w) \in Nat
      BY Pow2Facts
    <3>2. QED
      BY <2>3, <2>5, <3>1
  <2>7. BitWidth(l) \in Nat /\ BitWidth(l) <= w
    BY <2>6, BitWidthFits
  <2>8. w <= 32
    BY <2>1, <2>4
  <2>9. QED
    BY <2>7, <2>8
<1>6. /\ p.numbers \in Seq(Nat) /\ Len(p.numbers) = 1 + m
      /\ p.numbers[1] = BitWidth(l) /\ Tail(p.numbers) = all
  <2>1. PICK head : head = <<BitWidth(l)>>
    OBVIOUS
  <2>2. head \in Seq(Nat) /\ Len(head) = 1 /\ head[1] = BitWidth(l)
    BY <1>5, <2>1
  <2>3. p.numbers = head \o all
    BY <1>1, <1>2, <1>3, <1>4, <2>1 DEF IndexPage, IndexNumbers
  <2>4. /\ p.numbers \in Seq(Nat) /\ Len(p.numbers) = 1 + m
        /\ p.numbers[1] = BitWidth(l)
        /\ \A i \in 1..m : p.numbers[1 + i] = all[i]
    <3>1. PICK E, s, t, u : /\ E = Nat /\ s = head /\ t = all /\ u = s \o t
                            /\ s \in Seq(E) /\ t \in Seq(E)
      BY <1>1, <1>2, <1>3, <1>4, <2>2
    <3>2. /\ u \in Seq(E) /\ Len(u) = Len(s) + Len(t)
          /\ \A i \in 1..Len(s) : u[i] = s[i]
          /\ \A i \in 1..Len(t) : u[Len(s) + i] = t[i]
      BY <3>1, ConcatFacts, SMTT(30)
    <3>3. 1 \in 1..Len(s)
      <4>1. Len(s) = 1
        BY <2>2, <3>1, Zenon
      <4>2. QED
        BY <4>1
    <3>4. QED
      BY <1>1, <1>2, <1>3, <1>4, <2>2, <2>3, <3>1, <3>2, <3>3
  <2>5. PICK q, r : q = p.numbers /\ r = Tail(q)
    OBVIOUS
  <2>6. r \in Seq(Nat) /\ Len(r) = m /\ \A i \in 1..m : r[i] = q[i + 1]
    <3>1. q \in Seq(Nat) /\ Len(q) = 1 + m
      BY <2>4, <2>5, Zenon
    <3>2. q # <<>>
      BY <1>1, <1>2, <1>3, <1>4, <3>1
    <3>3. r \in Seq(Nat) /\ Len(r) = m
      BY <1>1, <1>2, <1>3, <1>4, <2>5, <3>1, <3>2
    <3>4. ASSUME NEW i \in 1..m PROVE r[i] = q[i + 1]
      BY <1>1, <1>2, <1>3, <1>4, <2>5, <3>1, <3>2
    <3>5. QED
      BY <3>3, <3>4
  <2>7. ASSUME NEW i \in 1..m PROVE r[i] = all[i]
    <3>1. r[i] = q[i + 1] /\ p.numbers[1 + i] = all[i]
      BY <2>4, <2>6, Zenon
    <3>2. i + 1 = 1 + i
      BY <1>1, <1>2, <1>3, <1>4
    <3>3. QED
      BY <2>5, <3>1, <3>2, Zenon
  <2>8. r = all
    BY <1>1, <1>2, <1>3, <1>4, <2>6, <2>7, SeqEqual, ZenonT(30)
  <2>9. QED
    BY <2>4, <2>5, <2>8
<1>7. IndicesStand(p)
  <2>1. PICK indices : indices = Tail(p.numbers) /\ indices = all
                       /\ DOMAIN indices = 1..m /\ Len(indices) = m
    BY <1>1, <1>2, <1>3, <1>4, <1>6, LenProperties
  <2>2. p.numbers # <<>> /\ Len(p.dict) = l /\ p.runs = stream.runs
    BY <1>1, <1>2, <1>3, <1>4, <1>6 DEF IndexPage
  <2>3. \A k \in DOMAIN p.runs : Complete(p.runs[k])
    BY <2>2 DEF IndexStream
  <2>4. RunsStand(p, indices)
    <3>1. RunsFollow(p.runs, indices)
      BY <1>1, <1>2, <1>3, <1>4, <2>1, <2>2 DEF IndexStream
    <3>2. Len(Held(p)) = Len(indices)
      BY <1>1, <1>2, <1>3, <1>4, <2>1
    <3>3. QED
      BY <2>3, <3>1, <3>2, Zenon DEF RunsStand
  <2>5. RepeatsComplete(p.runs)
    BY <2>3, Zenon DEF RepeatsComplete
  <2>6. ASSUME NEW i \in DOMAIN indices
        PROVE  /\ indices[i] # Len(p.dict) /\ indices[i] < Len(p.dict)
               /\ i <= Len(Held(p)) /\ Held(p)[i] = p.dict[indices[i] + 1]
    <3>1. i \in 1..m /\ i <= m
      BY <2>1
    <3>2. indices[i] \in Nat /\ indices[i] < l /\ held[i] = e.entries[indices[i] + 1]
      BY <1>1, <1>2, <1>3, <1>4, <2>1, <3>1, ElementOfSeq
    <3>3. indices[i] # l
      BY <3>2
    <3>4. QED
      BY <1>1, <1>2, <1>3, <1>4, <2>2, <3>1, <3>2, <3>3 DEF IndexPage
  <2>7. QED
    BY <2>1, <2>2, <2>4, <2>5, <2>6, Zenon DEF IndicesStand, InDict
<1>8. StandsFor(p)
  <2>1. CodingFor(p.type, p.encoding) = "indices"
    BY PlainCodings DEF IndexPage
  <2>2. QED
    BY <1>7, <2>1, Zenon DEF StandsFor
<1>9. QED
  BY <1>5, <1>6, <1>8

-----------------------------------------------------------------------------
(* The first values of a page of deltas of this library's.                 *)
LEMMA ValueStands ==
    ASSUME NEW bits, NEW q, NEW at, NEW k \in Nat, NEW vs,
           BlocksStand(bits, q, at, k, vs), Len(vs) \in Nat,
           Len(vs) <= BlockValues * k + 1,
           NEW i \in Nat, i + 2 <= Len(vs)
    PROVE  /\ ValueIs(bits, q, at[i \div BlockValues], vs, i)
           /\ i \in 0..(BlockValues * k - 1)
<1>1. PICK x \in Nat : x = BlockValues * k
  <2>1. PICK v \in Nat : v = BlockValues
    BY DeltaConstants
  <2>2. v * k \in Nat
    OBVIOUS
  <2>3. QED
    BY <2>1, <2>2
<1>2. i \in 0..(x - 1)
  BY <1>1
<1>3. i \in 0..(BlockValues * k - 1)
  BY <1>1, <1>2
<1>4. \A j \in 0..(BlockValues * k - 1) :
         j + 2 <= Len(vs) => ValueIs(bits, q, at[j \div BlockValues], vs, j)
  BY DEF BlocksStand
<1>5. QED
  BY <1>3, <1>4

LEMMA FirstDelta ==
    ASSUME NEW q, Headed(q), NEW i \in 0..(PerMiniblock - 1)
    PROVE  /\ i \div BlockValues = 0
           /\ DeltaAt(q, 5, i) =
                 IF q[6] = 0 THEN 0 ELSE q[5 + q[2] + (i + 1)]
<1>1. PICK m \in Nat, p \in Nat, v \in Nat :
        /\ m = Miniblocks /\ p = PerMiniblock /\ v = BlockValues
        /\ m >= 1 /\ p >= 1 /\ v = m * p /\ i \in 0..(p - 1)
  BY DeltaConstants
<1>2. p <= v /\ v >= 1
  <2>1. m * p >= p
    BY <1>1
  <2>2. QED
    BY <1>1, <2>1
<1>3. /\ i = v * 0 + i /\ i = p * 0 + i /\ i \in 0..(v - 1) /\ 0 \in Int /\ i \in Int
  BY <1>1, <1>2
<1>4. i % v = i /\ i \div v = 0 /\ i % p = i /\ i \div p = 0
  <2>1. i % v = i
    BY <1>2, <1>3, OneRemainder
  <2>2. i \div v = 0
    BY <1>2, <1>3, OneQuotient
  <2>3. i % p = i
    BY <1>1, <1>3, OneRemainder
  <2>4. i \div p = 0
    BY <1>1, <1>3, OneQuotient
  <2>5. QED
    BY <2>1, <2>2, <2>3, <2>4
<1>5. (i % BlockValues) \div PerMiniblock + 1 = 1 /\ i % PerMiniblock = i
  BY <1>1, <1>4
<1>6. BlockOf(q, 5, 1) = 5 + m + 1
  <2>1. 1 \in 1..(Miniblocks + 1)
    BY <1>1
  <2>2. BlockOf(q, 5, 1) = 5 + Miniblocks + 1 + PerMiniblock * Before(UsedIn(q, 5), 1)
    BY <2>1, BlockOfIs
  <2>3. Before(UsedIn(q, 5), 1) = 0
    BY BeforeFacts
  <2>4. PerMiniblock * 0 = 0
    BY <1>1
  <2>5. QED
    BY <1>1, <2>2, <2>3, <2>4
<1>7. DeltaAt(q, 5, i) = IF q[5 + 1] = 0 THEN 0 ELSE q[BlockOf(q, 5, 1) + i]
  BY <1>5, Zenon DEF DeltaAt
<1>8. BlockOf(q, 5, 1) + i = 5 + q[2] + (i + 1)
  BY <1>1, <1>6 DEF Headed
<1>9. QED
  BY <1>1, <1>4, <1>7, <1>8

LEMMA StandFirst ==
    ASSUME NEW bits \in Nat, NEW q, NEW vs, StandFor(bits, q, vs)
    PROVE  FirstValues(bits, q, vs)
<1>1. PICK k \in Nat : Stand(bits, q, k, vs) /\ Len(vs) <= BlockValues * k + 1
  BY DEF StandFor
<1>2. PICK at : BlocksStand(bits, q, at, k, vs)
  BY <1>1 DEF Stand
<1>3. vs \in Seq(Words(bits)) /\ Len(vs) \in Nat /\ Headed(q) /\ q[3] = Len(vs)
  <2>1. vs \in Seq(Words(bits)) /\ Headed(q) /\ q[3] = Len(vs)
    BY DEF StandFor
  <2>2. QED
    BY <2>1, LenProperties
<1>4. Len(q) >= 4 /\ at[0] = 5
  BY <1>2 DEF BlocksStand
<1>5. PICK p \in Nat : p = PerMiniblock /\ q[1] \div q[2] = p /\ q[2] > 0
  <2>1. q[1] \div q[2] = PerMiniblock /\ q[2] = Miniblocks
    BY <1>3 DEF Headed, PerMiniblock
  <2>2. QED
    BY <2>1, DeltaConstants
<1>6. vs # <<>> => vs[1] = Wrap(bits, UnZigZag(q[4]))
  BY DEF StandFor
<1>7. ASSUME NEW i \in 1..Fewer(p, Len(vs) - 1)
      PROVE  vs[i + 1] = Wrap(bits, vs[i] + UnZigZag(q[5])
                                + IF q[6] = 0 THEN 0 ELSE q[5 + q[2] + i])
  <2>1. i <= p /\ i <= Len(vs) - 1 /\ i \in Nat /\ i >= 1
    BY <1>3, <1>7 DEF Fewer
  <2>2. PICK j \in Nat : j = i - 1 /\ j + 1 = i /\ j + 2 = i + 1
    BY <2>1
  <2>3. j + 2 <= Len(vs) /\ j \in 0..(PerMiniblock - 1)
    BY <1>3, <1>5, <2>1, <2>2
  <2>4. ValueIs(bits, q, at[j \div BlockValues], vs, j)
    BY <1>1, <1>2, <1>3, <2>3, ValueStands
  <2>5. /\ j \div BlockValues = 0
        /\ DeltaAt(q, 5, j) = IF q[6] = 0 THEN 0 ELSE q[5 + q[2] + (j + 1)]
    BY <1>3, <2>3, FirstDelta
  <2>6. vs[j + 2] = Wrap(bits, vs[j + 1] + UnZigZag(q[5]) + DeltaAt(q, 5, j))
    BY <1>4, <2>4, <2>5, Zenon DEF ValueIs
  <2>7. QED
    BY <2>2, <2>5, <2>6, Zenon
<1>8. QED
  <2>1. \A i \in 1..Fewer(q[1] \div q[2], Len(vs) - 1) :
          vs[i + 1] = Wrap(bits, vs[i] + UnZigZag(q[5])
                             + IF q[6] = 0 THEN 0 ELSE q[5 + q[2] + i])
    BY <1>5, <1>7
  <2>2. QED
    BY <1>3, <1>4, <1>5, <1>6, <2>1, Zenon DEF FirstValues

(* A page as the encoder writes it stands for its values.                  *)
DeltaValues(type, q, content) ==
    \E vs : StandFor(WordBits(type), q, vs) /\ content = Singles(vs)

LEMMA HeldDeltaPage ==
    ASSUME NEW type \in DeltaTypes, NEW e, NEW values, Holds(e, values, type),
           NEW unset \in Nat
    PROVE  /\ DeltaValues(type, DeltaPage(e, unset).numbers, values)
           /\ DeltaPage(e, unset).bytes \in Nat /\ MaxDeltaBytes(e) \in Nat
<1>1. PICK bits : /\ bits = WordBits(type) /\ bits \in WordSizes /\ bits \in Nat
                  /\ BufferBits <= bits /\ BlockValues < Pow2(BufferBits)
                  /\ MaxValues[type] \in Words(bits)
  BY DeltaWords
<1>2. PICK vs : /\ Encodes(bits, e, vs) /\ values = Singles(vs)
                /\ Len(vs) <= MaxValues[type]
  BY <1>1 DEF Holds
<1>3. e \in DeltaEncoders(bits) /\ vs \in Seq(Words(bits))
  BY <1>2 DEF Encodes, HeldBy
<1>4. Len(vs) \in Words(bits)
  <2>1. PICK l \in Nat, w \in Nat, most \in Nat :
          /\ l = Len(vs) /\ w = Pow2(bits) /\ most = MaxValues[type]
          /\ l <= most /\ most \in 0..(w - 1)
    <3>1. Len(vs) \in Nat
      BY <1>3, LenProperties
    <3>2. Pow2(bits) \in Nat
      BY <1>1, Pow2Facts
    <3>3. MaxValues[type] \in 0..(Pow2(bits) - 1)
      BY <1>1 DEF Words
    <3>4. QED
      BY <1>2, <3>1, <3>2, <3>3
  <2>2. l \in 0..(w - 1)
    BY <2>1
  <2>3. QED
    BY <2>1, <2>2 DEF Words
<1>5. IsDeltaPage(bits, DeltaPage(e, unset), vs, MaxDeltaBytes(e))
  BY <1>1, <1>2, <1>4, PageRight
<1>6. /\ StandFor(bits, DeltaPage(e, unset).numbers, vs)
      /\ DeltaPage(e, unset).bytes \in Nat /\ MaxDeltaBytes(e) \in Nat
  BY <1>5 DEF IsDeltaPage
<1>7. QED
  BY <1>1, <1>2, <1>6 DEF DeltaValues

LEMMA DeltaPageStands ==
    ASSUME NEW p, p.type \in DeltaTypes, p.encoding = "DELTA_BINARY_PACKED",
           p.padding = <<>>, DeltaValues(p.type, p.numbers, p.content)
    PROVE  /\ CodingFor(p.type, p.encoding) = "DELTA_BINARY_PACKED"
           /\ StandsFor(p) /\ p.numbers \in Seq(Nat) /\ p.content \in Seq(Seq(Nat))
<1>1. PICK bits \in Nat : bits = WordBits(p.type)
  BY DeltaWords
<1>2. PICK vs : StandFor(bits, p.numbers, vs) /\ p.content = Singles(vs)
  BY <1>1 DEF DeltaValues
<1>3. vs \in Seq(Words(bits)) /\ p.numbers \in Seq(Nat)
  BY <1>2 DEF StandFor
<1>4. p.content \in Seq(Seq(Nat)) /\ DOMAIN p.content = DOMAIN vs
      /\ \A i \in DOMAIN vs : p.content[i] = <<vs[i]>>
  <2>1. Words(bits) \subseteq Nat
    BY WordsNat
  <2>2. PICK n \in Nat : n = Len(vs) /\ DOMAIN vs = 1..n /\ \A i \in 1..n : vs[i] \in Nat
    BY <1>3, <2>1, LenProperties, ElementOfSeq
  <2>3. PICK T : T = Seq(Nat)
    OBVIOUS
  <2>4. \A i \in 1..n : <<vs[i]>> \in T
    BY <2>2, <2>3
  <2>5. p.content = [i \in 1..n |-> <<vs[i]>>]
    BY <1>2, <2>2 DEF Singles
  <2>6. p.content \in [1..n -> T]
    BY <2>4, <2>5
  <2>7. p.content \in Seq(T)
    BY <2>6, SeqIs
  <2>8. QED
    BY <2>2, <2>3, <2>5, <2>7
<1>5. [i \in DOMAIN p.content |-> p.content[i][1]] = vs
  <2>1. PICK n \in Nat : n = Len(vs) /\ DOMAIN vs = 1..n
    BY <1>3, LenProperties
  <2>2. \A i \in 1..n : p.content[i][1] = vs[i]
    BY <1>4, <2>1, SMTT(30)
  <2>3. vs = [i \in 1..n |-> vs[i]]
    BY <1>3, <2>1
  <2>4. QED
    BY <1>4, <2>1, <2>2, <2>3
<1>6. FirstValues(bits, p.numbers, vs)
  BY <1>2, StandFirst
<1>7. p.content = [i \in DOMAIN p.content |-> <<vs[i]>>]
  BY <1>2, <1>4 DEF Singles
<1>8. DeltasStand(p)
  BY <1>1, <1>5, <1>6, <1>7, Zenon DEF DeltasStand
<1>9. CodingFor(p.type, p.encoding) = "DELTA_BINARY_PACKED"
  BY DEF CodingFor, ValidFor, DeltaTypes
<1>10. StandsFor(p)
  BY <1>8, <1>9, Zenon DEF StandsFor
<1>11. QED
  BY <1>3, <1>4, <1>9, <1>10

-----------------------------------------------------------------------------
(* Pages that are read in batches, and the decoders that are at each of    *)
(* their values.                                                           *)
Begin(p) ==
    ResetDecoder(p.type, p.encoding, p.numbers, p.runs, p.dictSet, p.dict)

CodingOf(p) == CodingFor(p.type, p.encoding)

ReadAt(p, content, at) ==
    \A k \in 0..Len(content) : \A d \in at[k] :
        \A n \in Nat \ {0}, spill \in Nat :
            Gives(ReadBatch(d, n, spill), at, content, p.whole, k, n)

Located(p, content, at) ==
    ReadAt(p, content, at) /\ (Begin(p) = Refused \/ Begin(p) \in at[0])

Locatable(p, content) == \E at : Located(p, content, at)

LEMMA RefusedLocatable ==
    ASSUME NEW p, NEW content, Begin(p) = Refused
    PROVE  Locatable(p, content)
<1>1. PICK at : at = [k \in 0..Len(content) |-> {}]
  OBVIOUS
<1>2. \A k \in 0..Len(content) : at[k] = {}
  BY <1>1
<1>3. ReadAt(p, content, at)
  BY <1>2 DEF ReadAt
<1>4. Located(p, content, at)
  BY <1>3 DEF Located
<1>5. QED
  BY <1>4 DEF Locatable

LEMMA PageFields ==
    ASSUME NEW p \in Page
    PROVE  /\ p.type \in Types /\ p.numbers \in Seq(Nat)
           /\ p.content \in Seq(Seq(Nat)) /\ p.dict \in Seq(Seq(Nat))
           /\ p.dictSet \in BOOLEAN /\ p.own \in BOOLEAN /\ p.whole \in BOOLEAN
           /\ Len(p.content) \in Nat /\ Len(p.numbers) \in Nat
           /\ DOMAIN p.content = 1..Len(p.content)
           /\ p.runs \in Seq(Run) /\ p.padding \in Seq(Seq(Nat))
           /\ Held(p) \in Seq(Seq(Nat)) /\ Len(Held(p)) \in Nat
           /\ p.padding = <<>> => Held(p) = p.content
<1>1. /\ p.type \in Types /\ p.numbers \in Seq(Nat)
      /\ p.content \in Seq(Seq(Nat)) /\ p.dict \in Seq(Seq(Nat))
      /\ p.dictSet \in BOOLEAN /\ p.own \in BOOLEAN /\ p.whole \in BOOLEAN
      /\ p.runs \in Seq(Run) /\ p.padding \in Seq(Seq(Nat))
  BY DEF Page
<1>2. PICK T, content, padding :
        /\ T = Seq(Nat) /\ content = p.content /\ padding = p.padding
        /\ content \in Seq(T) /\ padding \in Seq(T)
  BY <1>1
<1>3. Held(p) = content \o padding
  BY <1>2 DEF Held
<1>4. Held(p) \in Seq(T) /\ Len(Held(p)) \in Nat
  BY <1>2, <1>3, ConcatProperties, LenProperties
<1>5. padding = <<>> => Held(p) = content
  BY <1>2, <1>3, ConcatEmptySeq
<1>6. QED
  BY <1>1, <1>2, <1>4, <1>5, LenProperties

LEMMA BatchIs ==
    ASSUME NEW d, NEW n, NEW spill
    PROVE  /\ d.coding \in {"as is", "bits"} =>
                 ReadBatch(d, n, spill) = ReadAsIs(d, n)
           /\ d.coding \in Copied => ReadBatch(d, n, spill) = Times(d, n)
           /\ d.coding = "indices" => ReadBatch(d, n, spill) = ReadIndices(d, n)
           /\ d.coding = "RLE" => ReadBatch(d, n, spill) = ReadBooleans(d, n)
           /\ d.coding = "BYTE_STREAM_SPLIT" =>
                 ReadBatch(d, n, spill) = ReadSplit(d, n)
           /\ d.coding = "DELTA_BINARY_PACKED" =>
                 ReadBatch(d, n, spill) = DeltasRead(d, ReadDelta(d.delta, n, spill))
BY DEF ReadBatch, Copied

LEMMA BeginIs ==
    ASSUME NEW p, NEW coding, coding = CodingOf(p)
    PROVE  /\ coding = "as is" => Begin(p) = Plain(coding, SizeOf(p.type), p.numbers)
           /\ coding = "bits" => Begin(p) = Plain(coding, 1, Bits(p.numbers))
           /\ coding \in {"lengths and bytes", "fixed"} =>
                 Begin(p) = Plain(coding, 1, p.numbers)
           /\ coding = "RLE" =>
                 Begin(p) = NewRleDecoder(coding, <<>>, p.numbers, p.runs)
           /\ coding = "indices" =>
                 Begin(p) = IF ~p.dictSet \/ p.numbers[1] > 32 THEN Refused
                            ELSE NewRleDecoder(coding, p.dict, Tail(p.numbers),
                                               p.runs)
           /\ coding = "DELTA_BINARY_PACKED" =>
                 Begin(p) = DeltaReset(ResetDelta(WordBits(p.type), p.numbers))
           /\ coding = "DELTA_LENGTH_BYTE_ARRAY" => Begin(p) = ResetLengths(p.numbers)
           /\ coding = "DELTA_BYTE_ARRAY" => Begin(p) = ResetPrefixes(p.numbers)
           /\ coding = "BYTE_STREAM_SPLIT" => Begin(p) = ResetSplit(p.type, p.numbers)
           /\ coding = "refused" => Begin(p) = Refused
BY DEF Begin, ResetDecoder, ResetCoding, CodingOf

CodingNames ==
    {"as is", "bits", "lengths and bytes", "fixed", "indices", "RLE",
     "DELTA_BINARY_PACKED", "DELTA_LENGTH_BYTE_ARRAY", "DELTA_BYTE_ARRAY",
     "BYTE_STREAM_SPLIT", "refused"}

(* Which types and encodings a coding is for.                              *)
LEMMA CodingIs ==
    ASSUME NEW p, p.type \in Types, NEW coding, coding = CodingOf(p)
    PROVE  /\ coding \in CodingNames
           /\ coding = "as is" =>
                 p.encoding = "PLAIN" /\ p.type \in {"INT32", "INT64", "FLOAT"}
           /\ coding = "bits" => p.encoding = "PLAIN" /\ p.type = "BOOLEAN"
           /\ coding = "lengths and bytes" =>
                 p.encoding = "PLAIN" /\ p.type = "BYTE_ARRAY"
           /\ coding = "fixed" =>
                 p.encoding = "PLAIN" /\ p.type = "FIXED_LEN_BYTE_ARRAY"
           /\ coding = "RLE" => p.encoding = "RLE" /\ p.type = "BOOLEAN"
           /\ coding = "indices" =>
                 p.encoding \in {"RLE_DICTIONARY", "PLAIN_DICTIONARY"}
           /\ coding = "DELTA_BINARY_PACKED" =>
                 p.encoding = coding /\ p.type \in DeltaTypes
           /\ coding = "DELTA_LENGTH_BYTE_ARRAY" => p.encoding = coding
           /\ coding = "DELTA_BYTE_ARRAY" => p.encoding = coding
           /\ coding = "BYTE_STREAM_SPLIT" =>
                 p.encoding = coding /\ p.type = "FLOAT"
           /\ p.encoding = "PLAIN" => coding = PlainCoding(p.type)
           /\ p.encoding = "DELTA_LENGTH_BYTE_ARRAY" =>
                 coding \in {p.encoding, "refused"}
           /\ p.encoding = "DELTA_BYTE_ARRAY" => coding \in {p.encoding, "refused"}
           /\ p.encoding = "DELTA_BINARY_PACKED" =>
                 coding \in {p.encoding, "refused"}
           /\ p.encoding = "BYTE_STREAM_SPLIT" => coding \in {p.encoding, "refused"}
           /\ p.encoding = "RLE" => coding \in {p.encoding, "refused"}
<1>1. DOMAIN ValidFor = {"RLE", "DELTA_BINARY_PACKED", "DELTA_LENGTH_BYTE_ARRAY",
                         "DELTA_BYTE_ARRAY", "BYTE_STREAM_SPLIT"}
  BY DEF ValidFor
<1>2. /\ ValidFor["RLE"] = {"BOOLEAN"} /\ ValidFor["DELTA_BINARY_PACKED"] = DeltaTypes
      /\ ValidFor["BYTE_STREAM_SPLIT"] = {"FLOAT"}
  BY DEF ValidFor, DeltaTypes
<1>3. coding = IF p.encoding = "PLAIN" THEN PlainCoding(p.type)
               ELSE IF p.encoding \in {"RLE_DICTIONARY", "PLAIN_DICTIONARY"}
               THEN "indices"
               ELSE IF p.encoding \in DOMAIN ValidFor /\ p.type \in ValidFor[p.encoding]
               THEN p.encoding ELSE "refused"
  BY Zenon DEF CodingOf, CodingFor
<1>4. /\ PlainCoding(p.type) \in {"as is", "bits", "lengths and bytes", "fixed"}
      /\ PlainCoding(p.type) = "as is" => p.type \in {"INT32", "INT64", "FLOAT"}
      /\ PlainCoding(p.type) = "bits" => p.type = "BOOLEAN"
      /\ PlainCoding(p.type) = "lengths and bytes" => p.type = "BYTE_ARRAY"
      /\ PlainCoding(p.type) = "fixed" => p.type = "FIXED_LEN_BYTE_ARRAY"
  BY DEF PlainCoding, Types
<1>5. QED
  BY <1>1, <1>2, <1>3, <1>4 DEF CodingNames

LEMMA BitsType ==
    ASSUME NEW bytes \in Seq(Nat)
    PROVE  Bits(bytes) \in Seq(Nat)
<1>1. PICK n, T : /\ n \in Nat /\ n = Len(bytes) /\ T = Seq(Nat)
                 /\ \A i \in 1..n : bytes[i] \in Nat
  BY LenProperties, ElementOfSeq
<1>2. ASSUME NEW i \in 1..n
      PROVE  [j \in 1..ByteBits |-> (bytes[i] \div Pow2(j - 1)) % 2] \in T
  <2>1. PICK b \in Nat : b = bytes[i]
    BY <1>1
  <2>2. ASSUME NEW j \in 1..ByteBits PROVE (b \div Pow2(j - 1)) % 2 \in Nat
    <3>1. j - 1 \in Nat
      BY DeltaConstants
    <3>2. PICK w \in Nat : w = Pow2(j - 1) /\ w >= 1
      BY <3>1, Pow2Facts, Pow2More
    <3>3. PICK q \in Nat : q = b \div w
      BY <3>2, DivFacts
    <3>4. q % 2 \in Nat
      OBVIOUS
    <3>5. QED
      BY <3>2, <3>3, <3>4
  <2>3. [j \in 1..ByteBits |-> (b \div Pow2(j - 1)) % 2] \in [1..ByteBits -> Nat]
    BY <2>2
  <2>4. ByteBits \in Nat
    BY DeltaConstants
  <2>5. QED
    BY <1>1, <2>1, <2>3, <2>4, SeqIs
<1>3. PICK ss : ss = [i \in 1..n |->
                        [j \in 1..ByteBits |-> (bytes[i] \div Pow2(j - 1)) % 2]]
  OBVIOUS
<1>4. ss \in [1..n -> T]
  BY <1>2, <1>3
<1>5. ss \in Seq(T)
  BY <1>1, <1>4, SeqIs
<1>6. FlattenSeq(ss) \in Seq(Nat)
  BY <1>1, <1>5, FlattenType
<1>7. Bits(bytes) = FlattenSeq(ss)
  <2>1. DOMAIN bytes = 1..n
    BY <1>1, LenProperties
  <2>2. QED
    BY <1>3, <2>1, Zenon DEF Bits
<1>8. QED
  BY <1>6, <1>7

-----------------------------------------------------------------------------
(* Where a page of a coding that copies its numbers is located.            *)
LEMMA SizeFacts ==
    ASSUME NEW type \in Types
    PROVE  /\ SizeOf(type) \in Nat /\ SizeOf(type) >= 1
           /\ type \notin {"BYTE_ARRAY", "FIXED_LEN_BYTE_ARRAY"} =>
                 ValueSizes(type) = {SizeOf(type)}
           /\ type = "BOOLEAN" => SizeOf(type) = 1
BY DEF SizeOf, ValueSizes, Types

LEMMA StoredIsPart ==
    ASSUME NEW p, NEW numbers, NEW all, Stored(p, numbers, all)
    PROVE  Part(p.whole, numbers, all)
BY DEF Stored, Part

LEMMA CodesSame ==
    ASSUME NEW type, type # "BYTE_ARRAY", NEW data \in Seq(Seq(Nat))
    PROVE  Codes(type, data) = data
<1>1. PICK T : T = Seq(Nat) /\ data \in Seq(T)
  OBVIOUS
<1>2. PICK codes : codes = Codes(type, data)
  OBVIOUS
<1>3. /\ codes \in Seq(T) /\ Len(codes) = Len(data)
      /\ \A i \in 1..Len(data) : codes[i] = data[i]
  <2>1. /\ codes \in Seq(Seq(Nat)) /\ Len(codes) = Len(data)
        /\ \A i \in 1..Len(data) :
              codes[i] = IF type = "BYTE_ARRAY"
                         THEN LengthOf(Len(data[i])) \o data[i] ELSE data[i]
    BY <1>2, CodesFacts
  <2>2. QED
    BY <1>1, <2>1, Zenon
<1>4. codes = data
  BY <1>1, <1>3, SeqEqual
<1>5. QED
  BY <1>2, <1>4

LEMMA PlainFresh ==
    ASSUME NEW coding, NEW s \in Nat, s >= 1, NEW nums \in Seq(Nat)
    PROVE  /\ Plain(coding, s, nums) \in PlainDecoders(coding)
           /\ Plain(coding, s, nums).size = s /\ Plain(coding, s, nums).rest = nums
<1>1. s \in Nat \ {0}
  OBVIOUS
<1>2. QED
  BY <1>1 DEF Plain, PlainDecoders

LEMMA AsIsFirst ==
    ASSUME NEW coding, NEW s \in Nat, s >= 1, NEW nums \in Seq(Nat),
           NEW total \in Nat
    PROVE  Plain(coding, s, nums) \in AtAsIs(coding, s, nums, total)[0]
<1>1. PICK d : d = Plain(coding, s, nums)
  OBVIOUS
<1>2. d \in PlainDecoders(coding) /\ d.size = s /\ d.rest = nums
  BY <1>1, PlainFresh
<1>3. 0 * s = 0 /\ 0 \in 0..total
  OBVIOUS
<1>4. Len(nums) \in Nat /\ Skipped(nums, 0) = nums
  BY LenProperties, SkipNone
<1>5. 0 * s <= Len(nums) /\ nums = Skipped(nums, 0 * s)
  BY <1>3, <1>4
<1>6. d \in AtAsIs(coding, s, nums, total)[0]
  BY <1>2, <1>3, <1>5 DEF AtAsIs
<1>7. QED
  BY <1>1, <1>6

LEMMA CopiedFirst ==
    ASSUME NEW coding, NEW nums \in Seq(Nat), NEW codes \in Seq(Seq(Nat)), NEW whole,
           Part(whole, nums, FlattenSeq(codes))
    PROVE  Plain(coding, 1, nums) \in AtCopied(coding, codes, whole)[0]
<1>1. PICK d : d = Plain(coding, 1, nums)
  OBVIOUS
<1>2. d \in PlainDecoders(coding) /\ d.rest = nums
  BY <1>1, PlainFresh
<1>3. PICK T : T = Seq(Nat) /\ codes \in Seq(T)
  OBVIOUS
<1>4. Skipped(codes, 0) = codes /\ 0 \in 0..Len(codes)
  <2>1. Skipped(codes, 0) = codes
    BY <1>3, SkipNone
  <2>2. Len(codes) \in Nat
    BY <1>3, LenProperties
  <2>3. QED
    BY <2>1, <2>2
<1>5. Part(whole, d.rest, FlattenSeq(Skipped(codes, 0)))
  BY <1>2, <1>4
<1>6. d \in AtCopied(coding, codes, whole)[0]
  BY <1>2, <1>4, <1>5 DEF AtCopied
<1>7. QED
  BY <1>1, <1>6

LEMMA AsIsLocated ==
    ASSUME NEW p \in Page, NEW coding \in {"as is", "bits"},
           NEW s \in Nat, s >= 1, NEW nums \in Seq(Nat),
           SameSize(p.content, s), Part(p.whole, nums, FlattenSeq(p.content)),
           Begin(p) = Plain(coding, s, nums)
    PROVE  Locatable(p, p.content)
<1>1. PICK at : at = AtAsIs(coding, s, nums, Len(p.content))
  OBVIOUS
<1>2. ReadAt(p, p.content, at)
  <2>1. ASSUME NEW k \in 0..Len(p.content), NEW d \in at[k],
               NEW n \in Nat \ {0}, NEW spill \in Nat
        PROVE  Gives(ReadBatch(d, n, spill), at, p.content, p.whole, k, n)
    <3>1. p.content \in Seq(Seq(Nat))
      BY PageFields
    <3>2. d \in AtAsIs(coding, s, nums, Len(p.content))[k]
      BY <1>1
    <3>3. Gives(ReadAsIs(d, n), at, p.content, p.whole, k, n)
      BY <1>1, <3>1, <3>2, AsIsGives
    <3>4. d \in PlainDecoders(coding)
      BY <3>2 DEF AtAsIs
    <3>5. d.coding = coding
      BY <3>4 DEF PlainDecoders
    <3>6. ReadBatch(d, n, spill) = ReadAsIs(d, n)
      BY <3>5, BatchIs
    <3>7. QED
      BY <3>3, <3>6
  <2>2. QED
    BY <2>1 DEF ReadAt
<1>3. Begin(p) \in at[0]
  <2>1. Len(p.content) \in Nat
    BY PageFields
  <2>2. Plain(coding, s, nums) \in AtAsIs(coding, s, nums, Len(p.content))[0]
    BY <2>1, AsIsFirst, Zenon
  <2>3. QED
    BY <1>1, <2>2, Zenon
<1>4. QED
  BY <1>2, <1>3 DEF Located, Locatable

LEMMA CopiedLocated ==
    ASSUME NEW p \in Page, NEW D, Copies(D), NEW at,
           at \in [0..Len(p.content) -> SUBSET D],
           TakesOne(at, p.content, p.whole),
           Begin(p) = Refused \/ Begin(p) \in at[0]
    PROVE  Locatable(p, p.content)
<1>1. ReadAt(p, p.content, at)
  <2>1. ASSUME NEW k \in 0..Len(p.content), NEW d \in at[k],
               NEW n \in Nat \ {0}, NEW spill \in Nat
        PROVE  Gives(ReadBatch(d, n, spill), at, p.content, p.whole, k, n)
    <3>1. p.content \in Seq(Seq(Nat))
      BY PageFields
    <3>2. Gives(Times(d, n), at, p.content, p.whole, k, n)
      BY <3>1, TimesGive
    <3>3. at[k] \in SUBSET D
      OBVIOUS
    <3>4. d.coding \in Copied
      BY <3>3 DEF Copies
    <3>5. ReadBatch(d, n, spill) = Times(d, n)
      BY <3>4, BatchIs
    <3>6. QED
      BY <3>2, <3>5
  <2>2. QED
    BY <2>1 DEF ReadAt
<1>2. QED
  BY <1>1 DEF Located, Locatable

LEMMA PlainCopiedLocated ==
    ASSUME NEW p \in Page, NEW coding \in {"lengths and bytes", "fixed"},
           NEW codes \in Seq(Seq(Nat)), Len(codes) = Len(p.content),
           Part(p.whole, p.numbers, FlattenSeq(codes)),
           TakesOne(AtCopied(coding, codes, p.whole), p.content, p.whole),
           Begin(p) = Plain(coding, 1, p.numbers)
    PROVE  Locatable(p, p.content)
<1>1. PICK D : D = PlainDecoders(coding)
  OBVIOUS
<1>2. Copies(D)
  BY <1>1, BytesCopy, FixedCopy
<1>3. PICK at : at = AtCopied(coding, codes, p.whole)
  OBVIOUS
<1>4. at \in [0..Len(p.content) -> SUBSET D]
  BY <1>1, <1>3 DEF AtCopied
<1>5. Begin(p) \in at[0]
  <2>1. p.numbers \in Seq(Nat)
    BY PageFields
  <2>2. Plain(coding, 1, p.numbers) \in AtCopied(coding, codes, p.whole)[0]
    BY <2>1, CopiedFirst, Zenon
  <2>3. QED
    BY <1>3, <2>2, Zenon
<1>6. TakesOne(at, p.content, p.whole)
  BY <1>3
<1>7. QED
  BY <1>2, <1>4, <1>5, <1>6, CopiedLocated

PlainCodingNames == {"as is", "bits", "lengths and bytes", "fixed"}

LEMMA PlainLocated ==
    ASSUME NEW p \in Page, PlainStands(p), CodingOf(p) \in PlainCodingNames
    PROVE  Locatable(p, p.content)
<1>1. PICK coding : coding = CodingOf(p) /\ coding \in PlainCodingNames
  OBVIOUS
<1>2. /\ p.type \in Types /\ p.numbers \in Seq(Nat) /\ Len(p.content) \in Nat
      /\ p.content \in Seq(Seq(Nat)) /\ DOMAIN p.content = 1..Len(p.content)
  BY PageFields
<1>3. PICK nums : nums = IF coding = "bits" THEN Bits(p.numbers) ELSE p.numbers
  OBVIOUS
<1>4. /\ \A i \in 1..Len(p.content) : Len(p.content[i]) \in ValueSizes(p.type)
      /\ Part(p.whole, nums, FlattenSeq(Codes(p.type, p.content)))
  <2>1. /\ \A i \in DOMAIN p.content : Len(p.content[i]) \in ValueSizes(p.type)
        /\ Stored(p, nums, PlainNumbers(p.type, p.content))
    BY <1>1, <1>3, Zenon DEF PlainStands, CodingOf
  <2>2. Part(p.whole, nums, PlainNumbers(p.type, p.content))
    BY <2>1, StoredIsPart
  <2>3. QED
    BY <1>2, <2>1, <2>2, PlainIs
<1>5. ASSUME coding \in {"as is", "bits"} PROVE Locatable(p, p.content)
  <2>1. p.type \notin {"BYTE_ARRAY", "FIXED_LEN_BYTE_ARRAY"}
    BY <1>1, <1>2, <1>5, CodingIs
  <2>2. PICK s \in Nat : s = SizeOf(p.type) /\ s >= 1 /\ ValueSizes(p.type) = {s}
                         /\ (p.type = "BOOLEAN" => s = 1)
    BY <1>2, <2>1, SizeFacts
  <2>3. SameSize(p.content, s)
    BY <1>4, <2>2 DEF SameSize
  <2>4. Part(p.whole, nums, FlattenSeq(p.content))
    BY <1>2, <1>4, <2>1, CodesSame
  <2>5. nums \in Seq(Nat)
    BY <1>2, <1>3, BitsType
  <2>6. Begin(p) = Plain(coding, s, nums)
    <3>1. CASE coding = "as is"
      BY <1>1, <1>3, <2>2, <3>1, BeginIs
    <3>2. CASE coding \in {"bits"}
      <4>1. s = 1
        BY <1>1, <1>2, <2>2, <3>2, CodingIs
      <4>2. QED
        BY <1>1, <1>3, <3>2, <4>1, BeginIs
    <3>3. QED
      BY <1>5, <3>1, <3>2
  <2>7. QED
    BY <1>5, <2>2, <2>3, <2>4, <2>5, <2>6, AsIsLocated
<1>6. ASSUME coding = "fixed" PROVE Locatable(p, p.content)
  <2>1. p.type = "FIXED_LEN_BYTE_ARRAY"
    BY <1>1, <1>2, <1>6, CodingIs
  <2>2. \A i \in 1..Len(p.content) : Len(p.content[i]) = TypeLength
    BY <1>4, <2>1 DEF ValueSizes
  <2>3. TakesOne(AtCopied("fixed", p.content, p.whole), p.content, p.whole)
    BY <1>2, <2>2, FixedTaken
  <2>4. Part(p.whole, p.numbers, FlattenSeq(p.content))
    BY <1>2, <1>3, <1>4, <1>6, <2>1, CodesSame
  <2>5. Begin(p) = Plain(coding, 1, p.numbers)
    BY <1>1, <1>6, BeginIs
  <2>6. QED
    BY <1>2, <1>6, <2>3, <2>4, <2>5, PlainCopiedLocated
<1>7. ASSUME coding = "lengths and bytes" PROVE Locatable(p, p.content)
  <2>1. p.type = "BYTE_ARRAY"
    BY <1>1, <1>2, <1>7, CodingIs
  <2>2. \A i \in 1..Len(p.content) :
           Len(p.content[i]) \in 0..(Pow2(ByteBits * LengthBytes) - 1)
    BY <1>4, <2>1 DEF ValueSizes
  <2>3. PICK codes : codes = Codes("BYTE_ARRAY", p.content)
    OBVIOUS
  <2>4. codes \in Seq(Seq(Nat)) /\ Len(codes) = Len(p.content)
    BY <1>2, <2>3, CodesFacts
  <2>5. TakesOne(AtCopied("lengths and bytes", codes, p.whole), p.content, p.whole)
    BY <1>2, <2>2, <2>3, BytesTaken
  <2>6. Part(p.whole, p.numbers, FlattenSeq(codes))
    BY <1>3, <1>4, <1>7, <2>1, <2>3
  <2>7. Begin(p) = Plain(coding, 1, p.numbers)
    BY <1>1, <1>7, BeginIs
  <2>8. QED
    BY <1>7, <2>4, <2>5, <2>6, <2>7, PlainCopiedLocated
<1>8. QED
  BY <1>1, <1>5, <1>6, <1>7 DEF PlainCodingNames

(* The pages of the other codings that are read in batches.                *)
LEMMA RunsStandAre ==
    ASSUME NEW p \in Page, NEW numbers \in Seq(Nat), RunsStand(p, numbers),
           NEW S, S \subseteq Nat, \A i \in 1..Len(numbers) : numbers[i] \in S,
           RepeatsComplete(p.runs) \/ OldValues(p.runs, S)
    PROVE  /\ RunFacts(numbers, p.runs, S)
           /\ RepeatsComplete(p.runs) => RunsSound(p.runs, p.whole)
           /\ p.whole => Len(Held(p)) = Len(numbers)
<1>1. p.runs \in Seq(Run)
  BY PageFields
<1>2. DOMAIN p.runs = 1..Len(p.runs)
  BY <1>1, LenProperties
<1>3. /\ RunsFollow(p.runs, numbers)
      /\ p.whole => /\ Len(Held(p)) = Len(numbers)
                    /\ \A k \in DOMAIN p.runs : Complete(p.runs[k])
  BY DEF RunsStand
<1>4. RunFacts(numbers, p.runs, S)
  BY <1>1, <1>3, Zenon DEF RunFacts
<1>5. RepeatsComplete(p.runs) => RunsSound(p.runs, p.whole)
  BY <1>2, <1>3, Zenon DEF RunsSound
<1>6. QED
  BY <1>3, <1>4, <1>5

(* The indices that are never behind the entries.                          *)
OfDict(p) == {i \in Nat : i # Len(p.dict)}

LEMMA IndicesStandAre ==
    ASSUME NEW p \in Page, IndicesStand(p)
    PROVE  /\ Tail(p.numbers) \in Seq(Nat)
           /\ RunFacts(Tail(p.numbers), p.runs, OfDict(p))
           /\ RepeatsComplete(p.runs) => RunsSound(p.runs, p.whole)
           /\ IndicesAre(Tail(p.numbers), p.dict, Held(p), p.whole)
<1>1. p.numbers \in Seq(Nat) /\ p.numbers # <<>> /\ p.dict \in Seq(Seq(Nat))
  BY PageFields DEF IndicesStand
<1>2. PICK indices \in Seq(Nat) : indices = Tail(p.numbers)
  BY <1>1, HeadTailProperties
<1>3. PICK m \in Nat, l \in Nat : /\ m = Len(indices) /\ DOMAIN indices = 1..m
                              /\ l = Len(p.dict)
  BY <1>1, LenProperties
<1>4. /\ RunsStand(p, indices)
      /\ RepeatsComplete(p.runs) \/ OldInDict(p)
      /\ \A i \in 1..m :
            /\ indices[i] # l
            /\ p.whole => indices[i] < l
            /\ (\A j \in 1..i : indices[j] < l) =>
                  i <= Len(Held(p)) /\ Held(p)[i] = p.dict[indices[i] + 1]
  BY <1>2, <1>3, Zenon DEF IndicesStand, InDict
<1>5. PICK S : S = OfDict(p) /\ S \subseteq Nat /\ S = {i \in Nat : i # l}
  BY <1>3 DEF OfDict
<1>6. \A i \in 1..m : indices[i] \in Nat /\ indices[i] \in S
  <2>1. \A i \in 1..m : indices[i] \in Nat
    BY <1>3, ElementOfSeq
  <2>2. QED
    BY <1>4, <1>5, <2>1
<1>7. RepeatsComplete(p.runs) \/ OldValues(p.runs, S)
  <2>1. p.runs \in Seq(Run)
    BY PageFields
  <2>2. DOMAIN p.runs = 1..Len(p.runs)
    BY <2>1, LenProperties
  <2>3. ASSUME OldInDict(p) PROVE OldValues(p.runs, S)
    <3>1. 0 \in S
      BY <1>3, <1>5, <2>3 DEF OldInDict, InDict
    <3>2. ASSUME NEW k \in 1..Len(p.runs)
          PROVE  p.runs[k].literal \/ p.runs[k].value \in S
      <4>1. p.runs[k].literal \/ p.runs[k].value # l
        BY <1>3, <2>2, <2>3, Zenon DEF OldInDict, InDict
      <4>2. p.runs[k] \in Run
        BY <2>1, ElementOfSeq
      <4>3. p.runs[k].value \in Nat
        BY <4>2 DEF Run
      <4>4. QED
        BY <1>5, <4>1, <4>3
    <3>3. QED
      BY <3>1, <3>2 DEF OldValues
  <2>4. QED
    BY <1>4, <2>3
<1>8. /\ RunFacts(indices, p.runs, S)
      /\ RepeatsComplete(p.runs) => RunsSound(p.runs, p.whole)
      /\ p.whole => Len(Held(p)) = m
  BY <1>3, <1>4, <1>5, <1>6, <1>7, RunsStandAre
<1>9. IndicesAre(indices, p.dict, Held(p), p.whole)
  <2>1. ASSUME NEW i \in 1..m, \A j \in 1..i : indices[j] <= l
        PROVE  /\ indices[i] < l /\ i <= Len(Held(p))
               /\ Held(p)[i] = p.dict[indices[i] + 1]
    <3>1. \A j \in 1..i : indices[j] < l
      <4>1. ASSUME NEW j \in 1..i PROVE indices[j] < l
        <5>1. j \in 1..m
          OBVIOUS
        <5>2. indices[j] \in Nat /\ indices[j] # l /\ indices[j] <= l
          BY <1>4, <1>6, <2>1, <5>1
        <5>3. QED
          BY <5>2
      <4>2. QED
        BY <4>1
    <3>2. i \in 1..i
      OBVIOUS
    <3>3. QED
      BY <1>4, <3>1, <3>2
  <2>2. QED
    BY <1>3, <1>4, <1>8, <2>1 DEF IndicesAre
<1>10. QED
  BY <1>2, <1>5, <1>8, <1>9

LEMMA IndicesLocated ==
    ASSUME NEW p \in Page, CodingOf(p) = "indices", p.dictSet => IndicesStand(p),
           RepeatsComplete(p.runs)
    PROVE  Locatable(p, Held(p))
<1>1. Begin(p) = IF ~p.dictSet \/ p.numbers[1] > 32 THEN Refused
                 ELSE NewRleDecoder("indices", p.dict, Tail(p.numbers), p.runs)
  BY BeginIs
<1>2. CASE ~p.dictSet \/ p.numbers[1] > 32
  BY <1>1, <1>2, RefusedLocatable
<1>3. ASSUME ~(~p.dictSet \/ p.numbers[1] > 32) PROVE Locatable(p, Held(p))
  <2>1. PICK indices \in Seq(Nat), S \in SUBSET Nat :
            /\ indices = Tail(p.numbers) /\ RunFacts(indices, p.runs, S)
            /\ RunsSound(p.runs, p.whole)
            /\ IndicesAre(indices, p.dict, Held(p), p.whole)
    BY <1>3, IndicesStandAre DEF OfDict
  <2>2. PICK held : /\ held = Held(p) /\ held \in Seq(Seq(Nat))
                    /\ Len(held) \in Nat
    BY PageFields
  <2>3. p.dict \in Seq(Seq(Nat)) /\ p.whole \in BOOLEAN
    BY PageFields
  <2>4. PICK at : at = AtIndices(indices, p.runs, S, p.dict, p.whole, Len(held))
    OBVIOUS
  <2>5. Begin(p) \in at[0]
    <3>1. PICK d : d = Begin(p)
      OBVIOUS
    <3>2. d = NewRleDecoder("indices", p.dict, indices, p.runs)
      BY <1>1, <1>3, <2>1, <3>1
    <3>3. /\ d \in RunDecoders("indices", p.dict, indices, p.runs, S)
          /\ RunsAt(d, 0, p.whole)
      BY <2>1, <3>2, NewRuns
    <3>4. 0 \in 0..Len(held) /\ \A j \in 1..0 : indices[j] <= Len(p.dict)
      BY <2>2
    <3>5. d \in at[0]
      BY <2>4, <3>3, <3>4 DEF AtIndices
    <3>6. QED
      BY <3>1, <3>5
  <2>6. ReadAt(p, held, at)
    <3>1. ASSUME NEW k \in 0..Len(held), NEW d \in at[k],
                 NEW n \in Nat \ {0}, NEW spill \in Nat
          PROVE  Gives(ReadBatch(d, n, spill), at, held, p.whole, k, n)
      <4>1. Gives(ReadIndices(d, n), at, held, p.whole, k, n)
        BY <2>1, <2>2, <2>3, <2>4, IndicesGive
      <4>2. d \in RunDecoders("indices", p.dict, indices, p.runs, S)
        BY <2>4 DEF AtIndices
      <4>3. d.coding = "indices"
        BY <4>2, RunDecoderFields
      <4>4. ReadBatch(d, n, spill) = ReadIndices(d, n)
        BY <4>3, BatchIs
      <4>5. QED
        BY <4>1, <4>4
    <3>2. QED
      BY <3>1 DEF ReadAt
  <2>7. QED
    BY <2>2, <2>5, <2>6 DEF Located, Locatable
<1>4. QED
  BY <1>2, <1>3

LEMMA BooleansStandAre ==
    ASSUME NEW p \in Page, BooleansStand(p)
    PROVE  /\ RunFacts(p.numbers, p.runs, Nat)
           /\ RepeatsComplete(p.runs) => RunsSound(p.runs, p.whole)
           /\ BooleansAre(p.numbers, Held(p), p.whole)
<1>1. PICK numbers \in Seq(Nat), m \in Nat :
        numbers = p.numbers /\ m = Len(numbers) /\ DOMAIN numbers = 1..m
  BY PageFields, LenProperties
<1>2. /\ RunsStand(p, numbers)
      /\ \A i \in 1..m : i <= Len(Held(p)) /\ Held(p)[i] = <<numbers[i]>>
  BY <1>1, Zenon DEF BooleansStand
<1>3. \A i \in 1..m : numbers[i] \in Nat
  BY <1>1, ElementOfSeq
<1>4. OldValues(p.runs, Nat)
  <2>1. p.runs \in Seq(Run)
    BY PageFields
  <2>2. ASSUME NEW k \in 1..Len(p.runs) PROVE p.runs[k].value \in Nat
    <3>1. p.runs[k] \in Run
      BY <2>1, ElementOfSeq
    <3>2. QED
      BY <3>1 DEF Run
  <2>3. QED
    BY <2>2 DEF OldValues
<1>5. /\ RunFacts(numbers, p.runs, Nat)
      /\ RepeatsComplete(p.runs) => RunsSound(p.runs, p.whole)
      /\ p.whole => Len(Held(p)) = m
  <2>1. PICK S : S = Nat /\ S \subseteq Nat /\ OldValues(p.runs, S)
                 /\ \A i \in 1..Len(numbers) : numbers[i] \in S
    BY <1>1, <1>3, <1>4
  <2>2. QED
    BY <1>1, <1>2, <2>1, RunsStandAre
<1>6. BooleansAre(numbers, Held(p), p.whole)
  BY <1>1, <1>2, <1>5 DEF BooleansAre
<1>7. QED
  BY <1>1, <1>5, <1>6

LEMMA BooleansLocated ==
    ASSUME NEW p \in Page, CodingOf(p) = "RLE", BooleansStand(p),
           RepeatsComplete(p.runs)
    PROVE  Locatable(p, Held(p))
<1>1. PICK held, numbers :
        /\ held = Held(p) /\ held \in Seq(Seq(Nat)) /\ Len(held) \in Nat
        /\ p.whole \in BOOLEAN /\ numbers = p.numbers
  BY PageFields
<1>2. /\ RunFacts(numbers, p.runs, Nat) /\ RunsSound(p.runs, p.whole)
      /\ BooleansAre(numbers, held, p.whole)
  BY <1>1, BooleansStandAre
<1>3. PICK at : at = AtBooleans(numbers, p.runs, Nat, p.whole, Len(held))
  OBVIOUS
<1>4. Begin(p) \in at[0]
  <2>1. PICK d : d = Begin(p)
    OBVIOUS
  <2>2. d = NewRleDecoder("RLE", <<>>, numbers, p.runs)
    BY <1>1, <2>1, BeginIs
  <2>3. /\ d \in RunDecoders("RLE", <<>>, numbers, p.runs, Nat)
        /\ RunsAt(d, 0, p.whole)
    BY <1>2, <2>2, NewRuns
  <2>4. 0 \in 0..Len(held)
    BY <1>1
  <2>5. QED
    BY <1>3, <2>1, <2>3, <2>4 DEF AtBooleans
<1>5. ReadAt(p, held, at)
  <2>1. ASSUME NEW k \in 0..Len(held), NEW d \in at[k],
               NEW n \in Nat \ {0}, NEW spill \in Nat
        PROVE  Gives(ReadBatch(d, n, spill), at, held, p.whole, k, n)
    <3>1. Gives(ReadBooleans(d, n), at, held, p.whole, k, n)
      <4>1. n \in Nat /\ n >= 1
        OBVIOUS
      <4>2. QED
        BY <1>1, <1>2, <1>3, <4>1, BooleansGive
    <3>2. d \in RunDecoders("RLE", <<>>, numbers, p.runs, Nat)
      BY <1>3 DEF AtBooleans
    <3>3. d.coding = "RLE"
      BY <3>2, RunDecoderFields
    <3>4. ReadBatch(d, n, spill) = ReadBooleans(d, n)
      BY <3>3, BatchIs
    <3>5. QED
      BY <3>1, <3>4
  <2>2. QED
    BY <2>1 DEF ReadAt
<1>6. QED
  BY <1>1, <1>4, <1>5 DEF Located, Locatable

LEMMA LengthsStandFound ==
    ASSUME NEW p \in Page, LengthsSure(p), LengthsStand(p)
    PROVE  /\ LengthsFound(p.numbers, p.content, p.whole)
           /\ ~HasLengths(p.numbers) => ~p.whole
<1>1. /\ Openable(p.numbers) /\ Len(p.content) <= 1 + PerFirst(p.numbers)
      /\ Len(p.content) <= BatchSize
  BY DEF LengthsSure, Openable, Sure, PerFirst
<1>2. /\ p.numbers[3] = Len(p.content)
      /\ ~HasLengths(p.numbers) => ~p.whole
      /\ HasLengths(p.numbers) =>
            /\ LengthsAre(p.numbers, Lengths(p.content))
            /\ Stored(p, Skipped(p.numbers, LengthsEnd(p.numbers)),
                         FlattenSeq(p.content))
  BY Zenon DEF LengthsStand, Lengths
<1>3. HasLengths(p.numbers) =>
         Part(p.whole, Skipped(p.numbers, LengthsEnd(p.numbers)), FlattenSeq(p.content))
  BY <1>2, StoredIsPart
<1>4. QED
  BY <1>1, <1>2, <1>3, Zenon DEF LengthsFound

LEMMA LengthsLocated ==
    ASSUME NEW p \in Page, CodingOf(p) = "DELTA_LENGTH_BYTE_ARRAY",
           LengthsSure(p), LengthsStand(p)
    PROVE  Locatable(p, p.content)
<1>1. /\ p.numbers \in Seq(Nat) /\ p.content \in Seq(Seq(Nat))
      /\ Len(p.content) \in Nat
  BY PageFields
<1>2. LengthsFound(p.numbers, p.content, p.whole)
  BY LengthsStandFound
<1>3. Begin(p) = ResetLengths(p.numbers)
  BY BeginIs
<1>4. PICK at : at = AtLengths(p.content, p.whole)
  OBVIOUS
<1>5. Begin(p) = Refused \/ Begin(p) \in at[0]
  BY <1>1, <1>2, <1>3, <1>4, LengthsFresh
<1>6. at \in [0..Len(p.content) -> SUBSET LengthDecoders]
  BY <1>4 DEF AtLengths
<1>7. TakesOne(at, p.content, p.whole)
  BY <1>1, <1>4, LengthsTaken
<1>8. QED
  BY <1>5, <1>6, <1>7, LengthsCopy, CopiedLocated

LEMMA SplitFirst ==
    ASSUME NEW type \in Types, NEW numbers \in Seq(Nat), NEW total \in Nat,
           Len(numbers) = SizeOf(type) * total
    PROVE  ResetSplit(type, numbers) \in AtSplit(SizeOf(type), numbers, total)[0]
<1>1. PICK s \in Nat : s = SizeOf(type) /\ s \in {1, 2}
  BY DEF SizeOf
<1>2. PICK l \in Nat : l = Len(numbers) /\ l = s * total
  BY <1>1, LenProperties
<1>3. l % s = 0 /\ l \div s = total /\ s \in Nat \ {0}
  <2>1. CASE s = 1
    BY <1>2, <2>1
  <2>2. CASE s = 2
    BY <1>2, <2>2
  <2>3. QED
    BY <1>1, <2>1, <2>2
<1>4. PICK d : d = [coding |-> "BYTE_STREAM_SPLIT", size |-> s, data |-> numbers,
                    total |-> total, idx |-> 0]
  OBVIOUS
<1>5. ResetSplit(type, numbers) = d
  BY <1>1, <1>2, <1>3, <1>4, Zenon DEF ResetSplit
<1>6. /\ d \in [coding : {"BYTE_STREAM_SPLIT"}, size : Nat \ {0}, data : Seq(Nat),
               total : Nat, idx : Nat]
      /\ d.size = s /\ d.data = numbers /\ d.total = total /\ d.idx = 0
  BY <1>3, <1>4
<1>7. d.idx <= d.total /\ Len(d.data) = d.size * d.total
  BY <1>2, <1>6
<1>8. d \in SplitDecoders
  BY <1>6, <1>7, Zenon DEF SplitDecoders
<1>9. 0 \in 0..total
  OBVIOUS
<1>10. d \in AtSplit(s, numbers, total)[0]
  BY <1>6, <1>8, <1>9, Zenon DEF AtSplit
<1>11. QED
  BY <1>1, <1>5, <1>10

LEMMA SplitLocated ==
    ASSUME NEW p \in Page, CodingOf(p) = "BYTE_STREAM_SPLIT", p.whole, SplitStands(p)
    PROVE  Locatable(p, p.content)
<1>1. /\ p.numbers \in Seq(Nat) /\ p.content \in Seq(Seq(Nat)) /\ p.type \in Types
      /\ Len(p.content) \in Nat
  BY PageFields
<1>2. PICK s \in Nat : s = SizeOf(p.type)
  BY <1>1, SizeFacts
<1>3. /\ Len(p.numbers) = s * Len(p.content)
      /\ \A i \in 1..Len(p.content) :
            p.content[i] = [b \in 1..s |-> p.numbers[i + (b - 1) * Len(p.content)]]
  BY <1>2, Zenon DEF SplitStands
<1>4. Begin(p) = ResetSplit(p.type, p.numbers)
  BY BeginIs
<1>5. PICK at : at = AtSplit(s, p.numbers, Len(p.content))
  OBVIOUS
<1>6. Begin(p) \in at[0]
  BY <1>1, <1>2, <1>3, <1>4, <1>5, SplitFirst
<1>7. ReadAt(p, p.content, at)
  <2>1. ASSUME NEW k \in 0..Len(p.content), NEW d \in at[k],
               NEW n \in Nat \ {0}, NEW spill \in Nat
        PROVE  Gives(ReadBatch(d, n, spill), at, p.content, p.whole, k, n)
    <3>1. d \in AtSplit(s, p.numbers, Len(p.content))[k]
      BY <1>5
    <3>2. Gives(ReadSplit(d, n), AtSplit(s, p.numbers, Len(p.content)),
                p.content, p.whole, k, n)
      BY <1>1, <1>3, <3>1, SplitGives
    <3>3. d \in SplitDecoders
      BY <3>1, Zenon DEF AtSplit
    <3>4. d.coding = "BYTE_STREAM_SPLIT"
      BY <3>3 DEF SplitDecoders
    <3>5. ReadBatch(d, n, spill) = ReadSplit(d, n)
      BY <3>4, BatchIs
    <3>6. QED
      BY <1>5, <3>2, <3>5, Zenon
  <2>2. QED
    BY <2>1 DEF ReadAt
<1>8. QED
  BY <1>6, <1>7 DEF Located, Locatable

(* A page whose batches are told beforehand.                               *)
Sound(p) == InBatches(p) /\ (p.whole \/ p.encoding # "BYTE_STREAM_SPLIT")

LEMMA InBatchesIs ==
    ASSUME NEW p, InBatches(p)
    PROVE  /\ p.encoding \notin {"DELTA_BINARY_PACKED", "DELTA_BYTE_ARRAY"}
           /\ p.encoding = "DELTA_LENGTH_BYTE_ARRAY" => LengthsSure(p)
           /\ p.encoding = "PLAIN" /\ p.type = "BOOLEAN" => ~p.own
           /\ p.encoding \in {"RLE", "RLE_DICTIONARY", "PLAIN_DICTIONARY"}
                 => RepeatsComplete(p.runs)
BY DEF InBatches

LEMMA StandsForIs ==
    ASSUME NEW p, StandsFor(p), NEW coding, coding = CodingOf(p)
    PROVE  /\ coding \in PlainCodingNames => (InBatches(p) => PlainStands(p))
           /\ coding = "indices" => (p.dictSet => IndicesStand(p))
           /\ coding = "RLE" => BooleansStand(p)
           /\ coding \in {"indices", "RLE"} \/ p.padding = <<>>
           /\ coding = "DELTA_BINARY_PACKED" => DeltasStand(p)
           /\ coding = "DELTA_LENGTH_BYTE_ARRAY" => LengthsStand(p)
           /\ coding = "DELTA_BYTE_ARRAY" => PrefixesStand(p)
           /\ coding = "BYTE_STREAM_SPLIT" => SplitStands(p)
BY DEF StandsFor, CodingOf, PlainCodingNames

LEMMA SoundLocated ==
    ASSUME NEW p \in Page, StandsFor(p), Sound(p)
    PROVE  Locatable(p, Held(p))
<1>1. PICK coding : coding = CodingOf(p)
  OBVIOUS
<1>2. coding \in CodingNames /\ p.type \in Types
  BY <1>1, PageFields, CodingIs
<1>3. InBatches(p) /\ (p.whole \/ p.encoding # "BYTE_STREAM_SPLIT")
  BY DEF Sound
<1>4. coding \in {"indices", "RLE"} \/ Held(p) = p.content
  BY <1>1, PageFields, StandsForIs
<1>5. CASE coding \in PlainCodingNames
  <2>1. PlainStands(p)
    BY <1>1, <1>3, <1>5, StandsForIs
  <2>2. coding \notin {"indices", "RLE"}
    BY <1>5 DEF PlainCodingNames
  <2>3. QED
    BY <1>1, <1>4, <1>5, <2>1, <2>2, PlainLocated
<1>6. CASE coding \in {"indices", "RLE"}
  <2>1. RepeatsComplete(p.runs)
    BY <1>1, <1>2, <1>3, <1>6, CodingIs, InBatchesIs
  <2>2. /\ coding = "indices" => (p.dictSet => IndicesStand(p))
        /\ coding = "RLE" => BooleansStand(p)
    BY <1>1, StandsForIs
  <2>3. QED
    BY <1>1, <1>6, <2>1, <2>2, IndicesLocated, BooleansLocated
<1>7. CASE coding = "DELTA_LENGTH_BYTE_ARRAY"
  <2>1. LengthsStand(p)
    BY <1>1, <1>7, StandsForIs
  <2>2. LengthsSure(p)
    BY <1>1, <1>2, <1>3, <1>7, CodingIs, InBatchesIs
  <2>3. QED
    BY <1>1, <1>4, <1>7, <2>1, <2>2, LengthsLocated
<1>8. CASE coding = "BYTE_STREAM_SPLIT"
  <2>1. SplitStands(p)
    BY <1>1, <1>8, StandsForIs
  <2>2. p.whole
    BY <1>1, <1>2, <1>3, <1>8, CodingIs
  <2>3. QED
    BY <1>1, <1>4, <1>8, <2>1, <2>2, SplitLocated
<1>9. CASE coding \in {"DELTA_BINARY_PACKED", "DELTA_BYTE_ARRAY"}
  <2>1. p.encoding = coding
    BY <1>1, <1>2, <1>9, CodingIs
  <2>2. QED
    BY <1>3, <1>9, <2>1, InBatchesIs
<1>10. CASE coding = "refused"
  <2>1. Begin(p) = Refused
    BY <1>1, <1>10, BeginIs
  <2>2. QED
    BY <2>1, RefusedLocatable
<1>11. QED
  BY <1>2, <1>5, <1>6, <1>7, <1>8, <1>9, <1>10 DEF CodingNames, PlainCodingNames

-----------------------------------------------------------------------------
(* Pages whose batches are not told: what their decoders are.              *)
DeltaDecoders(bits) ==
    {d \in [coding : {"DELTA_BINARY_PACKED"}, delta : DeltaRecords(bits)] :
        d.delta.failed = FALSE}

DecodersOf(p) ==
    CASE CodingOf(p) = "bits" -> PlainDecoders("bits")
      [] CodingOf(p) = "indices" ->
            {d \in RunDecoders("indices", p.dict, Tail(p.numbers), p.runs,
                               OfDict(p)) : p.dictSet}
      [] CodingOf(p) = "RLE" ->
            RunDecoders("RLE", <<>>, p.numbers, p.runs, Nat)
      [] CodingOf(p) = "DELTA_BINARY_PACKED" -> DeltaDecoders(WordBits(p.type))
      [] CodingOf(p) = "DELTA_LENGTH_BYTE_ARRAY" -> LengthDecoders
      [] CodingOf(p) = "DELTA_BYTE_ARRAY" -> PrefixDecoders
      [] CodingOf(p) = "BYTE_STREAM_SPLIT" -> SplitDecoders
      [] OTHER -> {}

Typed(p) ==
    /\ Begin(p) = Refused \/ Begin(p) \in DecodersOf(p)
    /\ \A d \in DecodersOf(p) : \A n \in Nat \ {0}, spill \in Nat :
          ReadBatch(d, n, spill) \in Batches(DecodersOf(p))

LEMMA TypedIs ==
    ASSUME NEW p, NEW D, DecodersOf(p) = D, Begin(p) = Refused \/ Begin(p) \in D,
           \A d \in D : \A n \in Nat \ {0}, spill \in Nat :
              ReadBatch(d, n, spill) \in Batches(D)
    PROVE  Typed(p)
BY DEF Typed

LEMMA WordBitsType ==
    ASSUME NEW type PROVE WordBits(type) \in Nat
BY DeltaConstants DEF WordBits

LEMMA ValuesOfOut ==
    ASSUME NEW out \in Seq(Nat), NEW values,
           values = [i \in DOMAIN out |-> <<out[i]>>]
    PROVE  /\ values \in Seq(Seq(Nat)) /\ Len(values) = Len(out)
           /\ \A i \in 1..Len(out) : values[i] = <<out[i]>>
<1>1. PICK m, T : /\ m \in Nat /\ m = Len(out) /\ T = Seq(Nat) /\ DOMAIN out = 1..m
                 /\ \A i \in 1..m : out[i] \in Nat
  BY LenProperties, ElementOfSeq
<1>2. ASSUME NEW i \in 1..m PROVE <<out[i]>> \in T
  BY <1>1
<1>3. values = [i \in 1..m |-> <<out[i]>>]
  BY <1>1
<1>4. values \in [1..m -> T]
  BY <1>2, <1>3
<1>5. values \in Seq(T) /\ Len(values) = m
  BY <1>1, <1>4, SeqIs
<1>6. QED
  BY <1>1, <1>3, <1>5

DeltaBatch(d, r, b) ==
    /\ r.failed = TRUE => b = Threw(d)
    /\ r.failed = FALSE =>
          /\ b.threw = FALSE /\ b.decoder = [d EXCEPT !.delta = r]
          /\ b.decoder.delta = r /\ Len(b.values) = Len(r.out)
          /\ \A i \in 1..Len(r.out) : b.values[i] = <<r.out[i]>>

LEMMA DeltaReads ==
    ASSUME NEW bits \in Nat, NEW d \in DeltaDecoders(bits),
           NEW n \in Nat, NEW spill \in Nat, NEW r, r = ReadDelta(d.delta, n, spill)
    PROVE  /\ r \in DeltaRecords(bits) /\ ReadMade(d.delta, n, r)
           /\ ReadBatch(d, n, spill) \in Batches(DeltaDecoders(bits))
           /\ DeltaBatch(d, r, ReadBatch(d, n, spill))
<1>1. /\ d \in [coding : {"DELTA_BINARY_PACKED"}, delta : DeltaRecords(bits)]
      /\ d.delta \in DeltaRecords(bits) /\ d.delta.failed = FALSE
      /\ d.coding = "DELTA_BINARY_PACKED"
  BY DEF DeltaDecoders
<1>2. r \in DeltaRecords(bits) /\ ReadMade(d.delta, n, r)
  BY <1>1, ReadFacts
<1>3. PICK b : b = ReadBatch(d, n, spill) /\ b = DeltasRead(d, r)
  BY <1>1, BatchIs
<1>4. r.failed \in BOOLEAN
  BY <1>2, DeltaFields
<1>5. CASE r.failed = TRUE
  <2>1. b = Threw(d)
    BY <1>3, <1>5, Zenon DEF DeltasRead
  <2>2. b \in Batches(DeltaDecoders(bits))
    <3>1. <<>> \in Seq(Seq(Nat))
      BY EmptySeq
    <3>2. QED
      BY <2>1, <3>1 DEF Threw, Batches
  <2>3. DeltaBatch(d, r, b)
    BY <1>5, <2>1 DEF DeltaBatch
  <2>4. QED
    BY <1>2, <1>3, <2>2, <2>3
<1>6. CASE r.failed = FALSE
  <2>1. PICK values : values = [i \in DOMAIN r.out |-> <<r.out[i]>>]
    OBVIOUS
  <2>2. PICK e : e = [d EXCEPT !.delta = r]
    OBVIOUS
  <2>3. e \in DeltaDecoders(bits) /\ e.delta = r
    <3>1. e \in [coding : {"DELTA_BINARY_PACKED"}, delta : DeltaRecords(bits)]
          /\ e.delta = r
      BY <1>1, <1>2, <2>2
    <3>2. QED
      BY <1>6, <3>1, Zenon DEF DeltaDecoders
  <2>4. r.out \in Seq(Nat)
    BY <1>2, OutNat
  <2>5. /\ values \in Seq(Seq(Nat)) /\ Len(values) = Len(r.out)
        /\ \A i \in 1..Len(r.out) : values[i] = <<r.out[i]>>
    BY <2>1, <2>4, ValuesOfOut
  <2>6. b = Batch(e, values)
    BY <1>3, <1>6, <2>1, <2>2, Zenon DEF DeltasRead
  <2>7. b.decoder = e /\ b.values = values /\ b.threw = FALSE
    BY <2>6 DEF Batch
  <2>8. b \in Batches(DeltaDecoders(bits))
    BY <2>3, <2>5, <2>6 DEF Batch, Batches
  <2>9. DeltaBatch(d, r, b)
    BY <1>6, <2>2, <2>3, <2>5, <2>7, Zenon DEF DeltaBatch
  <2>10. QED
    BY <1>2, <1>3, <2>8, <2>9
<1>7. QED
  BY <1>4, <1>5, <1>6

LEMMA CopiesRead ==
    ASSUME NEW D, Copies(D), NEW d \in D, NEW n \in Nat, NEW spill
    PROVE  ReadBatch(d, n, spill) \in Batches(D)
<1>1. d.coding \in Copied /\ \A batch \in Batches(D) : Take(batch) \in Batches(D)
  BY Zenon DEF Copies
<1>2. PICK f : TimesIs(D, d, n, f)
  BY <1>1, TimesRuns
<1>3. Times(d, n) \in Batches(D)
  <2>1. f \in [0..n -> Batches(D)] /\ Times(d, n) = f[n]
    BY <1>2, Zenon DEF TimesIs
  <2>2. n \in 0..n
    OBVIOUS
  <2>3. QED
    BY <2>1, <2>2
<1>4. QED
  BY <1>1, <1>3, BatchIs

LEMMA BitsTyped ==
    ASSUME NEW p \in Page, CodingOf(p) = "bits"
    PROVE  Typed(p)
<1>1. DecodersOf(p) = PlainDecoders("bits")
  BY DEF DecodersOf
<1>2. Begin(p) = Plain("bits", 1, Bits(p.numbers))
  BY BeginIs
<1>3. Begin(p) \in PlainDecoders("bits")
  <2>1. PICK nums \in Seq(Nat) : nums = Bits(p.numbers)
    BY PageFields, BitsType
  <2>2. Plain("bits", 1, nums) \in PlainDecoders("bits")
    BY PlainFresh
  <2>3. QED
    BY <1>2, <2>1, <2>2
<1>4. ASSUME NEW d \in PlainDecoders("bits"), NEW n \in Nat \ {0}, NEW spill \in Nat
      PROVE  ReadBatch(d, n, spill) \in Batches(PlainDecoders("bits"))
  <2>1. d.coding = "bits"
    BY DEF PlainDecoders
  <2>2. ReadBatch(d, n, spill) = ReadAsIs(d, n)
    BY <2>1, BatchIs
  <2>3. QED
    BY <2>2, AsIsType
<1>5. QED
  BY <1>1, <1>3, <1>4, TypedIs

LEMMA DeltaTyped ==
    ASSUME NEW p \in Page, CodingOf(p) = "DELTA_BINARY_PACKED"
    PROVE  Typed(p)
<1>1. PICK bits, D : /\ bits \in Nat /\ bits = WordBits(p.type)
                    /\ D = DeltaDecoders(bits)
  BY WordBitsType
<1>2. DecodersOf(p) = D
  BY <1>1 DEF DecodersOf
<1>3. Begin(p) = DeltaReset(ResetDelta(bits, p.numbers))
  BY <1>1, BeginIs
<1>4. p.numbers \in Seq(Nat)
  BY PageFields
<1>5. Begin(p) = Refused \/ Begin(p) \in D
  <2>1. PICK delta : delta = ResetDelta(bits, p.numbers)
    OBVIOUS
  <2>2. CASE Openable(p.numbers)
    <3>1. FreshIs(bits, p.numbers, delta)
      BY <1>1, <1>4, <2>1, <2>2, Opened
    <3>2. delta \in DeltaRecords(bits) /\ delta.failed = FALSE
      BY <3>1, Zenon DEF FreshIs
    <3>3. Begin(p) = [coding |-> "DELTA_BINARY_PACKED", delta |-> delta]
      BY <1>3, <2>1, <3>2, Zenon DEF DeltaReset
    <3>4. Begin(p) \in D
      BY <1>1, <3>2, <3>3 DEF DeltaDecoders
    <3>5. QED
      BY <3>4
  <2>3. CASE ~Openable(p.numbers)
    <3>1. delta = FailedDelta
      BY <1>1, <1>4, <2>1, <2>3, Opened
    <3>2. delta.failed = TRUE
      BY <3>1 DEF FailedDelta
    <3>3. QED
      BY <1>3, <2>1, <3>2, Zenon DEF DeltaReset
  <2>4. QED
    BY <2>2, <2>3
<1>6. \A d \in D : \A n \in Nat \ {0}, spill \in Nat : ReadBatch(d, n, spill) \in Batches(D)
  BY <1>1, DeltaReads
<1>7. QED
  BY <1>2, <1>5, <1>6, TypedIs

LEMMA LengthsTyped ==
    ASSUME NEW p \in Page, CodingOf(p) = "DELTA_LENGTH_BYTE_ARRAY"
    PROVE  Typed(p)
<1>1. DecodersOf(p) = LengthDecoders
  BY DEF DecodersOf
<1>2. Begin(p) = ResetLengths(p.numbers) /\ p.numbers \in Seq(Nat)
  BY BeginIs, PageFields
<1>3. Begin(p) = Refused \/ Begin(p) \in LengthDecoders
  <2>1. PICK read : read = ReadAllDelta(ResetDelta(BufferBits, p.numbers), BatchSize)
    OBVIOUS
  <2>2. QED
    BY <1>2, <2>1, ResetIs
<1>4. \A d \in LengthDecoders : \A n \in Nat \ {0}, spill \in Nat :
         ReadBatch(d, n, spill) \in Batches(LengthDecoders)
  BY LengthsCopy, CopiesRead
<1>5. QED
  BY <1>1, <1>3, <1>4, TypedIs

LEMMA PrefixesTyped ==
    ASSUME NEW p \in Page, CodingOf(p) = "DELTA_BYTE_ARRAY", PrefixesStand(p)
    PROVE  Typed(p)
<1>1. DecodersOf(p) = PrefixDecoders
  BY DEF DecodersOf
<1>2. Begin(p) = ResetPrefixes(p.numbers) /\ p.numbers \in Seq(Nat)
  BY BeginIs, PageFields
<1>3. ResetPrefixes(p.numbers) # Refused =>
          Len(ResetPrefixes(p.numbers).suffixes) <= Len(ResetPrefixes(p.numbers).lengths)
  BY Zenon DEF PrefixesStand
<1>4. Begin(p) = Refused \/ Begin(p) \in PrefixDecoders
  BY <1>2, <1>3, PrefixesType
<1>5. \A d \in PrefixDecoders : \A n \in Nat \ {0}, spill \in Nat :
         ReadBatch(d, n, spill) \in Batches(PrefixDecoders)
  BY PrefixCopy, CopiesRead
<1>6. QED
  BY <1>1, <1>4, <1>5, TypedIs

LEMMA SplitTyped ==
    ASSUME NEW p \in Page, CodingOf(p) = "BYTE_STREAM_SPLIT"
    PROVE  Typed(p)
<1>1. DecodersOf(p) = SplitDecoders
  BY DEF DecodersOf
<1>2. /\ Begin(p) = ResetSplit(p.type, p.numbers) /\ p.numbers \in Seq(Nat)
      /\ p.type \in Types
  BY BeginIs, PageFields
<1>3. Begin(p) = Refused \/ Begin(p) \in SplitDecoders
  <2>1. CASE Len(p.numbers) % SizeOf(p.type) # 0
    BY <1>2, <2>1, Zenon DEF ResetSplit
  <2>2. ASSUME Len(p.numbers) % SizeOf(p.type) = 0 PROVE Begin(p) \in SplitDecoders
    <3>1. PICK s \in Nat, l \in Nat :
              s = SizeOf(p.type) /\ s \in {1, 2} /\ l = Len(p.numbers) /\ l % s = 0
      BY <1>2, <2>2, LenProperties DEF SizeOf
    <3>2. PICK total \in Nat : l = s * total
      <4>1. l \div s \in Nat /\ l = s * (l \div s)
        BY <3>1
      <4>2. QED
        BY <4>1
    <3>3. ResetSplit(p.type, p.numbers)
             \in AtSplit(SizeOf(p.type), p.numbers, total)[0]
      BY <1>2, <3>1, <3>2, SplitFirst
    <3>4. 0 \in 0..total
      OBVIOUS
    <3>5. QED
      BY <1>2, <3>3, <3>4, Zenon DEF AtSplit
  <2>3. QED
    BY <2>1, <2>2
<1>4. ASSUME NEW d \in SplitDecoders, NEW n \in Nat \ {0}, NEW spill \in Nat
      PROVE  ReadBatch(d, n, spill) \in Batches(SplitDecoders)
  <2>1. d.coding = "BYTE_STREAM_SPLIT"
    BY DEF SplitDecoders
  <2>2. QED
    BY <2>1, SplitType, BatchIs, ZenonT(60)
<1>5. QED
  BY <1>1, <1>3, <1>4, TypedIs

LEMMA IndicesTyped ==
    ASSUME NEW p \in Page, CodingOf(p) = "indices", p.dictSet => IndicesStand(p)
    PROVE  Typed(p)
<1>1. PICK S, R : /\ S = OfDict(p) /\ S = {i \in Nat : i # Len(p.dict)}
                  /\ R = RunDecoders("indices", p.dict, Tail(p.numbers), p.runs, S)
  BY DEF OfDict
<1>2. DecodersOf(p) = {d \in R : p.dictSet}
  BY <1>1 DEF DecodersOf
<1>3. Begin(p) = IF ~p.dictSet \/ p.numbers[1] > 32 THEN Refused
                 ELSE NewRleDecoder("indices", p.dict, Tail(p.numbers), p.runs)
  BY BeginIs
<1>4. CASE ~p.dictSet
  <2>1. DecodersOf(p) = {} /\ Begin(p) = Refused
    BY <1>2, <1>3, <1>4
  <2>2. QED
    BY <2>1, TypedIs
<1>5. CASE p.dictSet
  <2>1. RunFacts(Tail(p.numbers), p.runs, S) /\ p.dict \in Seq(Seq(Nat))
    BY <1>1, <1>5, IndicesStandAre, PageFields
  <2>2. DecodersOf(p) = R
    BY <1>2, <1>5
  <2>3. Begin(p) = Refused \/ Begin(p) \in R
    <3>1. NewRleDecoder("indices", p.dict, Tail(p.numbers), p.runs) \in R
      BY <1>1, <2>1, NewRuns
    <3>2. QED
      BY <1>3, <3>1
  <2>4. ASSUME NEW d \in R, NEW n \in Nat \ {0}, NEW spill \in Nat
        PROVE  ReadBatch(d, n, spill) \in Batches(R)
    <3>1. d.coding = "indices"
      BY <1>1, RunDecoderFields
    <3>2. PICK b : b = ReadBatch(d, n, spill) /\ b = ReadIndices(d, n)
      BY <3>1, BatchIs
    <3>3. b.decoder \in R /\ b.values \in Seq(Seq(Nat)) /\ b.threw \in BOOLEAN
      BY <1>1, <2>1, <3>2, IndicesType
    <3>4. b = [decoder |-> b.decoder, values |-> b.values, threw |-> b.threw]
      <4>1. PICK got : got = GetBatch(d, n, IndexBatch)
        OBVIOUS
      <4>2. b = LookedUp(d, got)
        BY <3>2, <4>1, Zenon DEF ReadIndices
      <4>3. PICK v : v = [i \in DOMAIN got.out |-> d.dict[got.out[i] + 1]]
        OBVIOUS
      <4>4. b = Threw(d) \/ b = Batch(got.decoder, v)
        BY <4>2, <4>3, Zenon DEF LookedUp
      <4>5. QED
        BY <4>4 DEF Threw, Batch
    <3>5. QED
      BY <3>2, <3>3, <3>4 DEF Batches
  <2>5. QED
    BY <2>2, <2>3, <2>4, TypedIs
<1>6. QED
  BY <1>4, <1>5

LEMMA BooleansTyped ==
    ASSUME NEW p \in Page, CodingOf(p) = "RLE", BooleansStand(p)
    PROVE  Typed(p)
<1>1. PICK R : R = RunDecoders("RLE", <<>>, p.numbers, p.runs, Nat)
  OBVIOUS
<1>2. DecodersOf(p) = R
  BY <1>1 DEF DecodersOf
<1>3. RunFacts(p.numbers, p.runs, Nat)
  BY BooleansStandAre
<1>4. Begin(p) \in R
  <2>1. Begin(p) = NewRleDecoder("RLE", <<>>, p.numbers, p.runs)
    BY BeginIs
  <2>2. QED
    BY <1>1, <1>3, <2>1, NewRuns
<1>5. ASSUME NEW d \in R, NEW n \in Nat \ {0}, NEW spill \in Nat
      PROVE  ReadBatch(d, n, spill) \in Batches(R)
  <2>1. d.coding = "RLE" /\ n \in Nat /\ n >= 1
    BY <1>1, RunDecoderFields
  <2>2. PICK b : b = ReadBatch(d, n, spill) /\ b = ReadBooleans(d, n)
    BY <2>1, BatchIs
  <2>3. b.decoder \in R /\ b.values \in Seq(Seq(Nat)) /\ b.threw = FALSE
    <3>1. d \in RunDecoders("RLE", <<>>, p.numbers, p.runs, Nat)
      BY <1>1, <1>5, Zenon
    <3>2. /\ ReadBooleans(d, n).decoder
                  \in RunDecoders("RLE", <<>>, p.numbers, p.runs, Nat)
          /\ ReadBooleans(d, n).values \in Seq(Seq(Nat))
          /\ ReadBooleans(d, n).threw = FALSE
      BY <1>3, <2>1, <3>1, BooleansType, ZenonT(30)
    <3>3. QED
      BY <1>1, <2>2, <3>2, Zenon
  <2>4. b = [decoder |-> b.decoder, values |-> b.values, threw |-> b.threw]
    <3>1. PICK got : b = BooleansOf(got)
      BY <2>2 DEF ReadBooleans
    <3>2. PICK v : b = Batch(got.decoder, v)
      BY <3>1, Zenon DEF BooleansOf
    <3>3. QED
      BY <3>2 DEF Batch
  <2>5. /\ b.decoder \in R /\ b.values \in Seq(Seq(Nat))
        /\ b.threw \in BOOLEAN
    BY <2>3
  <2>6. QED
    BY <2>2, <2>4, <2>5 DEF Batches
<1>6. QED
  BY <1>2, <1>4, <1>5, TypedIs

LEMMA RefusedTyped ==
    ASSUME NEW p, CodingOf(p) = "refused"
    PROVE  Typed(p)
<1>1. DecodersOf(p) = {}
  BY DEF DecodersOf
<1>2. Begin(p) = Refused
  BY BeginIs
<1>3. QED
  BY <1>1, <1>2, TypedIs

LEMMA NotSound ==
    ASSUME NEW p, p.type \in Types, ~Sound(p), NEW coding, coding = CodingOf(p)
    PROVE  coding \in {"bits", "indices", "RLE", "DELTA_BINARY_PACKED",
                       "DELTA_LENGTH_BYTE_ARRAY", "DELTA_BYTE_ARRAY",
                       "BYTE_STREAM_SPLIT", "refused"}
<1>1. \/ p.encoding = "PLAIN" /\ p.type = "BOOLEAN"
      \/ p.encoding \in {"RLE_DICTIONARY", "PLAIN_DICTIONARY"}
      \/ p.encoding = "RLE"
      \/ p.encoding \in {"DELTA_BINARY_PACKED", "DELTA_BYTE_ARRAY",
                         "DELTA_LENGTH_BYTE_ARRAY", "BYTE_STREAM_SPLIT"}
  BY DEF Sound, InBatches
<1>2. p.encoding = "PLAIN" /\ p.type = "BOOLEAN" => coding = "bits"
  <2>1. p.encoding = "PLAIN" => coding = PlainCoding(p.type)
    BY CodingIs
  <2>2. PlainCoding("BOOLEAN") = "bits"
    BY DEF PlainCoding
  <2>3. QED
    BY <2>1, <2>2
<1>3. p.encoding \in {"DELTA_BINARY_PACKED", "DELTA_BYTE_ARRAY",
                      "DELTA_LENGTH_BYTE_ARRAY", "BYTE_STREAM_SPLIT"}
         => coding \in {p.encoding, "refused"}
  BY CodingIs
<1>4. p.encoding \in {"RLE_DICTIONARY", "PLAIN_DICTIONARY"} => coding = "indices"
  BY Zenon DEF CodingOf, CodingFor
<1>5. p.encoding = "RLE" => coding \in {"RLE", "refused"}
  BY CodingIs
<1>6. QED
  BY <1>1, <1>2, <1>3, <1>4, <1>5

LEMMA NotSoundTyped ==
    ASSUME NEW p \in Page, StandsFor(p), ~Sound(p)
    PROVE  Typed(p)
<1>1. PICK coding : coding = CodingOf(p)
  OBVIOUS
<1>2. p.type \in Types
  BY PageFields
<1>3. coding \in {"bits", "indices", "RLE", "DELTA_BINARY_PACKED",
                  "DELTA_LENGTH_BYTE_ARRAY", "DELTA_BYTE_ARRAY",
                  "BYTE_STREAM_SPLIT", "refused"}
  BY <1>1, <1>2, NotSound
<1>4. /\ coding = "DELTA_BYTE_ARRAY" => PrefixesStand(p)
      /\ coding = "indices" => (p.dictSet => IndicesStand(p))
      /\ coding = "RLE" => BooleansStand(p)
  BY <1>1, StandsForIs
<1>5. QED
  BY <1>1, <1>3, <1>4, BitsTyped, IndicesTyped, BooleansTyped, DeltaTyped,
     LengthsTyped, PrefixesTyped, SplitTyped, RefusedTyped

-----------------------------------------------------------------------------
(* What is so of a page p that is read: d is the decoder, g the values     *)
(* given, f how many the first batch gave, e whether a batch gave fewer    *)
(* than were asked for, t whether one threw.                               *)
Counted(g, f) == g \in Seq(Seq(Nat)) /\ f \in 0..Len(g)

AtBegin(p, d, g, e, t) == ~t /\ ~e /\ g = <<>> => d = Begin(p)

IsAt(p, at, d, g, e, t) ==
    /\ Located(p, Held(p), at) /\ IsPrefixOf(g, Held(p))
    /\ ~t => d \in at[Len(g)]
    /\ p.whole /\ e => g = Held(p)

SoundRead(p, d, g, e, t) == Sound(p) => \E at : IsAt(p, at, d, g, e, t)

TypedRead(p, d, t) == ~Sound(p) /\ ~t => d \in DecodersOf(p)

DeltaLeft(p, d, g, e, t) ==
    CodingOf(p) = "DELTA_BINARY_PACKED" /\ ~t =>
        /\ d.delta.remaining + Len(g) = p.numbers[3]
        /\ e => d.delta.remaining = 0

SureOf(p) ==
    IF CodingOf(p) = "DELTA_BINARY_PACKED"
    THEN IF NarrowDeltas(p) THEN Sure(p) ELSE 1
    ELSE IF CodingOf(p) = "DELTA_BYTE_ARRAY" /\ LengthsSure(p)
         THEN Len(p.content) ELSE 0

FirstGiven(p, g, f) ==
    p.whole => \A i \in 1..f : i <= SureOf(p) =>
                  i <= Len(p.content) /\ g[i] = p.content[i]

PageRead(p, d, g, f, e, t) ==
    /\ Counted(g, f) /\ AtBegin(p, d, g, e, t)
    /\ SoundRead(p, d, g, e, t) /\ TypedRead(p, d, t)
    /\ DeltaLeft(p, d, g, e, t) /\ FirstGiven(p, g, f)

(* The decoder of a page is at its first value.                            *)
LEMMA DeltaBegins ==
    ASSUME NEW p \in Page, CodingOf(p) = "DELTA_BINARY_PACKED"
    PROVE  \/ Begin(p) = Refused
           \/ \E delta : /\ Begin(p) = [coding |-> "DELTA_BINARY_PACKED", delta |-> delta]
                         /\ Openable(p.numbers)
                         /\ FreshIs(WordBits(p.type), p.numbers, delta)
<1>1. PICK bits, delta :
          /\ bits \in Nat /\ bits = WordBits(p.type)
          /\ delta = ResetDelta(bits, p.numbers)
  BY WordBitsType
<1>2. Begin(p) = DeltaReset(delta) /\ p.numbers \in Seq(Nat)
  BY <1>1, BeginIs, PageFields
<1>3. CASE Openable(p.numbers)
  <2>1. FreshIs(bits, p.numbers, delta)
    BY <1>1, <1>2, <1>3, Opened
  <2>2. delta.failed = FALSE
    BY <2>1, Zenon DEF FreshIs
  <2>3. Begin(p) = [coding |-> "DELTA_BINARY_PACKED", delta |-> delta]
    BY <1>2, <2>2, Zenon DEF DeltaReset
  <2>4. QED
    BY <1>1, <1>3, <2>1, <2>3
<1>4. CASE ~Openable(p.numbers)
  <2>1. delta = FailedDelta
    BY <1>1, <1>2, <1>4, Opened
  <2>2. delta.failed = TRUE
    BY <2>1 DEF FailedDelta
  <2>3. QED
    BY <1>2, <2>2, Zenon DEF DeltaReset
<1>5. QED
  BY <1>3, <1>4

LEMMA PageOpened ==
    ASSUME NEW p \in Page, StandsFor(p), NEW t, t = (Begin(p) = Refused)
    PROVE  PageRead(p, Begin(p), <<>>, 0, FALSE, t)
<1>1. /\ p.content \in Seq(Seq(Nat)) /\ Len(p.content) \in Nat
      /\ p.numbers \in Seq(Nat) /\ Held(p) \in Seq(Seq(Nat))
      /\ Len(Held(p)) \in Nat
  BY PageFields
<1>2. Counted(<<>>, 0)
  <2>1. <<>> \in Seq(Seq(Nat)) /\ Len(<<>>) = 0
    BY EmptySeq
  <2>2. QED
    BY <2>1 DEF Counted
<1>3. AtBegin(p, Begin(p), <<>>, FALSE, t)
  BY DEF AtBegin
<1>4. IsPrefixOf(<<>>, Held(p))
  <2>1. Len(<<>>) = 0 /\ SubSeq(Held(p), 1, 0) = <<>>
    BY <1>1
  <2>2. QED
    BY <1>1, <2>1 DEF IsPrefixOf
<1>5. SoundRead(p, Begin(p), <<>>, FALSE, t)
  <2>1. ASSUME Sound(p) PROVE \E at : IsAt(p, at, Begin(p), <<>>, FALSE, t)
    <3>1. PICK at : Located(p, Held(p), at)
      BY <2>1, SoundLocated DEF Locatable
    <3>2. ~t => Begin(p) \in at[0]
      BY <3>1, Zenon DEF Located
    <3>3. Len(<<>>) = 0
      OBVIOUS
    <3>4. IsAt(p, at, Begin(p), <<>>, FALSE, t)
      BY <1>4, <3>1, <3>2, <3>3, Zenon DEF IsAt
    <3>5. QED
      BY <3>4
  <2>2. QED
    BY <2>1, Zenon DEF SoundRead
<1>6. TypedRead(p, Begin(p), t)
  <2>1. ASSUME ~Sound(p), ~t PROVE Begin(p) \in DecodersOf(p)
    BY <2>1, NotSoundTyped, Zenon DEF Typed
  <2>2. QED
    BY <2>1, Zenon DEF TypedRead
<1>7. DeltaLeft(p, Begin(p), <<>>, FALSE, t)
  <2>1. ASSUME CodingOf(p) = "DELTA_BINARY_PACKED", ~t
        PROVE  Begin(p).delta.remaining + Len(<<>>) = p.numbers[3]
    <3>1. PICK delta : /\ Begin(p) = [coding |-> "DELTA_BINARY_PACKED", delta |-> delta]
                       /\ FreshIs(WordBits(p.type), p.numbers, delta)
      BY <2>1, DeltaBegins, Zenon
    <3>2. delta.remaining = p.numbers[3] /\ delta \in DeltaRecords(WordBits(p.type))
      BY <3>1, Zenon DEF FreshIs
    <3>3. delta.remaining \in Nat /\ Len(<<>>) = 0
      BY <3>2, DeltaFields
    <3>4. Begin(p).delta = delta
      BY <3>1
    <3>5. QED
      BY <3>2, <3>3, <3>4
  <2>2. QED
    BY <2>1, Zenon DEF DeltaLeft
<1>8. FirstGiven(p, <<>>, 0)
  BY DEF FirstGiven
<1>9. QED
  BY <1>2, <1>3, <1>5, <1>6, <1>7, <1>8, Zenon DEF PageRead

(* A batch appends to what is given.                                       *)
BatchGiven(g, values, h) ==
    /\ h \in Seq(Seq(Nat)) /\ Len(h) = Len(g) + Len(values)
    /\ Len(g) \in Nat /\ Len(values) \in Nat
    /\ \A i \in 1..Len(g) : h[i] = g[i]
    /\ \A i \in 1..Len(values) : h[Len(g) + i] = values[i]

LEMMA BatchGivenIs ==
    ASSUME NEW g \in Seq(Seq(Nat)), NEW values \in Seq(Seq(Nat))
    PROVE  BatchGiven(g, values, g \o values)
<1>1. PICK T : T = Seq(Nat) /\ g \in Seq(T) /\ values \in Seq(T)
  OBVIOUS
<1>2. /\ g \o values \in Seq(T) /\ Len(g \o values) = Len(g) + Len(values)
      /\ Len(g) \in Nat /\ Len(values) \in Nat
      /\ \A i \in 1..Len(g) : (g \o values)[i] = g[i]
      /\ \A i \in 1..Len(values) : (g \o values)[Len(g) + i] = values[i]
  BY <1>1, ConcatFacts
<1>3. QED
  BY <1>1, <1>2, Zenon DEF BatchGiven

(* What the batches of a page that is sound give.                          *)
SoundBatch(p, at, g, b, n) ==
    /\ Gives(b, at, Held(p), p.whole, Len(g), n)
    /\ b.values \in Seq(Seq(Nat)) /\ b.threw \in BOOLEAN

SoundGiven(p, g, b, n, h) ==
    p.whole => h = SubSeq(Held(p), 1, Fewer(Len(g) + n, Len(Held(p))))

(* A batch that is short ends the page.                                    *)
EndedThen(o, b, n) == o \/ (~b.threw /\ Len(b.values) < n)

LEMMA PartFacts ==
    ASSUME NEW E, NEW s \in Seq(E), NEW k \in Nat, NEW m \in Nat, k + m <= Len(s)
    PROVE  /\ SubSeq(s, k + 1, k + m) \in Seq(E) /\ Len(SubSeq(s, k + 1, k + m)) = m
           /\ \A i \in 1..m : SubSeq(s, k + 1, k + m)[i] = s[k + i]
<1>1. PICK l \in Nat : l = Len(s) /\ \A i \in 1..l : s[i] \in E
  BY LenProperties, ElementOfSeq
<1>2. PICK a \in Nat, b \in Nat : a = k + 1 /\ b = k + m
  OBVIOUS
<1>3. PICK t : t = SubSeq(s, a, b)
  OBVIOUS
<1>4. \A i \in a..b : s[i] \in E
  BY <1>1, <1>2
<1>5. /\ t \in Seq(E) /\ (IF a <= b + 1 THEN Len(t) = b - a + 1 ELSE Len(t) = 0)
      /\ \A i \in 1..(b - a + 1) : t[i] = s[a + i - 1]
  BY <1>3, <1>4, SubSeqProperties
<1>6. a <= b + 1 /\ b - a + 1 = m
  BY <1>2
<1>7. Len(t) = m
  BY <1>5, <1>6, Zenon
<1>8. ASSUME NEW i \in 1..m PROVE t[i] = s[k + i]
  <2>1. i \in 1..(b - a + 1) /\ a + i - 1 = k + i
    BY <1>2, Shifted
  <2>2. QED
    BY <1>5, <2>1
<1>9. QED
  BY <1>2, <1>3, <1>5, <1>7, <1>8

LEMMA PartJoin ==
    ASSUME NEW E, NEW s \in Seq(E), NEW k \in Nat, NEW m \in Nat, k + m <= Len(s)
    PROVE  /\ SubSeq(s, 1, k) \o SubSeq(s, k + 1, k + m) = SubSeq(s, 1, k + m)
           /\ SubSeq(s, k + 1, k + m) \in Seq(E) /\ SubSeq(s, 1, k + m) \in Seq(E)
           /\ Len(SubSeq(s, 1, k + m)) = k + m
<1>1. /\ Len(s) \in Nat /\ k \in 0..Len(s) /\ k + m \in 0..Len(s)
      /\ \A i \in 1..Len(s) : s[i] \in E
  BY LenProperties, ElementOfSeq
<1>2. PICK a \in Seq(E) : a = SubSeq(s, 1, k) /\ Len(a) = k
                          /\ \A i \in 1..k : a[i] = s[i]
  BY <1>1, FrontFacts, ZenonT(30)
<1>3. PICK c \in Seq(E) : c = SubSeq(s, 1, k + m) /\ Len(c) = k + m
                          /\ \A i \in 1..(k + m) : c[i] = s[i]
  BY <1>1, FrontFacts
<1>4. PICK b : b = SubSeq(s, k + 1, k + m)
  OBVIOUS
<1>5. b \in Seq(E) /\ Len(b) = m /\ \A i \in 1..m : b[i] = s[k + i]
  BY <1>4, PartFacts
<1>6. /\ a \o b \in Seq(E) /\ Len(a \o b) = k + m
      /\ \A i \in 1..k : (a \o b)[i] = a[i]
      /\ \A i \in 1..m : (a \o b)[k + i] = b[i]
  <2>1. a \in Seq(E) /\ b \in Seq(E)
    BY <1>2, <1>5
  <2>2. /\ a \o b \in Seq(E) /\ Len(a \o b) = Len(a) + Len(b)
        /\ \A i \in 1..Len(a) : (a \o b)[i] = a[i]
        /\ \A i \in 1..Len(b) : (a \o b)[Len(a) + i] = b[i]
    BY <2>1, ConcatFacts
  <2>3. QED
    BY <1>2, <1>5, <2>2, Zenon
<1>7. ASSUME NEW i \in 1..(k + m) PROVE (a \o b)[i] = c[i]
  <2>1. CASE i <= k
    BY <1>2, <1>3, <1>6, <2>1
  <2>2. CASE i > k
    <3>1. PICK j \in 1..m : i = k + j
      BY <2>2
    <3>2. (a \o b)[k + j] = b[j] /\ b[j] = s[k + j] /\ c[i] = s[i]
      BY <1>3, <1>5, <1>6, Zenon
    <3>3. QED
      BY <3>1, <3>2
  <2>3. i <= k \/ i > k
    OBVIOUS
  <2>4. QED
    BY <2>1, <2>2, <2>3, Zenon
<1>8. a \o b = c
  BY <1>3, <1>6, <1>7, SeqEqual
<1>9. QED
  BY <1>2, <1>3, <1>4, <1>5, <1>8, Zenon

LEMMA SoundStep ==
    ASSUME NEW p \in Page, NEW at, NEW d, NEW g \in Seq(Seq(Nat)), NEW o,
           IsAt(p, at, d, g, o, FALSE), NEW n \in Nat \ {0}, NEW spill \in Nat,
           NEW b, b = ReadBatch(d, n, spill), NEW h, h = g \o b.values,
           NEW e, e = EndedThen(o, b, n)
    PROVE  /\ b.values \in Seq(Seq(Nat)) /\ b.threw \in BOOLEAN
           /\ IsAt(p, at, b.decoder, h, e, b.threw)
           /\ p.whole => b.threw = FALSE
           /\ SoundGiven(p, g, b, n, h)
<1>1. Len(Held(p)) \in Nat /\ Held(p) \in Seq(Seq(Nat)) /\ Len(g) \in Nat
  BY PageFields, LenProperties
<1>2. PICK T, held : T = Seq(Nat) /\ held = Held(p)
  OBVIOUS
<1>3. PICK k \in Nat : k = Len(g)
  BY <1>1
<1>4. PICK l \in Nat : l = Len(Held(p))
  BY <1>1
<1>5. /\ T = Seq(Nat) /\ g \in Seq(T) /\ held \in Seq(T)
      /\ k = Len(g) /\ l = Len(held) /\ held = Held(p)
  BY <1>1, <1>2, <1>3, <1>4
<1>6. /\ Located(p, held, at) /\ IsPrefixOf(g, held) /\ d \in at[k]
      /\ p.whole /\ o => g = held
  BY <1>5, Zenon DEF IsAt
<1>7. k <= l /\ g = SubSeq(held, 1, k)
  BY <1>5, <1>6, Zenon DEF IsPrefixOf
<1>8. k \in 0..l
  BY <1>7
<1>9. Gives(b, at, held, p.whole, k, n)
  BY <1>5, <1>6, <1>8, Zenon DEF Located, ReadAt
<1>10. CASE ~p.whole /\ b.threw = TRUE /\ b.values = <<>>
  <2>1. h = g
    BY <1>5, <1>10
  <2>2. IsAt(p, at, b.decoder, h, e, b.threw)
    BY <1>5, <1>6, <1>10, <2>1, Zenon DEF IsAt
  <2>3. <<>> \in Seq(Seq(Nat))
    BY EmptySeq
  <2>4. QED
    BY <1>10, <2>2, <2>3, Zenon DEF SoundGiven
<1>11. ASSUME NEW m \in 0..n, MoreGiven(b, at, held, p.whole, k, n, m)
       PROVE  /\ b.values \in Seq(Seq(Nat)) /\ b.threw = FALSE
              /\ IsAt(p, at, b.decoder, h, e, b.threw)
              /\ SoundGiven(p, g, b, n, h)
  <2>1. /\ k + m <= l /\ b.threw = FALSE /\ b.decoder \in at[k + m]
        /\ b.values = SubSeq(held, k + 1, k + m)
        /\ p.whole => m = n \/ k + m = l
    BY <1>5, <1>11, Zenon DEF MoreGiven
  <2>2. m \in Nat /\ n \in Nat /\ k + m \in Nat /\ k + m \in 0..l
    BY <2>1
  <2>3. k + m <= Len(held) /\ held \in Seq(T)
    BY <1>5, <2>1
  <2>4. b.values \in Seq(T) /\ h = SubSeq(held, 1, k + m) /\ Len(h) = k + m
    <3>1. /\ SubSeq(held, 1, k) \o SubSeq(held, k + 1, k + m)
                = SubSeq(held, 1, k + m)
          /\ SubSeq(held, k + 1, k + m) \in Seq(T)
          /\ Len(SubSeq(held, 1, k + m)) = k + m
      BY <2>2, <2>3, PartJoin
    <3>2. QED
      BY <1>7, <2>1, <3>1, Zenon
  <2>5. IsPrefixOf(h, held)
    BY <1>5, <2>1, <2>4 DEF IsPrefixOf
  <2>6. p.whole /\ e => h = held
    <3>1. ASSUME p.whole, e PROVE k + m = l
      <4>1. CASE o
        <5>1. k = l
          BY <1>5, <1>6, <3>1, <4>1
        <5>2. QED
          BY <2>1, <2>2, <5>1
      <4>2. CASE ~o
        <5>1. Len(b.values) < n
          BY <3>1, <4>2 DEF EndedThen
        <5>2. Len(b.values) = m
          BY <2>1, <2>2, <2>3, PartFacts
        <5>3. m # n
          BY <2>2, <5>1, <5>2
        <5>4. QED
          BY <2>1, <3>1, <5>3
      <4>3. QED
        BY <4>1, <4>2
    <3>2. SubSeq(held, 1, Len(held)) = held
      BY <2>3, SubSeqFull
    <3>3. QED
      BY <1>5, <2>4, <3>1, <3>2, Zenon
  <2>7. IsAt(p, at, b.decoder, h, e, b.threw)
    BY <1>5, <1>6, <2>1, <2>4, <2>5, <2>6, Zenon DEF IsAt
  <2>8. p.whole => k + m = Fewer(k + n, l)
    BY <2>1, <2>2 DEF Fewer
  <2>9. SoundGiven(p, g, b, n, h)
    BY <1>5, <2>4, <2>8, Zenon DEF SoundGiven
  <2>10. QED
    BY <1>5, <2>1, <2>4, <2>7, <2>9
<1>12. QED
  BY <1>9, <1>10, <1>11, Zenon DEF Gives

-----------------------------------------------------------------------------
(* The first batch of a page.                                              *)
FirstOf(p, b) ==
    \A i \in 1..Len(b.values) : i <= SureOf(p) =>
        i <= Len(p.content) /\ b.values[i] = p.content[i]

LEMMA SureLess ==
    ASSUME NEW p \in Page, CodingOf(p) = "DELTA_BINARY_PACKED", Openable(p.numbers),
           NEW i \in Nat, i <= SureOf(p)
    PROVE  i <= FirstSure(p.numbers)
<1>1. PICK q \in Nat : q = p.numbers[1] \div p.numbers[2]
  <2>1. p.numbers \in Seq(Nat)
    BY PageFields
  <2>2. QED
    BY <2>1, FirstNumbers, Zenon
<1>2. Sure(p) = 1 + q
  BY <1>1 DEF Sure
<1>3. FirstSure(p.numbers) =
         IF p.numbers[3] > 1 /\ ~(p.numbers[6] <= BufferBits) THEN 1 ELSE 1 + q
  BY <1>1, Zenon DEF FirstSure
<1>4. i <= (IF NarrowDeltas(p) THEN 1 + q ELSE 1)
  BY <1>2, Zenon DEF SureOf
<1>5. NarrowDeltas(p) => (p.numbers[3] > 1 => p.numbers[6] <= BufferBits)
  <2>1. PICK m \in Nat : m = p.numbers[2] /\ m >= 1
    BY PageFields, FirstNumbers
  <2>2. 1 \in 1..m /\ 5 + 1 = 6
    BY <2>1
  <2>3. QED
    BY <2>1, <2>2 DEF NarrowDeltas
<1>6. CASE NarrowDeltas(p)
  BY <1>3, <1>4, <1>5, <1>6, Zenon
<1>7. CASE ~NarrowDeltas(p)
  <2>1. i <= 1
    BY <1>4, <1>7, Zenon
  <2>2. 1 <= 1 + q
    OBVIOUS
  <2>3. i <= 1 + q
    BY <2>1, <2>2
  <2>4. QED
    BY <1>3, <2>1, <2>3, Zenon
<1>8. QED
  BY <1>6, <1>7

DeltaContent(p, values) ==
    /\ FirstValues(WordBits(p.type), p.numbers, values)
    /\ Len(values) \in Nat /\ Len(values) = Len(p.content)
    /\ \A i \in 1..Len(p.content) : p.content[i] = <<values[i]>>

LEMMA DeltaContentIs ==
    ASSUME NEW p \in Page, DeltasStand(p), p.whole
    PROVE  \E values : DeltaContent(p, values)
<1>1. PICK l \in Nat : l = Len(p.content) /\ DOMAIN p.content = 1..l
  BY PageFields
<1>2. PICK values : values = [i \in DOMAIN p.content |-> p.content[i][1]]
  OBVIOUS
<1>3. /\ p.content = [i \in DOMAIN p.content |-> <<values[i]>>]
      /\ FirstValues(WordBits(p.type), p.numbers, values)
  BY <1>2, Zenon DEF DeltasStand
<1>4. \A i \in 1..l : p.content[i] = <<values[i]>>
  BY <1>1, <1>3, Zenon
<1>5. values = [i \in 1..l |-> values[i]]
  BY <1>1, <1>2
<1>6. values \in [1..l -> {values[i] : i \in 1..l}]
  BY <1>5
<1>7. Len(values) = l
  BY <1>6, SeqIs
<1>8. DeltaContent(p, values)
  BY <1>1, <1>3, <1>4, <1>7, Zenon DEF DeltaContent
<1>9. QED
  BY <1>8

LEMMA DeltaFirst ==
    ASSUME NEW p \in Page, CodingOf(p) = "DELTA_BINARY_PACKED", DeltasStand(p),
           p.whole, Begin(p) # Refused, NEW n \in Nat, n >= 1, NEW spill \in Nat,
           NEW b, b = ReadBatch(Begin(p), n, spill)
    PROVE  FirstOf(p, b)
<1>1. PICK bits \in Nat : bits = WordBits(p.type)
  BY WordBitsType
<1>2. PICK d, delta :
          /\ d = Begin(p) /\ d = [coding |-> "DELTA_BINARY_PACKED", delta |-> delta]
          /\ Openable(p.numbers) /\ FreshIs(bits, p.numbers, delta)
  BY <1>1, DeltaBegins
<1>3. /\ d.delta = delta /\ delta \in DeltaRecords(bits) /\ delta.failed = FALSE
      /\ delta.remaining = p.numbers[3]
  <2>1. d.delta = delta
    BY <1>2
  <2>2. QED
    BY <1>2, <2>1, Zenon DEF FreshIs
<1>4. d \in DeltaDecoders(bits)
  BY <1>2, <1>3 DEF DeltaDecoders
<1>5. PICK r : r = ReadDelta(delta, n, spill)
  OBVIOUS
<1>6. r \in DeltaRecords(bits) /\ ReadMade(delta, n, r) /\ DeltaBatch(d, r, b)
  BY <1>1, <1>2, <1>3, <1>4, <1>5, DeltaReads
<1>7. PICK values : DeltaContent(p, values)
  BY DeltaContentIs
<1>8. p.numbers \in Seq(Nat)
  BY PageFields
<1>9. FirstRead(p.numbers, values, r)
  <2>1. FirstValues(bits, p.numbers, values) /\ Len(values) \in Nat
    BY <1>1, <1>7, Zenon DEF DeltaContent
  <2>2. QED
    BY <1>2, <1>5, <1>8, <2>1, FirstBatch
<1>10. r.failed \in BOOLEAN
  BY <1>6, DeltaFields
<1>11. CASE r.failed = TRUE
  <2>1. b = Threw(d)
    BY <1>6, <1>11, Zenon DEF DeltaBatch
  <2>2. b.values = <<>>
    BY <2>1 DEF Threw
  <2>3. QED
    BY <2>2 DEF FirstOf
<1>12. CASE r.failed = FALSE
  <2>1. /\ Len(b.values) = Len(r.out)
        /\ \A i \in 1..Len(r.out) : b.values[i] = <<r.out[i]>>
    BY <1>6, <1>12, Zenon DEF DeltaBatch
  <2>2. PICK m \in Nat, left \in Nat, l \in Nat :
            m = Len(r.out) /\ left = r.remaining /\ l = Len(p.content)
    <3>1. r.out \in Seq(Nat) /\ r.remaining \in Nat
      BY <1>6, OutNat, DeltaFields
    <3>2. Len(p.content) \in Nat /\ Len(r.out) \in Nat
      BY <3>1, LenProperties, PageFields
    <3>3. QED
      BY <3>1, <3>2
  <2>3. m + left = l
    <3>1. Len(r.out) + r.remaining = delta.remaining
      BY <1>6, <1>12 DEF ReadMade
    <3>2. p.numbers[3] = Len(values) /\ Len(values) = Len(p.content)
      BY <1>7, Zenon DEF DeltaContent, FirstValues
    <3>3. QED
      BY <1>3, <2>2, <3>1, <3>2, Zenon
  <2>4. ASSUME NEW i \in 1..m, i <= SureOf(p)
        PROVE  i <= l /\ b.values[i] = p.content[i]
    <3>1. i <= FirstSure(p.numbers)
      BY <1>2, <2>4, SureLess
    <3>2. r.out[i] = values[i]
      BY <1>9, <1>12, <2>2, <3>1 DEF FirstRead
    <3>3. i <= l /\ i \in 1..l
      BY <2>3
    <3>4. p.content[i] = <<values[i]>>
      BY <1>7, <2>2, <3>3, Zenon DEF DeltaContent
    <3>5. QED
      BY <2>1, <2>2, <3>2, <3>3, <3>4, Zenon
  <2>5. QED
    BY <2>1, <2>2, <2>4, Zenon DEF FirstOf
<1>13. QED
  BY <1>10, <1>11, <1>12

LEMMA PrefixFirst ==
    ASSUME NEW p \in Page, CodingOf(p) = "DELTA_BYTE_ARRAY", PrefixesStand(p),
           p.whole, LengthsSure(p), NEW n \in Nat, NEW spill,
           NEW b, b = ReadBatch(Begin(p), n, spill)
    PROVE  FirstOf(p, b)
<1>1. PICK d : d = Begin(p) /\ d = ResetPrefixes(p.numbers)
  BY BeginIs
<1>2. PrefixesOf(d, p.content)
  BY <1>1, PrefixesFresh
<1>3. PICK content \in Seq(Seq(Nat)) : content = p.content /\ Len(content) \in Nat
  BY PageFields
<1>4. PrefixGiven(d, content, n, Times(d, n))
  BY <1>2, <1>3, PrefixesGive
<1>5. b = Times(d, n)
  <2>1. d \in PrefixDecoders
    BY <1>2, Zenon DEF PrefixesOf
  <2>2. d.coding \in Copied
    BY <2>1, PrefixCopy DEF Copies
  <2>3. QED
    BY <1>1, <2>2, BatchIs
<1>6. CASE b.threw = TRUE /\ b.values = <<>>
  BY <1>6 DEF FirstOf
<1>7. ASSUME NEW m \in 0..n, PrefixMore(d, content, n, b, m)
      PROVE  FirstOf(p, b)
  <2>1. m <= Len(content) /\ b.values = SubSeq(content, 1, m)
    BY <1>7 DEF PrefixMore, Batch
  <2>2. PICK T : T = Seq(Nat) /\ content \in Seq(T)
    OBVIOUS
  <2>3. m \in 0..Len(content)
    BY <1>3, <2>1
  <2>4. /\ Len(SubSeq(content, 1, m)) = m
        /\ \A i \in 1..m : SubSeq(content, 1, m)[i] = content[i]
    BY <2>2, <2>3, FrontFacts
  <2>5. \A i \in 1..m : i <= Len(content)
    BY <1>3, <2>3
  <2>6. QED
    BY <1>3, <2>1, <2>4, <2>5, Zenon DEF FirstOf
<1>8. QED
  BY <1>4, <1>5, <1>6, <1>7, Zenon DEF PrefixGiven

LEMMA FirstBatchIs ==
    ASSUME NEW p \in Page, StandsFor(p), p.whole, Begin(p) # Refused,
           NEW n \in Nat, n >= 1, NEW spill \in Nat,
           NEW b, b = ReadBatch(Begin(p), n, spill), Len(b.values) \in Nat
    PROVE  FirstOf(p, b)
<1>1. CASE CodingOf(p) = "DELTA_BINARY_PACKED"
  <2>1. DeltasStand(p)
    BY <1>1, StandsForIs
  <2>2. QED
    BY <1>1, <2>1, DeltaFirst
<1>2. CASE CodingOf(p) = "DELTA_BYTE_ARRAY" /\ LengthsSure(p)
  <2>1. PrefixesStand(p)
    BY <1>2, StandsForIs
  <2>2. QED
    BY <1>2, <2>1, PrefixFirst
<1>3. CASE /\ CodingOf(p) # "DELTA_BINARY_PACKED"
           /\ ~(CodingOf(p) = "DELTA_BYTE_ARRAY" /\ LengthsSure(p))
  <2>1. SureOf(p) = 0
    BY <1>3, Zenon DEF SureOf
  <2>2. QED
    BY <2>1 DEF FirstOf
<1>4. QED
  BY <1>1, <1>2, <1>3

-----------------------------------------------------------------------------
(* What is so of a page that is read stays so with every batch.            *)
LEMMA BatchTyped ==
    ASSUME NEW p \in Page, StandsFor(p), NEW d, NEW g \in Seq(Seq(Nat)),
           NEW o, SoundRead(p, d, g, o, FALSE), TypedRead(p, d, FALSE),
           NEW n \in Nat \ {0}, NEW spill \in Nat,
           NEW b, b = ReadBatch(d, n, spill), NEW h, h = g \o b.values,
           NEW e, e = EndedThen(o, b, n)
    PROVE  /\ b.values \in Seq(Seq(Nat)) /\ b.threw \in BOOLEAN
           /\ SoundRead(p, b.decoder, h, e, b.threw) /\ TypedRead(p, b.decoder, b.threw)
           /\ Sound(p) => SoundGiven(p, g, b, n, h) /\ (p.whole => b.threw = FALSE)
<1>1. ASSUME Sound(p)
      PROVE  /\ b.values \in Seq(Seq(Nat)) /\ b.threw \in BOOLEAN
             /\ SoundRead(p, b.decoder, h, e, b.threw)
             /\ SoundGiven(p, g, b, n, h) /\ (p.whole => b.threw = FALSE)
  <2>1. PICK at : IsAt(p, at, d, g, o, FALSE)
    BY <1>1, Zenon DEF SoundRead
  <2>2. /\ b.values \in Seq(Seq(Nat)) /\ b.threw \in BOOLEAN
        /\ IsAt(p, at, b.decoder, h, e, b.threw)
        /\ p.whole => b.threw = FALSE
        /\ SoundGiven(p, g, b, n, h)
    BY <2>1, SoundStep
  <2>3. QED
    BY <2>2, Zenon DEF SoundRead
<1>2. ASSUME ~Sound(p)
      PROVE  /\ b.values \in Seq(Seq(Nat)) /\ b.threw \in BOOLEAN
             /\ b.decoder \in DecodersOf(p)
  <2>1. d \in DecodersOf(p)
    BY <1>2, Zenon DEF TypedRead
  <2>2. b \in Batches(DecodersOf(p))
    BY <1>2, <2>1, NotSoundTyped, Zenon DEF Typed
  <2>3. QED
    BY <2>2 DEF Batches
<1>3. QED
  BY <1>1, <1>2, Zenon DEF SoundRead, TypedRead

LEMMA DeltaNotSound ==
    ASSUME NEW p \in Page, CodingOf(p) \in {"DELTA_BINARY_PACKED", "DELTA_BYTE_ARRAY"}
    PROVE  ~Sound(p)
<1>1. p.encoding = CodingOf(p)
  BY PageFields, CodingIs
<1>2. QED
  BY <1>1, InBatchesIs DEF Sound

LEMMA DeltaStep ==
    ASSUME NEW p \in Page, NEW d, NEW g \in Seq(Seq(Nat)),
           TypedRead(p, d, FALSE), NEW o, DeltaLeft(p, d, g, o, FALSE),
           NEW n \in Nat, NEW spill \in Nat,
           NEW b, b = ReadBatch(d, n, spill), NEW h, BatchGiven(g, b.values, h),
           NEW e, e = EndedThen(o, b, n)
    PROVE  DeltaLeft(p, b.decoder, h, e, b.threw)
<1>1. ASSUME CodingOf(p) = "DELTA_BINARY_PACKED", ~b.threw
      PROVE  /\ b.decoder.delta.remaining + Len(h) = p.numbers[3]
             /\ e => b.decoder.delta.remaining = 0
  <2>1. PICK bits \in Nat : bits = WordBits(p.type)
    BY WordBitsType
  <2>2. d \in DecodersOf(p)
    BY <1>1, DeltaNotSound DEF TypedRead
  <2>3. d \in DeltaDecoders(bits)
    BY <1>1, <2>1, <2>2 DEF DecodersOf
  <2>4. PICK r : r = ReadDelta(d.delta, n, spill)
    OBVIOUS
  <2>5. r \in DeltaRecords(bits) /\ ReadMade(d.delta, n, r) /\ DeltaBatch(d, r, b)
    BY <2>3, <2>4, DeltaReads
  <2>6. d.delta.remaining \in Nat
    BY <2>3, DeltaFields DEF DeltaDecoders
  <2>7. r.failed \in BOOLEAN /\ r.remaining \in Nat
    BY <2>5, DeltaFields
  <2>8. r.failed = FALSE
    <3>1. ASSUME r.failed = TRUE PROVE FALSE
      <4>1. b = Threw(d)
        BY <2>5, <3>1, Zenon DEF DeltaBatch
      <4>2. QED
        BY <1>1, <4>1 DEF Threw
    <3>2. QED
      BY <2>7, <3>1
  <2>9. b.decoder.delta = r /\ Len(b.values) = Len(r.out)
    BY <2>5, <2>8, Zenon DEF DeltaBatch
  <2>10. /\ Len(r.out) + r.remaining = d.delta.remaining
         /\ Len(r.out) = n \/ r.remaining = 0
    BY <2>5, <2>8 DEF ReadMade
  <2>11. /\ Len(h) = Len(g) + Len(b.values)
         /\ Len(g) \in Nat /\ Len(b.values) \in Nat
    BY Zenon DEF BatchGiven
  <2>12. d.delta.remaining + Len(g) = p.numbers[3]
         /\ (o => d.delta.remaining = 0)
    BY <1>1, Zenon DEF DeltaLeft
  <2>13. r.remaining + Len(h) = p.numbers[3]
    <3>1. PICK x \in Nat, y \in Nat, z \in Nat, w \in Nat :
              x = r.remaining /\ y = Len(g) /\ z = Len(b.values)
              /\ w = d.delta.remaining
      BY <2>6, <2>7, <2>11
    <3>2. z + x = w /\ Len(h) = y + z /\ w + y = p.numbers[3]
      BY <2>9, <2>10, <2>11, <2>12, <3>1, Zenon
    <3>3. x + (y + z) = w + y
      BY <3>2
    <3>4. QED
      BY <3>1, <3>2, <3>3, Zenon
  <2>14. e => r.remaining = 0
    <3>1. PICK z \in Nat : z = Len(b.values)
      BY <2>11
    <3>2. e => o \/ z < n
      BY <3>1, Zenon DEF EndedThen
    <3>3. z = n \/ r.remaining = 0
      BY <2>9, <2>10, <3>1, Zenon
    <3>4. z < n => z # n
      OBVIOUS
    <3>5. o => r.remaining = 0
      BY <2>7, <2>9, <2>10, <2>12, <3>1
    <3>6. QED
      BY <3>2, <3>3, <3>4, <3>5, Zenon
  <2>15. QED
    BY <2>9, <2>13, <2>14
<1>2. QED
  BY <1>1, Zenon DEF DeltaLeft

CountFirst(g, f, o, b) == IF g = <<>> /\ ~o THEN Len(b.values) ELSE f

FirstSo(p, g, o, b) == g = <<>> /\ ~o /\ p.whole => FirstOf(p, b)

FirstWith(p, g, f, o, b, h) ==
    /\ p \in Page /\ g \in Seq(Seq(Nat)) /\ Counted(g, f) /\ FirstGiven(p, g, f)
    /\ BatchGiven(g, b.values, h) /\ FirstSo(p, g, o, b)

LEMMA FirstStep ==
    ASSUME NEW p, NEW g, NEW f, NEW o, NEW b, NEW h, FirstWith(p, g, f, o, b, h),
           NEW k, k = CountFirst(g, f, o, b)
    PROVE  FirstGiven(p, h, k) /\ Counted(h, k)
<1> USE DEF FirstWith
<1>1. k = (IF g = <<>> /\ ~o THEN Len(b.values) ELSE f)
      /\ (g = <<>> /\ ~o /\ p.whole => FirstOf(p, b))
  BY Zenon DEF CountFirst, FirstSo
<1>2. /\ h \in Seq(Seq(Nat)) /\ Len(h) = Len(g) + Len(b.values)
      /\ Len(g) \in Nat /\ Len(b.values) \in Nat
      /\ \A i \in 1..Len(g) : h[i] = g[i]
      /\ \A i \in 1..Len(b.values) : h[Len(g) + i] = b.values[i]
  BY Zenon DEF BatchGiven
<1>3. CASE g = <<>> /\ ~o
  <2>1. PICK l \in Nat : l = Len(b.values)
    BY <1>2
  <2>2. Len(g) = 0
    BY <1>3
  <2>3. \A i \in 1..l : 0 + i = i
    OBVIOUS
  <2>4. Len(h) = l /\ k = l /\ \A i \in 1..l : h[i] = b.values[i]
    <3>1. Len(h) = l
      BY <1>2, <2>1, <2>2
    <3>2. \A i \in 1..l : h[0 + i] = b.values[i]
      BY <1>2, <2>1, <2>2, Zenon
    <3>3. \A i \in 1..l : h[i] = b.values[i]
      BY <2>3, <3>2
    <3>4. QED
      BY <1>1, <1>3, <2>1, <3>1, <3>3
  <2>5. k \in 0..Len(h)
    BY <2>4
  <2>6. p.whole => \A i \in 1..l : i <= SureOf(p) =>
                      i <= Len(p.content) /\ b.values[i] = p.content[i]
    BY <1>1, <1>3, <2>1, Zenon DEF FirstOf
  <2>7. FirstGiven(p, h, k)
    BY <2>4, <2>6, Zenon DEF FirstGiven
  <2>8. QED
    BY <1>2, <2>5, <2>7, Zenon DEF Counted
<1>4. CASE ~(g = <<>> /\ ~o)
  <2>1. k = f /\ f \in 0..Len(g)
    BY <1>1, <1>4, Zenon DEF Counted
  <2>2. k \in 0..Len(h) /\ \A i \in 1..k : i \in 1..Len(g)
    BY <1>2, <2>1
  <2>3. \A i \in 1..k : h[i] = g[i]
    BY <1>2, <2>2
  <2>4. FirstGiven(p, h, k)
    BY <2>1, <2>3, Zenon DEF FirstGiven
  <2>5. QED
    BY <1>2, <2>2, <2>4, Zenon DEF Counted
<1>5. QED
  BY <1>3, <1>4

LEMMA PageStep ==
    ASSUME NEW p \in Page, StandsFor(p), NEW d, NEW g, NEW f,
           NEW o, PageRead(p, d, g, f, o, FALSE), Begin(p) # Refused,
           NEW n \in Nat, n >= 1, NEW spill \in Nat,
           NEW b, b = ReadBatch(d, n, spill), NEW h, h = g \o b.values,
           NEW e, e = EndedThen(o, b, n),
           NEW k, k = CountFirst(g, f, o, b)
    PROVE  /\ PageRead(p, b.decoder, h, k, e, b.threw)
           /\ b.threw \in BOOLEAN /\ h \in Seq(Seq(Nat))
           /\ Sound(p) => SoundGiven(p, g, b, n, h) /\ (p.whole => b.threw = FALSE)
<1>1. /\ Counted(g, f) /\ AtBegin(p, d, g, o, FALSE)
      /\ SoundRead(p, d, g, o, FALSE) /\ TypedRead(p, d, FALSE)
      /\ DeltaLeft(p, d, g, o, FALSE) /\ FirstGiven(p, g, f)
  BY Zenon DEF PageRead
<1>2. g \in Seq(Seq(Nat))
  BY <1>1, Zenon DEF Counted
<1>3. /\ b.values \in Seq(Seq(Nat)) /\ b.threw \in BOOLEAN
      /\ SoundRead(p, b.decoder, h, e, b.threw) /\ TypedRead(p, b.decoder, b.threw)
      /\ Sound(p) => SoundGiven(p, g, b, n, h) /\ (p.whole => b.threw = FALSE)
  <2>1. n \in Nat \ {0}
    OBVIOUS
  <2>2. QED
    BY <1>1, <1>2, <2>1, BatchTyped
<1>4. BatchGiven(g, b.values, h)
  BY <1>2, <1>3, BatchGivenIs
<1>5. /\ h \in Seq(Seq(Nat)) /\ Len(h) = Len(g) + Len(b.values)
      /\ Len(g) \in Nat /\ Len(b.values) \in Nat
  BY <1>4, Zenon DEF BatchGiven
<1>6. g = <<>> /\ ~o => d = Begin(p)
  BY <1>1, Zenon DEF AtBegin
<1>7. g = <<>> /\ ~o /\ p.whole => FirstOf(p, b)
  <2>1. ASSUME g = <<>>, ~o, p.whole PROVE FirstOf(p, b)
    <3>1. b = ReadBatch(Begin(p), n, spill)
      BY <1>6, <2>1
    <3>2. QED
      BY <1>5, <2>1, <3>1, FirstBatchIs
  <2>2. QED
    BY <2>1
<1>8. FirstGiven(p, h, k) /\ Counted(h, k)
  <2>1. FirstSo(p, g, o, b)
    BY <1>7, Zenon DEF FirstSo
  <2>2. FirstWith(p, g, f, o, b, h)
    BY <1>1, <1>2, <1>4, <2>1, Zenon DEF FirstWith
  <2>3. QED
    BY <2>2, FirstStep, ZenonT(30)
<1>9. DeltaLeft(p, b.decoder, h, e, b.threw)
  BY <1>1, <1>2, <1>4, DeltaStep
<1>10. AtBegin(p, b.decoder, h, e, b.threw)
  <2>1. ASSUME ~b.threw, ~e, h = <<>> PROVE FALSE
    <3>1. Len(h) = 0
      BY <2>1
    <3>2. PICK z \in Nat : z = Len(b.values) /\ z = 0
      BY <1>5, <3>1
    <3>3. ~(z < n)
      <4>1. ~(~b.threw /\ Len(b.values) < n)
        BY <2>1, Zenon DEF EndedThen
      <4>2. QED
        BY <2>1, <3>2, <4>1, Zenon
    <3>4. QED
      BY <3>2, <3>3
  <2>2. QED
    BY <2>1, Zenon DEF AtBegin
<1>11. PageRead(p, b.decoder, h, k, e, b.threw)
  BY <1>3, <1>8, <1>9, <1>10, Zenon DEF PageRead
<1>12. QED
  BY <1>3, <1>5, <1>11

-----------------------------------------------------------------------------
(* What is so of the column, of its encoder and of the values put.         *)
Putting ==
    /\ column \in Columns /\ Kind \in {"plain", "dict", "delta"}
    /\ put \in Seq(Seq(Nat)) /\ ValuesSized(column.type, put)
    /\ Len(put) <= MaxValues[column.type]
    /\ Kind # "delta" => ValuesHeld(Seq(Nat), Kind = "dict", encoder, put)

LEMMA ColumnFacts ==
    ASSUME Putting
    PROVE  /\ column.type \in Types /\ MaxValues[column.type] \in Nat
           /\ BitWidth(FallbackThreshold + MaxValues[column.type]) <= 32
           /\ \A v \in Inputs[column.type] :
                 v \in Seq(Nat) /\ Len(v) \in ValueSizes(column.type)
BY ColumnAssumption DEF Putting

LEMMA KindIs ==
    ASSUME NEW type, NEW encoding, NEW kind, kind = EncoderFor(type, encoding)
    PROVE  /\ kind \in {"plain", "dict", "delta", "refused"}
           /\ kind = "delta" => type \in DeltaTypes
BY DEF EncoderFor

LEMMA NewHeld ==
    ASSUME NEW T, NEW dict \in BOOLEAN
    PROVE  ValuesHeld(T, dict, NewValueEncoder(dict), <<>>)
<1>1. PICK e : e = NewValueEncoder(dict)
  OBVIOUS
<1>2. /\ e.dict = dict /\ e.indices = <<>> /\ e.plain = <<>> /\ e.entries = <<>>
      /\ e.fallen = FALSE
  BY <1>1 DEF NewValueEncoder
<1>3. <<>> \in Seq(T) /\ <<>> \in Seq(Nat) /\ Len(<<>>) = 0
  BY EmptySeq
<1>4. e \in EncodersOf(T)
  BY <1>1, <1>3 DEF NewValueEncoder, EncodersOf
<1>5. IndicesHold(e, <<>>)
  <2>1. 0 <= FallbackThreshold + 0
    BY ThresholdAssumption
  <2>2. \A i \in 1..0 : FALSE
    OBVIOUS
  <2>3. QED
    BY <1>2, <1>3, <2>1, <2>2 DEF IndicesHold
<1>6. QED
  BY <1>1, <1>2, <1>3, <1>4, <1>5, Zenon DEF ValuesHeld

LEMMA InitPutting == Init => Putting
<1> SUFFICES ASSUME Init PROVE Putting
  OBVIOUS
<1>1. /\ column \in Columns /\ Kind # "refused" /\ put = <<>>
      /\ encoder = NewEncoder(column)
  BY DEF Init, Kind
<1>2. Kind \in {"plain", "dict", "delta"}
  BY <1>1, KindIs DEF Kind
<1>3. MaxValues[column.type] \in Nat
  BY <1>1, ColumnAssumption
<1>4. put \in Seq(Seq(Nat)) /\ Len(put) = 0
  BY <1>1, EmptySeq
<1>5. ValuesSized(column.type, put) /\ Len(put) <= MaxValues[column.type]
  BY <1>3, <1>4 DEF ValuesSized
<1>6. ASSUME Kind # "delta"
      PROVE  ValuesHeld(Seq(Nat), Kind = "dict", encoder, put)
  <2>1. PICK dict \in BOOLEAN : dict = (Kind = "dict")
    OBVIOUS
  <2>2. encoder = NewValueEncoder(dict)
    BY <1>1, <1>6, <2>1 DEF NewEncoder, Kind
  <2>3. QED
    BY <1>1, <2>1, <2>2, NewHeld
<1>7. QED
  BY <1>1, <1>2, <1>4, <1>5, <1>6, Zenon DEF Putting

LEMMA BatchSized ==
    ASSUME NEW type, NEW a \in Seq(Seq(Nat)), ValuesSized(type, a),
           NEW n \in Nat, NEW data \in [1..n -> Inputs[type]],
           \A v \in Inputs[type] : v \in Seq(Nat) /\ Len(v) \in ValueSizes(type)
    PROVE  /\ data \in Seq(Seq(Nat)) /\ Len(data) = n /\ a \o data \in Seq(Seq(Nat))
           /\ ValuesSized(type, a \o data) /\ Len(a \o data) = Len(a) + Len(data)
<1>1. PICK T : T = Seq(Nat) /\ a \in Seq(T)
  OBVIOUS
<1>2. \A i \in 1..n : data[i] \in T /\ Len(data[i]) \in ValueSizes(type)
  BY <1>1
<1>3. data \in [1..n -> T]
  BY <1>2
<1>4. data \in Seq(T) /\ Len(data) = n
  BY <1>3, SeqIs
<1>5. PICK c : c = a \o data
  OBVIOUS
<1>6. BatchGiven(a, data, c)
  BY <1>1, <1>4, <1>5, BatchGivenIs
<1>7. /\ c \in Seq(Seq(Nat)) /\ Len(c) = Len(a) + n /\ Len(a) \in Nat
      /\ \A i \in 1..Len(a) : c[i] = a[i]
      /\ \A i \in 1..n : c[Len(a) + i] = data[i]
  BY <1>4, <1>6, Zenon DEF BatchGiven
<1>8. ASSUME NEW i \in 1..Len(c) PROVE Len(c[i]) \in ValueSizes(type)
  <2>1. PICK l \in Nat : l = Len(a)
    BY <1>7
  <2>2. i \in 1..l \/ \E j \in 1..n : i = l + j
    <3>1. i \in 1..(l + n)
      BY <1>7, <2>1
    <3>2. CASE i <= l
      BY <3>1, <3>2
    <3>3. CASE i > l
      <4>1. i - l \in 1..n /\ i = l + (i - l)
        BY <3>1, <3>3
      <4>2. QED
        BY <4>1
    <3>4. QED
      BY <3>1, <3>2, <3>3
  <2>3. CASE i \in 1..l
    BY <1>7, <2>1, <2>3 DEF ValuesSized
  <2>4. ASSUME NEW j \in 1..n, i = l + j PROVE Len(c[i]) \in ValueSizes(type)
    BY <1>2, <1>7, <2>1, <2>4
  <2>5. QED
    BY <2>2, <2>3, <2>4
<1>9. ValuesSized(type, c)
  BY <1>8 DEF ValuesSized
<1>10. QED
  BY <1>1, <1>4, <1>5, <1>7, <1>9

LEMMA PuttingBatch ==
    ASSUME Putting, NEW n \in 1..MaxPut,
           NEW data \in [1..n -> Inputs[column.type]], PutBatch(data)
    PROVE  Putting'
<1>1. /\ column' = column /\ Kind' = Kind /\ put' = put \o data
      /\ Len(put) + Len(data) <= MaxValues[column.type]
      /\ encoder' = IF Kind = "delta" THEN PutDeltas(encoder, data)
                                      ELSE PutValues(encoder, data)
  BY DEF PutBatch, Kind
<1>2. n \in Nat
  BY CodingAssumption
<1>3. put \in Seq(Seq(Nat)) /\ ValuesSized(column.type, put)
  BY DEF Putting
<1>4. /\ data \in Seq(Seq(Nat)) /\ put \o data \in Seq(Seq(Nat))
      /\ ValuesSized(column.type, put \o data)
      /\ Len(put \o data) = Len(put) + Len(data)
  BY <1>2, <1>3, ColumnFacts, BatchSized, SMTT(30)
<1>5. ASSUME Kind # "delta"
      PROVE  ValuesHeld(Seq(Nat), Kind = "dict", encoder', put')
  <2>1. PICK T, dict : T = Seq(Nat) /\ dict = (Kind = "dict") /\ data \in Seq(T)
    BY <1>4
  <2>2. ValuesHeld(T, dict, encoder, put)
    BY <1>5, <2>1, Zenon DEF Putting
  <2>3. ValuesHeld(T, dict, PutValues(encoder, data), put \o data)
    BY <2>1, <2>2, ValuesPut
  <2>4. QED
    BY <1>1, <1>5, <2>1, <2>3, Zenon
<1>6. QED
  BY <1>1, <1>4, <1>5, Zenon DEF Putting

LEMMA PuttingFlush ==
    ASSUME Putting, FlushPage
    PROVE  Putting'
<1>1. /\ column' = column /\ Kind' = Kind /\ put' = <<>>
      /\ encoder' = IF Kind = "delta" THEN FlushedDelta(encoder) ELSE Flushed(encoder)
  BY DEF FlushPage, Kind
<1>2. MaxValues[column.type] \in Nat
  BY ColumnFacts
<1>3. put' \in Seq(Seq(Nat)) /\ Len(put') = 0
  BY <1>1, EmptySeq
<1>4. ValuesSized(column.type, put') /\ Len(put') <= MaxValues[column.type]
  BY <1>2, <1>3 DEF ValuesSized
<1>5. ASSUME Kind # "delta"
      PROVE  ValuesHeld(Seq(Nat), Kind = "dict", encoder', put')
  <2>1. ValuesHeld(Seq(Nat), Kind = "dict", encoder, put)
    BY <1>5, Zenon DEF Putting
  <2>2. ValuesHeld(Seq(Nat), Kind = "dict", Flushed(encoder), <<>>)
    BY <2>1, ValuesFlushed
  <2>3. QED
    BY <1>1, <1>5, <2>2, Zenon
<1>6. column' \in Columns /\ Kind' \in {"plain", "dict", "delta"}
  BY <1>1 DEF Putting
<1>7. QED
  BY <1>1, <1>3, <1>4, <1>5, <1>6, Zenon DEF Putting

LEMMA PuttingNext ==
    ASSUME Putting, [Next]_vars
    PROVE  Putting'
<1>1. ASSUME NEW n \in 1..MaxPut,
             NEW data \in [1..n -> Inputs[column.type]], PutBatch(data)
      PROVE  Putting'
  BY <1>1, PuttingBatch
<1>2. CASE FlushPage
  BY <1>2, PuttingFlush
<1>3. ASSUME UNCHANGED <<column, encoder, put>> PROVE Putting'
  BY <1>3 DEF Putting, Kind
<1>4. QED
  <2>1. CASE ForeignPage
    BY <1>3, <2>1 DEF ForeignPage
  <2>2. ASSUME NEW n \in 1..MaxBatch, Read(n) PROVE Putting'
    BY <1>3, <2>2 DEF Read
  <2>3. CASE ClosePage
    BY <1>3, <2>3 DEF ClosePage
  <2>4. CASE UNCHANGED vars
    BY <1>3, <2>4 DEF vars
  <2>5. QED
    BY <1>1, <1>2, <2>1, <2>2, <2>3, <2>4 DEF Next

-----------------------------------------------------------------------------
(* A page of this library's has all of its numbers, and its decoder can be *)
(* set to it; it has less padding than a group of literals is long.        *)
OwnPage(p) ==
    /\ p.whole /\ p.encoding \in {"PLAIN", "RLE_DICTIONARY", "DELTA_BINARY_PACKED"}
    /\ Len(p.padding) < GroupSize
    /\ p.encoding = "PLAIN" => CodingOf(p) # "refused"
    /\ p.encoding = "RLE_DICTIONARY" =>
          p.dictSet /\ ~(p.numbers[1] > 32) /\ RepeatsComplete(p.runs)
    /\ p.encoding = "DELTA_BINARY_PACKED" =>
          p.type \in DeltaTypes /\ DeltaValues(p.type, p.numbers, p.content)

PageStands(p) == p \in Page /\ StandsFor(p) /\ (p.own => OwnPage(p))

Filled(p, unset, stream) ==
    p = [Written(unset, stream) EXCEPT !.type = column.type, !.own = TRUE,
                                       !.content = put]

LEMMA EncodingNames ==
    /\ "DELTA_BINARY_PACKED" \in PageEncodings
    /\ "PLAIN" \in PageEncodings /\ "RLE_DICTIONARY" \in PageEncodings
<1>1. DOMAIN ValidFor = {"RLE", "DELTA_BINARY_PACKED", "DELTA_LENGTH_BYTE_ARRAY",
                         "DELTA_BYTE_ARRAY", "BYTE_STREAM_SPLIT"}
  BY DEF ValidFor
<1>2. QED
  BY <1>1 DEF PageEncodings

LEMMA NoPadding == Len(<<>>) < GroupSize /\ <<>> \in Seq(Seq(Nat)) /\ <<>> \in Seq(Run)
<1>1. PICK n \in Nat : n = GroupSize /\ n # 0
  BY CodingAssumption
<1>2. Len(<<>>) = 0
  OBVIOUS
<1>3. QED
  BY <1>1, <1>2

LEMMA DeltaFilled ==
    ASSUME Putting, CodingInv, Kind = "delta", NEW unset \in Nat, NEW stream,
           NEW p, Filled(p, unset, stream)
    PROVE  PageStands(p)
<1>1. column.type \in DeltaTypes /\ Holds(encoder, put, column.type)
  BY DEF CodingInv
<1>2. PICK q : q = DeltaPage(encoder, unset)
  OBVIOUS
<1>3. /\ DeltaValues(column.type, q.numbers, put)
      /\ q.bytes \in Nat /\ MaxDeltaBytes(encoder) \in Nat
  BY <1>1, <1>2, HeldDeltaPage
<1>4. Written(unset, stream) =
         [NoPage EXCEPT !.encoding = "DELTA_BINARY_PACKED", !.numbers = q.numbers,
                        !.bytes = q.bytes, !.reserved = MaxDeltaBytes(encoder)]
  BY <1>2, Zenon DEF Written
<1>5. p = [type |-> column.type, encoding |-> "DELTA_BINARY_PACKED",
           content |-> put, padding |-> <<>>, numbers |-> q.numbers,
           runs |-> <<>>, dictSet |-> FALSE, dict |-> <<>>, bytes |-> q.bytes,
           reserved |-> MaxDeltaBytes(encoder), own |-> TRUE, whole |-> TRUE]
  BY <1>4 DEF Filled, NoPage
<1>6. /\ p.type = column.type /\ p.encoding = "DELTA_BINARY_PACKED"
      /\ p.content = put /\ p.numbers = q.numbers /\ p.own = TRUE /\ p.whole = TRUE
      /\ p.padding = <<>>
  BY <1>5
<1>7. p.type \in DeltaTypes /\ DeltaValues(p.type, p.numbers, p.content)
  BY <1>1, <1>3, <1>6
<1>8. StandsFor(p) /\ p.numbers \in Seq(Nat) /\ p.content \in Seq(Seq(Nat))
  BY <1>6, <1>7, DeltaPageStands
<1>9. p \in Page
  <2>1. <<>> \in Seq(Seq(Nat)) /\ <<>> \in Seq(Run) /\ column.type \in Types
    BY NoPadding, ColumnFacts
  <2>2. "DELTA_BINARY_PACKED" \in PageEncodings
    BY EncodingNames
  <2>3. QED
    BY <1>3, <1>5, <1>6, <1>8, <2>1, <2>2 DEF Page
<1>10. OwnPage(p)
  BY <1>6, <1>7, NoPadding DEF OwnPage
<1>11. QED
  BY <1>8, <1>9, <1>10 DEF PageStands

LEMMA PageIs ==
    ASSUME NEW t \in Types, NEW enc \in PageEncodings, NEW content \in Seq(Seq(Nat)),
           NEW padding \in Seq(Seq(Nat)), NEW nums \in Seq(Nat), NEW runs \in Seq(Run),
           NEW set \in BOOLEAN, NEW dict \in Seq(Seq(Nat)),
           NEW p, p = [type |-> t, encoding |-> enc, content |-> content,
                       padding |-> padding, numbers |-> nums, runs |-> runs,
                       dictSet |-> set, dict |-> dict, bytes |-> 0,
                       reserved |-> 0, own |-> TRUE, whole |-> TRUE]
    PROVE  p \in Page
BY DEF Page

LEMMA EncodedIs ==
    ASSUME NEW e
    PROVE  /\ UsesDict(e) => /\ Encoded(e).encoding = "RLE_DICTIONARY"
                             /\ Encoded(e).data = e.indices
           /\ ~UsesDict(e) => /\ Encoded(e).encoding = "PLAIN"
                              /\ Encoded(e).data = e.plain
BY DEF Encoded

PageParts(p) ==
    /\ p.type \in Types /\ p.encoding \in PageEncodings
    /\ p.content \in Seq(Seq(Nat)) /\ p.padding \in Seq(Seq(Nat))
    /\ p.numbers \in Seq(Nat) /\ p.runs \in Seq(Run)
    /\ p.dictSet \in BOOLEAN /\ p.dict \in Seq(Seq(Nat))

ValueNumbers(stream) ==
    IF UsesDict(encoder) THEN IndexNumbers(encoder, stream)
    ELSE PlainNumbers(column.type, Encoded(encoder).data)

ValueRuns(stream) == IF UsesDict(encoder) THEN stream.runs ELSE <<>>

ValuePadding(stream) ==
    IF UsesDict(encoder) THEN IndexPadding(encoder, stream) ELSE <<>>

LEMMA PlainWritten ==
    ASSUME NEW a, NEW b, NEW c
    PROVE  [NoPage EXCEPT !.dictSet = a, !.dict = b, !.numbers = c] =
              [NoPage EXCEPT !.encoding = "PLAIN", !.dictSet = a, !.dict = b,
                             !.runs = <<>>, !.numbers = c, !.padding = <<>>]
<1> DEFINE short  == [NoPage EXCEPT !.dictSet = a, !.dict = b, !.numbers = c]
           long   == [NoPage EXCEPT !.encoding = "PLAIN", !.dictSet = a, !.dict = b,
                                    !.runs = <<>>, !.numbers = c, !.padding = <<>>]
           inFull == [type |-> "INT32", encoding |-> "PLAIN", content |-> <<>>,
                      padding |-> <<>>, numbers |-> c, runs |-> <<>>,
                      dictSet |-> a, dict |-> b, bytes |-> 0, reserved |-> 0,
                      own |-> FALSE, whole |-> TRUE]
<1>1. ASSUME NEW p, p = short PROVE p = inFull
  BY <1>1 DEF NoPage
<1>2. ASSUME NEW p, p = long PROVE p = inFull
  BY <1>2 DEF NoPage
<1> HIDE DEF short, long, inFull
<1>3. short = inFull
  BY <1>1
<1>4. long = inFull
  BY <1>2
<1>5. short = long
  BY <1>3, <1>4
<1>6. QED
  BY <1>5 DEF short, long

LEMMA ValueWritten ==
    ASSUME Kind # "delta", NEW unset, NEW stream
    PROVE  Written(unset, stream) =
              [NoPage EXCEPT !.encoding = Encoded(encoder).encoding,
                             !.dictSet = encoder.dict, !.dict = encoder.entries,
                             !.runs = ValueRuns(stream),
                             !.numbers = ValueNumbers(stream),
                             !.padding = ValuePadding(stream)]
<1>1. CASE UsesDict(encoder)
  <2>1. Encoded(encoder).encoding = "RLE_DICTIONARY" /\ IsIndexed(encoder)
    BY <1>1, EncodedIs DEF IsIndexed
  <2>2. /\ ValueRuns(stream) = stream.runs
        /\ ValueNumbers(stream) = IndexNumbers(encoder, stream)
        /\ ValuePadding(stream) = IndexPadding(encoder, stream)
    BY <1>1 DEF ValueRuns, ValueNumbers, ValuePadding
  <2>3. QED
    BY <2>1, <2>2, Zenon DEF Written, HasDict
<1>2. CASE ~UsesDict(encoder)
  <2>1. Encoded(encoder).encoding = "PLAIN" /\ ~IsIndexed(encoder)
    BY <1>2, EncodedIs DEF IsIndexed
  <2>2. /\ ValueRuns(stream) = <<>> /\ ValuePadding(stream) = <<>>
        /\ ValueNumbers(stream) = PlainNumbers(column.type, Encoded(encoder).data)
    BY <1>2 DEF ValueRuns, ValueNumbers, ValuePadding
  <2>3. PICK nums : nums = ValueNumbers(stream)
    OBVIOUS
  <2>4. Written(unset, stream) = [NoPage EXCEPT !.dictSet = encoder.dict,
                                    !.dict = encoder.entries, !.numbers = nums]
    BY <2>1, <2>2, <2>3, Zenon DEF Written, HasDict
  <2>5. QED
    BY <2>1, <2>2, <2>3, <2>4, PlainWritten, ZenonT(30)
<1>3. QED
  BY <1>1, <1>2

LEMMA ValueFields ==
    ASSUME Kind # "delta", NEW unset, NEW stream, NEW p, Filled(p, unset, stream)
    PROVE  /\ p.type = column.type /\ p.content = put /\ p.own = TRUE
           /\ p.whole = TRUE /\ p.encoding = Encoded(encoder).encoding
           /\ p.dictSet = encoder.dict /\ p.dict = encoder.entries
           /\ p.runs = ValueRuns(stream) /\ p.numbers = ValueNumbers(stream)
           /\ p.padding = ValuePadding(stream)
           /\ PageParts(p) => p \in Page
<1>1. PICK enc, nums, runs, padding :
          /\ enc = Encoded(encoder).encoding /\ nums = ValueNumbers(stream)
          /\ runs = ValueRuns(stream) /\ padding = ValuePadding(stream)
  OBVIOUS
<1>2. Written(unset, stream) =
         [NoPage EXCEPT !.encoding = enc, !.dictSet = encoder.dict,
                        !.dict = encoder.entries, !.runs = runs,
                        !.numbers = nums, !.padding = padding]
  BY <1>1, ValueWritten, Zenon
<1>3. p = [type |-> column.type, encoding |-> enc, content |-> put,
           padding |-> padding, numbers |-> nums, runs |-> runs,
           dictSet |-> encoder.dict, dict |-> encoder.entries,
           bytes |-> 0, reserved |-> 0, own |-> TRUE, whole |-> TRUE]
  BY <1>2, ZenonT(30) DEF Filled, NoPage
<1>4. /\ p.type = column.type /\ p.content = put /\ p.own = TRUE
      /\ p.whole = TRUE /\ p.encoding = enc /\ p.numbers = nums
      /\ p.runs = runs /\ p.padding = padding
      /\ p.dictSet = encoder.dict /\ p.dict = encoder.entries
  BY <1>3
<1>5. ASSUME PageParts(p) PROVE p \in Page
  <2>1. /\ column.type \in Types /\ enc \in PageEncodings
        /\ put \in Seq(Seq(Nat)) /\ nums \in Seq(Nat)
        /\ padding \in Seq(Seq(Nat)) /\ runs \in Seq(Run)
        /\ encoder.dict \in BOOLEAN /\ encoder.entries \in Seq(Seq(Nat))
    BY <1>4, <1>5, Zenon DEF PageParts
  <2>2. QED
    BY <1>3, <2>1, PageIs, Zenon
<1>6. QED
  BY <1>1, <1>4, <1>5, Zenon

LEMMA StreamIs ==
    ASSUME Kind # "delta", UsesDict(encoder), NEW stream \in StreamsOf(encoder)
    PROVE  /\ stream \in [numbers : Seq(Nat), runs : Seq(Run)]
           /\ IndexStream(stream, encoder.indices)
<1>1. IsIndexed(encoder)
  BY EncodedIs DEF IsIndexed
<1>2. stream \in Streams /\ IndexStream(stream, encoder.indices)
  BY <1>1 DEF StreamsOf
<1>3. QED
  BY <1>2, StreamAssumption

LEMMA ValueFilled ==
    ASSUME Putting, Kind # "delta", NEW unset, NEW stream \in StreamsOf(encoder),
           NEW p, Filled(p, unset, stream)
    PROVE  PageStands(p)
<1>1. /\ p.type = column.type /\ p.content = put /\ p.own = TRUE
      /\ p.whole = TRUE /\ p.encoding = Encoded(encoder).encoding
      /\ p.dictSet = encoder.dict /\ p.dict = encoder.entries
      /\ p.runs = ValueRuns(stream) /\ p.numbers = ValueNumbers(stream)
      /\ p.padding = ValuePadding(stream)
      /\ PageParts(p) => p \in Page
  BY ValueFields
<1>2. PICK T, dict : T = Seq(Nat) /\ dict = (Kind = "dict")
  OBVIOUS
<1>3. ValuesHeld(T, dict, encoder, put)
  BY <1>2, Zenon DEF Putting
<1>4. /\ encoder \in EncodersOf(T) /\ put \in Seq(T)
      /\ IF UsesDict(encoder) THEN IndicesHold(encoder, put)
         ELSE encoder.plain = put
  BY <1>3, Zenon DEF ValuesHeld
<1>5. /\ encoder.dict \in BOOLEAN /\ encoder.entries \in Seq(T)
  BY <1>4 DEF EncodersOf
<1>6. p.type \in Types /\ ValuesSized(p.type, p.content)
  BY <1>1, ColumnFacts DEF Putting
<1>7. CASE UsesDict(encoder)
  <2>1. /\ p.encoding = "RLE_DICTIONARY"
        /\ p.numbers = IndexNumbers(encoder, stream) /\ p.runs = stream.runs
        /\ p.padding = IndexPadding(encoder, stream)
    BY <1>1, <1>7, EncodedIs DEF ValueNumbers, ValueRuns, ValuePadding
  <2>2. IndexPage(p, encoder, stream)
    BY <1>1, <1>6, <2>1 DEF IndexPage
  <2>3. IndicesHold(encoder, p.content) /\ p.content \in Seq(T)
    BY <1>1, <1>4, <1>7
  <2>4. PICK most \in Nat : most = MaxValues[column.type] /\ Len(p.content) <= most
                            /\ BitWidth(FallbackThreshold + most) <= 32
    BY <1>1, ColumnFacts DEF Putting
  <2>5. PICK S : S = [numbers : Seq(Nat), runs : Seq(Run)] /\ stream \in S
                 /\ IndexStream(stream, encoder.indices)
    BY <1>7, StreamIs
  <2>6. /\ p.padding \in Seq(T) /\ Len(p.padding) < GroupSize
        /\ HeldIs(p, encoder, stream)
    BY <1>2, <1>4, <2>2, <2>3, <2>5, IndexPadded
  <2>7. /\ StandsFor(p) /\ p.numbers \in Seq(Nat) /\ p.numbers # <<>>
        /\ p.numbers[1] <= 32
    BY <1>2, <1>4, <2>2, <2>3, <2>4, <2>5, <2>6, IndexPageStands
  <2>8. p.dictSet = TRUE
    BY <1>1, <1>5, <1>7 DEF UsesDict
  <2>9. ~(p.numbers[1] > 32)
    <3>1. PICK w \in Nat : w = p.numbers[1]
      BY <2>7
    <3>2. QED
      BY <2>7, <3>1
  <2>10. OwnPage(p)
    <3>1. RepeatsComplete(p.runs)
      <4>1. \A k \in DOMAIN p.runs : Complete(p.runs[k])
        BY <2>1, <2>5, Zenon DEF IndexStream
      <4>2. QED
        BY <4>1, Zenon DEF RepeatsComplete
    <3>2. QED
      BY <1>1, <2>1, <2>6, <2>8, <2>9, <3>1 DEF OwnPage
  <2>11. p \in Page
    <3>1. p.runs \in Seq(Run)
      BY <2>1, <2>5
    <3>2. p.encoding \in PageEncodings /\ p.dict \in Seq(Seq(Nat))
          /\ p.dictSet \in BOOLEAN /\ p.content \in Seq(Seq(Nat))
          /\ p.padding \in Seq(Seq(Nat))
          /\ p.numbers \in Seq(Nat) /\ p.type \in Types
      BY <1>1, <1>2, <1>5, <1>6, <2>1, <2>3, <2>7, <2>6, EncodingNames
    <3>3. QED
      BY <1>1, <3>1, <3>2, Zenon DEF PageParts
  <2>12. QED
    BY <2>7, <2>10, <2>11 DEF PageStands
<1>8. CASE ~UsesDict(encoder)
  <2>1. /\ p.encoding = "PLAIN" /\ p.numbers = PlainNumbers(p.type, p.content)
        /\ p.runs = <<>> /\ p.padding = <<>>
    BY <1>1, <1>4, <1>8, EncodedIs DEF ValueNumbers, ValueRuns, ValuePadding
  <2>2. p.content \in Seq(Seq(Nat))
    BY <1>1, <1>2, <1>4
  <2>3. StandsFor(p)
    BY <1>1, <1>6, <2>1, <2>2, PlainPageStands
  <2>4. p.numbers \in Seq(Nat)
    BY <2>1, <2>2, PlainNumbersType
  <2>5. p \in Page
    <3>1. p.encoding \in PageEncodings /\ p.dict \in Seq(Seq(Nat))
          /\ p.dictSet \in BOOLEAN /\ p.content \in Seq(Seq(Nat))
          /\ p.numbers \in Seq(Nat) /\ p.type \in Types
      BY <1>1, <1>2, <1>5, <1>6, <2>1, <2>2, <2>4, EncodingNames
    <3>2. p.runs \in Seq(Run) /\ p.padding \in Seq(Seq(Nat))
      BY <2>1, NoPadding
    <3>3. QED
      BY <1>1, <3>1, <3>2, Zenon DEF PageParts
  <2>6. CodingOf(p) # "refused"
    BY <1>6, <2>1, PlainCodings DEF CodingOf
  <2>7. OwnPage(p)
    BY <1>1, <2>1, <2>6, NoPadding DEF OwnPage
  <2>8. QED
    BY <2>3, <2>5, <2>7 DEF PageStands
<1>9. QED
  BY <1>7, <1>8

LEMMA ForeignStands ==
    ASSUME NEW p \in Foreign
    PROVE  PageStands(p)
BY ForeignAssumption DEF PageStands

-----------------------------------------------------------------------------
(* What is so of the page that is read, in every state.                    *)
NothingRead == given = <<>> /\ first = 0 /\ ended = FALSE /\ threw = FALSE

BeingRead ==
    /\ PageStands(page) /\ PageRead(page, decoder, given, first, ended, threw)
    /\ threw \in BOOLEAN /\ ended \in BOOLEAN
    /\ threw = FALSE => Begin(page) # Refused

PageInv == IF page = NoPage THEN NothingRead ELSE BeingRead

LEMMA InitPageInv == Init => PageInv
BY DEF Init, PageInv, NothingRead

LEMMA PageInvKept ==
    ASSUME PageInv, UNCHANGED <<page, decoder, given, first, ended, threw>>
    PROVE  PageInv'
BY DEF PageInv, NothingRead, BeingRead

LEMMA PlainOpens ==
    ASSUME NEW coding \in PlainCodingNames, NEW s, NEW nums
    PROVE  Plain(coding, s, nums) # Refused
<1>1. PICK d : d = Plain(coding, s, nums)
  OBVIOUS
<1>2. d.coding = coding /\ coding # "refused"
  BY <1>1 DEF Plain, PlainCodingNames
<1>3. Refused.coding = "refused"
  BY DEF Refused
<1>4. QED
  BY <1>1, <1>2, <1>3

LEMMA PageInvOpen ==
    ASSUME NEW p, PageStands(p), Open(p)
    PROVE  PageInv'
<1>1. /\ page' = p /\ decoder' = Begin(p) /\ threw' = (Begin(p) = Refused)
      /\ given' = <<>> /\ first' = 0 /\ ended' = FALSE
  BY DEF Open, Begin
<1>2. CASE p = NoPage
  <2>1. Begin(p) # Refused
    <3>1. CodingOf(p) = "as is"
      BY <1>2 DEF NoPage, CodingOf, CodingFor, PlainCoding
    <3>2. Begin(p) = Plain("as is", SizeOf(p.type), p.numbers)
      BY <3>1, BeginIs
    <3>3. QED
      BY <3>2, PlainOpens DEF PlainCodingNames
  <2>2. QED
    BY <1>1, <1>2, <2>1 DEF PageInv, NothingRead
<1>3. CASE p # NoPage
  <2>1. p \in Page /\ StandsFor(p)
    BY DEF PageStands
  <2>2. PICK t \in BOOLEAN : t = (Begin(p) = Refused)
    OBVIOUS
  <2>3. PageRead(p, Begin(p), <<>>, 0, FALSE, t)
    BY <2>1, <2>2, PageOpened
  <2>4. PageRead(page', decoder', given', first', ended', threw')
    BY <1>1, <2>2, <2>3, Zenon
  <2>5. /\ threw' \in BOOLEAN /\ ended' \in BOOLEAN
        /\ threw' = FALSE => Begin(p) # Refused
    BY <1>1
  <2>6. BeingRead'
    BY <1>1, <2>4, <2>5, Zenon DEF BeingRead
  <2>7. QED
    BY <1>1, <1>3, <2>6, Zenon DEF PageInv
<1>4. QED
  BY <1>2, <1>3

LEMMA FlushStands ==
    ASSUME Putting, CodingInv, FlushPage
    PROVE  \E p : /\ PageStands(p) /\ Open(p) /\ p.own = TRUE
                  /\ page = NoPage /\ p.whole = TRUE
<1>1. PICK unset \in Unset, stream \in StreamsOf(encoder) :
         Open([Written(unset, stream) EXCEPT !.type = column.type, !.own = TRUE,
                                             !.content = put])
  BY DEF FlushPage
<1>2. PICK p : p = [Written(unset, stream) EXCEPT !.type = column.type,
                                                  !.own = TRUE, !.content = put]
  OBVIOUS
<1>3. Filled(p, unset, stream) /\ Open(p)
  BY <1>1, <1>2, Zenon DEF Filled
<1>4. unset \in Nat
  BY CodingAssumption
<1>5. PageStands(p)
  BY <1>3, <1>4, DeltaFilled, ValueFilled
<1>6. p.own = TRUE
  <2>1. CASE Kind = "delta"
    BY <1>2, <2>1 DEF Written, NoPage
  <2>2. CASE Kind # "delta"
    BY <1>3, <2>2, ValueFields
  <2>3. QED
    BY <2>1, <2>2
<1>7. page = NoPage
  BY DEF FlushPage
<1>8. p.whole = TRUE
  <2>1. CASE Kind = "delta"
    BY <1>2, <2>1 DEF Written, NoPage
  <2>2. CASE Kind # "delta"
    BY <1>3, <2>2, ValueFields
  <2>3. QED
    BY <2>1, <2>2
<1>9. QED
  BY <1>3, <1>5, <1>6, <1>7, <1>8

(* One batch, and what it makes of the page.                               *)
BatchOf(n, spill, b) ==
    /\ b = ReadBatch(decoder, n, spill) /\ spill \in Nat /\ n \in Nat /\ n >= 1
    /\ threw = FALSE /\ page # NoPage
    /\ decoder' = b.decoder /\ given' = given \o b.values /\ threw' = b.threw
    /\ ended' = EndedThen(ended, b, n)
    /\ first' = CountFirst(given, first, ended, b)
    /\ UNCHANGED <<column, encoder, put, page>>

LEMMA ReadIsBatch ==
    ASSUME PageInv, NEW n \in 1..MaxBatch, Read(n)
    PROVE  \E spill, b : BatchOf(n, spill, b)
<1>1. PICK spill \in Unset :
        \E batch \in {ReadBatch(decoder, n, spill)} :
              /\ decoder' = batch.decoder
              /\ given' = given \o batch.values
              /\ threw' = batch.threw
              /\ ended' = (ended \/ (~batch.threw /\ Len(batch.values) < n))
              /\ first' = IF given = <<>> /\ ~ended
                          THEN Len(batch.values) ELSE first
  BY DEF Read
<1>2. PICK b : /\ b = ReadBatch(decoder, n, spill)
               /\ decoder' = b.decoder /\ given' = given \o b.values
               /\ threw' = b.threw
               /\ ended' = EndedThen(ended, b, n)
               /\ first' = CountFirst(given, first, ended, b)
  BY <1>1, Zenon DEF EndedThen, CountFirst
<1>3. page # NoPage /\ ~threw /\ UNCHANGED <<column, encoder, put, page>>
  BY DEF Read, Reading
<1>4. threw \in BOOLEAN /\ ended \in BOOLEAN
  BY <1>3, Zenon DEF PageInv, BeingRead
<1>5. spill \in Nat /\ n \in Nat /\ n >= 1
  BY CodingAssumption
<1>6. BatchOf(n, spill, b)
  BY <1>2, <1>3, <1>4, <1>5 DEF BatchOf
<1>7. QED
  BY <1>6

BatchMade(n, b) ==
    /\ given' \in Seq(Seq(Nat)) /\ BeingRead'
    /\ Sound(page) => /\ SoundGiven(page, given, b, n, given')
                      /\ page.whole => b.threw = FALSE

LEMMA BatchMakes ==
    ASSUME PageInv, NEW n, NEW spill, NEW b, BatchOf(n, spill, b)
    PROVE  BatchMade(n, b)
<1>1. /\ b = ReadBatch(decoder, n, spill) /\ spill \in Nat /\ n \in Nat /\ n >= 1
      /\ threw = FALSE /\ page # NoPage
      /\ decoder' = b.decoder /\ given' = given \o b.values /\ threw' = b.threw
      /\ ended' = EndedThen(ended, b, n)
      /\ first' = CountFirst(given, first, ended, b)
      /\ page' = page
  BY DEF BatchOf
<1>2. BeingRead
  BY <1>1, Zenon DEF PageInv
<1>3. /\ PageStands(page) /\ page \in Page /\ StandsFor(page)
      /\ PageRead(page, decoder, given, first, ended, FALSE)
      /\ Begin(page) # Refused /\ ended \in BOOLEAN
  BY <1>1, <1>2, Zenon DEF BeingRead, PageStands
<1>4. PICK h, e, k : /\ h = given' /\ e = ended' /\ k = first'
  OBVIOUS
<1>5. /\ PageRead(page, b.decoder, h, k, e, b.threw)
      /\ b.threw \in BOOLEAN /\ h \in Seq(Seq(Nat))
      /\ Sound(page) => /\ SoundGiven(page, given, b, n, h)
                        /\ page.whole => b.threw = FALSE
  <2>1. /\ h = given \o b.values /\ e = EndedThen(ended, b, n)
        /\ k = CountFirst(given, first, ended, b)
    BY <1>1, <1>4, Zenon
  <2>2. QED
    BY <1>1, <1>3, <2>1, PageStep, ZenonT(30)
<1>6. BeingRead'
  <2>1. PageRead(page', decoder', given', first', ended', threw')
    BY <1>1, <1>4, <1>5, Zenon
  <2>2. threw' \in BOOLEAN /\ ended' \in BOOLEAN
    BY <1>1, <1>3, <1>5 DEF EndedThen
  <2>3. PageStands(page') /\ (threw' = FALSE => Begin(page') # Refused)
    BY <1>1, <1>3, Zenon
  <2>4. QED
    BY <2>1, <2>2, <2>3, Zenon DEF BeingRead
<1>7. QED
  BY <1>4, <1>5, <1>6, Zenon DEF BatchMade

LEMMA PageInvNext ==
    ASSUME PageInv, Putting, CodingInv, [Next]_vars
    PROVE  PageInv'
<1>1. ASSUME NEW n \in 1..MaxPut,
             NEW data \in [1..n -> Inputs[column.type]], PutBatch(data)
      PROVE  PageInv'
  BY <1>1, PageInvKept DEF PutBatch
<1>2. CASE FlushPage
  BY <1>2, FlushStands, PageInvOpen
<1>3. CASE ForeignPage
  <2>1. PICK p \in Foreign : Open(p)
    BY <1>3 DEF ForeignPage
  <2>2. QED
    BY <2>1, ForeignStands, PageInvOpen
<1>4. ASSUME NEW n \in 1..MaxBatch, Read(n) PROVE PageInv'
  <2>1. PICK spill, b : BatchOf(n, spill, b)
    BY <1>4, ReadIsBatch
  <2>2. page # NoPage /\ page' = page
    BY <2>1 DEF BatchOf
  <2>3. BeingRead'
    BY <2>1, BatchMakes, Zenon DEF BatchMade
  <2>4. QED
    BY <2>2, <2>3, Zenon DEF PageInv
<1>5. CASE ClosePage
  BY <1>5 DEF ClosePage, PageInv, NothingRead
<1>6. CASE UNCHANGED vars
  BY <1>6, PageInvKept DEF vars
<1>7. QED
  BY <1>1, <1>2, <1>3, <1>4, <1>5, <1>6 DEF Next

(* Whatever is put, flushed and read: the values put are those the encoder *)
(* holds, every page stands for its values, and the decoder is where the   *)
(* values given say.                                                       *)
THEOREM PuttingInvariance == Spec => []Putting
<1>1. Putting /\ [Next]_vars => Putting'
  BY PuttingNext
<1>2. QED
  BY InitPutting, <1>1, PTL DEF Spec

THEOREM PageInvariance == Spec => []PageInv
<1>1. PageInv /\ Putting /\ CodingInv /\ [Next]_vars => PageInv'
  BY PageInvNext
<1>2. QED
  BY InitPageInv, <1>1, PuttingInvariance, CodingInvariance, PTL DEF Spec

-----------------------------------------------------------------------------
(* What the first batch of a page gives.                                   *)
LEMMA SureNat ==
    ASSUME NEW p \in Page, StandsFor(p), p.whole
    PROVE  SureOf(p) \in Nat
<1>1. CASE CodingOf(p) = "DELTA_BINARY_PACKED"
  <2>1. DeltasStand(p)
    BY <1>1, StandsForIs
  <2>2. PICK values : DeltaContent(p, values)
    BY <2>1, DeltaContentIs
  <2>3. Openable(p.numbers)
    BY <2>2, Zenon DEF DeltaContent, FirstValues, Openable
  <2>4. PICK q \in Nat : q = p.numbers[1] \div p.numbers[2]
    <3>1. p.numbers \in Seq(Nat)
      BY PageFields
    <3>2. QED
      BY <2>3, <3>1, FirstNumbers, Zenon
  <2>5. Sure(p) = 1 + q
    BY <2>4 DEF Sure
  <2>6. SureOf(p) = IF NarrowDeltas(p) THEN 1 + q ELSE 1
    BY <1>1, <2>5, Zenon DEF SureOf
  <2>7. QED
    BY <2>6
<1>2. CASE CodingOf(p) # "DELTA_BINARY_PACKED"
  BY <1>2, PageFields DEF SureOf
<1>3. QED
  BY <1>1, <1>2

FirstAgrees(p, g, f) ==
    p.whole => SubSeq(g, 1, Fewer(f, SureOf(p)))
                   = SubSeq(p.content, 1, Fewer(f, SureOf(p)))

LEMMA FrontsAgree ==
    ASSUME NEW E, NEW s \in Seq(E), NEW t \in Seq(E), NEW n \in Nat,
           n <= Len(s), \A i \in 1..n : i <= Len(t) /\ s[i] = t[i]
    PROVE  SubSeq(s, 1, n) = SubSeq(t, 1, n)
<1>1. PICK k \in Nat, l \in Nat : k = Len(s) /\ l = Len(t)
  BY LenProperties
<1>2. n \in 0..k
  BY <1>1
<1>3. n \in 0..l
  <2>1. CASE n = 0
    BY <2>1
  <2>2. CASE n # 0
    <3>1. n \in 1..n
      BY <2>2
    <3>2. n <= l
      BY <1>1, <3>1
    <3>3. QED
      BY <3>2
  <2>3. QED
    BY <2>1, <2>2
<1>4. PICK a \in Seq(E) : a = SubSeq(s, 1, n) /\ Len(a) = n
                          /\ \A i \in 1..n : a[i] = s[i]
  <2>1. n \in 0..Len(s)
    BY <1>1, <1>2
  <2>2. /\ SubSeq(s, 1, n) \in Seq(E) /\ Len(SubSeq(s, 1, n)) = n
        /\ \A i \in 1..n : SubSeq(s, 1, n)[i] = s[i]
    BY <2>1, FrontFacts
  <2>3. QED
    BY <2>2
<1>5. PICK b \in Seq(E) : b = SubSeq(t, 1, n) /\ Len(b) = n
                          /\ \A i \in 1..n : b[i] = t[i]
  <2>1. n \in 0..Len(t)
    BY <1>1, <1>3
  <2>2. /\ SubSeq(t, 1, n) \in Seq(E) /\ Len(SubSeq(t, 1, n)) = n
        /\ \A i \in 1..n : SubSeq(t, 1, n)[i] = t[i]
    BY <2>1, FrontFacts
  <2>3. QED
    BY <2>2
<1>6. \A i \in 1..n : a[i] = b[i]
  BY <1>4, <1>5, Zenon
<1>7. a = b
  BY <1>4, <1>5, <1>6, SeqEqual
<1>8. QED
  BY <1>4, <1>5, <1>7

LEMMA FirstIsRight ==
    ASSUME NEW p \in Page, StandsFor(p), NEW g, NEW f, Counted(g, f),
           FirstGiven(p, g, f)
    PROVE  FirstAgrees(p, g, f)
<1>1. SUFFICES ASSUME p.whole
               PROVE  SubSeq(g, 1, Fewer(f, SureOf(p)))
                          = SubSeq(p.content, 1, Fewer(f, SureOf(p)))
  BY Zenon DEF FirstAgrees
<1>2. PICK s \in Nat : s = SureOf(p)
  BY <1>1, SureNat
<1>3. PICK T : T = Seq(Nat) /\ g \in Seq(T) /\ p.content \in Seq(T)
  BY PageFields DEF Counted
<1>4. PICK k \in Nat : k = Len(g)
  BY <1>3, LenProperties
<1>5. f \in 0..k /\ f \in Nat
  BY <1>4 DEF Counted
<1>6. PICK n \in Nat : n = Fewer(f, s) /\ n <= f /\ n <= s
  <2>1. Fewer(f, s) \in {f, s} /\ Fewer(f, s) <= f /\ Fewer(f, s) <= s
    BY <1>5, FewerFacts
  <2>2. QED
    BY <1>5, <2>1
<1>7. \A i \in 1..f : i <= s => i <= Len(p.content) /\ g[i] = p.content[i]
  BY <1>1, <1>2, Zenon DEF FirstGiven
<1>8. \A i \in 1..n : i \in 1..f /\ i <= s
  BY <1>5, <1>6
<1>9. \A i \in 1..n : i <= Len(p.content) /\ g[i] = p.content[i]
  BY <1>7, <1>8, Zenon
<1>10. n <= Len(g)
  BY <1>4, <1>5, <1>6
<1>11. SubSeq(g, 1, n) = SubSeq(p.content, 1, n)
  BY <1>3, <1>9, <1>10, FrontsAgree
<1>12. QED
  BY <1>2, <1>6, <1>11

(* A page of deltas gives as many values as it has.                        *)
ManyGiven(p, g, e, t) ==
    p.whole /\ CodingOf(p) = "DELTA_BINARY_PACKED" /\ ~t =>
        /\ Len(g) <= Len(p.content)
        /\ e => Len(g) = Len(p.content)

LEMMA ManyAreGiven ==
    ASSUME NEW p \in Page, StandsFor(p), NEW d, NEW g, NEW f, NEW e, NEW t,
           PageRead(p, d, g, f, e, t)
    PROVE  ManyGiven(p, g, e, t)
<1>1. SUFFICES ASSUME p.whole, CodingOf(p) = "DELTA_BINARY_PACKED", ~t
               PROVE  Len(g) <= Len(p.content) /\ (e => Len(g) = Len(p.content))
  BY Zenon DEF ManyGiven
<1>2. /\ Counted(g, f) /\ TypedRead(p, d, t) /\ DeltaLeft(p, d, g, e, t)
  BY Zenon DEF PageRead
<1>3. d \in DeltaDecoders(WordBits(p.type))
  BY <1>1, <1>2, DeltaNotSound DEF TypedRead, DecodersOf
<1>4. d.delta.remaining \in Nat
  BY <1>3, DeltaFields DEF DeltaDecoders
<1>5. /\ d.delta.remaining + Len(g) = p.numbers[3]
      /\ e => d.delta.remaining = 0
  BY <1>1, <1>2, Zenon DEF DeltaLeft
<1>6. p.numbers[3] = Len(p.content)
  <2>1. DeltasStand(p)
    BY <1>1, StandsForIs
  <2>2. PICK values : DeltaContent(p, values)
    BY <1>1, <2>1, DeltaContentIs
  <2>3. QED
    BY <2>2, Zenon DEF DeltaContent, FirstValues
<1>7. PICK k \in Nat : k = Len(g)
  BY <1>2, LenProperties DEF Counted
<1>8. PICK r \in Nat, l \in Nat : r = d.delta.remaining /\ l = Len(p.content)
  BY <1>4, PageFields
<1>9. r + k = l
  BY <1>5, <1>6, <1>7, <1>8, Zenon
<1>10. k <= l /\ (r = 0 => k = l)
  BY <1>9
<1>11. QED
  BY <1>5, <1>7, <1>8, <1>10, Zenon

FirstRoundOf(p, g, f, e, t) == FirstAgrees(p, g, f) /\ ManyGiven(p, g, e, t)

LEMMA FirstRoundSo ==
    ASSUME FirstRoundOf(page, given, first, ended, threw)
    PROVE  FirstRoundRight
<1>1. PICK coding : coding = CodingFor(page.type, page.encoding)
  OBVIOUS
<1>2. CodingOf(page) = coding
  BY <1>1 DEF CodingOf
<1>3. PICK sure : sure = SureOf(page)
  OBVIOUS
<1>4. sure = IF coding = "DELTA_BINARY_PACKED"
             THEN IF NarrowDeltas(page) THEN Sure(page) ELSE 1
             ELSE IF coding = "DELTA_BYTE_ARRAY" /\ LengthsSure(page)
                  THEN Len(page.content) ELSE 0
  BY <1>2, <1>3, Zenon DEF SureOf
<1>5. page.whole =>
        /\ SubSeq(given, 1, Fewer(first, sure))
               = SubSeq(page.content, 1, Fewer(first, sure))
        /\ coding = "DELTA_BINARY_PACKED" /\ ~threw =>
              /\ Len(given) <= Len(page.content)
              /\ ended => Len(given) = Len(page.content)
  BY <1>2, <1>3, Zenon DEF FirstRoundOf, FirstAgrees, ManyGiven
<1>6. (IF coding = "DELTA_BINARY_PACKED"
       THEN IF NarrowDeltas(page) THEN Sure(page) ELSE 1
       ELSE IF coding = "DELTA_BYTE_ARRAY" /\ LengthsSure(page)
            THEN Len(page.content) ELSE 0) = sure
  BY <1>4
<1>7. QED
  BY <1>1, <1>5, <1>6 DEF FirstRoundRight

LEMMA NoPageFirst ==
    ASSUME page = NoPage, NothingRead
    PROVE  FirstRoundRight
<1>1. /\ page.type = "INT32" /\ page.encoding = "PLAIN" /\ page.content = <<>>
      /\ given = <<>> /\ first = 0
  BY DEF NoPage, NothingRead
<1>2. CodingFor(page.type, page.encoding) = "as is"
  BY <1>1 DEF CodingFor, PlainCoding
<1>3. Fewer(first, 0) = 0
  BY <1>1 DEF Fewer
<1>4. QED
  BY <1>1, <1>2, <1>3 DEF FirstRoundRight

LEMMA PageInvFirst == PageInv => FirstRoundRight
<1>1. ASSUME PageInv, page # NoPage PROVE FirstRoundRight
  <2>1. /\ page \in Page /\ StandsFor(page)
        /\ PageRead(page, decoder, given, first, ended, threw)
    BY <1>1, Zenon DEF PageInv, BeingRead, PageStands
  <2>2. Counted(given, first) /\ FirstGiven(page, given, first)
    BY <2>1, Zenon DEF PageRead
  <2>3. FirstAgrees(page, given, first)
    BY <2>1, <2>2, FirstIsRight
  <2>4. ManyGiven(page, given, ended, threw)
    BY <2>1, ManyAreGiven
  <2>5. FirstRoundOf(page, given, first, ended, threw)
    BY <2>3, <2>4 DEF FirstRoundOf
  <2>6. QED
    BY <2>5, FirstRoundSo
<1>2. QED
  BY <1>1, NoPageFirst, Zenon DEF PageInv

(* Whatever the page and its batches: the first batch is right in the      *)
(* values of the first round of the delta decoder, and a delta page gives  *)
(* no more values than it has, and all of them.                            *)
THEOREM FirstRoundRightHolds == Spec => []FirstRoundRight
BY PageInvariance, PageInvFirst, PTL

-----------------------------------------------------------------------------
(* value_decoder as a reader of batches.                                   *)
SoundPage(p) == p.whole /\ InBatches(p)

LEMMA ResetReads ==
    ASSUME NEW p, Held(p) \in Seq(Seq(Nat)), page' = p, given' = <<>>
    PROVE  Reader!Next
<1>1. Held(page') \in Seq(Seq(Nat))
  OBVIOUS
<1>2. (page'.whole /\ InBatches(page')) \in BOOLEAN
  OBVIOUS
<1>3. Reader!Reset
  BY <1>1, <1>2, Zenon DEF Reader!Reset
<1>4. QED
  BY <1>3, Zenon DEF Reader!Next

LEMMA SoundInBatches ==
    ASSUME NEW p, SoundPage(p)
    PROVE  Sound(p) /\ p.whole
BY DEF SoundPage, Sound

LEMMA LeastIsFewer ==
    ASSUME NEW a, NEW b PROVE Reader!Least(a, b) = Fewer(a, b)
BY DEF Reader!Least, Fewer

LEMMA BatchReads ==
    ASSUME NEW n \in 1..MaxBatch, NEW b, BatchMade(n, b), page' = page
    PROVE  Reader!Next
<1>1. given' \in Seq(Seq(Nat))
  BY Zenon DEF BatchMade
<1>2. ASSUME page.whole /\ InBatches(page)
      PROVE  given' = SubSeq(Held(page), 1,
                             Reader!Least(Len(given) + n, Len(Held(page))))
  <2>1. Sound(page) /\ page.whole
    BY <1>2, SoundInBatches, Zenon DEF SoundPage
  <2>2. given' = SubSeq(Held(page), 1, Fewer(Len(given) + n, Len(Held(page))))
    BY <2>1, Zenon DEF BatchMade, SoundGiven
  <2>3. QED
    BY <2>2, LeastIsFewer
<1>3. Reader!Read(n)
  <2>1. /\ Held(page') = Held(page)
        /\ (page'.whole /\ InBatches(page')) = (page.whole /\ InBatches(page))
    OBVIOUS
  <2>2. QED
    BY <1>1, <1>2, <2>1, Zenon DEF Reader!Read
<1>4. QED
  BY <1>3, Zenon DEF Reader!Next

LEMMA PageKeptReads ==
    ASSUME page' = page, given' = given
    PROVE  UNCHANGED Reader!vars
BY DEF Reader!vars

LEMMA NoPageHeld == Held(NoPage) = <<>> /\ Held(NoPage) \in Seq(Seq(Nat))
<1>1. NoPage.content = <<>> /\ NoPage.padding = <<>>
  BY DEF NoPage
<1>2. Held(NoPage) = <<>>
  BY <1>1 DEF Held
<1>3. QED
  BY <1>2, EmptySeq

LEMMA InitReads == Init => Reader!Init
<1>1. SUFFICES ASSUME Init PROVE Reader!Init
  OBVIOUS
<1>2. page = NoPage /\ given = <<>>
  BY <1>1 DEF Init
<1>3. Held(page) \in Seq(Seq(Nat))
  BY <1>2, NoPageHeld
<1>4. (page.whole /\ InBatches(page)) \in BOOLEAN
  OBVIOUS
<1>5. QED
  BY <1>2, <1>3, <1>4, Zenon DEF Reader!Init

LEMMA OpenReads ==
    ASSUME NEW p, PageStands(p), Open(p)
    PROVE  Reader!Next
<1>1. Held(p) \in Seq(Seq(Nat))
  BY PageFields DEF PageStands
<1>2. page' = p /\ given' = <<>>
  BY DEF Open
<1>3. QED
  BY <1>1, <1>2, ResetReads

LEMMA NextReads ==
    ASSUME PageInv, Putting, CodingInv, [Next]_vars
    PROVE  [Reader!Next]_(Reader!vars)
<1> SUFFICES Reader!Next \/ UNCHANGED Reader!vars
  OBVIOUS
<1>1. ASSUME NEW n \in 1..MaxPut,
             NEW data \in [1..n -> Inputs[column.type]], PutBatch(data)
      PROVE  UNCHANGED Reader!vars
  BY <1>1, PageKeptReads DEF PutBatch
<1>2. CASE FlushPage
  <2>1. PICK p : PageStands(p) /\ Open(p)
    BY <1>2, FlushStands
  <2>2. QED
    BY <2>1, OpenReads
<1>3. CASE ForeignPage
  <2>1. PICK p \in Foreign : Open(p)
    BY <1>3 DEF ForeignPage
  <2>2. QED
    BY <2>1, ForeignStands, OpenReads
<1>4. ASSUME NEW n \in 1..MaxBatch, Read(n) PROVE Reader!Next
  <2>1. PICK spill, b : BatchOf(n, spill, b)
    BY <1>4, ReadIsBatch
  <2>2. BatchMade(n, b) /\ page' = page
    BY <2>1, BatchMakes DEF BatchOf
  <2>3. QED
    BY <2>2, BatchReads
<1>5. CASE ClosePage
  <2>1. page' = NoPage /\ given' = <<>>
    BY <1>5 DEF ClosePage
  <2>2. QED
    BY <2>1, NoPageHeld, ResetReads
<1>6. CASE UNCHANGED vars
  BY <1>6, PageKeptReads DEF vars
<1>7. QED
  BY <1>1, <1>2, <1>3, <1>4, <1>5, <1>6 DEF Next

LEMMA EndIsEnd == PageInv => EndsAtEnd
<1>1. ASSUME PageInv, page.whole, InBatches(page), ended PROVE given = Held(page)
  <2>1. page # NoPage
    <3>1. ASSUME page = NoPage PROVE FALSE
      BY <1>1, <3>1, Zenon DEF PageInv, NothingRead
    <3>2. QED
      BY <3>1
  <2>2. SoundRead(page, decoder, given, ended, threw)
    BY <1>1, <2>1, Zenon DEF PageInv, BeingRead, PageRead
  <2>3. Sound(page)
    BY <1>1, Zenon DEF Sound
  <2>4. PICK at : IsAt(page, at, decoder, given, ended, threw)
    BY <2>2, <2>3, Zenon DEF SoundRead
  <2>5. QED
    BY <1>1, <2>4, Zenon DEF IsAt
<1>2. QED
  BY <1>1, Zenon DEF EndsAtEnd

(* value_decoder implements a reader of batches: in the codings that every *)
(* sequence of batches reads, each batch of a whole page gives the values  *)
(* that come next, and all that are asked for while the page has them or   *)
(* what fills up its last group; a batch is short only at the end of both. *)
THEOREM DecoderReadsInBatches == Spec => ReadsInBatches
<1>1. PageInv /\ Putting /\ CodingInv /\ [Next]_vars
          => [Reader!Next]_(Reader!vars)
  BY NextReads
<1>2. PageInv => EndsAtEnd
  BY EndIsEnd
<1>3. QED
  BY InitReads, <1>1, <1>2, PageInvariance, PuttingInvariance, CodingInvariance,
     PTL DEF Spec, ReadsInBatches, Reader!Spec

-----------------------------------------------------------------------------
(* Where the decoder of deltas is in a page of this library's: how many    *)
(* deltas it has taken, and what of the numbers is behind it.              *)
BlocksIn(q, at, k) ==
    /\ q \in Seq(Nat) /\ Headed(q) /\ Len(q) \in Nat /\ Len(q) >= 4
    /\ at[0] = 5 /\ at[k] = Len(q) + 1
    /\ \A j \in 0..k : at[j] \in Nat /\ at[j] >= 5 /\ at[j] <= Len(q) + 1
    /\ \A j \in 1..k : at[j] = BlockEnd(q, at[j - 1])

LEMMA BlocksAre ==
    ASSUME NEW bits, NEW q, NEW at, NEW k, NEW vs, BlocksStand(bits, q, at, k, vs)
    PROVE  BlocksIn(q, at, k)
<1>1. q \in Seq(Nat)
  BY DEF BlocksStand
<1>2. Len(q) \in Nat
  BY <1>1, LenProperties
<1>3. QED
  BY <1>1, <1>2, Zenon DEF BlocksStand, BlocksIn

Between(q, place, d) ==
    d.idx = Miniblocks /\ d.current = 0 /\ d.rest = Skipped(q, place - 1)

PassedOf(q, place, b, d) ==
    BlockOf(q, place, b) - 1 + (IF d.width = 0 THEN 0 ELSE PerMiniblock - d.current)

Inside(q, place, b, d) ==
    /\ d.idx = b /\ d.current <= PerMiniblock /\ d.width = q[place + b]
    /\ b < Miniblocks => \A i \in 1..Miniblocks : d.widths[i] = q[place + i]
    /\ d.rest = Skipped(q, PassedOf(q, place, b, d))

IsBetween(q, at, k, c, d) ==
    \E j \in 0..k : Between(q, at[j], d) /\ c = BlockValues * j

IsInside(q, at, k, c, d) ==
    \E j \in 0..(k - 1) : \E b \in 1..Miniblocks :
        Inside(q, at[j], b, d) /\ c + d.current = BlockValues * j + PerMiniblock * b

AtDelta(q, at, k, c, d) == IsBetween(q, at, k, c, d) \/ IsInside(q, at, k, c, d)

(* A block and its miniblocks are within the numbers.                      *)
BlockFits(q, place) ==
    /\ place \in Nat /\ place >= 5
    /\ BlockEnd(q, place) \in Nat /\ BlockEnd(q, place) <= Len(q) + 1

LEMMA BlockHere ==
    ASSUME NEW q, NEW at, NEW k \in Nat, BlocksIn(q, at, k), NEW j \in 0..(k - 1)
    PROVE  BlockFits(q, at[j]) /\ at[j + 1] = BlockEnd(q, at[j])
<1>1. j \in 0..k /\ j + 1 \in 0..k /\ j + 1 \in 1..k /\ (j + 1) - 1 = j
  OBVIOUS
<1>2. at[j + 1] = BlockEnd(q, at[j])
  BY <1>1 DEF BlocksIn
<1>3. QED
  BY <1>1, <1>2, Zenon DEF BlocksIn, BlockFits

MiniFits(q, place, b, x, y) ==
    /\ x = BlockOf(q, place, b) /\ y = BlockOf(q, place, b + 1)
    /\ place + Miniblocks + 1 <= x /\ y <= Len(q) + 1
    /\ y = x + (IF q[place + b] = 0 THEN 0 ELSE PerMiniblock)
    /\ q[place + b] \in Nat

LEMMA MiniHere ==
    ASSUME NEW q \in Seq(Nat), Headed(q), NEW place, BlockFits(q, place),
           NEW b \in 1..Miniblocks
    PROVE  \E x \in Nat, y \in Nat : MiniFits(q, place, b, x, y)
<1>1. PICK m \in Nat, p \in Nat :
        m = Miniblocks /\ p = PerMiniblock /\ m >= 1 /\ p >= 1
  BY DeltaConstants
<1>2. PICK a \in Nat, l \in Nat : a = place /\ l = Len(q)
  BY LenProperties DEF BlockFits
<1>3. b \in 1..m /\ b \in Nat /\ b >= 1 /\ b \in 1..(m + 1) /\ b + 1 \in 1..(m + 1)
  BY <1>1
<1>4. PICK used : used = UsedIn(q, a)
  OBVIOUS
<1>5. /\ BlockOf(q, a, b) = a + m + 1 + p * Before(used, b)
      /\ BlockOf(q, a, b + 1) = a + m + 1 + p * Before(used, b + 1)
      /\ BlockOf(q, a, b) \in Nat /\ BlockOf(q, a, b) >= a + m + 1
      /\ BlockOf(q, a, b + 1) \in Nat /\ BlockOf(q, a, b + 1) <= BlockEnd(q, a)
  <2>1. b \in 1..(Miniblocks + 1) /\ b + 1 \in 1..(Miniblocks + 1)
    BY <1>1, <1>3
  <2>2. /\ BlockOf(q, a, b) = a + Miniblocks + 1 + PerMiniblock * Before(used, b)
        /\ BlockOf(q, a, b) \in Nat /\ BlockOf(q, a, b) >= a + Miniblocks + 1
    BY <1>4, <2>1, BlockOfIs
  <2>3. /\ BlockOf(q, a, b + 1)
              = a + Miniblocks + 1 + PerMiniblock * Before(used, b + 1)
        /\ BlockOf(q, a, b + 1) \in Nat /\ BlockOf(q, a, b + 1) <= BlockEnd(q, a)
    BY <1>4, <2>1, BlockOfIs
  <2>4. QED
    BY <1>1, <2>2, <2>3, Zenon
<1>6. PICK x \in Nat, y \in Nat : x = BlockOf(q, a, b) /\ y = BlockOf(q, a, b + 1)
  BY <1>5
<1>7. PICK n \in Nat : n = Before(used, b)
  BY <1>3, BeforeFacts
<1>8. Before(used, b + 1) = IF b \in used THEN n + 1 ELSE n
  BY <1>3, <1>7, BeforeFacts
<1>9. b \in used <=> q[a + b] # 0
  BY <1>1, <1>3, <1>4 DEF UsedIn
<1>10. y = x + (IF q[a + b] = 0 THEN 0 ELSE p)
  <2>1. PICK z \in Nat : z = p * n
    OBVIOUS
  <2>2. p * (n + 1) = z + p
    BY <2>1
  <2>3. x = a + m + 1 + z
    BY <1>5, <1>6, <1>7, <2>1, Zenon
  <2>4. CASE q[a + b] = 0
    <3>1. y = a + m + 1 + z
      BY <1>5, <1>6, <1>8, <1>9, <2>1, <2>4, Zenon
    <3>2. QED
      BY <2>3, <2>4, <3>1
  <2>5. CASE q[a + b] # 0
    <3>1. y = a + m + 1 + (z + p)
      BY <1>5, <1>6, <1>8, <1>9, <2>2, <2>5, Zenon
    <3>2. QED
      BY <2>3, <2>5, <3>1
  <2>6. QED
    BY <2>4, <2>5
<1>11. y <= l + 1 /\ a + m + 1 <= x
  <2>1. PICK e \in Nat : e = BlockEnd(q, a) /\ e <= l + 1
    BY <1>2 DEF BlockFits
  <2>2. y <= e /\ x >= a + m + 1
    BY <1>5, <1>6, <2>1
  <2>3. QED
    BY <2>1, <2>2
<1>12. q[a + b] \in Nat
  <2>1. a + b \in 1..l
    <3>1. PICK e \in Nat : e = BlockEnd(q, a) /\ e <= l + 1
      BY <1>2 DEF BlockFits
    <3>2. BlockOf(q, a, b) <= e
      <4>1. b \in 1..(Miniblocks + 1)
        BY <1>1, <1>3
      <4>2. QED
        BY <3>1, <4>1, BlockOfIs
    <3>3. x <= e /\ a + m + 1 <= x
      BY <1>6, <1>11, <3>2
    <3>4. QED
      BY <1>3, <3>1, <3>3
  <2>2. QED
    BY <1>2, <2>1, ElementOfSeq
<1>13. MiniFits(q, place, b, x, y)
  BY <1>1, <1>2, <1>6, <1>10, <1>11, <1>12, Zenon DEF MiniFits
<1>14. QED
  BY <1>13

(* The numbers of the miniblock are there.                                 *)
LEMMA RoomIn ==
    ASSUME NEW bits, NEW d \in DeltaRecords(bits), NEW q, NEW at, NEW k \in Nat,
           BlocksIn(q, at, k), NEW c, AtDelta(q, at, k, c, d),
           NEW n \in Nat, n <= d.current
    PROVE  ~ShortOf(d, n)
<1>1. PICK rest \in Seq(Nat), l \in Nat, w \in Nat, current \in Nat :
        rest = d.rest /\ l = Len(rest) /\ w = d.width /\ current = d.current
  <2>1. Len(d.rest) \in Nat
    BY DeltaFields, LenProperties
  <2>2. QED
    BY <2>1, DeltaFields
<1>2. CASE current = 0
  BY <1>1, <1>2 DEF ShortOf
<1>3. CASE w = 0
  BY <1>1, <1>3 DEF ShortOf
<1>4. CASE current # 0 /\ w # 0
  <2>1. IsInside(q, at, k, c, d)
    BY <1>1, <1>4 DEF AtDelta, IsBetween, Between
  <2>2. PICK j \in 0..(k - 1), b \in 1..Miniblocks : Inside(q, at[j], b, d)
    BY <2>1 DEF IsInside
  <2>3. BlockFits(q, at[j]) /\ q \in Seq(Nat) /\ Headed(q)
    BY BlockHere DEF BlocksIn
  <2>4. PICK x \in Nat, y \in Nat : MiniFits(q, at[j], b, x, y)
    BY <2>3, MiniHere
  <2>5. PICK p \in Nat, s \in Nat, a \in Nat :
          p = PerMiniblock /\ s = Len(q) /\ a = at[j] /\ a >= 5
    BY <2>3, DeltaConstants, LenProperties DEF BlockFits
  <2>6. /\ current <= p /\ w = q[a + b]
        /\ rest = Skipped(q, x - 1 + (p - current))
    <3>1. d.width # 0
      BY <1>1, <1>4
    <3>2. x = BlockOf(q, at[j], b)
      BY <2>4 DEF MiniFits
    <3>3. QED
      BY <1>1, <2>2, <2>5, <3>1, <3>2, Zenon DEF Inside, PassedOf
  <2>7. y = x + p /\ y <= s + 1 /\ x >= 1
    <3>1. /\ y = x + (IF q[a + b] = 0 THEN 0 ELSE p) /\ y <= s + 1
          /\ a + Miniblocks + 1 <= x
      BY <2>4, <2>5, Zenon DEF MiniFits
    <3>2. q[a + b] # 0
      BY <1>4, <2>6
    <3>3. QED
      BY <2>5, <3>1, <3>2, DeltaConstants
  <2>8. PICK z \in Nat : z = x - 1 + (p - current) /\ z + current <= s
    BY <2>6, <2>7
  <2>9. l = s - z
    <3>1. z \in 0..Len(q)
      BY <2>5, <2>8
    <3>2. Len(Skipped(q, z)) = Len(q) - z
      BY <2>3, <3>1, SkipFacts
    <3>3. QED
      BY <1>1, <2>5, <2>6, <2>8, <3>2
  <2>10. n <= l
    BY <1>1, <2>8, <2>9, SMTT(30)
  <2>11. QED
    BY <1>1, <2>10 DEF ShortOf
<1>5. QED
  BY <1>2, <1>3, <1>4

-----------------------------------------------------------------------------
(* The steps of a round, from such a place.                                *)
OfPage(d) == d.failed = FALSE /\ d.minis = Miniblocks /\ d.perMini = PerMiniblock

(* Behind the last miniblock of a block is the next block.                 *)
SkippedNumbers(q, k) ==
    /\ Skipped(q, k) \in Seq(Nat) /\ Len(Skipped(q, k)) = Len(q) - k
    /\ \A i \in 1..(Len(q) - k) : Skipped(q, k)[i] = q[k + i]

LEMMA NumbersSkipped ==
    ASSUME NEW q \in Seq(Nat), NEW k \in 0..Len(q)
    PROVE  SkippedNumbers(q, k)
BY SkipFacts DEF SkippedNumbers

LEMMA AtBlockEnd ==
    ASSUME NEW bits, NEW d \in DeltaRecords(bits), NEW q, NEW at, NEW k \in Nat,
           BlocksIn(q, at, k), NEW c, c \in Nat, AtDelta(q, at, k, c, d),
           d.current = 0, d.idx = Miniblocks
    PROVE  IsBetween(q, at, k, c, d)
<1>1. CASE IsInside(q, at, k, c, d)
  <2>1. PICK j \in 0..(k - 1), b \in 1..Miniblocks :
          Inside(q, at[j], b, d) /\ c + d.current = BlockValues * j + PerMiniblock * b
    BY <1>1 DEF IsInside
  <2>2. PICK m \in Nat, p \in Nat, v \in Nat :
          m = Miniblocks /\ p = PerMiniblock /\ m >= 1 /\ v = BlockValues /\ v = m * p
    BY DeltaConstants
  <2>3. b = m /\ b \in Nat
    BY <2>1, <2>2 DEF Inside
  <2>4. BlockFits(q, at[j]) /\ at[j + 1] = BlockEnd(q, at[j])
    BY BlockHere
  <2>5. PICK x \in Nat, y \in Nat : MiniFits(q, at[j], b, x, y)
    BY <2>4, MiniHere DEF BlocksIn
  <2>6. y = at[j + 1]
    BY <2>2, <2>3, <2>4, <2>5 DEF MiniFits, BlockEnd
  <2>7. d.rest = Skipped(q, x - 1 + (IF d.width = 0 THEN 0 ELSE p - 0))
    BY <2>1, <2>2, <2>5, Zenon DEF Inside, PassedOf, MiniFits
  <2>8. y = x + (IF d.width = 0 THEN 0 ELSE p)
    BY <2>1, <2>2, <2>5, Zenon DEF Inside, MiniFits
  <2>9. x - 1 + (IF d.width = 0 THEN 0 ELSE p - 0) = y - 1
    BY <2>8
  <2>10. Between(q, at[j + 1], d)
    BY <2>6, <2>7, <2>9, Zenon DEF Between
  <2>11. c = BlockValues * (j + 1) /\ j + 1 \in 0..k
    <3>1. c = v * j + p * m
      BY <2>1, <2>2, <2>3
    <3>2. v * (j + 1) = v * j + v /\ p * m = m * p
      BY <2>2
    <3>3. QED
      BY <2>2, <3>1, <3>2
  <2>12. QED
    BY <2>10, <2>11 DEF IsBetween
<1>2. QED
  BY <1>1 DEF AtDelta

NextFine(q, at, k, c, e) == e.failed = FALSE /\ AtDelta(q, at, k, c, e)

LEMMA BlockBegins ==
    ASSUME NEW bits, NEW g \in DeltaRecords(bits), OfPage(g), NEW e, NextIs(g, e),
           NEW q, NEW at, NEW k \in Nat, BlocksIn(q, at, k), NEW c \in Nat,
           g.current = 0, g.idx = Miniblocks, IsBetween(q, at, k, c, g),
           c < BlockValues * k
    PROVE  NextFine(q, at, k, c, e)
<1>1. PICK j \in 0..k : Between(q, at[j], g) /\ c = BlockValues * j
  BY DEF IsBetween
<1>2. PICK m \in Nat, p \in Nat, v \in Nat :
        /\ m = Miniblocks /\ p = PerMiniblock /\ m >= 1 /\ v = BlockValues
        /\ p >= 1
  BY DeltaConstants
<1>3. j \in 0..(k - 1) /\ j \in Nat
  <2>1. v * j < v * k
    BY <1>1, <1>2
  <2>2. j # k
    BY <2>1
  <2>3. QED
    BY <2>2
<1>4. BlockFits(q, at[j]) /\ q \in Seq(Nat) /\ Headed(q)
  BY <1>3, BlockHere DEF BlocksIn
<1>5. 1 \in 1..Miniblocks
  BY <1>2
<1>6. PICK x \in Nat, y \in Nat : MiniFits(q, at[j], 1, x, y)
  BY <1>4, <1>5, MiniHere
<1>7. PICK a \in Nat, l \in Nat, z \in Nat :
        a = at[j] /\ l = Len(q) /\ a >= 5 /\ z = BlockEnd(q, a) /\ z <= l + 1
  BY <1>4, LenProperties DEF BlockFits
<1>8. a + m + 1 <= z /\ x = a + m + 1
  <2>1. 1 \in 1..(Miniblocks + 1) /\ Miniblocks + 1 \in 1..(Miniblocks + 1)
    BY <1>2
  <2>2. BlockOf(q, a, Miniblocks + 1) >= a + Miniblocks + 1
    BY <1>4, <2>1, BlockOfIs
  <2>3. BlockOf(q, a, 1) = a + Miniblocks + 1 + PerMiniblock * Before(UsedIn(q, a), 1)
    BY <1>4, <2>1, BlockOfIs
  <2>4. Before(UsedIn(q, a), 1) = 0
    BY BeforeFacts
  <2>5. QED
    BY <1>2, <1>6, <1>7, <2>2, <2>3, <2>4, SMTT(30) DEF BlockEnd, MiniFits
<1>9. g.rest = Skipped(q, a - 1) /\ g.rest \in Seq(Nat) /\ Len(g.rest) = l - (a - 1)
      /\ \A i \in 1..(l - (a - 1)) : g.rest[i] = q[(a - 1) + i]
  <2>1. a - 1 \in 0..Len(q)
    BY <1>7, <1>8, SMTT(30)
  <2>2. g.rest = Skipped(q, a - 1)
    BY <1>1, <1>7, Zenon DEF Between
  <2>3. /\ Skipped(q, a - 1) \in Seq(Nat) /\ Len(Skipped(q, a - 1)) = Len(q) - (a - 1)
        /\ \A i \in 1..(Len(q) - (a - 1)) : Skipped(q, a - 1)[i] = q[(a - 1) + i]
    <3>1. q \in Seq(Nat)
      BY <1>4
    <3>2. SkippedNumbers(q, a - 1)
      BY <2>1, <3>1, NumbersSkipped
    <3>3. QED
      BY <3>2, Zenon DEF SkippedNumbers
  <2>4. Len(q) - (a - 1) = l - (a - 1)
    BY <1>7, Zenon
  <2>5. QED
    BY <2>2, <2>3, <2>4, Zenon
<1>10. 1 + m <= Len(g.rest)
  <2>1. 1 + m <= l - (a - 1)
    BY <1>7, <1>8, SMTT(30)
  <2>2. QED
    BY <1>9, <2>1, Zenon
<1>11. e.failed = FALSE /\ BlockStarted(g, e)
  <2>1. g.minis = m
    BY <1>2 DEF OfPage
  <2>2. ~(Len(g.rest) < 1 + g.minis) /\ ~(g.current > 0) /\ g.idx = g.minis
    BY <1>2, <1>7, <1>9, <1>10, <2>1
  <2>3. e.failed \in BOOLEAN /\ ~e.failed
    BY <2>2 DEF NextIs
  <2>4. QED
    BY <2>2, <2>3, Zenon DEF NextIs
<1>12. /\ e.idx = 1 /\ e.current = p /\ e.width = g.rest[2]
       /\ e.widths = SubSeq(g.rest, 2, 1 + m) /\ e.rest = Skipped(g.rest, 1 + m)
  BY <1>2, <1>11, Zenon DEF BlockStarted, OfPage
<1>13. \A i \in 1..m : e.widths[i] = q[a + i]
  <2>1. \A i \in 1..m : SubSeq(g.rest, 1 + 1, 1 + m)[i] = g.rest[1 + i]
    BY <1>9, <1>10, PartFacts
  <2>2. ASSUME NEW i \in 1..m PROVE e.widths[i] = q[a + i]
    <3>1. 1 + i \in 1..(l - (a - 1)) /\ (a - 1) + (1 + i) = a + i
      BY <1>7, <1>8, SMTT(30)
    <3>2. g.rest[1 + i] = q[a + i]
      BY <1>9, <3>1
    <3>3. 1 + 1 = 2
      OBVIOUS
    <3>4. e.widths[i] = g.rest[1 + i]
      <4>1. e.widths = SubSeq(g.rest, 1 + 1, 1 + m)
        BY <1>12, <3>3, Zenon
      <4>2. QED
        BY <2>1, <4>1, Zenon
    <3>5. QED
      BY <3>2, <3>4, Zenon
  <2>3. QED
    BY <2>2
<1>14. e.width = q[a + 1]
  <2>1. PICK r \in Nat : r = l - (a - 1) /\ 2 <= r
    <3>1. a + m <= l
      BY <1>7, <1>8
    <3>2. QED
      BY <1>2, <1>7, <3>1
  <2>2. 2 \in 1..r /\ (a - 1) + 2 = a + 1
    BY <2>1
  <2>3. QED
    BY <1>9, <1>12, <2>1, <2>2, Zenon
<1>15. e.rest = Skipped(q, a + m)
  <2>1. (a - 1) + (1 + m) = a + m /\ a - 1 \in Nat /\ 1 + m \in Nat
        /\ (a - 1) + (1 + m) <= Len(q)
    BY <1>7, <1>8, SMTT(30)
  <2>2. Skipped(Skipped(q, a - 1), 1 + m) = Skipped(q, (a - 1) + (1 + m))
    BY <1>4, <2>1, SkipSkip
  <2>3. QED
    BY <1>9, <1>12, <2>1, <2>2
<1>16. PassedOf(q, a, 1, e) = a + m
  <2>1. PassedOf(q, a, 1, e) = x - 1 + (IF e.width = 0 THEN 0 ELSE p - p)
    BY <1>2, <1>6, <1>7, <1>12, Zenon DEF PassedOf, MiniFits
  <2>2. QED
    BY <1>8, <2>1
<1>17. Inside(q, a, 1, e)
  <2>1. p <= p
    OBVIOUS
  <2>2. QED
    BY <1>2, <1>12, <1>13, <1>14, <1>15, <1>16, <2>1, Zenon DEF Inside
<1>18. c + e.current = BlockValues * j + PerMiniblock * 1
  BY <1>1, <1>2, <1>12
<1>19. IsInside(q, at, k, c, e)
  BY <1>3, <1>5, <1>7, <1>17, <1>18 DEF IsInside
<1>20. QED
  BY <1>11, <1>19, Zenon DEF NextFine, AtDelta

LEMMA MiniblockBegins ==
    ASSUME NEW bits, NEW g \in DeltaRecords(bits), OfPage(g), NEW e, NextIs(g, e),
           NEW q, NEW at, NEW k \in Nat, BlocksIn(q, at, k), NEW c \in Nat,
           g.current = 0, g.idx # Miniblocks, AtDelta(q, at, k, c, g)
    PROVE  NextFine(q, at, k, c, e)
<1>1. IsInside(q, at, k, c, g)
  BY DEF AtDelta, IsBetween, Between
<1>2. PICK j \in 0..(k - 1), b \in 1..Miniblocks :
        Inside(q, at[j], b, g) /\ c + g.current = BlockValues * j + PerMiniblock * b
  BY <1>1 DEF IsInside
<1>3. PICK m \in Nat, p \in Nat, v \in Nat :
        /\ m = Miniblocks /\ p = PerMiniblock /\ m >= 1 /\ v = BlockValues
        /\ p >= 1
  BY DeltaConstants
<1>4. /\ b \in Nat /\ b < m /\ b + 1 \in 1..m /\ j \in Nat /\ b \in 1..m
      /\ g.idx = b
  BY <1>2, <1>3 DEF Inside
<1>5. BlockFits(q, at[j]) /\ q \in Seq(Nat) /\ Headed(q)
  BY BlockHere DEF BlocksIn
<1>6. PICK x \in Nat, y \in Nat : MiniFits(q, at[j], b, x, y)
  BY <1>5, MiniHere
<1>7. PICK a \in Nat : a = at[j]
  BY <1>5 DEF BlockFits
<1>8. e.failed = FALSE /\ MiniblockStarted(g, e)
  <2>1. g.idx # g.minis /\ ~(g.current > 0)
    BY DEF OfPage
  <2>2. e.failed \in BOOLEAN /\ ~e.failed
    BY <2>1 DEF NextIs
  <2>3. QED
    BY <2>1, <2>2, Zenon DEF NextIs
<1>9. /\ e.widths = g.widths /\ e.rest = g.rest /\ e.width = g.widths[b + 1]
      /\ e.idx = b + 1 /\ e.current = p
  BY <1>3, <1>4, <1>8, Zenon DEF MiniblockStarted, OfPage
<1>10. \A i \in 1..m : g.widths[i] = q[a + i]
  BY <1>2, <1>3, <1>4, <1>7, Zenon DEF Inside
<1>11. e.width = q[a + (b + 1)] /\ \A i \in 1..m : e.widths[i] = q[a + i]
  BY <1>4, <1>9, <1>10
<1>12. g.rest = Skipped(q, y - 1)
  <2>1. g.rest = Skipped(q, x - 1 + (IF g.width = 0 THEN 0 ELSE p - 0))
    BY <1>2, <1>3, <1>6, Zenon DEF Inside, PassedOf, MiniFits
  <2>2. y = x + (IF g.width = 0 THEN 0 ELSE p)
    BY <1>2, <1>3, <1>6, Zenon DEF Inside, MiniFits
  <2>3. x - 1 + (IF g.width = 0 THEN 0 ELSE p - 0) = y - 1
    BY <2>2
  <2>4. QED
    BY <2>1, <2>3
<1>13. PassedOf(q, a, b + 1, e) = y - 1
  <2>1. PassedOf(q, a, b + 1, e) = y - 1 + (IF e.width = 0 THEN 0 ELSE p - p)
    BY <1>3, <1>6, <1>7, <1>9, Zenon DEF PassedOf, MiniFits
  <2>2. QED
    BY <2>1
<1>14. Inside(q, a, b + 1, e)
  <2>1. p <= p
    OBVIOUS
  <2>2. QED
    BY <1>3, <1>9, <1>11, <1>12, <1>13, <2>1, Zenon DEF Inside
<1>15. c + e.current = BlockValues * j + PerMiniblock * (b + 1)
  <2>1. PICK s \in Nat, t \in Nat : s = v * j /\ t = p * b
    BY <1>4
  <2>2. p * (b + 1) = t + p
    BY <1>4, <2>1
  <2>3. c = s + t
    BY <1>2, <1>3, <2>1
  <2>4. c + p = s + (t + p)
    BY <2>3
  <2>5. QED
    BY <1>3, <1>9, <2>1, <2>2, <2>4, Zenon
<1>16. IsInside(q, at, k, c, e)
  BY <1>3, <1>4, <1>7, <1>14, <1>15 DEF IsInside
<1>17. QED
  BY <1>8, <1>16, Zenon DEF NextFine, AtDelta

LEMMA NextIsFine ==
    ASSUME NEW bits, NEW g \in DeltaRecords(bits), OfPage(g), NEW e, NextIs(g, e),
           NEW q, NEW at, NEW k \in Nat, BlocksIn(q, at, k), NEW c \in Nat,
           AtDelta(q, at, k, c, g), c < BlockValues * k
    PROVE  NextFine(q, at, k, c, e)
<1>1. g.current \in Nat
  BY DeltaFields
<1>2. CASE g.current # 0
  <2>1. g.current > 0
    BY <1>1, <1>2
  <2>2. e.failed \in BOOLEAN /\ ~e.failed
    BY <1>2 DEF NextIs
  <2>3. e = g
    BY <2>1, <2>2, Zenon DEF NextIs
  <2>4. QED
    BY <2>2, <2>3 DEF NextFine
<1>3. CASE g.current = 0 /\ g.idx = Miniblocks
  <2>1. IsBetween(q, at, k, c, g)
    BY <1>3, AtBlockEnd
  <2>2. QED
    BY <1>3, <2>1, BlockBegins
<1>4. CASE g.current = 0 /\ g.idx # Miniblocks
  BY <1>4, MiniblockBegins
<1>5. QED
  BY <1>2, <1>3, <1>4

-----------------------------------------------------------------------------
(* Batches from such a place, as long as there are values.                 *)
SamePlace(d, e) ==
    /\ e.idx = d.idx /\ e.current = d.current /\ e.rest = d.rest
    /\ e.width = d.width /\ e.widths = d.widths

LEMMA PlaceSame ==
    ASSUME NEW d, NEW e, SamePlace(d, e), NEW q, NEW at, NEW k, NEW c,
           AtDelta(q, at, k, c, d)
    PROVE  AtDelta(q, at, k, c, e)
<1>1. /\ e.idx = d.idx /\ e.current = d.current /\ e.rest = d.rest
      /\ e.width = d.width /\ e.widths = d.widths
  BY DEF SamePlace
<1>2. CASE IsBetween(q, at, k, c, d)
  <2>1. PICK j \in 0..k : Between(q, at[j], d) /\ c = BlockValues * j
    BY <1>2 DEF IsBetween
  <2>2. Between(q, at[j], e)
    BY <1>1, <2>1, Zenon DEF Between
  <2>3. QED
    BY <2>1, <2>2, Zenon DEF AtDelta, IsBetween
<1>3. CASE IsInside(q, at, k, c, d)
  <2>1. PICK j \in 0..(k - 1), b \in 1..Miniblocks :
          Inside(q, at[j], b, d) /\ c + d.current = BlockValues * j + PerMiniblock * b
    BY <1>3 DEF IsInside
  <2>2. PassedOf(q, at[j], b, e) = PassedOf(q, at[j], b, d)
    BY <1>1, Zenon DEF PassedOf
  <2>3. Inside(q, at[j], b, e) /\ c + e.current = BlockValues * j + PerMiniblock * b
    BY <1>1, <2>1, <2>2, Zenon DEF Inside
  <2>4. QED
    BY <2>3, Zenon DEF AtDelta, IsInside
<1>4. QED
  BY <1>2, <1>3 DEF AtDelta

LEMMA TakeIsFine ==
    ASSUME NEW bits, NEW e \in DeltaRecords(bits), NEW q, NEW at, NEW k \in Nat,
           BlocksIn(q, at, k), NEW c \in Nat, AtDelta(q, at, k, c, e),
           NEW n \in Nat, n <= e.current, NEW spill, NEW t, TakenIs(e, n, spill, t)
    PROVE  AtDelta(q, at, k, c + n, t)
<1>1. ~ShortOf(e, n)
  BY RoomIn
<1>2. /\ t.rest = Passed(e, n) /\ t.current = e.current - n
      /\ t.widths = e.widths /\ t.width = e.width /\ t.idx = e.idx
  BY Zenon DEF TakenIs
<1>3. t.rest = IF e.width = 0 THEN e.rest ELSE Skipped(e.rest, n)
  BY <1>1, <1>2, AheadFacts
<1>4. PICK current \in Nat : current = e.current /\ n <= current
  BY DeltaFields
<1>5. CASE n = 0
  <2>1. Skipped(e.rest, 0) = e.rest
    BY DeltaFields, SkipNone
  <2>2. t.rest = e.rest /\ t.current = e.current
    BY <1>2, <1>3, <1>4, <1>5, <2>1
  <2>3. SamePlace(e, t) /\ c + n = c
    BY <1>2, <1>5, <2>2 DEF SamePlace
  <2>4. QED
    BY <2>3, PlaceSame
<1>6. CASE n # 0
  <2>1. IsInside(q, at, k, c, e)
    BY <1>4, <1>6 DEF AtDelta, IsBetween, Between
  <2>2. PICK j \in 0..(k - 1), b \in 1..Miniblocks :
          Inside(q, at[j], b, e) /\ c + e.current = BlockValues * j + PerMiniblock * b
    BY <2>1 DEF IsInside
  <2>3. BlockFits(q, at[j]) /\ q \in Seq(Nat) /\ Headed(q)
    BY BlockHere DEF BlocksIn
  <2>4. PICK x \in Nat, y \in Nat : MiniFits(q, at[j], b, x, y)
    BY <2>3, MiniHere
  <2>5. PICK p \in Nat, m \in Nat, s \in Nat, a \in Nat :
          p = PerMiniblock /\ m = Miniblocks /\ s = Len(q) /\ a = at[j] /\ a >= 5
    BY <2>3, DeltaConstants, LenProperties DEF BlockFits
  <2>6. current <= p /\ e.width = q[a + b] /\ t.width = q[a + b]
    BY <1>2, <1>4, <2>2, <2>5, Zenon DEF Inside
  <2>7. /\ e.rest = Skipped(q, x - 1 + (IF e.width = 0 THEN 0 ELSE p - current))
        /\ PassedOf(q, a, b, t)
              = x - 1 + (IF e.width = 0 THEN 0 ELSE p - (current - n))
    BY <1>2, <1>4, <2>2, <2>4, <2>5, Zenon DEF Inside, PassedOf, MiniFits
  <2>8. t.rest = Skipped(q, PassedOf(q, a, b, t))
    <3>1. CASE e.width = 0
      BY <1>3, <2>7, <3>1
    <3>2. CASE e.width # 0
      <4>1. y = x + p /\ y <= s + 1 /\ a + m + 1 <= x
        <5>1. /\ y = x + (IF q[a + b] = 0 THEN 0 ELSE p) /\ y <= s + 1
              /\ a + m + 1 <= x
          BY <2>4, <2>5, Zenon DEF MiniFits
        <5>2. QED
          BY <2>6, <3>2, <5>1
      <4>2. PICK z \in Nat : z = x - 1 + (p - current)
        BY <2>5, <2>6, <4>1
      <4>3. z + n <= Len(q) /\ z + n = x - 1 + (p - (current - n))
        <5>1. z + n = x - 1 + (p - (current - n))
          BY <4>2
        <5>2. z + n <= x - 1 + p
          BY <1>4, <4>2
        <5>3. x - 1 + p <= s
          BY <4>1
        <5>4. z + n <= s
          BY <5>2, <5>3
        <5>5. QED
          BY <2>5, <5>1, <5>4
      <4>4. Skipped(Skipped(q, z), n) = Skipped(q, z + n)
        BY <2>3, <4>3, SkipSkip
      <4>5. e.rest = Skipped(q, z) /\ PassedOf(q, a, b, t) = z + n
        BY <2>7, <3>2, <4>2, <4>3, Zenon
      <4>6. QED
        BY <1>3, <3>2, <4>4, <4>5
    <3>3. QED
      BY <3>1, <3>2
  <2>9. t.current <= PerMiniblock
    BY <1>2, <1>4, <2>5, <2>6
  <2>10. Inside(q, a, b, t)
    BY <1>2, <2>2, <2>5, <2>6, <2>8, <2>9, Zenon DEF Inside
  <2>11. (c + n) + t.current = c + e.current
    BY <1>2, <1>4
  <2>12. IsInside(q, at, k, c + n, t)
    BY <2>2, <2>5, <2>10, <2>11 DEF IsInside
  <2>13. QED
    BY <2>12 DEF AtDelta
<1>7. QED
  BY <1>5, <1>6

(* What is so between two rounds: there are deltas for the values that are *)
(* to come.                                                                *)
LeftFine(q, at, k, total, d) ==
    \E c \in Nat : AtDelta(q, at, k, c, d) /\ c + d.remaining <= total

Fine(q, at, k, total, d) ==
    OfPage(d) /\ (d.remaining = 0 \/ LeftFine(q, at, k, total, d))

LEMMA EatIsFine ==
    ASSUME NEW bits, NEW t \in DeltaRecords(bits), OfPage(t), t.remaining = 0,
           NEW q, NEW at, NEW k \in Nat, BlocksIn(q, at, k), NEW c \in Nat,
           AtDelta(q, at, k, c, t), NEW total
    PROVE  Fine(q, at, k, total, EatFinalPadding(t))
<1>1. t.current \in Nat
  BY DeltaFields
<1>2. t.current <= t.current
  BY <1>1
<1>3. ~ShortOf(t, t.current)
  BY <1>1, <1>2, RoomIn
<1>4. PICK rest : EatFinalPadding(t) = [t EXCEPT !.rest = rest, !.current = 0]
  BY <1>3, EatFacts
<1>5. PICK r : r = EatFinalPadding(t)
  OBVIOUS
<1>6. r.failed = FALSE /\ r.minis = t.minis /\ r.perMini = t.perMini /\ r.remaining = 0
  BY <1>4, <1>5 DEF DeltaRecords, OfPage
<1>7. Fine(q, at, k, total, r)
  BY <1>6, Zenon DEF Fine, OfPage
<1>8. QED
  BY <1>5, <1>7

LEMMA RoundIsFine ==
    ASSUME NEW bits \in Nat, NEW d \in DeltaRecords(bits), NEW n \in Nat,
           NEW spill \in Nat, Len(d.out) <= n,
           NEW q, NEW at, NEW k \in Nat, BlocksIn(q, at, k),
           NEW total \in Nat, total <= BlockValues * k + 1, Fine(q, at, k, total, d)
    PROVE  Fine(q, at, k, total, Round(d, n, spill))
<1>1. CASE Done(d, n)
  BY <1>1 DEF Round
<1>2. CASE ~Done(d, n)
  <2>1. OfPage(d) /\ d.remaining # 0 /\ Len(d.out) # n
    BY <1>2 DEF Fine, Done
  <2>2. PICK c \in Nat : AtDelta(q, at, k, c, d) /\ c + d.remaining <= total
    BY <2>1 DEF Fine, LeftFine
  <2>3. PICK x \in Nat, o \in Nat, v \in Nat :
          /\ x = d.remaining /\ x >= 1 /\ o = Len(d.out) /\ o < n
          /\ v = BlockValues * k /\ total <= v + 1 /\ c + x <= total
    <3>1. d.remaining \in Nat /\ Len(d.out) \in Nat
      BY DeltaFields, LenProperties
    <3>2. BlockValues * k \in Nat
      BY DeltaConstants
    <3>3. d.remaining >= 1 /\ Len(d.out) < n
      BY <2>1, <3>1
    <3>4. QED
      BY <2>2, <3>1, <3>2, <3>3
  <2>4. PICK g \in DeltaRecords(bits) : g = Given(d) /\ GivenIs(d, g)
    BY <2>1, GivenFacts
  <2>5. OfPage(g) /\ SamePlace(d, g) /\ g.remaining = x - 1 /\ Len(g.out) = o + 1
    BY <2>1, <2>3, <2>4, Zenon DEF GivenIs, SameElse, OfPage, SamePlace
  <2>6. AtDelta(q, at, k, c, g)
    BY <2>2, <2>5, PlaceSame
  <2>7. PICK r : r = Round(d, n, spill)
    OBVIOUS
  <2>8. RoundFrom(g, n, spill, r)
    BY <1>2, <2>4, <2>7, RoundSteps
  <2>9. CASE g.remaining = 0
    <3>1. r = EatFinalPadding(g)
      BY <2>8, <2>9 DEF RoundFrom
    <3>2. QED
      BY <2>5, <2>6, <2>7, <2>9, <3>1, EatIsFine
  <2>10. CASE g.remaining # 0
    <3>1. PICK e : /\ e = NextMiniblock(g)
                   /\ IF e.failed THEN r = e
                      ELSE RoundEnds(TakeDeltas(e, Takeable(e, n), spill), r)
      BY <2>8, <2>10 DEF RoundFrom
    <3>2. e \in DeltaRecords(bits) /\ NextIs(g, e)
      BY <2>5, <3>1, NextFacts DEF OfPage
    <3>3. c < BlockValues * k
      BY <2>3, <2>5, <2>10, SMTT(30)
    <3>4. e.failed = FALSE /\ AtDelta(q, at, k, c, e)
      <4>1. NextFine(q, at, k, c, e)
        BY <2>5, <2>6, <3>2, <3>3, NextIsFine
      <4>2. QED
        BY <4>1 DEF NextFine
    <3>5. /\ SameElse(g, e) /\ e.remaining = x - 1 /\ e.last = g.last
          /\ e.out = g.out
      BY <2>5, <3>2, Zenon DEF NextIs
    <3>6. Begun(e)
      BY <2>4, <3>5, Zenon DEF GivenIs, Begun
    <3>7. PICK kk \in Nat : /\ kk = Takeable(e, n) /\ kk <= e.current
                            /\ kk <= e.remaining
      <4>1. e.current \in Nat /\ e.remaining \in Nat
        BY <3>2, DeltaFields
      <4>2. Len(e.out) \in Nat /\ Len(e.out) <= n
        BY <2>3, <2>5, <3>5, SMTT(30)
      <4>3. QED
        BY <4>1, <4>2, TakeableFacts
    <3>8. ~ShortOf(e, kk)
      BY <3>2, <3>4, <3>7, RoomIn
    <3>9. PICK t : t = TakeDeltas(e, kk, spill) /\ RoundEnds(t, r)
      BY <3>1, <3>4, <3>7
    <3>10. t \in DeltaRecords(bits) /\ TakenIs(e, kk, spill, t)
      BY <3>2, <3>4, <3>6, <3>7, <3>8, <3>9, TakeFacts
    <3>11. AtDelta(q, at, k, c + kk, t)
      BY <3>2, <3>4, <3>7, <3>10, TakeIsFine
    <3>12. OfPage(t) /\ t.remaining = (x - 1) - kk
      BY <2>5, <3>5, <3>10, Zenon DEF TakenIs, SameElse, OfPage
    <3>13. (c + kk) + t.remaining <= total /\ c + kk \in Nat
      <4>1. kk <= x - 1
        BY <3>5, <3>7
      <4>2. QED
        BY <2>3, <3>12, <4>1, SMTT(30)
    <3>14. CASE t.remaining = 0
      <4>1. r = EatFinalPadding(t)
        BY <3>9, <3>12, <3>14 DEF RoundEnds, OfPage
      <4>2. QED
        BY <2>7, <3>10, <3>11, <3>12, <3>13, <3>14, <4>1, EatIsFine
    <3>15. CASE t.remaining # 0
      <4>1. r = t
        BY <3>9, <3>15 DEF RoundEnds
      <4>2. QED
        BY <2>7, <3>11, <3>12, <3>13, <4>1 DEF Fine, LeftFine
    <3>16. QED
      BY <3>14, <3>15
  <2>11. QED
    BY <2>9, <2>10
<1>3. QED
  BY <1>1, <1>2

LEMMA BatchIsFine ==
    ASSUME NEW bits \in Nat, NEW d \in DeltaRecords(bits), NEW n \in Nat,
           NEW spill \in Nat, NEW q, NEW at, NEW k \in Nat, BlocksIn(q, at, k),
           NEW total \in Nat, total <= BlockValues * k + 1, Fine(q, at, k, total, d)
    PROVE  Fine(q, at, k, total, ReadDelta(d, n, spill))
<1>1. PICK g : ReadIs(bits, d, n, spill, g)
  BY ReadRuns
<1>2. /\ g \in [0..n -> Rounds(bits, n)] /\ g[0] = Emptied(d)
      /\ \A i \in 1..n : g[i] = Round(g[i - 1], n, spill)
      /\ ReadDelta(d, n, spill) = g[n]
  BY <1>1 DEF ReadIs
<1>3. Fine(q, at, k, total, g[0])
  <2>1. PICK e : e = Emptied(d)
    OBVIOUS
  <2>2. /\ SameElse(d, e) /\ SamePlace(d, e) /\ e.remaining = d.remaining
        /\ e.failed = d.failed
    BY <2>1, EmptiedIn DEF SamePlace
  <2>3. OfPage(e)
    BY <2>2, Zenon DEF Fine, OfPage, SameElse
  <2>4. LeftFine(q, at, k, total, d) => LeftFine(q, at, k, total, e)
    BY <2>2, PlaceSame, Zenon DEF LeftFine
  <2>5. QED
    BY <1>2, <2>1, <2>2, <2>3, <2>4, Zenon DEF Fine
<1>4. ASSUME NEW i \in 1..n, Fine(q, at, k, total, g[i - 1])
      PROVE  Fine(q, at, k, total, g[i])
  <2>1. i - 1 \in 0..n
    OBVIOUS
  <2>2. g[i - 1] \in Rounds(bits, n)
    BY <1>2, <2>1
  <2>3. g[i - 1] \in DeltaRecords(bits) /\ Len(g[i - 1].out) <= n
    BY <1>4, <2>2 DEF Rounds, Fine, OfPage
  <2>4. Fine(q, at, k, total, Round(g[i - 1], n, spill))
    BY <1>4, <2>3, RoundIsFine
  <2>5. QED
    BY <1>2, <2>4
<1> DEFINE S == {i \in 0..n : Fine(q, at, k, total, g[i])}
<1>5. 0 \in S
  BY <1>3
<1>6. \A i \in 1..n : i - 1 \in S => i \in S
  BY <1>4
<1>7. 0..n \subseteq S
  <2> HIDE DEF S
  <2>1. QED
    BY <1>5, <1>6, UpTo, Zenon
<1>8. n \in S
  BY <1>7
<1>9. QED
  BY <1>2, <1>8

LEMMA FreshIsFine ==
    ASSUME NEW bits, NEW q, NEW d, FreshIs(bits, q, d), Openable(q),
           NEW at, NEW k \in Nat, BlocksIn(q, at, k)
    PROVE  Fine(q, at, k, q[3], d)
<1>1. /\ d.failed = FALSE /\ d.rest = Skipped(q, 4) /\ d.minis = q[2]
      /\ d.perMini = q[1] \div q[2] /\ d.remaining = q[3] /\ d.idx = d.minis
      /\ d.current = 0 /\ d \in DeltaRecords(bits)
  BY Zenon DEF FreshIs
<1>2. q[1] = BlockValues /\ q[2] = Miniblocks /\ at[0] = 5
  BY DEF BlocksIn, Headed
<1>3. OfPage(d)
  BY <1>1, <1>2, Zenon DEF OfPage, PerMiniblock
<1>4. Between(q, at[0], d)
  <2>1. 5 - 1 = 4
    OBVIOUS
  <2>2. QED
    BY <1>1, <1>2, <2>1, Zenon DEF Between
<1>5. 0 = BlockValues * 0 /\ 0 \in 0..k
  BY DeltaConstants
<1>6. AtDelta(q, at, k, 0, d)
  BY <1>4, <1>5 DEF AtDelta, IsBetween
<1>7. PICK x \in Nat : x = q[3] /\ x = d.remaining
  BY <1>1, DeltaFields
<1>8. 0 + d.remaining <= q[3]
  BY <1>7
<1>9. QED
  BY <1>3, <1>6, <1>8 DEF Fine, LeftFine

-----------------------------------------------------------------------------
(* Pages of this library's are read without an exception.                  *)
DeltasFine(p, at, k, d) ==
    /\ k \in Nat /\ BlocksIn(p.numbers, at, k) /\ p.numbers[3] \in Nat
    /\ p.numbers[3] <= BlockValues * k + 1
    /\ Fine(p.numbers, at, k, p.numbers[3], d.delta)

OwnDeltas(p, d) ==
    CodingOf(p) = "DELTA_BINARY_PACKED" => \E at, k : DeltasFine(p, at, k, d)

OwnFine(p, d, t) == p.own = TRUE => t = FALSE /\ OwnDeltas(p, d)

OwnInv == page # NoPage => OwnFine(page, decoder, threw)

OwnCoding(p) ==
    /\ Begin(p) # Refused /\ p.whole
    /\ \/ CodingOf(p) = "DELTA_BINARY_PACKED"
       \/ CodingOf(p) = "bits"
       \/ Sound(p)

LEMMA OwnDeltasBegin ==
    ASSUME NEW p \in Page, OwnPage(p), p.encoding = "DELTA_BINARY_PACKED"
    PROVE  /\ CodingOf(p) = "DELTA_BINARY_PACKED" /\ Begin(p) # Refused
           /\ \E at, k : DeltasFine(p, at, k, Begin(p))
<1>1. p.type \in DeltaTypes /\ DeltaValues(p.type, p.numbers, p.content)
  BY DEF OwnPage
<1>2. CodingOf(p) = "DELTA_BINARY_PACKED"
  BY <1>1 DEF CodingOf, CodingFor, ValidFor, DeltaTypes
<1>3. PICK bits \in Nat : bits = WordBits(p.type)
  BY WordBitsType
<1>4. PICK vs : StandFor(bits, p.numbers, vs)
  BY <1>1, <1>3 DEF DeltaValues
<1>5. vs \in Seq(Words(bits)) /\ p.numbers[3] = Len(vs)
  BY <1>4 DEF StandFor
<1>6. PICK k \in Nat : Stand(bits, p.numbers, k, vs) /\ Len(vs) <= BlockValues * k + 1
  BY <1>4 DEF StandFor
<1>7. PICK at : BlocksStand(bits, p.numbers, at, k, vs)
  BY <1>6 DEF Stand
<1>8. BlocksIn(p.numbers, at, k)
  BY <1>7, BlocksAre
<1>9. Openable(p.numbers)
  <2>1. Len(p.numbers) >= 4 /\ p.numbers[2] = Miniblocks
    BY <1>8 DEF BlocksIn, Headed
  <2>2. p.numbers[2] > 0
    BY <2>1, DeltaConstants
  <2>3. QED
    BY <2>1, <2>2 DEF Openable
<1>10. PICK delta : delta = ResetDelta(bits, p.numbers)
  OBVIOUS
<1>11. FreshIs(bits, p.numbers, delta)
  <2>1. p.numbers \in Seq(Nat)
    BY PageFields
  <2>2. QED
    BY <1>9, <1>10, <2>1, Opened
<1>12. Begin(p) = DeltaReset(delta)
  BY <1>2, <1>3, <1>10, BeginIs
<1>13. Begin(p) = [coding |-> "DELTA_BINARY_PACKED", delta |-> delta]
  <2>1. delta.failed = FALSE
    BY <1>11, Zenon DEF FreshIs
  <2>2. QED
    BY <1>12, <2>1, Zenon DEF DeltaReset
<1>14. Begin(p).delta = delta /\ Begin(p) # Refused
  <2>1. Begin(p).delta = delta /\ Begin(p).coding = "DELTA_BINARY_PACKED"
    BY <1>13
  <2>2. Refused.coding = "refused"
    BY DEF Refused
  <2>3. Begin(p) # Refused
    BY <2>1, <2>2
  <2>4. QED
    BY <2>1, <2>3
<1>15. Fine(p.numbers, at, k, p.numbers[3], delta)
  BY <1>8, <1>9, <1>11, FreshIsFine
<1>16. p.numbers[3] \in Nat /\ p.numbers[3] <= BlockValues * k + 1
  BY <1>5, <1>6, LenProperties
<1>17. DeltasFine(p, at, k, Begin(p))
  BY <1>8, <1>14, <1>15, <1>16 DEF DeltasFine
<1>18. QED
  BY <1>2, <1>14, <1>17

LEMMA OwnValuesBegin ==
    ASSUME NEW p \in Page, OwnPage(p), p.encoding # "DELTA_BINARY_PACKED"
    PROVE  /\ CodingOf(p) # "DELTA_BINARY_PACKED" /\ Begin(p) # Refused
           /\ CodingOf(p) = "bits" \/ Sound(p)
<1>1. /\ p.whole /\ p.encoding \in {"PLAIN", "RLE_DICTIONARY"}
      /\ p.encoding = "PLAIN" => CodingOf(p) # "refused"
      /\ p.encoding = "RLE_DICTIONARY" =>
            p.dictSet /\ ~(p.numbers[1] > 32) /\ RepeatsComplete(p.runs)
  BY DEF OwnPage
<1>2. p.type \in Types
  BY PageFields
<1>3. PICK coding : coding = CodingOf(p)
  OBVIOUS
<1>4. CASE p.encoding = "PLAIN"
  <2>1. coding = PlainCoding(p.type)
    BY <1>2, <1>3, <1>4, CodingIs
  <2>2. /\ coding \in {"as is", "bits", "lengths and bytes", "fixed"}
        /\ coding = "bits" \/ p.type # "BOOLEAN"
    BY <1>2, <2>1 DEF PlainCoding, Types
  <2>3. \E s, nums : Begin(p) = Plain(coding, s, nums)
    BY <1>3, <2>2, BeginIs
  <2>4. Begin(p) # Refused
    <3>1. coding \in PlainCodingNames
      BY <2>2 DEF PlainCodingNames
    <3>2. QED
      BY <2>3, <3>1, PlainOpens
  <2>5. p.type # "BOOLEAN" => Sound(p)
    BY <1>1, <1>4 DEF Sound, InBatches
  <2>6. QED
    BY <1>3, <2>2, <2>4, <2>5
<1>5. CASE p.encoding = "RLE_DICTIONARY"
  <2>1. coding = "indices"
    BY <1>3, <1>5 DEF CodingOf, CodingFor
  <2>2. Begin(p) = NewRleDecoder(coding, p.dict, Tail(p.numbers), p.runs)
    BY <1>1, <1>3, <1>5, <2>1, BeginIs
  <2>3. Begin(p) # Refused
    <3>1. Begin(p).coding = "indices"
      BY <2>1, <2>2 DEF NewRleDecoder
    <3>2. Refused.coding = "refused"
      BY DEF Refused
    <3>3. QED
      BY <3>1, <3>2
  <2>4. Sound(p)
    BY <1>1, <1>5 DEF Sound, InBatches
  <2>5. QED
    BY <1>3, <2>1, <2>3, <2>4
<1>6. QED
  BY <1>1, <1>4, <1>5

LEMMA OwnCodingIs ==
    ASSUME NEW p \in Page, OwnPage(p)
    PROVE  OwnCoding(p) /\ OwnDeltas(p, Begin(p))
<1>1. p.whole
  BY DEF OwnPage
<1>2. CASE p.encoding = "DELTA_BINARY_PACKED"
  BY <1>1, <1>2, OwnDeltasBegin, Zenon DEF OwnCoding, OwnDeltas
<1>3. CASE p.encoding # "DELTA_BINARY_PACKED"
  BY <1>1, <1>3, OwnValuesBegin, Zenon DEF OwnCoding, OwnDeltas
<1>4. QED
  BY <1>2, <1>3

LEMMA OwnOpens ==
    ASSUME NEW p, PageStands(p), Open(p)
    PROVE  OwnInv'
<1>1. /\ page' = p /\ decoder' = Begin(p) /\ threw' = (Begin(p) = Refused)
  BY DEF Open, Begin
<1>2. p \in Page /\ (p.own => OwnPage(p))
  BY DEF PageStands
<1>3. ASSUME p.own = TRUE PROVE threw' = FALSE /\ OwnDeltas(p, decoder')
  <2>1. OwnCoding(p) /\ OwnDeltas(p, Begin(p))
    BY <1>2, <1>3, OwnCodingIs
  <2>2. Begin(p) # Refused
    BY <2>1, Zenon DEF OwnCoding
  <2>3. QED
    BY <1>1, <2>1, <2>2
<1>4. OwnFine(page', decoder', threw')
  BY <1>1, <1>3, Zenon DEF OwnFine
<1>5. QED
  BY <1>4, Zenon DEF OwnInv

LEMMA BitsNeverThrow ==
    ASSUME NEW d \in PlainDecoders("bits"), NEW n, NEW spill
    PROVE  ReadBatch(d, n, spill).threw = FALSE
<1>1. d.coding = "bits"
  BY DEF PlainDecoders
<1>2. ReadBatch(d, n, spill) = ReadAsIs(d, n)
  BY <1>1, BatchIs
<1>3. QED
  BY <1>2 DEF ReadAsIs, Batch

LEMMA DeltaIsFine ==
    ASSUME NEW p \in Page, NEW d, TypedRead(p, d, FALSE), NEW at, NEW k,
           DeltasFine(p, at, k, d), CodingOf(p) = "DELTA_BINARY_PACKED",
           NEW n \in Nat, NEW spill \in Nat, NEW b, b = ReadBatch(d, n, spill)
    PROVE  b.threw = FALSE /\ DeltasFine(p, at, k, b.decoder)
<1>1. PICK bits \in Nat : bits = WordBits(p.type)
  BY WordBitsType
<1>2. d \in DeltaDecoders(bits)
  BY <1>1, DeltaNotSound DEF TypedRead, DecodersOf
<1>3. PICK r : r = ReadDelta(d.delta, n, spill)
  OBVIOUS
<1>4. r \in DeltaRecords(bits) /\ DeltaBatch(d, r, b)
  BY <1>2, <1>3, DeltaReads
<1>5. /\ k \in Nat /\ BlocksIn(p.numbers, at, k) /\ p.numbers[3] \in Nat
      /\ p.numbers[3] <= BlockValues * k + 1
      /\ Fine(p.numbers, at, k, p.numbers[3], d.delta)
  BY Zenon DEF DeltasFine
<1>6. d.delta \in DeltaRecords(bits)
  BY <1>2 DEF DeltaDecoders
<1>7. Fine(p.numbers, at, k, p.numbers[3], r)
  BY <1>3, <1>5, <1>6, BatchIsFine
<1>8. r.failed = FALSE
  BY <1>7, Zenon DEF Fine, OfPage
<1>9. b.threw = FALSE /\ b.decoder.delta = r
  BY <1>4, <1>8, Zenon DEF DeltaBatch
<1>10. QED
  BY <1>5, <1>7, <1>9, Zenon DEF DeltasFine

LEMMA OwnReads ==
    ASSUME PageInv, OwnInv, NEW n, NEW spill, NEW b, BatchOf(n, spill, b)
    PROVE  OwnInv'
<1>1. /\ b = ReadBatch(decoder, n, spill) /\ spill \in Nat /\ n \in Nat
      /\ threw = FALSE /\ page # NoPage
      /\ decoder' = b.decoder /\ threw' = b.threw /\ page' = page
  BY DEF BatchOf
<1>2. /\ page \in Page
      /\ page.own => OwnPage(page)
      /\ TypedRead(page, decoder, FALSE)
  BY <1>1, Zenon DEF PageInv, BeingRead, PageStands, PageRead
<1>3. ASSUME page.own = TRUE PROVE b.threw = FALSE /\ OwnDeltas(page, b.decoder)
  <2>1. OwnCoding(page) /\ OwnDeltas(page, decoder)
    <3>1. OwnPage(page)
      BY <1>2, <1>3
    <3>2. OwnCoding(page)
      BY <1>2, <3>1, OwnCodingIs
    <3>3. OwnFine(page, decoder, threw)
      BY <1>1, Zenon DEF OwnInv
    <3>4. OwnDeltas(page, decoder)
      BY <1>3, <3>3 DEF OwnFine
    <3>5. QED
      BY <3>2, <3>4
  <2>2. CASE CodingOf(page) = "DELTA_BINARY_PACKED"
    <3>1. PICK at, k : DeltasFine(page, at, k, decoder)
      BY <2>1, <2>2, Zenon DEF OwnDeltas
    <3>2. b.threw = FALSE /\ DeltasFine(page, at, k, b.decoder)
      <4>1. page \in Page /\ TypedRead(page, decoder, FALSE)
        BY <1>2
      <4>2. n \in Nat /\ spill \in Nat /\ b = ReadBatch(decoder, n, spill)
        BY <1>1
      <4>3. QED
        BY <2>2, <3>1, <4>1, <4>2, DeltaIsFine
    <3>3. QED
      BY <3>2, Zenon DEF OwnDeltas
  <2>3. CASE CodingOf(page) # "DELTA_BINARY_PACKED"
    <3>1. OwnDeltas(page, b.decoder)
      BY <2>3 DEF OwnDeltas
    <3>2. CASE Sound(page)
      <4>1. BatchMade(n, b)
        BY BatchMakes
      <4>2. page.whole
        BY <2>1 DEF OwnCoding
      <4>3. QED
        BY <3>1, <3>2, <4>1, <4>2, Zenon DEF BatchMade
    <3>3. CASE ~Sound(page)
      <4>1. CodingOf(page) = "bits"
        BY <2>1, <2>3, <3>3, Zenon DEF OwnCoding
      <4>2. decoder \in PlainDecoders("bits")
        BY <1>2, <3>3, <4>1 DEF TypedRead, DecodersOf
      <4>3. QED
        BY <1>1, <3>1, <4>2, BitsNeverThrow
    <3>4. QED
      BY <3>2, <3>3
  <2>4. QED
    BY <2>2, <2>3
<1>4. OwnFine(page', decoder', threw')
  BY <1>1, <1>3, Zenon DEF OwnFine
<1>5. QED
  BY <1>4, Zenon DEF OwnInv

LEMMA OwnKept ==
    ASSUME OwnInv, UNCHANGED <<page, decoder, threw>>
    PROVE  OwnInv'
BY DEF OwnInv

LEMMA InitOwn == Init => OwnInv
BY DEF Init, OwnInv

LEMMA OwnNext ==
    ASSUME OwnInv, PageInv, Putting, CodingInv, [Next]_vars
    PROVE  OwnInv'
<1>1. ASSUME NEW n \in 1..MaxPut,
             NEW data \in [1..n -> Inputs[column.type]], PutBatch(data)
      PROVE  OwnInv'
  BY <1>1, OwnKept DEF PutBatch
<1>2. CASE FlushPage
  <2>1. PICK p : PageStands(p) /\ Open(p)
    BY <1>2, FlushStands
  <2>2. QED
    BY <2>1, OwnOpens
<1>3. CASE ForeignPage
  <2>1. PICK p \in Foreign : Open(p)
    BY <1>3 DEF ForeignPage
  <2>2. QED
    BY <2>1, ForeignStands, OwnOpens
<1>4. ASSUME NEW n \in 1..MaxBatch, Read(n) PROVE OwnInv'
  <2>1. PICK spill, b : BatchOf(n, spill, b)
    BY <1>4, ReadIsBatch
  <2>2. QED
    BY <2>1, OwnReads
<1>5. CASE ClosePage
  BY <1>5 DEF ClosePage, OwnInv
<1>6. CASE UNCHANGED vars
  BY <1>6, OwnKept DEF vars
<1>7. QED
  BY <1>1, <1>2, <1>3, <1>4, <1>5, <1>6 DEF Next

THEOREM OwnInvariance == Spec => []OwnInv
<1>1. OwnInv /\ PageInv /\ Putting /\ CodingInv /\ [Next]_vars => OwnInv'
  BY OwnNext
<1>2. QED
  BY InitOwn, <1>1, PageInvariance, PuttingInvariance, CodingInvariance,
     PTL DEF Spec

LEMMA PrefixOfNothing ==
    ASSUME NEW content, content = <<>>
    PROVE  IsPrefixOf(<<>>, content)
<1>1. Len(<<>>) = 0 /\ SubSeq(<<>>, 1, 0) = <<>>
  OBVIOUS
<1>2. QED
  BY <1>1 DEF IsPrefixOf

LEMMA NothingIsMadeUp == PageInv /\ OwnInv => NothingMadeUp
<1>1. SUFFICES ASSUME PageInv, OwnInv PROVE NothingMadeUp
  OBVIOUS
<1>2. CASE page = NoPage
  <2>1. given = <<>> /\ threw = FALSE
    BY <1>1, <1>2, Zenon DEF PageInv, NothingRead
  <2>2. IsPrefixOf(given, Held(page))
    BY <1>2, <2>1, NoPageHeld, PrefixOfNothing
  <2>3. Len(page.padding) < GroupSize
    <3>1. page.padding = <<>>
      BY <1>2 DEF NoPage
    <3>2. QED
      BY <3>1, NoPadding
  <2>4. QED
    BY <2>1, <2>2, <2>3, Zenon DEF NothingMadeUp, OwnPagesRead
<1>3. CASE page # NoPage
  <2>1. /\ page \in Page /\ SoundRead(page, decoder, given, ended, threw)
        /\ OwnFine(page, decoder, threw) /\ (page.own => OwnPage(page))
    BY <1>1, <1>3, Zenon DEF PageInv, BeingRead, PageStands, PageRead, OwnInv
  <2>2. page.own => ~threw
    <3>1. page.own \in BOOLEAN
      BY <2>1, PageFields
    <3>2. QED
      BY <2>1, <3>1 DEF OwnFine
  <2>3. ASSUME InBatches(page), page.whole \/ page.encoding # "BYTE_STREAM_SPLIT"
        PROVE  IsPrefixOf(given, Held(page))
    <3>1. Sound(page)
      BY <2>3, Zenon DEF Sound
    <3>2. PICK at : IsAt(page, at, decoder, given, ended, threw)
      BY <2>1, <3>1, Zenon DEF SoundRead
    <3>3. QED
      BY <3>2, Zenon DEF IsAt
  <2>4. page.own => Len(page.padding) < GroupSize
    BY <2>1, Zenon DEF OwnPage
  <2>5. QED
    BY <2>2, <2>3, <2>4, Zenon DEF NothingMadeUp, OwnPagesRead
<1>4. QED
  BY <1>2, <1>3

(* Whatever the program puts, flushes and reads, and whatever pages come   *)
(* from elsewhere: a page of this library's is read without an exception,  *)
(* and what is given before one, or of any page that is read in batches,   *)
(* are its values and then what fills up its last group.                   *)
THEOREM NothingMadeUpHolds == Spec => []NothingMadeUp
BY PageInvariance, OwnInvariance, NothingIsMadeUp, PTL
=============================================================================
