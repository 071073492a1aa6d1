-------------------------- MODULE PageReaderProofs --------------------------
(***************************************************************************)
(* peekable_stream implements the byte stream it promises, for a source of *)
(* any length that hands out its bytes in any pieces, and what its comment *)
(* says of rewinding is true.  page_reader, which takes its steps and      *)
(* relies on its invariant, hands out the pages of a chunk in order,       *)
(* whatever their sizes and number, and gives up only where it should.     *)
(***************************************************************************)
EXTENDS PageReader, TLAPS

-----------------------------------------------------------------------------
(* The inductive invariant.                                                *)

Indices ==
    /\ position \in Nat /\ position <= Length
    /\ size \in Nat /\ size < 4 * MaxPeek
    /\ start \in Nat /\ end \in Nat /\ start <= end /\ end <= size
    /\ end - start <= position

(* What read_exactly has read and has still to read is what was asked for, *)
(* unless the source has ended.                                            *)
Asked ==
    /\ wanted \in Nat /\ wanted <= MaxPeek
    /\ needed \in Nat /\ needed <= wanted
    /\ size - end >= needed
    /\ end - start + needed <= wanted \/ wanted = 0
    /\ wanted > 0 =>
          \/ end - start + needed = wanted
          \/ position = Length /\ needed = 0
    /\ wanted > 0 => view = NoView

(* The byte at an index of the buffer, by its number in the stream.        *)
ByteAt(i) == position - end + i + 1

Contents ==
    /\ buffer \in [0..(size - 1) -> 0..Length]
    /\ \A i \in 0..(size - 1) :
          start <= i /\ i < end => buffer[i] = ByteAt(i)

ViewInside ==
    /\ view \in [at : Nat, len : 0..MaxPeek]
    /\ view.at + view.len <= size

(* Bytes that were rewound lie in the first half of the buffer.            *)
Rewound ==
    /\ moved \in [1..Length -> Nat]
    /\ \A b \in 1..Length : moved[b] <= 1
    /\ \A b \in 1..Length : b > position => moved[b] = 0
    /\ \A i \in Nat :
          start <= i /\ i < end /\ i > size \div 2 => moved[ByteAt(i)] = 0

SInv == Indices /\ Asked /\ Contents /\ ViewInside /\ Rewound

-----------------------------------------------------------------------------
LEMMA Rounding ==
    ASSUME NEW n \in Nat, n >= 1, n <= 4 * MaxPeek
    PROVE  /\ NextPowerOf2(n) \in Nat
           /\ n <= NextPowerOf2(n) /\ NextPowerOf2(n) < 2 * n
<1>1. \E p \in BufferSizes : n <= p /\ p < 2 * n
  BY SizesAssumption, LengthAssumption
<1>2. /\ NextPowerOf2(n) \in BufferSizes
      /\ n <= NextPowerOf2(n) /\ NextPowerOf2(n) < 2 * n
  BY <1>1, Zenon DEF NextPowerOf2
<1>3. QED
  BY <1>2, SizesAssumption

(* A buffer that cannot be rewound is less than half way through, or       *)
(* smaller than the peek: twice the peek is room enough.                   *)
LEMMA Capacity ==
    ASSUME Indices, NEW n \in Nat, n >= 1,
           Active + n <= MaxPeek, ~HasSpace(n), ~CanRewind(n)
    PROVE  LET c == NextPowerOf2(end + n)
           IN  /\ c \in Nat /\ c < 4 * MaxPeek
               /\ c >= end + n /\ c >= size /\ c \div 2 >= size \div 2
<1>1. /\ position \in Nat /\ size \in Nat /\ start \in Nat /\ end \in Nat
      /\ start <= end /\ end <= size /\ MaxPeek \in Nat
  BY LengthAssumption DEF Indices
<1>2. /\ ~(size - end >= n) /\ end - start + n <= MaxPeek
      /\ ~(size > n + (end - start)) \/ ~(start > size \div 2)
  BY DEF HasSpace, CanRewind, Active
<1>3. end + n <= 2 * MaxPeek
  <2>1. CASE ~(size > n + (end - start))
    BY <1>1, <1>2, <2>1
  <2>2. CASE ~(start > size \div 2)
    <3>1. start + start <= size
      BY <1>1, <2>2
    <3>2. QED
      BY <1>1, <1>2, <3>1
  <2>3. QED
    BY <1>2, <2>1, <2>2
<1>4. /\ NextPowerOf2(end + n) \in Nat
      /\ end + n <= NextPowerOf2(end + n)
      /\ NextPowerOf2(end + n) < 2 * (end + n)
  BY <1>1, <1>3, Rounding
<1> DEFINE c == NextPowerOf2(end + n)
<1> HIDE DEF c
<1>5. c \in Nat /\ end + n <= c /\ c < 2 * (end + n)
  BY <1>4 DEF c
<1>6. c >= size
  BY <1>1, <1>2, <1>5
<1>7. c \div 2 >= size \div 2
  BY <1>1, <1>5, <1>6
<1>8. c < 4 * MaxPeek
  BY <1>1, <1>3, <1>5
<1>9. QED
  BY <1>5, <1>6, <1>7, <1>8 DEF c

LEMMA StreamInit == Init => SInv
<1> SUFFICES ASSUME Init
             PROVE  SInv
  OBVIOUS
<1>1. Indices
  BY LengthAssumption DEF Init, Indices
<1>2. Asked
  BY LengthAssumption DEF Init, Asked
<1>3. Contents
  <2>1. 0..(size - 1) = {}
    BY DEF Init
  <2>2. buffer \in [{} -> 0..Length]
    BY DEF Init
  <2>3. QED
    BY <2>1, <2>2, Zenon DEF Contents
<1>4. ViewInside
  BY LengthAssumption DEF Init, ViewInside, NoView
<1>5. Rewound
  BY LengthAssumption DEF Init, Rewound
<1>6. QED
  BY <1>1, <1>2, <1>3, <1>4, <1>5 DEF SInv

(* The three ways to make room keep the bytes not consumed, and where they *)
(* were rewound from.                                                      *)
LEMMA RewindKeeps ==
    ASSUME SInv, NEW n \in Nat, n >= 1, Active + n <= MaxPeek,
           ~HasSpace(n), CanRewind(n), Rewind, position' = position
    PROVE  Indices' /\ Contents' /\ Rewound' /\ size' - end' >= n
           /\ Active' = Active
<1>1. /\ position \in Nat /\ position <= Length
      /\ size \in Nat /\ size < 4 * MaxPeek
      /\ start \in Nat /\ end \in Nat /\ start <= end /\ end <= size
      /\ end - start <= position /\ Length \in Nat
  BY LengthAssumption DEF SInv, Indices
<1>2. /\ size > n + (end - start) /\ start > size \div 2
      /\ start' = 0 /\ end' = end - start /\ size' = size
      /\ position' = position
  BY DEF CanRewind, Rewind, Active
<1>3. Indices' /\ size' - end' >= n /\ Active' = Active
  BY <1>1, <1>2 DEF Indices, HasSpace, Active
<1>4. Contents'
  <2>1. buffer' = [i \in 0..(size - 1) |->
                     IF i < Active THEN buffer[start + i] ELSE buffer[i]]
    BY Zenon DEF Rewind, MovedDown
  <2>2. /\ buffer \in [0..(size - 1) -> 0..Length]
        /\ \A i \in 0..(size - 1) :
              start <= i /\ i < end => buffer[i] = position - end + i + 1
    BY DEF SInv, Contents, ByteAt
  <2>3. ASSUME NEW i \in 0..(size - 1)
        PROVE  /\ i < end - start => /\ buffer'[i] = buffer[start + i]
                                     /\ start + i \in 0..(size - 1)
                                     /\ buffer'[i] = position - (end - start) + i + 1
               /\ ~(i < end - start) => buffer'[i] = buffer[i]
    BY <1>1, <2>1, <2>2 DEF Active
  <2>4. \A i \in 0..(size - 1) : buffer'[i] \in 0..Length
    BY <2>2, <2>3
  <2>5. buffer' \in [0..(size - 1) -> 0..Length]
    BY <2>1, <2>4
  <2>6. QED
    BY <1>1, <1>2, <2>3, <2>5 DEF Contents, ByteAt
<1>5. Rewound'
  <2>1. /\ moved \in [1..Length -> Nat]
        /\ \A b \in 1..Length : moved[b] <= 1
        /\ \A b \in 1..Length : b > position => moved[b] = 0
        /\ \A i \in Nat : start <= i /\ i < end /\ i > size \div 2
              => moved[position - end + i + 1] = 0
    BY DEF SInv, Rewound, ByteAt
  <2>2. moved' = [b \in 1..Length |->
                    IF position - (end - start) < b /\ b <= position
                    THEN moved[b] + 1 ELSE moved[b]]
    BY Zenon DEF Rewind, Consumed, Active
  <2>3. ASSUME NEW b \in 1..Length,
               position - (end - start) < b, b <= position
        PROVE  moved[b] = 0
    <3> DEFINE i == b - position + end - 1
    <3>1. i \in Nat /\ start <= i /\ i < end /\ i > size \div 2
          /\ position - end + i + 1 = b
      BY <1>1, <1>2, <2>3
    <3> HIDE DEF i
    <3>2. QED
      BY <2>1, <3>1
  <2>4. moved' \in [1..Length -> Nat]
    BY <2>1, <2>2
  <2>5. ASSUME NEW b \in 1..Length
        PROVE  moved'[b] <= 1 /\ (b > position => moved'[b] = 0)
    <3>1. CASE position - (end - start) < b /\ b <= position
      BY <1>1, <2>2, <2>3, <3>1
    <3>2. CASE ~(position - (end - start) < b /\ b <= position)
      BY <1>1, <2>1, <2>2, <3>2
    <3>3. QED
      BY <3>1, <3>2
  <2>6. ASSUME NEW i \in Nat, start' <= i, i < end', i > size' \div 2
        PROVE  FALSE
    BY <1>1, <1>2, <2>6
  <2>7. QED
    BY <1>2, <2>4, <2>5, <2>6 DEF Rewound
<1>6. QED
  BY <1>3, <1>4, <1>5

LEMMA ReallocateKeeps ==
    ASSUME SInv, NEW n \in Nat, n >= 1, Active + n <= MaxPeek,
           ~HasSpace(n), ~CanRewind(n), Reallocate(n), position' = position
    PROVE  Indices' /\ Contents' /\ Rewound' /\ size' - end' >= n
           /\ Active' = Active
<1> DEFINE c == NextPowerOf2(end + n)
<1>1. /\ position \in Nat /\ position <= Length
      /\ size \in Nat /\ start \in Nat /\ end \in Nat
      /\ start <= end /\ end <= size
      /\ end - start <= position /\ Length \in Nat
  BY LengthAssumption DEF SInv, Indices
<1>2. /\ c \in Nat /\ c < 4 * MaxPeek
      /\ c >= end + n /\ c >= size /\ c \div 2 >= size \div 2
  BY Capacity, Zenon DEF SInv
<1>3. /\ size' = c /\ start' = 0 /\ end' = end - start /\ moved' = moved
      /\ position' = position
      /\ buffer' = [i \in 0..(c - 1) |->
                      IF i < end - start THEN buffer[start + i] ELSE 0]
  BY Zenon DEF Reallocate, Active
<1> HIDE DEF c
<1>4. Indices' /\ size' - end' >= n /\ Active' = Active
  BY <1>1, <1>2, <1>3 DEF Indices, HasSpace, Active
<1>5. Contents'
  <2>1. /\ buffer \in [0..(size - 1) -> 0..Length]
        /\ \A i \in 0..(size - 1) :
              start <= i /\ i < end => buffer[i] = position - end + i + 1
    BY DEF SInv, Contents, ByteAt
  <2>2. ASSUME NEW i \in 0..(c - 1)
        PROVE  /\ i < end - start => /\ start + i \in 0..(size - 1)
                                     /\ buffer'[i] = buffer[start + i]
                                     /\ buffer'[i] = position - (end - start) + i + 1
               /\ ~(i < end - start) => buffer'[i] = 0
    BY <1>1, <1>2, <1>3, <2>1
  <2>3. \A i \in 0..(c - 1) : buffer'[i] \in 0..Length
    BY <1>1, <2>1, <2>2
  <2>4. buffer' \in [0..(c - 1) -> 0..Length]
    BY <1>3, <2>3
  <2>5. QED
    BY <1>1, <1>3, <2>2, <2>4 DEF Contents, ByteAt
<1>6. Rewound'
  <2>1. /\ moved \in [1..Length -> Nat]
        /\ \A b \in 1..Length : moved[b] <= 1
        /\ \A b \in 1..Length : b > position => moved[b] = 0
        /\ \A i \in Nat : start <= i /\ i < end /\ i > size \div 2
              => moved[position - end + i + 1] = 0
    BY DEF SInv, Rewound, ByteAt
  <2>2. ASSUME NEW i \in Nat, 0 <= i, i < end - start, i > c \div 2
        PROVE  moved[position - (end - start) + i + 1] = 0
    <3>1. /\ start + i \in Nat /\ start <= start + i /\ start + i < end
          /\ start + i > size \div 2
          /\ position - end + (start + i) + 1 = position - (end - start) + i + 1
      <4>1. size \div 2 \in Nat /\ c \div 2 \in Nat
        BY <1>1, <1>2
      <4>2. QED
        BY <1>1, <1>2, <2>2, <4>1
    <3>2. QED
      BY <2>1, <3>1
  <2>3. QED
    BY <1>3, <2>1, <2>2 DEF Rewound, ByteAt
<1>7. QED
  BY <1>4, <1>5, <1>6

LEMMA EnsureSpaceKeeps ==
    ASSUME SInv, NEW n \in Nat, n >= 1, Active + n <= MaxPeek,
           EnsureSpace(n), position' = position
    PROVE  Indices' /\ Contents' /\ Rewound' /\ size' - end' >= n
           /\ Active' = Active
<1>1. CASE HasSpace(n) /\ UNCHANGED <<buffer, size, start, end, moved>>
  <2>1. /\ buffer' = buffer /\ size' = size /\ start' = start /\ end' = end
        /\ moved' = moved /\ Indices /\ Contents /\ Rewound
    BY <1>1 DEF SInv
  <2>2. QED
    BY <1>1, <2>1, Zenon DEF Indices, Contents, Rewound, HasSpace, Active, ByteAt
<1>2. CASE ~HasSpace(n) /\ CanRewind(n) /\ Rewind
  BY <1>2, RewindKeeps, Zenon
<1>3. CASE ~HasSpace(n) /\ ~CanRewind(n) /\ Reallocate(n)
  BY <1>3, ReallocateKeeps, Zenon
<1>4. QED
  BY <1>1, <1>2, <1>3, Zenon DEF EnsureSpace

-----------------------------------------------------------------------------
(* Every operation keeps the invariant.                                    *)

LEMMA ViewStays ==
    ASSUME ViewInside, size' = size, view' = view
    PROVE  ViewInside'
BY Zenon DEF ViewInside

LEMMA PeekBufferedKeeps ==
    ASSUME SInv, NEW n \in 1..MaxPeek, PeekBuffered(n)
    PROVE  SInv'
<1>1. /\ wanted = 0 /\ wanted' = 0 /\ end - start >= n /\ view' = [at |-> start, len |-> n]
      /\ position' = position /\ buffer' = buffer /\ size' = size
      /\ start' = start /\ end' = end /\ needed' = needed /\ moved' = moved
  BY Zenon DEF PeekBuffered, Idle, Active, Viewed
<1>2. Indices /\ Asked /\ Contents /\ Rewound
  BY Zenon DEF SInv
<1>3. Indices' /\ Contents' /\ Rewound'
  BY <1>1, <1>2, Zenon DEF Indices, Contents, Rewound, ByteAt
<1>4. Asked'
  BY <1>1, <1>2 DEF Asked
<1>5. ViewInside'
  BY <1>1, <1>2, LengthAssumption DEF ViewInside, Indices
<1>6. QED
  BY <1>3, <1>4, <1>5, Zenon DEF SInv

LEMMA BeginPeekKeeps ==
    ASSUME SInv, NEW n \in 1..MaxPeek, BeginPeek(n)
    PROVE  SInv' /\ Active' = Active /\ position' = position
<1> PICK need : need = n - Active
  OBVIOUS
<1>1. /\ wanted = 0 /\ Active < n /\ EnsureSpace(need)
      /\ wanted' = n /\ needed' = need /\ view' = NoView
      /\ position' = position
  BY Zenon DEF BeginPeek, Idle
<1>2. /\ start \in Nat /\ end \in Nat /\ start <= end /\ Active = end - start
      /\ MaxPeek \in Nat
  BY LengthAssumption DEF SInv, Indices, Active
<1>3. need \in Nat /\ need >= 1 /\ Active + need = n /\ Active + need <= MaxPeek
  BY <1>1, <1>2
<1>4. /\ Indices' /\ Contents' /\ Rewound' /\ size' - end' >= need
      /\ Active' = Active
  BY <1>1, <1>3, EnsureSpaceKeeps, Zenon
<1>5. Asked'
  <2>1. size' - end' >= need /\ end' - start' = end - start
    BY <1>4, Zenon DEF Active
  <2>2. need <= n /\ end - start + need = n
    BY <1>2, <1>3
  <2>3. QED
    BY <1>1, <1>3, <2>1, <2>2, LengthAssumption DEF Asked
<1>6. ViewInside'
  <2>1. view' = [at |-> 0, len |-> 0] /\ size' \in Nat
    BY <1>1, <1>4, Zenon DEF NoView, Indices
  <2>2. QED
    BY <2>1, LengthAssumption DEF ViewInside
<1>7. QED
  BY <1>1, <1>4, <1>5, <1>6, Zenon DEF SInv

LEMMA ReadSomeKeeps ==
    ASSUME SInv, NEW count \in 1..MaxPeek, ReadSome(count)
    PROVE  SInv'
<1>1. /\ needed > 0 /\ count <= needed /\ count <= Length - position
      /\ end' = end + count /\ position' = position + count
      /\ needed' = needed - count /\ size' = size /\ start' = start
      /\ wanted' = wanted /\ view' = view /\ moved' = moved
      /\ buffer' = [i \in 0..(size - 1) |->
                      IF end <= i /\ i < end + count
                      THEN position + 1 + (i - end) ELSE buffer[i]]
  BY Zenon DEF ReadSome
<1>2. /\ position \in Nat /\ position <= Length /\ Length \in Nat
      /\ size \in Nat /\ size < 4 * MaxPeek
      /\ start \in Nat /\ end \in Nat /\ start <= end /\ end <= size
      /\ end - start <= position /\ MaxPeek \in Nat
  BY LengthAssumption DEF SInv, Indices
<1>3. Asked /\ Contents /\ ViewInside /\ Rewound
  BY Zenon DEF SInv
<1>4. size - end >= needed /\ needed \in Nat
  BY <1>3 DEF Asked
<1>5. Indices'
  BY <1>1, <1>2, <1>4 DEF Indices
<1>6. Asked'
  BY <1>1, <1>2, <1>3 DEF Asked
<1>7. Contents'
  <2>1. /\ buffer \in [0..(size - 1) -> 0..Length]
        /\ \A i \in 0..(size - 1) :
              start <= i /\ i < end => buffer[i] = position - end + i + 1
    BY <1>3 DEF Contents, ByteAt
  <2>2. ASSUME NEW i \in 0..(size - 1)
        PROVE  /\ buffer'[i] \in 0..Length
               /\ start <= i /\ i < end + count =>
                     buffer'[i] = (position + count) - (end + count) + i + 1
    <3>1. CASE end <= i /\ i < end + count
      <4>1. buffer'[i] = position + 1 + (i - end)
        BY <1>1, <3>1
      <4>2. QED
        BY <1>1, <1>2, <3>1, <4>1
    <3>2. CASE ~(end <= i /\ i < end + count)
      <4>1. buffer'[i] = buffer[i]
        BY <1>1, <3>2
      <4>2. QED
        BY <1>1, <1>2, <2>1, <3>2, <4>1
    <3>3. QED
      BY <3>1, <3>2
  <2>3. buffer' \in [0..(size - 1) -> 0..Length]
    BY <1>1, <2>2
  <2>4. QED
    BY <1>1, <2>2, <2>3 DEF Contents, ByteAt
<1>8. ViewInside'
  BY <1>1, <1>3, ViewStays, Zenon
<1>9. Rewound'
  <2>1. /\ moved \in [1..Length -> Nat]
        /\ \A b \in 1..Length : moved[b] <= 1
        /\ \A b \in 1..Length : b > position => moved[b] = 0
        /\ \A i \in Nat : start <= i /\ i < end /\ i > size \div 2
              => moved[position - end + i + 1] = 0
    BY <1>3 DEF Rewound, ByteAt
  <2>2. ASSUME NEW i \in Nat, start <= i, i < end + count, i > size \div 2
        PROVE  moved[(position + count) - (end + count) + i + 1] = 0
    <3>1. (position + count) - (end + count) + i + 1 = position - end + i + 1
      BY <1>2
    <3>2. CASE i < end
      BY <2>1, <2>2, <3>1, <3>2
    <3>3. CASE ~(i < end)
      <4>1. /\ position - end + i + 1 \in 1..Length
            /\ position - end + i + 1 > position
        BY <1>1, <1>2, <2>2, <3>3
      <4>2. QED
        BY <2>1, <3>1, <4>1
    <3>4. QED
      BY <3>2, <3>3
  <2>3. \A b \in 1..Length : b > position + count => moved[b] = 0
    BY <1>2, <2>1
  <2>4. QED
    BY <1>1, <2>1, <2>2, <2>3 DEF Rewound, ByteAt
<1>10. QED
  BY <1>5, <1>6, <1>7, <1>8, <1>9, Zenon DEF SInv

LEMMA EndPeekKeeps ==
    ASSUME SInv, EndPeek
    PROVE  SInv'
<1>1. /\ wanted > 0 /\ needed = 0 /\ wanted' = 0
      /\ view' = [at |-> start, len |-> end - start]
      /\ position' = position /\ buffer' = buffer /\ size' = size
      /\ start' = start /\ end' = end /\ needed' = needed /\ moved' = moved
  BY Zenon DEF EndPeek, Viewed, Active
<1>2. Indices /\ Asked /\ Contents /\ Rewound
  BY Zenon DEF SInv
<1>3. Indices' /\ Contents' /\ Rewound'
  BY <1>1, <1>2, Zenon DEF Indices, Contents, Rewound, ByteAt
<1>4. Asked'
  BY <1>1, <1>2, LengthAssumption DEF Asked, Indices
<1>5. ViewInside'
  <2>1. end - start \in 0..MaxPeek
    BY <1>1, <1>2, LengthAssumption DEF Asked, Indices
  <2>2. QED
    BY <1>1, <1>2, <2>1 DEF ViewInside, Indices
<1>6. QED
  BY <1>3, <1>4, <1>5, Zenon DEF SInv

LEMMA AdvanceKeeps ==
    ASSUME SInv, NEW n \in 0..Length, Advance(n)
    PROVE  /\ SInv' /\ Consumed' = Consumed + n /\ n <= Length - Consumed
           /\ Consumed \in Nat
<1>1. /\ wanted = 0 /\ n <= Length - (position - (end - start))
      /\ \/ /\ end - start > n /\ start' = start + n
            /\ position' = position /\ end' = end
         \/ /\ ~(end - start > n)
            /\ position' = position + (n - (end - start))
            /\ start' = 0 /\ end' = 0
      /\ buffer' = buffer /\ size' = size /\ wanted' = wanted
      /\ needed' = needed /\ view' = view /\ moved' = moved
  BY DEF Advance, Idle, Consumed, Active
<1>2. /\ position \in Nat /\ position <= Length /\ Length \in Nat
      /\ size \in Nat /\ size < 4 * MaxPeek
      /\ start \in Nat /\ end \in Nat /\ start <= end /\ end <= size
      /\ end - start <= position /\ MaxPeek \in Nat
  BY LengthAssumption DEF SInv, Indices
<1>3. Asked /\ Contents /\ ViewInside /\ Rewound
  BY Zenon DEF SInv
<1>4. Indices'
  BY <1>1, <1>2 DEF Indices
<1>5. Asked'
  BY <1>1, <1>2, <1>3 DEF Asked
<1>6. Contents'
  BY <1>1, <1>2, <1>3 DEF Contents, ByteAt
<1>7. ViewInside'
  BY <1>1, <1>3, ViewStays, Zenon
<1>8. Rewound'
  <2>1. /\ moved \in [1..Length -> Nat]
        /\ \A b \in 1..Length : moved[b] <= 1
        /\ \A b \in 1..Length : b > position => moved[b] = 0
        /\ \A i \in Nat : start <= i /\ i < end /\ i > size \div 2
              => moved[position - end + i + 1] = 0
    BY <1>3 DEF Rewound, ByteAt
  <2>2. position' \in Nat /\ position' >= position
    BY <1>1, <1>2
  <2>3. ASSUME NEW i \in Nat, start' <= i, i < end', i > size \div 2
        PROVE  moved[position' - end' + i + 1] = 0
    <3>1. /\ position' = position /\ end' = end /\ start <= i /\ i < end
      BY <1>1, <1>2, <2>3
    <3>2. QED
      BY <2>1, <2>3, <3>1
  <2>4. \A b \in 1..Length : b > position' => moved[b] = 0
    BY <1>2, <2>1, <2>2
  <2>5. QED
    BY <1>1, <2>1, <2>3, <2>4 DEF Rewound, ByteAt
<1>9. Consumed' = Consumed + n /\ n <= Length - Consumed /\ Consumed \in Nat
  <2>1. Consumed = position - (end - start)
        /\ Consumed' = position' - (end' - start')
    BY Zenon DEF Consumed, Active
  <2>2. position' - (end' - start') = position - (end - start) + n
    <3>1. CASE /\ end - start > n /\ start' = start + n
               /\ position' = position /\ end' = end
      BY <1>2, <3>1
    <3>2. CASE /\ position' = position + (n - (end - start))
               /\ start' = 0 /\ end' = 0
      BY <1>2, <3>2
    <3>3. QED
      BY <1>1, <3>1, <3>2, Zenon
  <2>3. QED
    BY <1>1, <1>2, <2>1, <2>2
<1>10. QED
  BY <1>4, <1>5, <1>6, <1>7, <1>8, <1>9, Zenon DEF SInv

LEMMA StreamStepKeeps == SInv /\ [Next]_vars => SInv'
<1> SUFFICES ASSUME SInv, [Next]_vars
             PROVE  SInv'
  OBVIOUS
<1>1. CASE PeekNothing
  <2>1. /\ position' = position /\ buffer' = buffer /\ size' = size
        /\ start' = start /\ end' = end /\ wanted' = wanted
        /\ needed' = needed /\ moved' = moved /\ view' = NoView
        /\ Indices /\ Asked /\ Contents /\ Rewound
    BY <1>1, Zenon DEF PeekNothing, SInv
  <2>2. ViewInside'
    BY <2>1, LengthAssumption DEF ViewInside, NoView, Indices
  <2>3. Asked'
    BY <2>1, Zenon DEF Asked
  <2>4. QED
    BY <2>1, <2>2, <2>3, Zenon DEF SInv, Indices, Contents, Rewound, ByteAt
<1>2. ASSUME NEW n \in 1..MaxPeek, PeekBuffered(n) \/ BeginPeek(n)
      PROVE  SInv'
  BY <1>2, PeekBufferedKeeps, BeginPeekKeeps, Zenon
<1>3. ASSUME NEW count \in 1..MaxPeek, ReadSome(count)
      PROVE  SInv'
  BY <1>3, ReadSomeKeeps, Zenon
<1>4. CASE ReadNothing
  <2>1. /\ position' = position /\ buffer' = buffer /\ size' = size
        /\ start' = start /\ end' = end /\ wanted' = wanted
        /\ needed' = 0 /\ moved' = moved /\ view' = view
        /\ needed > 0 /\ position = Length
        /\ Indices /\ Asked /\ Contents /\ Rewound /\ ViewInside
    BY <1>4, Zenon DEF ReadNothing, SInv
  <2>2. Asked'
    BY <2>1, LengthAssumption DEF Asked, Indices
  <2>3. QED
    BY <2>1, <2>2, Zenon DEF SInv, Indices, Contents, Rewound, ByteAt, ViewInside
<1>5. CASE EndPeek
  BY <1>5, EndPeekKeeps, Zenon
<1>6. ASSUME NEW n \in 0..Length, Advance(n)
      PROVE  SInv'
  BY <1>6, AdvanceKeeps, Zenon
<1>7. CASE UNCHANGED vars
  BY <1>7, Zenon DEF vars, SInv, Indices, Asked, Contents, ViewInside, Rewound,
     ByteAt
<1>8. QED
  BY <1>1, <1>2, <1>3, <1>4, <1>5, <1>6, <1>7, Zenon DEF Next

LEMMA StreamInvariance == Spec => []SInv
BY StreamInit, StreamStepKeeps, PTL DEF Spec

-----------------------------------------------------------------------------
(* The indices, the buffer and the view stay within their bounds.          *)
THEOREM StreamTypeCorrect == Spec => []TypeOK
<1>1. SInv => TypeOK
  BY LengthAssumption
     DEF SInv, Indices, Asked, Contents, ViewInside, Rewound, TypeOK
<1>2. QED
  BY <1>1, StreamInvariance, PTL

(* The assertion of read_exactly holds: ensure_space has always made room  *)
(* for what is still to be read.                                           *)
THEOREM SpaceToReadHolds == Spec => []SpaceToRead
<1>1. SInv => SpaceToRead
  BY DEF SInv, Asked, SpaceToRead, HasSpace
<1>2. QED
  BY <1>1, StreamInvariance, PTL

(* Whatever is peeked and consumed, no byte is rewound twice.              *)
THEOREM RewoundAtMostOnceHolds == Spec => []RewoundAtMostOnce
<1>1. SInv => RewoundAtMostOnce
  BY DEF SInv, Rewound, RewoundAtMostOnce
<1>2. QED
  BY <1>1, StreamInvariance, PTL

(* The buffer stays smaller than four times the longest peek, however long *)
(* the stream is.                                                          *)
THEOREM BufferBoundedHolds == Spec => []BufferBounded
<1>1. SInv => BufferBounded
  BY DEF SInv, Indices, BufferBounded
<1>2. QED
  BY <1>1, StreamInvariance, PTL

-----------------------------------------------------------------------------
(* Refinement.                                                             *)

Seen == [i \in 1..view.len |-> buffer[view.at + i - 1]]

LEMMA SeenNothing ==
    ASSUME view = NoView
    PROVE  Seen = Bytes!NothingSeen
<1>1. view.len = 0
  BY Zenon DEF NoView
<1>2. 1..0 = {}
  OBVIOUS
<1>3. QED
  BY <1>1, <1>2, Zenon DEF Seen, Bytes!NothingSeen

(* The front of the buffer shows the next bytes of the stream.             *)
LEMMA FrontIsNext ==
    ASSUME Indices, Contents, NEW n \in Nat, NEW w \in Nat, n <= end - start,
           Bytes!Least(Length - Consumed, w) = n
    PROVE  [i \in 1..n |-> buffer[start + i - 1]] = Bytes!NextBytes(w)
<1>1. /\ position \in Nat /\ position <= Length /\ Length \in Nat
      /\ size \in Nat /\ start \in Nat /\ end \in Nat
      /\ start <= end /\ end <= size
  BY LengthAssumption DEF Indices
<1>2. ASSUME NEW i \in 1..n
      PROVE  buffer[start + i - 1] = Consumed + i
  <2>1. /\ start + i - 1 \in 0..(size - 1) /\ start <= start + i - 1
        /\ start + i - 1 < end
    BY <1>1
  <2>2. buffer[start + i - 1] = ByteAt(start + i - 1)
    BY <2>1, Zenon DEF Contents
  <2>3. QED
    BY <1>1, <2>2 DEF ByteAt, Consumed, Active
<1>3. Bytes!NextBytes(w) = [i \in 1..n |-> Consumed + i]
  BY Zenon DEF Bytes!NextBytes
<1>4. QED
  BY <1>2, <1>3, Zenon

LEMMA SeenFront ==
    ASSUME NEW n, view' = [at |-> start, len |-> n], buffer' = buffer
    PROVE  Seen' = [i \in 1..n |-> buffer[start + i - 1]]
<1>1. view'.at = start /\ view'.len = n
  BY Zenon
<1>2. QED
  BY <1>1, Zenon DEF Seen

LEMMA SeenStays ==
    ASSUME view' = view, buffer' = buffer
    PROVE  Seen' = Seen
BY Zenon DEF Seen

(* peekable_stream is the byte stream of IPeekableStream: a peek shows the *)
(* next bytes, all of them that are left if they are fewer than asked for, *)
(* advance consumes, and a view in use is not disturbed.                   *)
THEOREM StreamImplementsByteStream == Spec => ImplementsByteStream
<1>1. Init => Bytes!Init
  <2> SUFFICES ASSUME Init
               PROVE  Consumed = 0 /\ Seen = Bytes!NothingSeen
    BY Zenon DEF Bytes!Init, Seen
  <2>1. Consumed = 0
    BY DEF Init, Consumed, Active
  <2>2. QED
    BY <2>1, SeenNothing, Zenon DEF Init
<1>2. SInv /\ SInv' /\ [Next]_vars => [Bytes!Next]_(Bytes!vars)
  <2> SUFFICES ASSUME SInv, SInv', [Next]_vars
               PROVE  [Bytes!Next]_(Bytes!vars)
    OBVIOUS
  <2>1. ASSUME Seen' = Bytes!NothingSeen, Consumed' = Consumed
        PROVE  Bytes!Next
    BY <2>1, Zenon DEF Bytes!Next, Bytes!DropView, Seen, Bytes!NothingSeen
  <2>2. ASSUME NEW n \in 1..MaxPeek, Seen' = Bytes!NextBytes(n),
               Consumed' = Consumed
        PROVE  Bytes!Next
    BY <2>2, Zenon DEF Bytes!Next, Bytes!Peek, Seen
  <2>3. ASSUME Seen' = Seen, Consumed' = Consumed
        PROVE  [Bytes!Next]_(Bytes!vars)
    BY <2>3, Zenon DEF Bytes!vars, Seen
  <2>4. ASSUME view' = NoView
        PROVE  Seen' = Bytes!NothingSeen
    <3>1. view'.len = 0
      BY <2>4, Zenon DEF NoView
    <3>2. 1..0 = {}
      OBVIOUS
    <3>3. QED
      BY <3>1, <3>2, Zenon DEF Seen, Bytes!NothingSeen
  <2>5. CASE PeekNothing
    <3>1. view' = NoView /\ Consumed' = Consumed
      BY <2>5, Zenon DEF PeekNothing, Consumed, Active
    <3>2. QED
      BY <2>1, <2>4, <3>1, Zenon
  <2>6. ASSUME NEW n \in 1..MaxPeek, PeekBuffered(n)
        PROVE  Bytes!Next
    <3>1. /\ Consumed' = Consumed /\ Active >= n
          /\ view' = [at |-> start, len |-> n] /\ buffer' = buffer
      BY <2>6, Zenon DEF PeekBuffered, Viewed, Consumed, Active
    <3>2. n \in Nat /\ n <= end - start /\ Indices /\ Contents
          /\ Bytes!Least(Length - Consumed, n) = n
      BY <3>1, LengthAssumption DEF SInv, Indices, Active, Consumed, Bytes!Least
    <3>3. Seen' = Bytes!NextBytes(n)
      BY <3>1, <3>2, FrontIsNext, SeenFront, Zenon
    <3>4. QED
      BY <2>2, <3>1, <3>3, Zenon
  <2>7. ASSUME NEW n \in 1..MaxPeek, BeginPeek(n)
        PROVE  Bytes!Next
    <3>1. view' = NoView /\ Consumed' = Consumed
      BY <2>7, BeginPeekKeeps, Zenon DEF BeginPeek, Consumed
    <3>2. QED
      BY <2>1, <2>4, <3>1, Zenon
  <2>8. ASSUME NEW count \in 1..MaxPeek, ReadSome(count)
        PROVE  [Bytes!Next]_(Bytes!vars)
    <3>1. wanted > 0 /\ wanted' > 0
      BY <2>8 DEF ReadSome, SInv, Asked
    <3>2. view = NoView /\ view' = NoView
      BY <3>1, Zenon DEF SInv, Asked
    <3>3. Seen' = Seen
      BY <2>4, <3>2, SeenNothing, Zenon
    <3>4. Consumed' = Consumed
      BY <2>8 DEF ReadSome, Consumed, Active, SInv, Indices
    <3>5. QED
      BY <2>3, <3>3, <3>4, Zenon
  <2>9. CASE ReadNothing
    <3>1. Consumed' = Consumed /\ view' = view /\ buffer' = buffer
      BY <2>9, Zenon DEF ReadNothing, Consumed, Active
    <3>2. QED
      BY <2>3, <3>1, SeenStays, Zenon
  <2>10. CASE EndPeek
    <3>1. /\ wanted > 0 /\ needed = 0 /\ view' = [at |-> start, len |-> end - start]
          /\ position' = position /\ start' = start /\ end' = end
          /\ buffer' = buffer /\ Consumed' = Consumed
      BY <2>10, Zenon DEF EndPeek, Viewed, Consumed, Active
    <3>2. /\ wanted \in 1..MaxPeek /\ end - start \in Nat
          /\ \/ wanted = end - start
             \/ end - start <= wanted /\ position = Length
          /\ Indices /\ Contents
      BY <3>1, LengthAssumption DEF SInv, Asked, Indices
    <3>3. PICK n \in Nat, w \in 1..MaxPeek : n = end - start /\ w = wanted
      BY <3>2
    <3>4. n \in Nat /\ n <= end - start /\ w \in Nat /\ w \in 1..MaxPeek
          /\ Bytes!Least(Length - Consumed, w) = n
      BY <3>2, <3>3, LengthAssumption DEF Indices, Active, Consumed, Bytes!Least
    <3>5. Seen' = Bytes!NextBytes(w)
      <4>1. [i \in 1..n |-> buffer[start + i - 1]] = Bytes!NextBytes(w)
        BY <3>2, <3>4, FrontIsNext, Zenon
      <4>2. Seen' = [i \in 1..n |-> buffer[start + i - 1]]
        BY <3>1, <3>3, SeenFront, Zenon
      <4>3. QED
        BY <4>1, <4>2, Zenon
    <3>6. QED
      BY <2>2, <3>1, <3>4, <3>5, Zenon
  <2>11. ASSUME NEW n \in 0..Length, Advance(n)
        PROVE  Bytes!Next
    <3>1. /\ Consumed' = Consumed + n /\ n <= Length - Consumed
          /\ view' = view /\ buffer' = buffer
      BY <2>11, AdvanceKeeps, Zenon DEF Advance
    <3>2. Seen' = Seen
      BY <3>1, SeenStays, Zenon
    <3>3. QED
      BY <3>1, <3>2, Zenon DEF Bytes!Next, Bytes!Advance, Seen
  <2>12. CASE UNCHANGED vars
    <3>1. Consumed' = Consumed /\ view' = view /\ buffer' = buffer
      BY <2>12, Zenon DEF vars, Consumed, Active
    <3>2. QED
      BY <2>3, <3>1, SeenStays, Zenon
  <2>13. QED
    BY <2>5, <2>6, <2>7, <2>8, <2>9, <2>10, <2>11, <2>12, Zenon DEF Next
<1>3. QED
  BY <1>1, <1>2, StreamInvariance, PTL DEF Spec, ImplementsByteStream, Bytes!Spec

-----------------------------------------------------------------------------
(* The sizes that are tried.  Induction over them is membership in every   *)
(* closed set.                                                             *)

LEMMA TriedSmallest ==
    ASSUME NEW S \in ClosedSizes
    PROVE  Tried \subseteq S
BY DEF Tried

LEMMA TriedInRange ==
    /\ MaxHeader \in Nat /\ MaxHeader <= MaxPeek /\ MaxPeek \in Nat
    /\ ExpectedHeader \in Nat /\ ExpectedHeader > 0
    /\ ExpectedHeader <= MaxHeader
    /\ Tried \subseteq 1..MaxHeader
BY HeaderAssumption, LengthAssumption DEF Tried

LEMMA FirstTried == ExpectedHeader \in Tried
BY HeaderAssumption DEF Tried, ClosedSizes

LEMMA DoubleTried ==
    ASSUME NEW n \in Tried, 2 * n <= MaxHeader
    PROVE  2 * n \in Tried
<1>1. n \in 1..MaxHeader
  BY TriedInRange
<1>2. 2 * n \in 1..MaxHeader
  BY <1>1, TriedInRange
<1>3. ASSUME NEW S \in ClosedSizes
      PROVE  2 * n \in S
  BY TriedSmallest DEF ClosedSizes
<1>4. QED
  BY <1>2, <1>3 DEF Tried

LEMMA FirstIsLeast ==
    ASSUME NEW n \in Tried
    PROVE  ExpectedHeader <= n
<1> DEFINE S == {m \in 1..MaxHeader : ExpectedHeader <= m}
<1>1. S \in ClosedSizes
  <2>1. S \subseteq 1..MaxHeader /\ ExpectedHeader \in S
    BY TriedInRange
  <2>2. ASSUME NEW m \in S, 2 * m <= MaxHeader
        PROVE  2 * m \in S
    BY <2>2, TriedInRange
  <2>3. QED
    BY <2>1, <2>2 DEF ClosedSizes
<1>2. QED
  BY <1>1, TriedSmallest

(* Between a size that is tried and its double no other is.                *)
LEMMA NoneBetween ==
    ASSUME NEW a \in Tried, NEW b \in Tried, a < b
    PROVE  2 * a <= b
<1> DEFINE S == {n \in Tried : \A m \in Tried : n < m => 2 * n <= m}
<1>1. ExpectedHeader \in S
  <2> DEFINE R == {n \in 1..MaxHeader :
                      n = ExpectedHeader \/ 2 * ExpectedHeader <= n}
  <2>1. R \in ClosedSizes
    <3>1. R \subseteq 1..MaxHeader /\ ExpectedHeader \in R
      BY TriedInRange
    <3>2. ASSUME NEW n \in R, 2 * n <= MaxHeader
          PROVE  2 * n \in R
      BY <3>2, TriedInRange
    <3>3. QED
      BY <3>1, <3>2 DEF ClosedSizes
  <2>2. \A m \in Tried : m = ExpectedHeader \/ 2 * ExpectedHeader <= m
    BY <2>1, TriedSmallest
  <2>3. QED
    BY <2>2, FirstTried, TriedInRange
<1>2. ASSUME NEW n \in S, 2 * n <= MaxHeader
      PROVE  2 * n \in S
  <2> DEFINE R == {m \in Tried : m <= 2 * n \/ 4 * n <= m}
  <2>1. n \in Tried /\ n \in 1..MaxHeader /\ ExpectedHeader <= n
    BY TriedInRange, FirstIsLeast
  <2>2. R \in ClosedSizes
    <3>1. R \subseteq 1..MaxHeader /\ ExpectedHeader \in R
      <4>1. ExpectedHeader <= 2 * n
        BY <2>1, TriedInRange
      <4>2. R \subseteq Tried
        OBVIOUS
      <4>3. QED
        BY <4>1, <4>2, TriedInRange, FirstTried
    <3>2. ASSUME NEW m \in R, 2 * m <= MaxHeader
          PROVE  2 * m \in R
      <4>1. m \in Tried /\ m \in 1..MaxHeader /\ 2 * m \in Tried
        BY <3>2, TriedInRange, DoubleTried
      <4>2. n < m => 2 * n <= m
        BY <4>1
      <4>3. 2 * m <= 2 * n \/ 4 * n <= 2 * m
        BY <2>1, <4>1, <4>2
      <4>4. QED
        BY <4>1, <4>3
    <3>3. QED
      BY <3>1, <3>2 DEF ClosedSizes
  <2>3. \A m \in Tried : m <= 2 * n \/ 4 * n <= m
    BY <2>2, TriedSmallest
  <2>4. 2 * n \in Tried
    BY <2>1, <1>2, DoubleTried
  <2>5. \A m \in Tried : 2 * n < m => 2 * (2 * n) <= m
    BY <2>1, <2>3, TriedInRange
  <2>6. QED
    BY <2>4, <2>5
<1>3. S \in ClosedSizes
  BY <1>1, <1>2, TriedInRange DEF ClosedSizes
<1>4. QED
  BY <1>3, TriedSmallest

LEMMA LastIsGreatest ==
    ASSUME NEW e \in Tried, 2 * e > MaxHeader, NEW n \in Tried
    PROVE  n <= e
<1>1. e \in 1..MaxHeader /\ n \in 1..MaxHeader
  BY TriedInRange
<1>2. QED
  BY <1>1, NoneBetween, TriedInRange

-----------------------------------------------------------------------------
(* The layout of the chunk.                                                *)

LEMMA LayoutFacts ==
    ASSUME pages \in Layouts
    PROVE  /\ Len(pages) \in Nat /\ Len(pages) > 0
           /\ DOMAIN pages = 1..Len(pages)
           /\ \A k \in 1..Len(pages) : pages[k] \in Page
           /\ pages[1].at = 0
           /\ \A k \in 2..Len(pages) : pages[k].at = PageEnd(pages[k - 1])
           /\ \A j, k \in 1..Len(pages) :
                 j < k => PageEnd(pages[j]) <= pages[k].at
           /\ Length <= PageEnd(pages[Len(pages)])
<1>1. pages \in Seq(Page) /\ pages # <<>>
  BY LayoutsAssumption
<1>2. DOMAIN pages = 1..Len(pages)
  BY <1>1
<1>3. /\ pages[1].at = 0
      /\ \A k \in 2..Len(pages) : pages[k].at = PageEnd(pages[k - 1])
      /\ \A j, k \in DOMAIN pages :
            j < k => PageEnd(pages[j]) <= pages[k].at
      /\ Length <= PageEnd(pages[Len(pages)])
  BY LayoutsAssumption, Zenon
<1>4. Len(pages) \in Nat /\ Len(pages) > 0
  BY <1>1
<1>5. \A k \in 1..Len(pages) : pages[k] \in Page
  BY <1>1
<1>6. QED
  BY <1>2, <1>3, <1>4, <1>5, Zenon

LEMMA PageFacts ==
    ASSUME pages \in Layouts, NEW k \in 1..Len(pages)
    PROVE  /\ pages[k].at \in Nat
           /\ pages[k].header \in Nat /\ pages[k].header > 0
           /\ pages[k].contents \in Nat /\ pages[k].contents <= MaxPeek
           /\ Through(k - 1) = pages[k].at
           /\ HeaderEnd(k) = pages[k].at + pages[k].header
           /\ Through(k) = HeaderEnd(k) + pages[k].contents
           /\ PageEnd(pages[k]) \in Nat /\ pages[k].at < PageEnd(pages[k])
<1>1. pages[k] \in Page
  BY LayoutFacts, Zenon
<1>2. /\ pages[k].at \in Nat
      /\ pages[k].header \in Nat /\ pages[k].header > 0
      /\ pages[k].contents \in Nat /\ pages[k].contents <= MaxPeek
  BY <1>1, LengthAssumption DEF Page
<1>3. k \in Nat /\ k >= 1 /\ Len(pages) \in Nat /\ k <= Len(pages)
  BY LayoutFacts
<1>4. Through(k - 1) = pages[k].at
  <2>1. CASE k = 1
    BY <2>1, LayoutFacts DEF Through
  <2>2. CASE k # 1
    <3>1. k \in 2..Len(pages) /\ k - 1 # 0
      BY <1>3, <2>2
    <3>2. pages[k].at = PageEnd(pages[k - 1])
      BY <3>1, LayoutFacts, Zenon
    <3>3. QED
      BY <3>1, <3>2, Zenon DEF Through
  <2>3. QED
    BY <2>1, <2>2
<1>5. Through(k) = HeaderEnd(k) + pages[k].contents
  BY <1>2, <1>3 DEF Through, HeaderEnd, PageEnd
<1>6. PageEnd(pages[k]) \in Nat /\ pages[k].at < PageEnd(pages[k])
  BY <1>2 DEF PageEnd
<1>7. QED
  BY <1>2, <1>4, <1>5, <1>6 DEF HeaderEnd

(* No two pages begin at the same byte.                                    *)
LEMMA OnePage ==
    ASSUME pages \in Layouts, NEW k \in 1..Len(pages)
    PROVE  PagesAt(pages[k].at + 1) = {k}
<1>1. ASSUME NEW j \in 1..Len(pages), pages[j].at + 1 = pages[k].at + 1
      PROVE  j = k
  <2>1. /\ pages[j].at \in Nat /\ pages[k].at \in Nat
        /\ pages[j].at < PageEnd(pages[j]) /\ pages[k].at < PageEnd(pages[k])
        /\ PageEnd(pages[j]) \in Nat /\ PageEnd(pages[k]) \in Nat
    BY PageFacts
  <2>2. /\ j < k => PageEnd(pages[j]) <= pages[k].at
        /\ k < j => PageEnd(pages[k]) <= pages[j].at
    BY LayoutFacts, Zenon
  <2>3. j \in Int /\ k \in Int
    BY LayoutFacts
  <2>4. QED
    BY <1>1, <2>1, <2>2, <2>3
<1>2. k \in DOMAIN pages
  BY LayoutFacts
<1>3. QED
  BY <1>1, <1>2, LayoutFacts, Zenon DEF PagesAt

(* A source that goes on behind the first pages goes on with another page. *)
LEMMA NextIsThere ==
    ASSUME pages \in Layouts, NEW k \in 0..Len(pages), Through(k) < Length
    PROVE  k + 1 \in 1..Len(pages)
<1>1. Len(pages) \in Nat /\ Len(pages) > 0
  BY LayoutFacts
<1>2. Length \in Nat /\ Length <= PageEnd(pages[Len(pages)])
  BY LayoutFacts, LengthAssumption
<1>3. k # Len(pages)
  <2> SUFFICES ASSUME k = Len(pages) PROVE FALSE
    OBVIOUS
  <2>1. Through(k) = PageEnd(pages[k])
    BY <1>1 DEF Through
  <2>2. PageEnd(pages[k]) \in Nat
    BY <1>1, PageFacts DEF PageEnd
  <2>3. QED
    BY <1>2, <2>1, <2>2
<1>4. QED
  BY <1>1, <1>3

-----------------------------------------------------------------------------
(* The inductive invariant.                                                *)

(* The view shows the front of the buffer, all that was asked for unless   *)
(* the source has ended; or it will, when the peek under way ends.         *)
Peeked(n) ==
    IF Idle
    THEN /\ view.len > 0 => view.at = start
         /\ view.len \in Nat /\ view.len <= end - start
         /\ \/ view.len = n
            \/ view.len < n /\ view.len = end - start /\ position = Length
    ELSE wanted = n

(* How much of the stream is consumed, and what is peeked at.              *)
Between ==
    pc \in {"idle", "page", "eof", "header"} => Consumed = Through(read)

Inside ==
    pc \in {"consumed", "contents"} =>
        read + 1 \in 1..Len(pages) /\ Consumed = HeaderEnd(read + 1)

Looking ==
    /\ pc \notin {"header", "contents"} => Idle
    /\ pc = "header" => Peeked(expected)
    /\ pc = "contents" => Peeked(pages[read + 1].contents)

Places == {"idle", "header", "consumed", "contents", "page", "eof", "failed"}

Members ==
    /\ pages \in Layouts
    /\ pc \in Places
    /\ expected \in Tried
    /\ read \in 0..Len(pages)

RInv ==
    /\ SInv /\ Members
    /\ Between /\ Inside /\ Looking
    /\ PagesInOrder /\ EndedRight

-----------------------------------------------------------------------------
(* The steps of the stream, as the reader sees them.                       *)

LEMMA Numbers ==
    ASSUME SInv
    PROVE  /\ position \in Nat /\ position <= Length /\ Length \in Nat
           /\ start \in Nat /\ end \in Nat /\ start <= end /\ end <= size
           /\ size \in Nat /\ end - start <= position
           /\ wanted \in Nat /\ needed \in Nat /\ needed <= wanted
           /\ Consumed = position - (end - start)
           /\ Consumed \in Nat
BY LengthAssumption DEF SInv, Indices, Asked, Consumed, Active

LEMMA StartPeekIsNext ==
    ASSUME NEW n \in 0..MaxPeek, StartPeek(n)
    PROVE  Next
<1>1. CASE n = 0
  BY <1>1 DEF StartPeek, Next
<1>2. CASE n # 0
  <2>1. n \in 1..MaxPeek
    BY <1>2, LengthAssumption
  <2>2. QED
    BY <1>2, <2>1, Zenon DEF StartPeek, Next
<1>3. QED
  BY <1>1, <1>2

LEMMA StartPeekShows ==
    ASSUME SInv, NEW n \in 0..MaxPeek, StartPeek(n)
    PROVE  Peeked(n)' /\ Consumed' = Consumed
<1> USE Numbers
<1>1. CASE n = 0 /\ PeekNothing
  BY <1>1 DEF PeekNothing, Peeked, Idle, NoView, Consumed, Active
<1>2. CASE n # 0 /\ PeekBuffered(n)
  <2>1. /\ view'.at = start /\ view'.len = n /\ n <= end - start
        /\ start' = start /\ end' = end /\ position' = position
        /\ wanted' = 0
    BY <1>2 DEF PeekBuffered, Viewed, Active, Idle
  <2>2. n \in Nat
    BY LengthAssumption
  <2>3. QED
    BY <2>1, <2>2 DEF Peeked, Idle, Consumed, Active
<1>3. CASE n # 0 /\ BeginPeek(n)
  <2>1. wanted' = n /\ position' = position
    BY <1>3 DEF BeginPeek
  <2>2. EnsureSpace(n - Active)
    BY <1>3 DEF BeginPeek
  <2>3. end' - start' = end - start
    <3>1. \/ start' = start /\ end' = end
          \/ start' = 0 /\ end' = end - start
      <4>1. CASE UNCHANGED <<buffer, size, start, end, moved>>
        BY <4>1
      <4>2. CASE Rewind
        BY <4>2, Zenon DEF Rewind, Active
      <4>3. CASE Reallocate(n - Active)
        BY <4>3, Zenon DEF Reallocate, Active
      <4>4. QED
        BY <2>2, <4>1, <4>2, <4>3, Zenon DEF EnsureSpace
    <3>2. QED
      BY <3>1
  <2>4. QED
    BY <1>3, <2>1, <2>3 DEF Peeked, Idle, Consumed, Active
<1>4. QED
  BY <1>1, <1>2, <1>3 DEF StartPeek

LEMMA StreamStepShows ==
    ASSUME SInv, StreamStep
    PROVE  /\ Next
           /\ ~Idle
           /\ Consumed' = Consumed
           /\ \A n \in Nat : Peeked(n) => Peeked(n)'
<1> USE Numbers
<1>1. ASSUME NEW count \in 1..MaxPeek, ReadSome(count)
      PROVE  /\ Next /\ ~Idle /\ Consumed' = Consumed
             /\ \A n \in Nat : Peeked(n) => Peeked(n)'
  <2>1. /\ position' = position + count /\ end' = end + count
        /\ start' = start /\ wanted' = wanted /\ wanted > 0
    BY <1>1 DEF ReadSome
  <2>2. Next
    BY <1>1, Zenon DEF Next
  <2>3. Consumed' = Consumed
    BY <2>1 DEF Consumed, Active
  <2>4. QED
    BY <2>1, <2>2, <2>3 DEF Idle, Peeked
<1>2. CASE ReadNothing
  <2>1. /\ position' = position /\ end' = end
        /\ start' = start /\ wanted' = wanted /\ wanted > 0
    BY <1>2 DEF ReadNothing
  <2>2. QED
    BY <1>2, <2>1 DEF Idle, Peeked, Consumed, Active, Next
<1>3. CASE EndPeek
  <2>1. /\ position' = position /\ end' = end /\ start' = start
        /\ wanted' = 0 /\ wanted > 0 /\ needed = 0
        /\ view'.at = start /\ view'.len = end - start
    BY <1>3 DEF EndPeek, Viewed, Active
  <2>2. /\ end - start + needed <= wanted
        /\ end - start + needed = wanted \/ position = Length
    BY <2>1 DEF SInv, Asked
  <2>3. ASSUME NEW n \in Nat, Peeked(n)
        PROVE  Peeked(n)'
    <3>1. wanted = n
      BY <2>1, <2>3 DEF Peeked, Idle
    <3>2. QED
      BY <2>1, <2>2, <3>1 DEF Peeked, Idle
  <2>4. QED
    BY <1>3, <2>1, <2>3 DEF Idle, Consumed, Active, Next
<1>4. QED
  BY <1>1, <1>2, <1>3, Zenon DEF StreamStep

LEMMA AdvanceShows ==
    ASSUME SInv, NEW n \in Nat, Advance(n)
    PROVE  /\ Next
           /\ Consumed' = Consumed + n
           /\ Idle /\ Idle'
           /\ view' = view /\ buffer' = buffer
<1>1. n \in 0..Length
  BY Numbers DEF Advance
<1>2. Next
  BY <1>1, Zenon DEF Next
<1>3. Consumed' = Consumed + n
  BY Numbers DEF Advance, Consumed, Active
<1>4. QED
  BY <1>2, <1>3 DEF Advance, Idle

-----------------------------------------------------------------------------
(* The header that is looked at is that of the next page.                  *)

LEMMA SeenIsNext ==
    ASSUME RInv, pc = "header", Idle, view.len > 0
    PROVE  /\ read + 1 \in 1..Len(pages)
           /\ PagesAt(buffer[view.at]) = {read + 1}
           /\ SeenPage = read + 1
           /\ view.len \in Nat /\ view.len <= end - start
<1>1. /\ view.at = start /\ view.len \in Nat /\ view.len <= end - start
      /\ Consumed = Through(read) /\ SInv /\ Members
  BY DEF RInv, Between, Looking, Peeked
<1>2. Consumed < Length
  BY <1>1, Numbers
<1>3. read + 1 \in 1..Len(pages)
  BY <1>1, <1>2, NextIsThere DEF Members
<1>4. buffer[start] = Consumed + 1
  <2>1. start \in 0..(size - 1) /\ start <= start /\ start < end
    BY <1>1, Numbers
  <2>2. buffer[start] = ByteAt(start)
    BY <1>1, <2>1, Zenon DEF SInv, Contents
  <2>3. QED
    BY <1>1, <2>2, Numbers DEF ByteAt
<1>5. read \in Nat /\ read + 1 - 1 = read
  BY <1>1, LayoutFacts DEF Members
<1>6. Through(read) = pages[read + 1].at
  BY <1>1, <1>3, <1>5, PageFacts DEF Members
<1>7. PagesAt(buffer[view.at]) = {read + 1}
  BY <1>1, <1>3, <1>4, <1>6, OnePage DEF Members
<1>8. SeenPage = read + 1
  BY <1>7 DEF SeenPage
<1>9. QED
  BY <1>1, <1>3, <1>7, <1>8

LEMMA ReaderStart == ReaderInit => RInv
<1> SUFFICES ASSUME ReaderInit
             PROVE  RInv
  OBVIOUS
<1>1. SInv
  BY StreamInit DEF ReaderInit
<1>2. Members
  BY FirstTried, LayoutFacts DEF ReaderInit, Members, Places
<1>3. Consumed = 0 /\ Idle /\ pc = "idle" /\ read = 0
  BY DEF ReaderInit, Init, Consumed, Active, Idle
<1>4. QED
  BY <1>1, <1>2, <1>3
     DEF RInv, Between, Inside, Looking, PagesInOrder, EndedRight, Through

-----------------------------------------------------------------------------
(* The steps of the reader, each with what it does to the members and the  *)
(* stream.                                                                 *)

LEMMA ReaderStepIsNext ==
    ASSUME RInv, ReaderNext
    PROVE  [Next]_vars
<1>1. SInv /\ Members /\ MaxHeader <= MaxPeek
  BY HeaderAssumption DEF RInv
<1>2. CASE StreamStep
  BY <1>1, <1>2, StreamStepShows
<1>3. CASE NextPage
  BY <1>3, StartPeekIsNext, TriedInRange DEF NextPage
<1>4. CASE ConsumeHeader
  <2>1. /\ pc = "header" /\ Idle /\ view.len > 0
        /\ Advance(pages[SeenPage].header)
    BY <1>4 DEF ConsumeHeader
  <2>2. pages[SeenPage].header \in Nat
    BY <1>1, <2>1, SeenIsNext, PageFacts DEF Members
  <2>3. QED
    BY <1>1, <2>1, <2>2, AdvanceShows
<1>5. CASE RetryHeader
  <2>1. 2 * expected \in 0..MaxPeek
    BY <1>1, <1>5, TriedInRange DEF RetryHeader, Members
  <2>2. QED
    BY <1>5, <2>1, StartPeekIsNext DEF RetryHeader
<1>6. CASE PeekContents
  <2>1. read + 1 \in 1..Len(pages)
    BY <1>6 DEF RInv, Inside, PeekContents
  <2>2. pages[read + 1].contents \in 0..MaxPeek
    BY <1>1, <2>1, PageFacts, LengthAssumption DEF Members
  <2>3. QED
    BY <1>6, <2>2, StartPeekIsNext DEF PeekContents
<1>7. CASE DeliverPage
  <2>1. read + 1 \in 1..Len(pages)
    BY <1>7 DEF RInv, Inside, DeliverPage
  <2>2. pages[read + 1].contents \in Nat
    BY <1>1, <2>1, PageFacts DEF Members
  <2>3. QED
    BY <1>1, <1>7, <2>2, AdvanceShows DEF DeliverPage
<1>8. CASE \/ EndOfChunk \/ HeaderMalformed \/ HeaderFails
           \/ NegativeSize \/ ContentsFail
  BY <1>8 DEF EndOfChunk, HeaderMalformed, HeaderFails, NegativeSize,
     ContentsFail
<1>9. QED
  BY <1>2, <1>3, <1>4, <1>5, <1>6, <1>7, <1>8 DEF ReaderNext

(* What depends on the members and on the numbers of the stream only.      *)
LEMMA MembersStay ==
    ASSUME Members, UNCHANGED <<pages, expected, read>>, pc' \in Places
    PROVE  Members'
BY DEF Members

LEMMA PlacesOf ==
    /\ UNCHANGED readerVars => UNCHANGED <<pages, pc, expected, read>>
    /\ UNCHANGED <<pages, pc, expected, read, vars>> =>
          /\ UNCHANGED <<pages, pc, expected, read>>
          /\ UNCHANGED vars
BY DEF readerVars

LEMMA StreamStepKept ==
    ASSUME RInv, SInv', StreamStep
    PROVE  RInv'
<1>1. /\ UNCHANGED <<pages, pc, expected, read>>
      /\ SInv /\ Members
  BY PlacesOf DEF StreamStep, RInv
<1>2. /\ ~Idle /\ Consumed' = Consumed
      /\ \A n \in Nat : Peeked(n) => Peeked(n)'
  BY <1>1, StreamStepShows
<1>3. pc \in {"header", "contents"}
  BY <1>2 DEF RInv, Looking
<1>4. Members'
  BY <1>1, MembersStay DEF Members
<1>5. Between' /\ Inside'
  BY <1>1, <1>2 DEF RInv, Between, Inside, Through, HeaderEnd
<1>6. Looking'
  <2>1. CASE pc = "header"
    <3>1. expected \in Nat /\ Peeked(expected)
      BY <1>1, <2>1, TriedInRange DEF Members, RInv, Looking
    <3>2. Peeked(expected)'
      BY <1>1, <1>2, <3>1 DEF Peeked
    <3>3. QED
      BY <1>1, <2>1, <3>2 DEF Looking
  <2>2. CASE pc = "contents"
    <3>1. read + 1 \in 1..Len(pages) /\ Peeked(pages[read + 1].contents)
      BY <2>2 DEF RInv, Looking, Inside
    <3>2. pages[read + 1].contents \in Nat
      BY <1>1, <3>1, PageFacts DEF Members
    <3>3. Peeked(pages[read + 1].contents)'
      BY <1>1, <1>2, <3>1, <3>2 DEF Peeked
    <3>4. QED
      BY <1>1, <2>2, <3>3 DEF Looking
  <2>3. QED
    BY <1>3, <2>1, <2>2
<1>7. PagesInOrder' /\ EndedRight'
  BY <1>1, <1>3 DEF PagesInOrder, EndedRight
<1>8. QED
  BY <1>4, <1>5, <1>6, <1>7 DEF RInv

LEMMA NextPageKept ==
    ASSUME RInv, SInv', NextPage
    PROVE  RInv'
<1>1. /\ pc \in {"idle", "page"} /\ StartPeek(ExpectedHeader)
      /\ pc' = "header" /\ expected' = ExpectedHeader
      /\ pages' = pages /\ read' = read
      /\ SInv /\ Members /\ Consumed = Through(read)
  BY DEF NextPage, RInv, Between
<1>2. Peeked(ExpectedHeader)' /\ Consumed' = Consumed
  BY <1>1, StartPeekShows, TriedInRange
<1>3. Peeked(expected)'
  BY <1>1, <1>2 DEF Peeked
<1>4. Members'
  BY <1>1, FirstTried DEF Members, Places
<1>5. QED
  BY <1>1, <1>2, <1>3, <1>4
     DEF RInv, Between, Inside, Looking, PagesInOrder, EndedRight, Through

LEMMA EndOfChunkKept ==
    ASSUME RInv, SInv', EndOfChunk
    PROVE  RInv'
<1>1. /\ pc = "header" /\ Idle /\ view.len = 0 /\ pc' = "eof"
      /\ UNCHANGED <<pages, expected, read>>
      /\ UNCHANGED vars
      /\ SInv /\ Members /\ Consumed = Through(read) /\ Peeked(expected)
  BY DEF EndOfChunk, RInv, Between, Looking
<1>2. Consumed' = Consumed /\ Idle'
  BY <1>1 DEF vars, Consumed, Active, Idle
<1>3. Consumed = Length
  <2>1. expected > 0
    BY <1>1, TriedInRange DEF Members
  <2>2. view.len = end - start /\ position = Length
    BY <1>1, <2>1 DEF Peeked
  <2>3. QED
    BY <1>1, <2>2, Numbers
<1>4. Members'
  BY <1>1, MembersStay DEF Places
<1>5. EndedRight'
  BY <1>1, <1>3 DEF EndedRight, Through
<1>6. QED
  BY <1>1, <1>2, <1>4, <1>5
     DEF RInv, Between, Inside, Looking, PagesInOrder, Through

LEMMA ConsumeHeaderKept ==
    ASSUME RInv, SInv', ConsumeHeader
    PROVE  RInv'
<1>1. /\ pc = "header" /\ Idle /\ view.len > 0 /\ pc' = "consumed"
      /\ Advance(pages[SeenPage].header)
      /\ UNCHANGED <<pages, expected, read>>
      /\ SInv /\ Members /\ Consumed = Through(read)
  BY DEF ConsumeHeader, RInv, Between
<1>2. read + 1 \in 1..Len(pages) /\ SeenPage = read + 1
  BY <1>1, SeenIsNext
<1>3. pages[read + 1].header \in Nat
  BY <1>1, <1>2, PageFacts DEF Members
<1>4. Consumed' = Consumed + pages[read + 1].header /\ Idle'
  BY <1>1, <1>2, <1>3, AdvanceShows
<1>5. Consumed' = HeaderEnd(read + 1)
  <2>1. read + 1 - 1 = read
    BY <1>1, LayoutFacts DEF Members
  <2>2. Through(read) = pages[read + 1].at
    BY <1>1, <1>2, <2>1, PageFacts DEF Members
  <2>3. QED
    BY <1>1, <1>4, <2>2 DEF HeaderEnd
<1>6. Members'
  BY <1>1, MembersStay DEF Places
<1>7. Inside'
  BY <1>1, <1>2, <1>5 DEF Inside, HeaderEnd
<1>8. QED
  BY <1>1, <1>4, <1>6, <1>7
     DEF RInv, Between, Looking, PagesInOrder, EndedRight

(* Steps that give up, for a reason that EndedRight has.                   *)
LEMMA FailingKept ==
    ASSUME RInv, SInv', Idle, pc' = "failed", UNCHANGED vars,
           UNCHANGED <<pages, expected, read>>,
           \/ Length < Through(read + 1)
           \/ \A n \in Tried : n < pages[read + 1].header
           \/ ~pages[read + 1].parses
           \/ ~pages[read + 1].sized
    PROVE  RInv'
<1>1. Members' /\ Idle'
  BY MembersStay DEF RInv, Places, Idle, vars
<1>2. EndedRight'
  BY DEF EndedRight, Through
<1>3. QED
  BY <1>1, <1>2 DEF RInv, Between, Inside, Looking, PagesInOrder

LEMMA HeaderMalformedKept ==
    ASSUME RInv, SInv', HeaderMalformed
    PROVE  RInv'
<1>1. /\ pc = "header" /\ Idle /\ view.len > 0 /\ pc' = "failed"
      /\ UNCHANGED <<pages, expected, read>> /\ UNCHANGED vars
      /\ ~pages[SeenPage].parses
  BY DEF HeaderMalformed
<1>2. SeenPage = read + 1
  BY <1>1, SeenIsNext
<1>3. QED
  BY <1>1, <1>2, FailingKept

LEMMA RetryHeaderKept ==
    ASSUME RInv, SInv', RetryHeader
    PROVE  RInv'
<1>1. /\ pc = "header" /\ StartPeek(2 * expected)
      /\ 2 * expected <= MaxHeader /\ expected' = 2 * expected
      /\ pages' = pages /\ read' = read /\ pc' = "header"
      /\ SInv /\ Members /\ Consumed = Through(read)
  BY DEF RetryHeader, RInv, Between
<1>2. 2 * expected \in Tried /\ 2 * expected \in 0..MaxPeek
  BY <1>1, DoubleTried, TriedInRange DEF Members
<1>3. Peeked(expected)' /\ Consumed' = Consumed
  <2>1. PICK m \in 0..MaxPeek : m = 2 * expected
    BY <1>2
  <2>2. Peeked(m)' /\ Consumed' = Consumed
    BY <1>1, <2>1, StartPeekShows
  <2>3. expected' = m
    BY <1>1, <2>1
  <2>4. QED
    BY <1>1, <2>1, <2>2, <2>3 DEF Peeked
<1>4. Members'
  BY <1>1, <1>2 DEF Members, Places
<1>5. QED
  BY <1>1, <1>3, <1>4
     DEF RInv, Between, Inside, Looking, PagesInOrder, EndedRight, Through

LEMMA HeaderFailsKept ==
    ASSUME RInv, SInv', HeaderFails
    PROVE  RInv'
<1>1. /\ pc = "header" /\ Idle /\ view.len > 0 /\ pc' = "failed"
      /\ UNCHANGED <<pages, expected, read>> /\ UNCHANGED vars
      /\ view.len < pages[SeenPage].header
      /\ view.len < expected \/ 2 * expected > MaxHeader
      /\ SInv /\ Members /\ Consumed = Through(read) /\ Peeked(expected)
  BY DEF HeaderFails, HeaderCut, RInv, Between, Looking
<1>2. /\ SeenPage = read + 1 /\ read + 1 \in 1..Len(pages)
      /\ expected \in 1..MaxHeader
      /\ view.len \in Nat /\ view.len < pages[read + 1].header
  BY <1>1, SeenIsNext, TriedInRange DEF Members
<1>3. CASE view.len < expected
  <2>1. view.len = end - start /\ position = Length
    BY <1>1, <1>2, <1>3 DEF Peeked
  <2>2. Length = Through(read) + view.len
    BY <1>1, <2>1, Numbers
  <2>3. read + 1 - 1 = read
    BY <1>1, LayoutFacts DEF Members
  <2>4. Through(read) = pages[read + 1].at
    BY <1>1, <1>2, <2>3, PageFacts DEF Members
  <2>5. Length < Through(read + 1)
    <3>1. /\ pages[read + 1].at \in Nat /\ pages[read + 1].header \in Nat
          /\ pages[read + 1].contents \in Nat
          /\ Through(read + 1) = pages[read + 1].at + pages[read + 1].header
                                   + pages[read + 1].contents
      BY <1>1, <1>2, PageFacts DEF Members
    <3>2. QED
      BY <1>2, <2>2, <2>4, <3>1
  <2>6. QED
    BY <1>1, <2>5, FailingKept
<1>4. CASE ~(view.len < expected)
  <2>1. view.len = expected /\ 2 * expected > MaxHeader
    BY <1>1, <1>4 DEF Peeked
  <2>2. \A n \in Tried : n <= expected
    BY <1>1, <2>1, LastIsGreatest DEF Members
  <2>3. pages[read + 1].header \in Nat
    BY <1>1, <1>2, PageFacts DEF Members
  <2>4. ASSUME NEW n \in Tried
        PROVE  n < pages[read + 1].header
    <3>1. n \in 1..MaxHeader /\ MaxHeader \in Nat /\ n <= expected
      BY <2>2, TriedInRange
    <3>2. QED
      BY <1>2, <2>1, <2>3, <3>1
  <2>5. QED
    BY <1>1, <2>4, FailingKept
<1>5. QED
  BY <1>3, <1>4

LEMMA PeekContentsKept ==
    ASSUME RInv, SInv', PeekContents
    PROVE  RInv'
<1>1. /\ pc = "consumed" /\ pc' = "contents"
      /\ StartPeek(pages[read + 1].contents)
      /\ UNCHANGED <<pages, expected, read>>
      /\ SInv /\ Members
      /\ read + 1 \in 1..Len(pages) /\ Consumed = HeaderEnd(read + 1)
  BY DEF PeekContents, RInv, Inside
<1>2. PICK m \in 0..MaxPeek : m = pages[read + 1].contents
  BY <1>1, PageFacts, LengthAssumption DEF Members
<1>3. Peeked(m)' /\ Consumed' = Consumed
  BY <1>1, <1>2, StartPeekShows
<1>4. Looking'
  BY <1>1, <1>2, <1>3 DEF Looking, Peeked
<1>5. Members'
  BY <1>1, MembersStay DEF Places
<1>6. Inside'
  BY <1>1, <1>3 DEF Inside, HeaderEnd
<1>7. QED
  BY <1>1, <1>4, <1>5, <1>6 DEF RInv, Between, PagesInOrder, EndedRight

LEMMA NegativeSizeKept ==
    ASSUME RInv, SInv', NegativeSize
    PROVE  RInv'
<1>1. /\ pc = "consumed" /\ pc' = "failed"
      /\ UNCHANGED <<pages, expected, read>> /\ UNCHANGED vars
      /\ ~pages[read + 1].sized
  BY DEF NegativeSize
<1>2. Idle
  BY <1>1 DEF RInv, Looking
<1>3. QED
  BY <1>1, <1>2, FailingKept

(* The contents: they are what the view shows.                             *)
LEMMA DeliverPageKept ==
    ASSUME RInv, SInv', DeliverPage
    PROVE  RInv'
<1>1. /\ pc = "contents" /\ pc' = "page" /\ Idle
      /\ view.len >= pages[read + 1].contents
      /\ Advance(pages[read + 1].contents)
      /\ pages' = pages /\ expected' = expected /\ read' = read + 1
      /\ SInv /\ Members
      /\ read + 1 \in 1..Len(pages) /\ Consumed = HeaderEnd(read + 1)
      /\ Peeked(pages[read + 1].contents)
  BY DEF DeliverPage, RInv, Inside, Looking
<1>2. pages[read + 1].contents \in Nat
  BY <1>1, PageFacts DEF Members
<1>3. /\ Consumed' = Consumed + pages[read + 1].contents /\ Idle'
      /\ view' = view /\ buffer' = buffer
  BY <1>1, <1>2, AdvanceShows
<1>4. /\ view.len = pages[read + 1].contents
      /\ view.len > 0 => view.at = start
      /\ view.len <= end - start
  BY <1>1, <1>2 DEF Peeked
<1>5. ASSUME NEW i \in 1..view.len
      PROVE  buffer[view.at + i - 1] = HeaderEnd(read + 1) + i
  <2>1. /\ i \in Nat /\ 1 <= i /\ i <= view.len /\ view.at = start
    BY <1>2, <1>4
  <2>2. /\ start + i - 1 \in 0..(size - 1)
        /\ start <= start + i - 1 /\ start + i - 1 < end
    <3>1. view.len \in Nat /\ view.len <= end - start
      BY <1>2, <1>4
    <3>2. /\ start \in Nat /\ end \in Nat /\ size \in Nat
          /\ start <= end /\ end <= size
      BY <1>1, Numbers
    <3>3. QED
      BY <2>1, <3>1, <3>2
  <2>3. buffer[start + i - 1] = ByteAt(start + i - 1)
    BY <1>1, <2>2, Zenon DEF SInv, Contents
  <2>4. QED
    BY <1>1, <2>1, <2>3, Numbers DEF ByteAt
<1>6. PagesInOrder'
  BY <1>1, <1>3, <1>4, <1>5 DEF PagesInOrder, HeaderEnd
<1>7. Between'
  <2>1. Through(read + 1) = HeaderEnd(read + 1) + pages[read + 1].contents
    BY <1>1, PageFacts DEF Members
  <2>2. QED
    BY <1>1, <1>3, <2>1 DEF Between, Through
<1>8. Members'
  BY <1>1, LayoutFacts DEF Members, Places
<1>9. QED
  BY <1>1, <1>3, <1>6, <1>7, <1>8 DEF RInv, Inside, Looking, EndedRight

LEMMA ContentsFailKept ==
    ASSUME RInv, SInv', ContentsFail
    PROVE  RInv'
<1>1. /\ pc = "contents" /\ pc' = "failed" /\ Idle
      /\ view.len < pages[read + 1].contents
      /\ UNCHANGED <<pages, expected, read>> /\ UNCHANGED vars
      /\ SInv /\ Members
      /\ read + 1 \in 1..Len(pages) /\ Consumed = HeaderEnd(read + 1)
      /\ Peeked(pages[read + 1].contents)
  BY DEF ContentsFail, RInv, Inside, Looking
<1>2. pages[read + 1].contents \in Nat
  BY <1>1, PageFacts DEF Members
<1>3. view.len = end - start /\ position = Length /\ view.len \in Nat
  BY <1>1, <1>2 DEF Peeked
<1>4. Length < Through(read + 1)
  BY <1>1, <1>2, <1>3, PageFacts, Numbers, SMTT(30) DEF Members
<1>5. QED
  BY <1>1, <1>4, FailingKept

LEMMA ReaderStutters ==
    ASSUME RInv, SInv', UNCHANGED <<vars, readerVars>>
    PROVE  RInv'
BY Zenon DEF RInv, readerVars, vars, Members, Between, Inside, Looking, Peeked,
   PagesInOrder, EndedRight, Through, HeaderEnd, Consumed, Active, Idle

LEMMA ReaderKeeps ==
    RInv /\ [ReaderNext]_<<vars, readerVars>> => RInv'
<1> SUFFICES ASSUME RInv, [ReaderNext]_<<vars, readerVars>>
             PROVE  RInv'
  OBVIOUS
<1>1. [Next]_vars
  BY ReaderStepIsNext
<1>2. SInv'
  BY <1>1, StreamStepKeeps DEF RInv
<1>3. CASE UNCHANGED <<vars, readerVars>>
  BY <1>2, <1>3, ReaderStutters
<1>4. QED
  BY <1>2, <1>3, StreamStepKept, NextPageKept, EndOfChunkKept,
     ConsumeHeaderKept, HeaderMalformedKept, RetryHeaderKept, HeaderFailsKept,
     PeekContentsKept, NegativeSizeKept, DeliverPageKept, ContentsFailKept
     DEF ReaderNext

LEMMA ReaderInvariance == ReaderSpec => []RInv
BY ReaderStart, ReaderKeeps, PTL DEF ReaderSpec

-----------------------------------------------------------------------------
(* A page reader uses the stream by its operations only, so that what holds*)
(* of the stream in any program's use holds in the reader's.               *)
THEOREM ReaderUsesStream == ReaderSpec => Spec
<1>1. ReaderInit => Init
  BY DEF ReaderInit
<1>2. RInv /\ [ReaderNext]_<<vars, readerVars>> => [Next]_vars
  BY ReaderStepIsNext
<1>3. QED
  BY <1>1, <1>2, ReaderInvariance, PTL DEF ReaderSpec, Spec

(* The members of a page reader and its stream stay within their types.    *)
THEOREM ReaderTypeCorrect == ReaderSpec => []ReaderTypeOK
<1>1. RInv /\ TypeOK => ReaderTypeOK
  BY DEF RInv, Members, Places, ReaderTypeOK
<1>2. QED
  BY <1>1, ReaderInvariance, ReaderUsesStream, StreamTypeCorrect, PTL

(* The pages of every chunk are handed out in order, each with its own     *)
(* bytes in the view, however the source cuts them and the buffer moves.   *)
THEOREM PagesInOrderHolds == ReaderSpec => []PagesInOrder
<1>1. RInv => PagesInOrder
  BY DEF RInv
<1>2. QED
  BY <1>1, ReaderInvariance, PTL

(* What is deserialized as a header is always the header of the next page, *)
(* however often the reader has tried with fewer bytes.                    *)
THEOREM InStepHolds == ReaderSpec => []InStep
<1>1. RInv => InStep
  BY SeenIsNext DEF InStep
<1>2. QED
  BY <1>1, ReaderInvariance, PTL

(* The end of a chunk is found where the source ends behind a page, and the*)
(* reader gives up only on a page that is cut, malformed, without a size,  *)
(* or with a header above every size it may try.                           *)
THEOREM EndedRightHolds == ReaderSpec => []EndedRight
<1>1. RInv => EndedRight
  BY DEF RInv
<1>2. QED
  BY <1>1, ReaderInvariance, PTL
=============================================================================
