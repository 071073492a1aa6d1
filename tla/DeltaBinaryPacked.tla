------------------------- MODULE DeltaBinaryPacked -------------------------
(***************************************************************************)
(* delta_binary_packed_encoder and _decoder (encoding.cc), each a record   *)
(* with one operator for each member function.  An encoded page is a       *)
(* sequence of the numbers that BitWriter puts and BitReader gets: four of *)
(* the header, and for each block its smallest delta, the bit widths of    *)
(* its miniblocks, and the deltas of those whose width is not 0.           *)
(***************************************************************************)
EXTENDS Integers, Sequences, FiniteSets, FiniteSetsExt, SequencesExt

CONSTANTS
    ByteBits,     \* bits of a byte
    BufferBits,   \* bits of an element of delta_buffer: of an INT32
    BlockValues,  \* BLOCK_VALUES
    Miniblocks    \* MINIBLOCKS_PER_BLOCK

ASSUME DeltaAssumption ==
    /\ ByteBits \in Nat \ {0, 1} /\ BufferBits \in Nat \ {0}
    /\ Miniblocks \in Nat \ {0}
    /\ BlockValues \in {Miniblocks * n : n \in 1..BlockValues}

PerMiniblock == BlockValues \div Miniblocks

CeilDiv(a, b) == (a + b - 1) \div b

(* 2^k.                                                                    *)
Pow2(k) ==
    LET Doubled[i \in 0..k] == IF i = 0 THEN 1 ELSE 2 * Doubled[i - 1]
    IN  Doubled[k]

Wrap(bits, n) == n % Pow2(bits)
Signed(bits, n) == IF n < Pow2(bits - 1) THEN n ELSE n - Pow2(bits)

BitWidth(n) ==
    CHOOSE w \in 0..n : n < Pow2(w) /\ \A v \in 0..(w - 1) : n >= Pow2(v)

ZigZag(n) == IF n >= 0 THEN 2 * n ELSE -2 * n - 1
UnZigZag(n) == IF n % 2 = 0 THEN n \div 2 ELSE -((n + 1) \div 2)

VlqBytes(n) ==
    CHOOSE k \in 1..(n + 1) :
        /\ n < Pow2((ByteBits - 1) * k)
        /\ \A j \in 1..(k - 1) : n >= Pow2((ByteBits - 1) * j)

-----------------------------------------------------------------------------
(* Words have 32 or 64 bits in the code.                                   *)
NewDeltaEncoder(bits) ==
    [bits |-> bits, total |-> 0, first |-> 0, last |-> 0,
     pending |-> <<>>,   \* _unencoded_values
     block   |-> <<>>,   \* _encoded_buffer: its numbers,
     bytes   |-> 0]      \* and its size

(* Fault: the bytes of the bit widths are not counted.                     *)
MaxBlockBytesNoWidths(e) ==
    CeilDiv(e.bits, ByteBits - 1)
        + (e.bits \div ByteBits) * PerMiniblock
            * CeilDiv(Len(e.pending), PerMiniblock)

MaxBlockBytes(e) ==
    CeilDiv(e.bits, ByteBits - 1) + Miniblocks
        + (e.bits \div ByteBits) * PerMiniblock
            * CeilDiv(Len(e.pending), PerMiniblock)

(* max_encoded_size()                                                      *)
MaxDeltaBytes(e) ==
    4 * CeilDiv(e.bits, ByteBits - 1) + e.bytes + MaxBlockBytes(e)

Deltas(e) ==
    LET before == <<e.last>> \o e.pending
    IN  [i \in DOMAIN e.pending |-> Wrap(e.bits, before[i + 1] - before[i])]

Least(bits, deltas) ==
    CHOOSE least \in {Signed(bits, d) : d \in Range(deltas)} :
        \A d \in Range(deltas) : least <= Signed(bits, d)

Within(b) == {i \in 1..BlockValues : (i - 1) \div PerMiniblock = b - 1}

(* The bit width of a miniblock is that of its largest delta.              *)
Widths(above) ==
    [b \in 1..Miniblocks |->
        LET widths == {BitWidth(above[i]) : i \in Within(b) \cap DOMAIN above}
                          \cup {0}
        IN  CHOOSE w \in widths : \A v \in widths : v <= w]

(* What is behind the last value in the array of deltas was never set.     *)
Packed(above, width, b, unset) ==
    IF width[b] = 0 \/ (b - 1) * PerMiniblock >= Len(above)
    THEN <<>>
    ELSE [j \in 1..PerMiniblock |->
             LET i == (b - 1) * PerMiniblock + j
             IN  IF i <= Len(above) THEN above[i]
                                    ELSE Wrap(width[b], unset)]

BlockNumbers(e, least, above, width, unset) ==
    LET packed == [b \in 1..Miniblocks |-> Packed(above, width, b, unset)]
    IN  <<ZigZag(least)>> \o width \o FlattenSeq(packed)

BlockBytes(least, above, width) ==
    LET Bits[b \in 0..Miniblocks] ==    \* of the first b miniblocks
            IF b = 0 THEN 0
            ELSE Bits[b - 1] + (IF (b - 1) * PerMiniblock < Len(above)
                                THEN PerMiniblock * width[b] ELSE 0)
    IN  VlqBytes(ZigZag(least)) + Miniblocks
            + CeilDiv(Bits[Miniblocks], ByteBits)

WriteBlock(e, least, above, width, unset) ==
    [e EXCEPT
        !.last    = e.pending[Len(e.pending)],
        !.pending = <<>>,
        !.block   = @ \o BlockNumbers(e, least, above, width, unset),
        !.bytes   = @ + BlockBytes(least, above, width)]

(* How much each delta is above the smallest.                              *)
Above(bits, deltas, least) ==
    [i \in DOMAIN deltas |-> Wrap(bits, deltas[i] - least)]

WriteAbove(e, least, above, unset) ==
    WriteBlock(e, least, above, Widths(above), unset)

WriteDeltas(e, deltas, least, unset) ==
    WriteAbove(e, least, Above(e.bits, deltas, least), unset)

FlushBlock(e, unset) ==
    IF e.pending = <<>> THEN e
    ELSE WriteDeltas(e, Deltas(e), Least(e.bits, Deltas(e)), unset)

(* A full block has nothing that is unset.                                 *)
FlushFull(e) == IF Len(e.pending) = BlockValues THEN FlushBlock(e, 0) ELSE e

(* One round of put_batch, and all of them.                                *)
PutDelta(e, v) ==
    IF e.total = 0
    THEN [e EXCEPT !.total = 1, !.first = v, !.last = v]
    ELSE FlushFull([e EXCEPT !.total = @ + 1, !.pending = Append(@, v)])

PutDeltas(e, data) ==
    LET Loop[n \in 0..Len(data)] ==
            IF n = 0 THEN e ELSE PutDelta(Loop[n - 1], data[n][1])
    IN  Loop[Len(data)]

Header(e) == <<BlockValues, Miniblocks, e.total, ZigZag(Signed(e.bits, e.first))>>

HeaderBytes(e) ==
    VlqBytes(Header(e)[1]) + VlqBytes(Header(e)[2])
        + VlqBytes(Header(e)[3]) + VlqBytes(Header(e)[4])

(* flush(): the page it writes.                                            *)
DeltaPage(e, unset) ==
    CHOOSE page \in {[numbers |-> Header(last) \o last.block,
                      bytes   |-> HeaderBytes(last) + last.bytes] :
                        last \in {FlushBlock(e, unset)}} : TRUE

(* Fault: the first value is not forgotten.                                *)
FlushedDeltaCounted(e) == [NewDeltaEncoder(e.bits) EXCEPT !.total = e.total]

FlushedDelta(e) == NewDeltaEncoder(e.bits)

-----------------------------------------------------------------------------
(* The decoder.  `rest' is what BitReader has ahead of it, `out' what the  *)
(* batch under way has got.                                                *)
FailedDelta == [failed |-> TRUE]

ResetDelta(bits, numbers) ==
    IF Len(numbers) < 4 \/ (Len(numbers) > 1 /\ numbers[2] = 0)
    THEN FailedDelta
    ELSE [failed    |-> FALSE,
          bits      |-> bits,
          rest      |-> SubSeq(numbers, 5, Len(numbers)),
          minis     |-> numbers[2],                    \* _num_mini_blocks
          perMini   |-> numbers[1] \div numbers[2],
          remaining |-> numbers[3],                    \* _values_remaining
          last      |-> Wrap(bits, UnZigZag(numbers[4])),
          least     |-> 0,                             \* _min_delta
          widths    |-> <<>>,
          width     |-> 0,
          idx       |-> numbers[2],                    \* _mini_block_idx
          current   |-> 0,               \* _values_current_mini_block
          out       |-> <<>>]

InitBlock(d) ==
    IF Len(d.rest) < 1 + d.minis THEN [d EXCEPT !.failed = TRUE]
    ELSE [d EXCEPT !.least  = UnZigZag(d.rest[1]),
                   !.widths = SubSeq(d.rest, 2, 1 + d.minis),
                   !.rest   = SubSeq(@, 2 + d.minis, Len(@)),
                   !.idx    = 0]

StartMiniblock(d) ==
    IF d.failed THEN d
    ELSE [d EXCEPT !.width = d.widths[d.idx + 1], !.current = d.perMini,
                   !.idx = @ + 1]

NextMiniblock(d) ==
    IF d.current > 0 THEN d
    ELSE StartMiniblock(IF d.idx = d.minis THEN InitBlock(d) ELSE d)

(* GetBatch of n deltas, which have no bits when their width is 0.         *)
Ahead(d, n) == IF d.width = 0 THEN [i \in 1..n |-> 0] ELSE SubSeq(d.rest, 1, n)
Passed(d, n) == IF d.width = 0 THEN d.rest ELSE SubSeq(d.rest, n + 1, Len(d.rest))

(* A delta that is wider than an element of delta_buffer loses its high    *)
(* bits; one that is in two words of BitReader is shifted by more than the *)
(* width of its type, and what that leaves is anything.                    *)
Narrow(d, delta, spill) ==
    IF d.width <= BufferBits THEN delta ELSE Wrap(BufferBits, delta + spill)

AddDelta(d, delta, spill) ==
    LET v == Wrap(d.bits, d.last + Narrow(d, delta, spill) + d.least)
    IN  [d EXCEPT !.last = v, !.out = Append(@, v)]

AddDeltas(d, deltas, spill) ==
    LET Added[i \in 0..Len(deltas)] ==
            IF i = 0 THEN d ELSE AddDelta(Added[i - 1], deltas[i], spill)
    IN  Added[Len(deltas)]

TakeDeltas(d, n, spill) ==
    IF d.width > 0 /\ Len(d.rest) < n THEN [d EXCEPT !.failed = TRUE]
    ELSE [AddDeltas(d, Ahead(d, n), spill) EXCEPT
            !.rest = Passed(d, n), !.current = @ - n, !.remaining = @ - n]

EatFinalPadding(d) ==
    IF d.width > 0 /\ Len(d.rest) < d.current THEN [d EXCEPT !.failed = TRUE]
    ELSE [d EXCEPT !.rest = Passed(d, d.current), !.current = 0]

Finished(d) ==
    IF ~d.failed /\ d.remaining = 0 THEN EatFinalPadding(d) ELSE d

(* The deltas one round decodes.                                           *)
Takeable(d, n) ==
    CHOOSE k \in {n - Len(d.out), d.current, d.remaining} :
        \A j \in {n - Len(d.out), d.current, d.remaining} : k <= j

ReadMiniblock(d, n, spill) ==
    IF d.failed THEN d ELSE Finished(TakeDeltas(d, Takeable(d, n), spill))

AfterLast(d, n, spill) ==
    IF d.remaining = 0 THEN EatFinalPadding(d)
    ELSE ReadMiniblock(NextMiniblock(d), n, spill)

Done(d, n) == d.failed \/ Len(d.out) = n \/ d.remaining = 0

(* One round of the loop of read_batch(n).  It begins with the last value, *)
(* which the round before has given already.                               *)
Round(d, n, spill) ==
    IF Done(d, n) THEN d
    ELSE AfterLast([d EXCEPT !.out = Append(@, d.last), !.remaining = @ - 1],
                   n, spill)

(* Every round gives a value.                                              *)
ReadDelta(d, n, spill) ==
    LET Rounds[i \in 0..n] ==
            IF i = 0 THEN [d EXCEPT !.out = <<>>]
                     ELSE Round(Rounds[i - 1], n, spill)
    IN  Rounds[n]

(* What a caller makes of it that reads until a batch is empty.            *)
Joined(all, read) == [d |-> read, values |-> all.values \o read.out]

ReadMore(all, n) ==
    IF all.d.failed THEN all ELSE Joined(all, ReadDelta(all.d, n, 0))

ReadAllDelta(d, n) ==
    LET batches == IF d.failed THEN 0 ELSE d.remaining
        All[i \in 0..batches] ==
            IF i = 0 THEN [d |-> d, values |-> <<>>] ELSE ReadMore(All[i - 1], n)
    IN  All[batches]

-----------------------------------------------------------------------------
(* The values a sequence of numbers stands for, as Encodings.md says: each *)
(* is the one before it, the smallest delta of its block and its own.      *)
BlockOf(numbers, at, i) ==   \* where miniblock i of the block at `at' begins
    at + numbers[2] + 1
        + (numbers[1] \div numbers[2])
            * Cardinality({b \in 1..(i - 1) : numbers[at + b] # 0})

ValueAt(bits, numbers, acc, at, n) ==
    LET perMini == numbers[1] \div numbers[2]
        b       == (n % numbers[1]) \div perMini + 1
        delta   == IF numbers[at + b] = 0 THEN 0
                   ELSE numbers[BlockOf(numbers, at, b) + (n % perMini)]
    IN  [at     |-> at,
         values |-> Append(acc.values,
                           Wrap(bits, acc.values[n + 1] + UnZigZag(numbers[at])
                                          + delta))]

DeltaStandsFor(bits, numbers) ==
    LET More(acc, n) ==       \* after the first value, n deltas before
            ValueAt(bits, numbers, acc,
                    IF n = 0 THEN 5
                    ELSE IF n % numbers[1] # 0 THEN acc.at
                    ELSE BlockOf(numbers, acc.at, numbers[2] + 1), n)
        Upto[n \in 0..(numbers[3] - 1)] ==
            IF n = 0 THEN [at     |-> 5,
                           values |-> <<Wrap(bits, UnZigZag(numbers[4]))>>]
            ELSE More(Upto[n - 1], n - 1)
    IN  IF numbers[3] = 0 THEN <<>> ELSE Upto[numbers[3] - 1].values
=============================================================================
