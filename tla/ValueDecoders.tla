--------------------------- MODULE ValueDecoders ---------------------------
(***************************************************************************)
(* The decoders of encoding.cc between which value_decoder chooses.  A     *)
(* page is a sequence of numbers: bytes, or, in the parts that are packed, *)
(* what the bits stand for.  A value is a sequence of them.  A decoder is  *)
(* a record with what its reset() was given; a batch is what read_batch()  *)
(* leaves of the decoder, the values it gives, and whether it threw.       *)
(***************************************************************************)
EXTENDS DeltaBinaryPacked

CONSTANTS
    LengthBytes,  \* bytes of the length before a byte array: 4 in the code
    TypeLength,   \* type_length of a FIXED_LEN_BYTE_ARRAY
    BatchSize,    \* BATCH_SIZE: how many lengths are read at a time
    IndexBatch    \* indices that dict_decoder reads at a time: 1024 in the code

Types == {"BOOLEAN", "INT32", "INT64", "FLOAT", "BYTE_ARRAY",
          "FIXED_LEN_BYTE_ARRAY"}

WordBits(type) == IF type = "INT64" THEN 2 * BufferBits ELSE BufferBits

(* sizeof(output_type) of the types that are copied as they are.           *)
SizeOf(type) == IF type = "FLOAT" THEN 2 ELSE 1

PlainCoding(type) ==
    CASE type = "BOOLEAN" -> "bits"
      [] type = "BYTE_ARRAY" -> "lengths and bytes"
      [] type = "FIXED_LEN_BYTE_ARRAY" -> "fixed"
      [] OTHER -> "as is"

(* The types that may have an encoding, of those that not all may.         *)
ValidFor ==
    [RLE |-> {"BOOLEAN"}, DELTA_BINARY_PACKED |-> {"INT32", "INT64"},
     DELTA_LENGTH_BYTE_ARRAY |-> {"BYTE_ARRAY"},
     DELTA_BYTE_ARRAY |-> {"BYTE_ARRAY"}, BYTE_STREAM_SPLIT |-> {"FLOAT"}]

(* The switch of value_decoder::reset.                                     *)
CodingFor(type, encoding) ==
    IF encoding = "PLAIN" THEN PlainCoding(type)
    ELSE IF encoding \in {"RLE_DICTIONARY", "PLAIN_DICTIONARY"} THEN "indices"
    ELSE IF encoding \in DOMAIN ValidFor /\ type \in ValidFor[encoding]
         THEN encoding
    ELSE "refused"

Refused == [coding |-> "refused"]

Batch(d, values) == [decoder |-> d, values |-> values, threw |-> FALSE]
Threw(d) == [decoder |-> d, values |-> <<>>, threw |-> TRUE]

Fewer(a, b) == IF a < b THEN a ELSE b
Skipped(s, n) == SubSeq(s, n + 1, Len(s))

-----------------------------------------------------------------------------
(* Values that follow each other in the buffer, `size' numbers each.       *)
ReadAsIs(d, n) ==
    LET k == Fewer(Len(d.rest) \div d.size, n)
    IN  Batch([d EXCEPT !.rest = Skipped(@, k * d.size)],
              [i \in 1..k |-> SubSeq(d.rest, (i - 1) * d.size + 1, i * d.size)])

(* BitReader::GetBatch of one bit each: the bits that fill up the last     *)
(* byte are values to it.                                                  *)
Bits(bytes) ==
    FlattenSeq([i \in DOMAIN bytes |->
        [j \in 1..ByteBits |-> (bytes[i] \div Pow2(j - 1)) % 2]])

(* plain_decoder_byte_array: what the buffer lacks when it is not empty is *)
(* an error.                                                               *)
LengthAt(bytes) ==
    LET Sum[i \in 0..LengthBytes] ==
            IF i = 0 THEN 0
            ELSE Sum[i - 1] + bytes[i] * Pow2(ByteBits * (i - 1))
    IN  Sum[LengthBytes]

TakeByteArray(batch) ==
    LET rest == batch.decoder.rest
    IN  IF batch.threw \/ rest = <<>> THEN batch
        ELSE IF Len(rest) < LengthBytes
                  \/ Len(rest) - LengthBytes < LengthAt(rest)
        THEN Threw(batch.decoder)
        ELSE LET n == LengthBytes + LengthAt(rest)
             IN  Batch([batch.decoder EXCEPT !.rest = Skipped(rest, n)],
                       Append(batch.values, SubSeq(rest, LengthBytes + 1, n)))

TakeFixed(batch) ==
    LET rest == batch.decoder.rest
    IN  IF batch.threw \/ rest = <<>> THEN batch
        ELSE IF Len(rest) < TypeLength THEN Threw(batch.decoder)
        ELSE Batch([batch.decoder EXCEPT !.rest = Skipped(rest, TypeLength)],
                   Append(batch.values, SubSeq(rest, 1, TypeLength)))

-----------------------------------------------------------------------------
(* RleDecoder.  A run stands for the `count' numbers of the page that are  *)
(* behind the first `from', a literal one with the padding of its last     *)
(* group, a repeated one for copies of `value'; the page holds `present'   *)
(* of them, which is all unless it ends inside the run.                    *)
Run == [literal : BOOLEAN, value : Nat, from : Nat, count : Nat, present : Nat]

Complete(run) == run.present = run.count

NewRleDecoder(coding, dict, numbers, runs) ==
    [coding |-> coding, dict |-> dict, numbers |-> numbers, runs |-> runs,
     next |-> 1,                 \* the run whose indicator is read next
     cur  |-> 0,                 \* current_value_
     rep  |-> 0, lit |-> 0,      \* repeat_count_ and literal_count_
     have |-> 0]                 \* literals ahead in the buffer

(* Fault: the copies given are not taken off repeat_count_.                *)
TakeRepeatsKept(got, left) ==
    LET d == got.decoder
    IN  [got EXCEPT !.out = @ \o [i \in 1..Fewer(left, d.rep) |-> d.cur]]

TakeRepeats(got, left) ==
    LET d == got.decoder
        k == Fewer(left, d.rep)
    IN  [got EXCEPT !.decoder.rep = @ - k,
                    !.out = @ \o [i \in 1..k |-> d.cur]]

(* The literals not yet read are the last of their run.                    *)
Literals(d, k) ==
    LET run == d.runs[d.next - 1]
    IN  [i \in 1..k |-> d.numbers[run.from + run.count - d.lit + i]]

(* Of a run that is cut what is left is read, but not counted.             *)
TakeLiterals(got, left) ==
    LET d == got.decoder
        k == Fewer(left, d.lit)
    IN  IF d.have < k THEN [got EXCEPT !.decoder.have = 0, !.short = TRUE]
        ELSE [got EXCEPT !.decoder.lit = @ - k, !.decoder.have = @ - k,
                         !.out = @ \o Literals(d, k)]

(* Where a page ends between the indicator of a repeated run and its value *)
(* repeat_count_ is set, and current_value_ is that of the run before.     *)
NextCounts(got) ==
    LET d   == got.decoder
        run == d.runs[d.next]
    IN  IF d.next > Len(d.runs) THEN [got EXCEPT !.short = TRUE]
        ELSE IF run.literal
        THEN [got EXCEPT !.decoder.next = @ + 1,
                         !.decoder.lit = run.count, !.decoder.have = run.present]
        ELSE [got EXCEPT !.decoder.next = @ + 1, !.decoder.rep = run.count,
                         !.decoder.cur = IF Complete(run) THEN run.value ELSE @,
                         !.short = ~Complete(run)]

RunRound(got, left) ==
    IF got.short \/ left = 0 THEN got
    ELSE IF got.decoder.rep > 0 THEN TakeRepeats(got, left)
    ELSE IF got.decoder.lit > 0 THEN TakeLiterals(got, left)
    ELSE NextCounts(got)

(* Fault: no more is read when the first chunk is full.                    *)
LeftInFirst(n, chunk, out) == Fewer(n, chunk) - Len(out)

(* What is left of the chunk that is read by a call of GetBatch.           *)
LeftInChunk(n, chunk, out) == Fewer(n - Len(out), chunk - (Len(out) % chunk))

(* Every round gives a number, goes on to another run or is the last.      *)
GetBatch(d, n, chunk) ==
    LET Got[i \in 0..(n + Len(d.runs) + 1)] ==
            IF i = 0 THEN [decoder |-> d, out |-> <<>>, short |-> FALSE]
            ELSE RunRound(Got[i - 1], LeftInChunk(n, chunk, Got[i - 1].out))
    IN  Got[n + Len(d.runs) + 1]

(* dict_decoder: the index that is the number of the entries passes.       *)
LookedUp(d, got) ==
    IF \E i \in DOMAIN got.out : got.out[i] > Len(d.dict) THEN Threw(d)
    ELSE Batch(got.decoder, [i \in DOMAIN got.out |-> d.dict[got.out[i] + 1]])

ReadIndices(d, n) == LookedUp(d, GetBatch(d, n, IndexBatch))

(* rle_decoder_boolean.                                                    *)
BooleansOf(got) ==
    Batch(got.decoder, [i \in DOMAIN got.out |-> <<got.out[i]>>])

ReadBooleans(d, n) == BooleansOf(GetBatch(d, n, n))

-----------------------------------------------------------------------------
(* delta_length_byte_array_decoder.                                        *)
TakeLength(batch) ==
    LET d   == batch.decoder
        len == d.lengths[d.idx + 1]
    IN  IF batch.threw \/ d.idx = Len(d.lengths) THEN batch
        ELSE IF len > Len(d.rest) THEN Threw(d)
        ELSE Batch([d EXCEPT !.rest = Skipped(@, len), !.idx = @ + 1],
                   Append(batch.values, SubSeq(d.rest, 1, len)))

(* Fault: a value is put together without the one before it.               *)
TakePrefixNone(batch) ==
    LET d == batch.decoder
        i == Len(batch.values) + 1
    IN  IF batch.threw \/ i > Len(d.suffixes) THEN batch
        ELSE IF d.lengths[i] > Len(d.last) THEN Threw(d)
        ELSE Batch([d EXCEPT !.last = d.suffixes[i]],
                   Append(batch.values,
                          SubSeq(d.last, 1, d.lengths[i]) \o d.suffixes[i]))

(* _current_idx stays 0: every batch begins with the first value, but with *)
(* the last string of the batch before.                                    *)
TakePrefix(batch) ==
    LET d == batch.decoder
        i == Len(batch.values) + 1
        v == SubSeq(d.last, 1, d.lengths[i]) \o d.suffixes[i]
    IN  IF batch.threw \/ i > Len(d.suffixes) THEN batch
        ELSE IF d.lengths[i] > Len(d.last) THEN Threw(d)
        ELSE Batch([d EXCEPT !.last = v], Append(batch.values, v))

(* One value, and a batch, of the decoders that copy one value at a time.  *)
Take(batch) ==
    CASE batch.decoder.coding = "lengths and bytes" -> TakeByteArray(batch)
      [] batch.decoder.coding = "fixed" -> TakeFixed(batch)
      [] batch.decoder.coding = "DELTA_LENGTH_BYTE_ARRAY" -> TakeLength(batch)
      [] batch.decoder.coding = "DELTA_BYTE_ARRAY" -> TakePrefix(batch)

Times(d, n) ==
    LET Taken[i \in 0..n] ==
            IF i = 0 THEN Batch(d, <<>>) ELSE Take(Taken[i - 1])
    IN  Taken[n]

(* Their pages: all lengths are read before the first value.               *)
LengthsRead(read) ==
    IF read.d.failed THEN Refused
    ELSE [coding  |-> "DELTA_LENGTH_BYTE_ARRAY",
          lengths |-> read.values, idx |-> 0, rest |-> read.d.rest]

ResetLengths(numbers) ==
    LengthsRead(ReadAllDelta(ResetDelta(BufferBits, numbers), BatchSize))

(* Prefixes, then suffixes read to their end.                              *)
SuffixesRead(read, all) ==
    IF all.threw THEN Refused
    ELSE [coding   |-> "DELTA_BYTE_ARRAY",
          lengths  |-> read.values,
          suffixes |-> all.values,
          last     |-> <<>>]                           \* _last_string

PrefixesRead(read, suffixes) ==
    IF suffixes = Refused THEN Refused
    ELSE SuffixesRead(read, Times(suffixes, Len(suffixes.lengths)))

ThenSuffixes(read) ==
    IF read.d.failed THEN Refused
    ELSE PrefixesRead(read, ResetLengths(read.d.rest))

ResetPrefixes(numbers) ==
    ThenSuffixes(ReadAllDelta(ResetDelta(BufferBits, numbers), BatchSize))

-----------------------------------------------------------------------------
(* byte_stream_split_decoder: the bytes of a value are `total' apart.      *)
ResetSplit(type, bytes) ==
    IF Len(bytes) % SizeOf(type) # 0 THEN Refused
    ELSE [coding |-> "BYTE_STREAM_SPLIT", size |-> SizeOf(type), data |-> bytes,
          total |-> Len(bytes) \div SizeOf(type), idx |-> 0]

ReadSplit(d, n) ==
    LET k == Fewer(n, d.total - d.idx)
    IN  Batch([d EXCEPT !.idx = @ + k],
              [i \in 1..k |-> [b \in 1..d.size |->
                                  d.data[d.idx + i + (b - 1) * d.total]]])

-----------------------------------------------------------------------------
DeltaReset(delta) ==
    IF delta.failed THEN Refused
    ELSE [coding |-> "DELTA_BINARY_PACKED", delta |-> delta]

Plain(coding, size, rest) == [coding |-> coding, size |-> size, rest |-> rest]

ResetCoding(coding, type, numbers, runs, dictSet, dict) ==
    CASE coding = "as is" -> Plain(coding, SizeOf(type), numbers)
      [] coding = "bits"  -> Plain(coding, 1, Bits(numbers))
      [] coding \in {"lengths and bytes", "fixed"} -> Plain(coding, 1, numbers)
      [] coding = "RLE" -> NewRleDecoder(coding, <<>>, numbers, runs)
      [] coding = "indices" ->
            IF ~dictSet \/ numbers[1] > 32 THEN Refused
            ELSE NewRleDecoder(coding, dict, Tail(numbers), runs)
      [] coding = "DELTA_BINARY_PACKED" ->
            DeltaReset(ResetDelta(WordBits(type), numbers))
      [] coding = "DELTA_LENGTH_BYTE_ARRAY" -> ResetLengths(numbers)
      [] coding = "DELTA_BYTE_ARRAY" -> ResetPrefixes(numbers)
      [] coding = "BYTE_STREAM_SPLIT" -> ResetSplit(type, numbers)
      [] OTHER -> Refused

(* value_decoder::reset: a new decoder for every page.                     *)
ResetDecoder(type, encoding, numbers, runs, dictSet, dict) ==
    ResetCoding(CodingFor(type, encoding), type, numbers, runs, dictSet, dict)

DeltasRead(d, read) ==
    IF read.failed THEN Threw(d)
    ELSE Batch([d EXCEPT !.delta = read],
               [i \in DOMAIN read.out |-> <<read.out[i]>>])

(* value_decoder::read_batch.                                              *)
ReadBatch(d, n, spill) ==
    CASE d.coding \in {"as is", "bits"} -> ReadAsIs(d, n)
      [] d.coding = "lengths and bytes" -> Times(d, n)
      [] d.coding = "fixed" -> Times(d, n)
      [] d.coding = "indices" -> ReadIndices(d, n)
      [] d.coding = "RLE" -> ReadBooleans(d, n)
      [] d.coding = "DELTA_BINARY_PACKED" -> DeltasRead(d, ReadDelta(d.delta, n, spill))
      [] d.coding = "DELTA_LENGTH_BYTE_ARRAY" -> Times(d, n)
      [] d.coding = "DELTA_BYTE_ARRAY" -> Times(d, n)
      [] d.coding = "BYTE_STREAM_SPLIT" -> ReadSplit(d, n)
=============================================================================
