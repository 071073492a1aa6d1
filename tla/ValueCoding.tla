---------------------------- MODULE ValueCoding ----------------------------
(***************************************************************************)
(* Pages of values from an encoder of make_value_encoder to the decoder of *)
(* value_decoder (encoding.cc).  A program puts values in batches, flushes *)
(* pages, and reads a page, one of its own or one of another program's, in *)
(* batches of any size.                                                    *)
(***************************************************************************)
EXTENDS ValueDecoders, ValueEncoder

CONSTANTS
    Columns,     \* pairs of a type and the encoding asked for
    Inputs,      \* Inputs[type]: the values of that type that are put
    Unset,       \* what may be where nothing was written
    Foreign,     \* pages of other programs
    GroupSize,   \* values in a literal group: 8 in the code
    Streams,     \* what RleEncoder makes of indices
    MaxValues,   \* bound: MaxValues[type] values put in a page
    MaxPut,      \* bound: values put at a time
    MaxBatch,    \* bound: the largest batch read
    MaxGiven     \* bound: values read before the last batch of a page

DeltaTypes == {"INT32", "INT64"}

(* A word is whole bytes, a block and a page are counted in words, and the *)
(* values of a column of integers are words.                               *)
ASSUME CodingAssumption ==
    /\ \E n \in 1..BufferBits : BufferBits = ByteBits * n
    /\ BlockValues < Pow2(BufferBits)
    /\ MaxPut \in Nat
    /\ \A type \in DeltaTypes :
          LET words == 0..(Pow2(WordBits(type)) - 1)
          IN  MaxValues[type] \in words /\ Inputs[type] \subseteq {<<v>> : v \in words}
    /\ Unset \subseteq Nat
    /\ MaxBatch \in Nat /\ BatchSize \in Nat \ {0}
    /\ LengthBytes \in Nat \ {0} /\ TypeLength \in Nat \ {0}
    /\ IndexBatch \in Nat \ {0} /\ GroupSize \in Nat \ {0}

(* How many numbers a value has.                                           *)
ValueSizes(type) ==
    CASE type = "BYTE_ARRAY" -> 0..(Pow2(ByteBits * LengthBytes) - 1)
      [] type = "FIXED_LEN_BYTE_ARRAY" -> {TypeLength}
      [] OTHER -> {SizeOf(type)}

(* Values are of their type, and the number of a dictionary's entries has  *)
(* no more bits than an index may.                                         *)
ASSUME ColumnAssumption ==
    \A col \in Columns :
        /\ col.type \in Types
        /\ \A v \in Inputs[col.type] :
              v \in Seq(Nat) /\ Len(v) \in ValueSizes(col.type)
        /\ MaxValues[col.type] \in Nat
        /\ BitWidth(FallbackThreshold + MaxValues[col.type]) <= 32

(* make_value_encoder: "dict" is dict_or_plain_encoder.                    *)
EncoderFor(type, encoding) ==
    CASE encoding = "PLAIN" -> "plain"
      [] encoding = "RLE_DICTIONARY" -> "dict"
      [] encoding = "DELTA_BINARY_PACKED" /\ type \in DeltaTypes
            -> "delta"
      [] OTHER -> "refused"

(* A page: the values it stands for, and those that fill up its last group *)
(* of literals, the numbers and the bytes it has, the runs these numbers   *)
(* are in, the bytes that were kept for it, whether this library wrote it, *)
(* and whether all of it is there.                                         *)
NoPage == [type |-> "INT32", encoding |-> "PLAIN", content |-> <<>>,
           padding |-> <<>>, numbers |-> <<>>, runs |-> <<>>,
           dictSet |-> FALSE, dict |-> <<>>,
           bytes |-> 0, reserved |-> 0, own |-> FALSE, whole |-> TRUE]

(* All the values a page has: no decoder knows which of them are padding.  *)
Held(p) == p.content \o p.padding

(* The plain encoders, each for its types.                                 *)
PlainNumbers(type, data) ==
    LET Length(n) == [i \in 1..LengthBytes |->
                         (n \div Pow2(ByteBits * (i - 1))) % Pow2(ByteBits)]
    IN  FlattenSeq([i \in DOMAIN data |->
            IF type = "BYTE_ARRAY" THEN Length(Len(data[i])) \o data[i]
            ELSE data[i]])

-----------------------------------------------------------------------------
(* What the numbers of a page stand for, as Encodings.md says of each      *)
(* coding.  A page that is not whole has only the first of its numbers, or *)
(* has some that stand for nothing.                                        *)
IsPrefixOf(s, t) == Len(s) <= Len(t) /\ s = SubSeq(t, 1, Len(s))

(* The values that are behind the first round of the delta decoder.        *)
Sure(p) == 1 + p.numbers[1] \div p.numbers[2]

(* The deltas of that round fit delta_buffer.                              *)
NarrowDeltas(p) ==
    p.numbers[3] > 1 => \A b \in 1..p.numbers[2] : p.numbers[5 + b] <= BufferBits

(* The lengths of a page are read in one round and in one batch.           *)
LengthsSure(p) ==
    /\ Len(p.numbers) >= 4 /\ p.numbers[2] > 0
    /\ Len(p.content) <= Sure(p) /\ Len(p.content) <= BatchSize

(* No page ends between the indicator of a repeated run and its value.     *)
RepeatsComplete(runs) ==
    \A k \in DOMAIN runs : runs[k].literal \/ Complete(runs[k])

(* The pages whose values every sequence of batches gives.                 *)
InBatches(p) ==
    CASE p.encoding = "PLAIN" ->
            p.type = "BOOLEAN" => ~p.own /\ Len(p.content) % ByteBits = 0
      [] p.encoding \in {"DELTA_BINARY_PACKED", "DELTA_BYTE_ARRAY"} -> FALSE
      [] p.encoding = "DELTA_LENGTH_BYTE_ARRAY" -> LengthsSure(p)
      [] p.encoding \in {"RLE", "RLE_DICTIONARY", "PLAIN_DICTIONARY"}
            -> RepeatsComplete(p.runs)
      [] OTHER -> TRUE

Stored(p, numbers, all) ==
    IsPrefixOf(numbers, all) /\ (p.whole => numbers = all)

PlainStands(p) ==
    LET bits == CodingFor(p.type, p.encoding) = "bits"
    IN  /\ \A i \in DOMAIN p.content : Len(p.content[i]) \in ValueSizes(p.type)
        /\ Stored(p, IF bits THEN Bits(p.numbers) ELSE p.numbers,
                     PlainNumbers(p.type, p.content))

(* Runs follow each other to the end of the numbers they stand for.        *)
RunsFollow(runs, numbers) ==
    /\ runs = <<>> => numbers = <<>>
    /\ \A k \in DOMAIN runs :
          LET run  == runs[k]
              till == run.from + run.count
          IN  /\ k = 1 => run.from = 0
              /\ till = IF k = Len(runs) THEN Len(numbers) ELSE runs[k + 1].from
              /\ till <= Len(numbers)
              /\ run.present <= run.count
              /\ run.literal \/ \A i \in 1..run.count :
                                  numbers[run.from + i] = run.value

RunsStand(p, numbers) ==
    /\ RunsFollow(p.runs, numbers)
    /\ p.whole => /\ Len(Held(p)) = Len(numbers)
                  /\ \A k \in DOMAIN p.runs : Complete(p.runs[k])

(* An index that is just the number of entries is read behind the entries. *)
InDict(p, index) == index # Len(p.dict)

(* So may be the old value that is given for a repeated run that is cut.   *)
OldInDict(p) ==
    /\ InDict(p, 0)
    /\ \A k \in DOMAIN p.runs : p.runs[k].literal \/ InDict(p, p.runs[k].value)

IndicesStand(p) ==
    LET indices == Tail(p.numbers)
        size    == Len(p.dict)
    IN  /\ p.numbers # <<>>
        /\ RunsStand(p, indices)
        /\ RepeatsComplete(p.runs) \/ OldInDict(p)
        /\ \A i \in DOMAIN indices :
              /\ InDict(p, indices[i])
              /\ p.whole => indices[i] < size
              /\ (\A j \in 1..i : indices[j] < size) =>
                    i <= Len(Held(p)) /\ Held(p)[i] = p.dict[indices[i] + 1]

BooleansStand(p) ==
    /\ RunsStand(p, p.numbers)
    /\ \A i \in DOMAIN p.numbers :
          i <= Len(Held(p)) /\ Held(p)[i] = <<p.numbers[i]>>

SplitStands(p) ==
    LET size  == SizeOf(p.type)
        total == Len(p.content)
    IN  p.whole =>
            /\ Len(p.numbers) = size * total
            /\ \A i \in 1..total :
                  p.content[i] = [b \in 1..size |-> p.numbers[i + (b - 1) * total]]

(* The values of a page of deltas as far as its first miniblock goes: each *)
(* is that before it, the smallest delta of the block, and its own.        *)
FirstValues(bits, numbers, values) ==
    /\ Len(numbers) >= 4 /\ numbers[2] > 0 /\ numbers[3] = Len(values)
    /\ values # <<>> => values[1] = Wrap(bits, UnZigZag(numbers[4]))
    /\ \A i \in 1..Fewer(numbers[1] \div numbers[2], Len(values) - 1) :
          values[i + 1] =
              Wrap(bits, values[i] + UnZigZag(numbers[5])
                           + IF numbers[6] = 0 THEN 0
                             ELSE numbers[5 + numbers[2] + i])

DeltasStand(p) ==
    LET values == [i \in DOMAIN p.content |-> p.content[i][1]]
    IN  p.whole => /\ p.content = [i \in DOMAIN p.content |-> <<values[i]>>]
                   /\ FirstValues(WordBits(p.type), p.numbers, values)

(* Lengths that one miniblock holds, and where they end.                   *)
LengthsEnd(numbers) ==
    IF numbers[3] <= 1 THEN 4
    ELSE 5 + numbers[2]
           + IF numbers[6] = 0 THEN 0 ELSE numbers[1] \div numbers[2]

HasLengths(numbers) ==
    numbers[3] > 1 => /\ Len(numbers) >= 5 + numbers[2]
                      /\ Len(numbers) >= LengthsEnd(numbers)

LengthsAre(numbers, lengths) ==
    /\ FirstValues(BufferBits, numbers, lengths)
    /\ Len(lengths) > 1 => numbers[6] <= BufferBits

LengthsStand(p) ==
    LengthsSure(p) =>
        /\ p.numbers[3] = Len(p.content)
        /\ IF HasLengths(p.numbers)
           THEN /\ LengthsAre(p.numbers,
                              [i \in DOMAIN p.content |-> Len(p.content[i])])
                /\ Stored(p, Skipped(p.numbers, LengthsEnd(p.numbers)),
                             FlattenSeq(p.content))
           ELSE ~p.whole

SuffixesStand(numbers, suffixes) ==
    /\ LengthsAre(numbers, [i \in DOMAIN suffixes |-> Len(suffixes[i])])
    /\ HasLengths(numbers)
    /\ Len(suffixes) <= 1 + numbers[1] \div numbers[2]
    /\ Skipped(numbers, LengthsEnd(numbers)) = FlattenSeq(suffixes)

(* Values of which each begins with a part of the value before, and what   *)
(* is behind that part.                                                    *)
PrefixBefore(content, i) == IF i = 1 THEN <<>> ELSE content[i - 1]

Shared(content, lengths, i) == Fewer(lengths[i], Len(PrefixBefore(content, i)))

Behind(content, lengths) ==
    [i \in DOMAIN content |-> Skipped(content[i], Shared(content, lengths, i))]

PrefixesAre(numbers, content, lengths) ==
    /\ LengthsAre(numbers, lengths)
    /\ \A i \in DOMAIN content :
          content[i] = SubSeq(PrefixBefore(content, i), 1, Shared(content, lengths, i))
                           \o Behind(content, lengths)[i]
    /\ SuffixesStand(Skipped(numbers, LengthsEnd(numbers)), Behind(content, lengths))

(* There is a prefix for every suffix, at which the decoder does not look. *)
PrefixesStand(p) ==
    LET reset == ResetPrefixes(p.numbers)
    IN  /\ reset # Refused => Len(reset.suffixes) <= Len(reset.lengths)
        /\ p.whole /\ LengthsSure(p) =>
              /\ HasLengths(p.numbers)
              /\ \E lengths \in [DOMAIN p.content -> 0..(Pow2(BufferBits) - 1)] :
                    PrefixesAre(p.numbers, p.content, lengths)

StandsFor(p) ==
    LET coding == CodingFor(p.type, p.encoding)
    IN  /\ coding \in {"indices", "RLE"} \/ p.padding = <<>>
        /\ CASE coding \in {"as is", "bits", "lengths and bytes", "fixed"}
                -> InBatches(p) => PlainStands(p)
          [] coding = "indices" -> p.dictSet => IndicesStand(p)
          [] coding = "RLE" -> BooleansStand(p)
          [] coding = "DELTA_BINARY_PACKED" -> DeltasStand(p)
          [] coding = "DELTA_LENGTH_BYTE_ARRAY" -> LengthsStand(p)
          [] coding = "DELTA_BYTE_ARRAY" -> PrefixesStand(p)
          [] coding = "BYTE_STREAM_SPLIT" -> SplitStands(p)
          [] OTHER -> TRUE

PageEncodings ==
    {"PLAIN", "PLAIN_DICTIONARY", "RLE_DICTIONARY", "BIT_PACKED"}
        \cup DOMAIN ValidFor

Page ==
    [type : Types, encoding : PageEncodings, content : Seq(Seq(Nat)),
     padding : Seq(Seq(Nat)), numbers : Seq(Nat), runs : Seq(Run),
     dictSet : BOOLEAN, dict : Seq(Seq(Nat)),
     bytes : Nat, reserved : Nat, own : BOOLEAN, whole : BOOLEAN]

ASSUME ForeignAssumption ==
    \A p \in Foreign : p \in Page /\ ~p.own /\ StandsFor(p)

(* A stream of runs, and the numbers they stand for.                       *)
ASSUME StreamAssumption == Streams \subseteq [numbers : Seq(Nat), runs : Seq(Run)]

VARIABLES
    column,   \* the column that is written
    encoder,  \* its value_encoder
    put,      \* history: the values put since the last flush
    page,     \* the page being read
    decoder,  \* value_decoder::_decoder
    given,    \* history: the values read from that page
    first,    \* history: how many of them the first batch gave
    ended,    \* history: a batch came back with less than was asked for
    threw     \* a reset or a batch threw an exception

vars == <<column, encoder, put, page, decoder, given, first, ended, threw>>

Kind == EncoderFor(column.type, column.encoding)

NewEncoder(col) ==
    LET kind == EncoderFor(col.type, col.encoding)
    IN  CASE kind = "delta" -> NewDeltaEncoder(WordBits(col.type))
          [] OTHER -> NewValueEncoder(kind = "dict")

Init ==
    /\ column \in {col \in Columns : EncoderFor(col.type, col.encoding) # "refused"}
    /\ encoder = NewEncoder(column)
    /\ put = <<>>
    /\ page = NoPage
    /\ decoder = Refused
    /\ given = <<>> /\ first = 0 /\ ended = FALSE
    /\ threw = FALSE

PutBatch(data) ==
    /\ page = NoPage
    /\ Len(put) + Len(data) <= MaxValues[column.type]
    /\ put' = put \o data
    /\ encoder' = IF Kind = "delta"
                  THEN PutDeltas(encoder, data)
                  ELSE PutValues(encoder, data)
    /\ UNCHANGED <<column, page, decoder, given, first, ended, threw>>

(* dict_encoder::flush: the bit width, and the runs that RleEncoder makes  *)
(* of the indices and of less than a group of zeros behind them, as        *)
(* NoIndexLost of DictIndices has it.                                      *)
IndexStream(stream, indices) ==
    LET n == Len(indices)
    IN  /\ IsPrefixOf(indices, stream.numbers)
        /\ Len(stream.numbers) - n < GroupSize
        /\ \A i \in DOMAIN stream.numbers : i > n => stream.numbers[i] = 0
        /\ n = 0 => stream.numbers = <<>>
        /\ RunsFollow(stream.runs, stream.numbers)
        /\ \A k \in DOMAIN stream.runs : Complete(stream.runs[k])

NoStream == [numbers |-> <<>>, runs |-> <<>>]

IsIndexed(e) == Kind # "delta" /\ Encoded(e).encoding = "RLE_DICTIONARY"

StreamsOf(e) ==
    IF IsIndexed(e)
    THEN {stream \in Streams : IndexStream(stream, e.indices)} ELSE {NoStream}

IndexNumbers(e, stream) == <<BitWidth(Len(e.entries))>> \o stream.numbers

(* The padding is read as copies of the first entry.                       *)
IndexPadding(e, stream) ==
    [i \in 1..(Len(stream.numbers) - Len(e.indices)) |-> e.entries[1]]

(* flush(): the page it writes, given what is in memory it does not set.   *)
(* The pages of indices are those of DictIndices, and not sized here.      *)
Written(unset, stream) ==
    IF Kind = "delta"
    THEN LET p == DeltaPage(encoder, unset)
         IN  [NoPage EXCEPT !.encoding = "DELTA_BINARY_PACKED",
                            !.numbers = p.numbers, !.bytes = p.bytes,
                            !.reserved = MaxDeltaBytes(encoder)]
    ELSE IF IsIndexed(encoder)
    THEN [NoPage EXCEPT
            !.encoding = "RLE_DICTIONARY", !.dictSet = HasDict(encoder),
            !.dict = encoder.entries, !.runs = stream.runs,
            !.numbers = IndexNumbers(encoder, stream),
            !.padding = IndexPadding(encoder, stream)]
    ELSE [NoPage EXCEPT
            !.dictSet = HasDict(encoder), !.dict = encoder.entries,
            !.numbers = PlainNumbers(column.type, Encoded(encoder).data)]

Open(p) ==
    \E d \in {ResetDecoder(p.type, p.encoding, p.numbers, p.runs,
                           p.dictSet, p.dict)} :
        /\ page' = p
        /\ decoder' = d
        /\ threw' = (d = Refused)
        /\ given' = <<>> /\ first' = 0 /\ ended' = FALSE

FlushPage ==
    /\ page = NoPage
    /\ \E unset \in Unset, stream \in StreamsOf(encoder) :
          Open([Written(unset, stream) EXCEPT
                  !.type = column.type, !.own = TRUE, !.content = put])
    /\ encoder' = IF Kind = "delta" THEN FlushedDelta(encoder)
                                    ELSE Flushed(encoder)
    /\ put' = <<>>
    /\ UNCHANGED column

(* Between pages of its own: reading does not touch the encoder.           *)
ForeignPage ==
    /\ page = NoPage
    /\ put = <<>>
    /\ \E p \in {p \in Foreign : p.type = column.type} : Open(p)
    /\ UNCHANGED <<column, encoder, put>>

Reading == page # NoPage /\ ~threw

(* A program may go on where a batch has come back short.                  *)
Read(n) ==
    /\ Reading
    /\ Len(given) < MaxGiven
    /\ \E spill \in Unset : \E batch \in {ReadBatch(decoder, n, spill)} :
              /\ decoder' = batch.decoder
              /\ given' = given \o batch.values
              /\ threw' = batch.threw
              /\ ended' = (ended \/ (~batch.threw /\ Len(batch.values) < n))
              /\ first' = IF given = <<>> /\ ~ended
                          THEN Len(batch.values) ELSE first
    /\ UNCHANGED <<column, encoder, put, page>>

(* The program is done with the page.                                      *)
ClosePage ==
    /\ page # NoPage
    /\ page' = NoPage
    /\ decoder' = Refused
    /\ given' = <<>> /\ first' = 0 /\ ended' = FALSE
    /\ threw' = FALSE
    /\ UNCHANGED <<column, encoder, put>>

Next ==
    \/ \E n \in 1..MaxPut : \E data \in [1..n -> Inputs[column.type]] :
          PutBatch(data)
    \/ FlushPage
    \/ ForeignPage
    \/ \E n \in 1..MaxBatch : Read(n)
    \/ ClosePage

Spec == Init /\ [][Next]_vars

-----------------------------------------------------------------------------
(* The numbers of a delta page stand for the values put, whatever batches  *)
(* they came in and however their differences wrap.                        *)
EncodedRight ==
    page.own /\ page.encoding = "DELTA_BINARY_PACKED" =>
        LET values == DeltaStandsFor(WordBits(page.type), page.numbers)
        IN  page.content = [i \in DOMAIN values |-> <<values[i]>>]

(* A delta page is no longer than max_encoded_size() was before the flush, *)
(* which is what column_chunk_writer keeps for it.                         *)
WithinMaxEncodedSize == page.own => page.bytes <= page.reserved

(* What this library writes it can read, as value_decoder knows the        *)
(* encoding that flush() says: no reset and no batch of it throws.         *)
OwnPagesRead == page.own => ~threw

(* A batch that throws, of a page that is cut or wrong in another way,     *)
(* comes after values that are right: nothing is made up of what is there. *)
(* The bytes of a value of BYTE_STREAM_SPLIT are all over the page, so     *)
(* that a page that is cut is told from another only by its size.  Behind  *)
(* the last value is what fills up a group: of what this library writes,   *)
(* that is never as much as a group.                                       *)
NothingMadeUp ==
    /\ OwnPagesRead
    /\ InBatches(page) /\ (page.whole \/ page.encoding # "BYTE_STREAM_SPLIT") =>
          IsPrefixOf(given, Held(page))
    /\ page.own => Len(page.padding) < GroupSize

(* The first batch of a page is right in the values that one round of the  *)
(* delta decoder gives, in the codings that are built on it too; and a     *)
(* delta page gives as many values as it has, right or not.                *)
FirstRoundRight ==
    LET coding == CodingFor(page.type, page.encoding)
        delta  == coding = "DELTA_BINARY_PACKED"
        sure   == IF delta THEN IF NarrowDeltas(page) THEN Sure(page) ELSE 1
                  ELSE IF coding = "DELTA_BYTE_ARRAY" /\ LengthsSure(page)
                       THEN Len(page.content) ELSE 0
        n      == Fewer(first, sure)
    IN  page.whole =>
            /\ SubSeq(given, 1, n) = SubSeq(page.content, 1, n)
            /\ delta /\ ~threw =>
                  /\ Len(given) <= Len(page.content)
                  /\ ended => Len(given) = Len(page.content)

Reader ==
    INSTANCE BatchReader WITH
        Levels  <- Seq(Nat),
        content <- Held(page),
        sound   <- page.whole /\ InBatches(page),
        given   <- given

EndsAtEnd == page.whole /\ InBatches(page) /\ ended => given = Held(page)

(* value_decoder reads the pages of most codings as a reader of batches,   *)
(* to whom the padding of a page are values of it, and no batch comes back *)
(* short before the last of them.                                          *)
ReadsInBatches == Reader!Spec /\ [][EndsAtEnd']_vars

(* What is read of a page of this library's is what was put into it.       *)
ValuesReadArePut == page.own => IsPrefixOf(given, page.content)
=============================================================================
