--------------------------- MODULE ValueCodingMC ---------------------------
(***************************************************************************)
(* Small columns for TLC, and pages as other programs write them.          *)
(***************************************************************************)
EXTENDS ValueCoding

Col(type, encoding) == [type |-> type, encoding |-> encoding]

MCColumns ==
    {Col("INT32", "DELTA_BINARY_PACKED"), Col("INT64", "DELTA_BINARY_PACKED"),
     Col("FLOAT", "PLAIN"), Col("BYTE_ARRAY", "PLAIN"), Col("BOOLEAN", "PLAIN"),
     Col("FIXED_LEN_BYTE_ARRAY", "PLAIN"), Col("BYTE_ARRAY", "RLE_DICTIONARY")}
MCDelta == {Col("INT32", "DELTA_BINARY_PACKED")}

MCInputs ==
    [BOOLEAN |-> {<<0>>, <<1>>},
     INT32 |-> {<<0>>, <<3>>, <<4>>},
     INT64 |-> {<<0>>, <<1>>, <<40>>},
     FLOAT |-> {<<1, 2>>, <<2, 0>>},
     BYTE_ARRAY |-> {<<>>, <<1>>, <<2, 0>>},
     FIXED_LEN_BYTE_ARRAY |-> {<<1, 2>>, <<2, 0>>}]
MCOne == [MCInputs EXCEPT !["INT32"] = {<<1>>, <<2>>}]
MCMaxValues ==
    [type \in Types |-> CASE type = "INT32" -> 6 [] type = "INT64" -> 5
                         [] OTHER -> 3]
MCData == UNION {MCInputs[type] : type \in DOMAIN MCInputs}

(* RleEncoder, with room for every stream.                                 *)
Rle == INSTANCE RleEncoder WITH
           Values <- 0..3, MaxGroups <- 7, GroupBytes <- 1, ValueBytes <- 1

(* Runs, literal ones with their numbers and repeated ones with one, and   *)
(* the stream they make.                                                   *)
RunAt(run, from) ==
    [literal |-> run.literal, from |-> from, count |-> run.count,
     value |-> IF run.literal THEN 0 ELSE run.vals[1], present |-> run.count]

Stream(runs) ==
    FoldLeft(LAMBDA s, run :
                 [numbers |-> s.numbers \o Rle!RunValues(run),
                  runs |-> Append(s.runs, RunAt(run, Len(s.numbers)))],
             NoStream, runs)

MCStreams ==
    {Stream(Rle!Flush(FoldLeft(Rle!PutValue, Rle!NewEncoder(99), indices)).runs) :
        indices \in UNION {[1..n -> 0..3] : n \in 0..4}}

(* A column of numbers, all deltas with the width of a word.               *)
DeltaNumbers(perBlock, values) ==
    LET n     == Len(values)
        Delta(i) == Wrap(BufferBits, values[i] - values[i - 1])
        Begin == IF n > 1 THEN <<0, BufferBits>> ELSE <<>>
        Block(i) == (IF i > 2 /\ (i - 2) % perBlock = 0 THEN <<0, BufferBits>>
                     ELSE <<>>) \o <<Delta(i)>>
        Padding  == [i \in 1..((-(n - 1)) % perBlock) |-> 5]
    IN  <<perBlock, 1, n, IF n = 0 THEN 0 ELSE ZigZag(values[1])>> \o Begin
            \o FlattenSeq([i \in 1..(n - 1) |-> Block(i + 1)])
            \o (IF n > 1 THEN Padding ELSE <<>>)

(* The k-th string is made of its number.                                  *)
Strings(lengths) ==
    [k \in DOMAIN lengths |-> [j \in 1..lengths[k] |-> k]]

LengthNumbers(perBlock, lengths) ==
    DeltaNumbers(perBlock, lengths) \o FlattenSeq(Strings(lengths))

PageOf(type, encoding, content, numbers) ==
    [NoPage EXCEPT !.type = type, !.encoding = encoding,
                   !.content = content, !.numbers = numbers]

LengthPage(perBlock, lengths) ==
    PageOf("BYTE_ARRAY", "DELTA_LENGTH_BYTE_ARRAY", Strings(lengths),
           LengthNumbers(perBlock, lengths))

PrefixPage(perBlock, prefixes, suffixes) ==
    LET Value(vs, i) ==
            LET before == IF i = 1 THEN <<>> ELSE vs[i - 1]
            IN  Append(vs, SubSeq(before, 1, Fewer(prefixes[i], Len(before)))
                               \o Strings(suffixes)[i])
        content == FoldLeft(Value, <<>>, [i \in DOMAIN suffixes |-> i])
    IN  PageOf("BYTE_ARRAY", "DELTA_BYTE_ARRAY", content,
               DeltaNumbers(perBlock, prefixes) \o LengthNumbers(perBlock, suffixes))

DeltaPageOf(type, perBlock, values) ==
    PageOf(type, "DELTA_BINARY_PACKED", [i \in DOMAIN values |-> <<values[i]>>],
           DeltaNumbers(perBlock, values))

(* The pages of runs of which the first n numbers stand for values.        *)
RunPage(type, encoding, n, dict, runs) ==
    LET stream == Stream(runs)
        indexed == encoding # "RLE"
        values == [i \in DOMAIN stream.numbers |->
                      IF indexed THEN dict[stream.numbers[i] + 1]
                                 ELSE <<stream.numbers[i]>>]
    IN  [NoPage EXCEPT
            !.type = type, !.encoding = encoding, !.runs = stream.runs,
            !.numbers = IF indexed THEN <<2>> \o stream.numbers ELSE stream.numbers,
            !.dictSet = indexed, !.dict = dict,
            !.content = SubSeq(values, 1, n),
            !.padding = SubSeq(values, n + 1, Len(values))]

Entries == <<<<5>>, <<6>>, <<7>>>>
IndexRuns ==
    <<Rle!Literal(<<0, 2>>, 2), Rle!Repeated(1, 3), Rle!Literal(<<2, 1, 0, 0>>, 4)>>
Bools ==
    <<Rle!Repeated(1, 2), Rle!Literal(<<0, 1, 1, 0>>, 4), Rle!Repeated(0, 0)>>
RunPages ==
    {RunPage("INT32", "PLAIN_DICTIONARY", n, Entries, IndexRuns) : n \in {8, 9}}
    \cup {RunPage("BOOLEAN", "RLE", n, <<>>, Bools) : n \in {5, 6}}

(* Every place where such a page may end inside a run.                     *)
CutInRun(p, k, here) ==
    LET run    == p.runs[k]
        before == Len(p.numbers) - Len(Held(p))
    IN  [p EXCEPT !.whole = FALSE,
                  !.runs = Append(SubSeq(@, 1, k - 1), [run EXCEPT !.present = here]),
                  !.numbers = SubSeq(@, 1, before + run.from + run.count)]

RunCuts ==
    {CutInRun(c[1], c[2], c[3]) : c \in
        {c \in RunPages \X (1..3) \X (0..3) :
            LET run == c[1].runs[c[2]]
            IN  c[3] < run.count /\ (run.literal \/ c[3] = 0)}}

IndexPages == {p \in RunPages : p.dictSet}

Floats == <<<<1, 2>>, <<3, 4>>, <<5, 6>>>>

Whole ==
    {LengthPage(perBlock, lengths) :
        perBlock \in {2, 6}, lengths \in UNION {[1..n -> 0..2] : n \in 0..4}}
    \cup {PrefixPage(perBlock, <<0, 2>> \o prefixes, <<2>> \o suffixes) :
        perBlock \in {2, 6}, prefixes \in [1..2 -> 0..2], suffixes \in [1..3 -> 0..1]}
    \cup {DeltaPageOf("INT32", perBlock, <<1, 2, 2, 4, 1>>) : perBlock \in {2, 6}}
    \cup {PageOf("FLOAT", "BYTE_STREAM_SPLIT", Floats, <<1, 3, 5, 2, 4, 6>>),
          PageOf("BOOLEAN", "PLAIN", <<<<1>>, <<0>>, <<1>>>>, <<5>>),
          PageOf("BOOLEAN", "PLAIN", <<<<1>>, <<0>>>>, <<1>>),
          PageOf("BYTE_ARRAY", "PLAIN", Strings(<<1, 0, 2, 1>>),
                 PlainNumbers("BYTE_ARRAY", Strings(<<1, 0, 2, 1>>))),
          PageOf("FIXED_LEN_BYTE_ARRAY", "PLAIN", Floats, FlattenSeq(Floats))}
    \cup RunPages

CutAt(p, n) == [p EXCEPT !.whole = FALSE, !.numbers = SubSeq(@, 1, n)]

Invalid == {Col(type, "BIT_PACKED") : type \in Types}
    \cup {col \in {Col(type, encoding) : type \in Types, encoding \in DOMAIN ValidFor} :
              col.type \notin ValidFor[col.encoding]}

(* Every place where a page may be cut, and pages that are wrong otherwise.*)
Wrong ==
    UNION {{CutAt(p, n) : n \in 0..(Len(p.numbers) - 1)} : p \in
        {PageOf("BYTE_ARRAY", "PLAIN", Strings(<<1, 0, 2>>),
                PlainNumbers("BYTE_ARRAY", Strings(<<1, 0, 2>>))),
         PageOf("FIXED_LEN_BYTE_ARRAY", "PLAIN", Floats, FlattenSeq(Floats)),
         PageOf("FLOAT", "BYTE_STREAM_SPLIT", Floats, <<1, 3, 5, 2, 4, 6>>),
         DeltaPageOf("INT32", 2, <<1, 2, 2, 4>>),
         LengthPage(2, <<1, 2, 2, 0>>), LengthPage(6, <<2, 1, 1, 0>>),
         PrefixPage(2, <<0, 1, 2>>, <<2, 1, 0>>)}}
    \cup {[PageOf(col.type, col.encoding, <<>>, <<1, 1, 1, 1>>)
              EXCEPT !.whole = FALSE] : col \in Invalid}
    \cup RunCuts
    \cup {[p EXCEPT !.dictSet = FALSE, !.whole = FALSE] : p \in IndexPages}
    \cup {[p EXCEPT !.numbers[1] = 33, !.whole = FALSE] : p \in IndexPages}
    \cup {[p EXCEPT !.dict = <<<<5>>>>, !.content = <<<<5>>>>, !.whole = FALSE] :
              p \in {RunPage("INT32", "RLE_DICTIONARY", 2, Entries,
                             <<Rle!Literal(<<0, 2>>, 2)>>)}}
    \cup {[PrefixPage(2, <<0, 3>>, <<2, 1>>) EXCEPT !.whole = FALSE]}

MCForeign == Whole \cup Wrong
MCNone == {}
=============================================================================
