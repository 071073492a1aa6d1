---------------------------- MODULE FileReaderMC ----------------------------
(***************************************************************************)
(* Small files and messages for TLC: every structure of the format, as     *)
(* this library and as others write it, and files of many schemas.         *)
(***************************************************************************)
EXTENDS FileReader, FiniteSetsExt

-----------------------------------------------------------------------------
(* Objects: with the required members only, with all, and with one of the  *)
(* optional ones.                                                          *)
RECURSIVE Sample(_, _)

SampleOf(of, n, all) == IF of \in Scalars THEN n ELSE Sample(of, all)

SampleValue(field, all) ==
    IF field.list
    THEN <<SampleOf(field.of, field.id, all), SampleOf(field.of, 7, FALSE)>>
    ELSE SampleOf(field.of, field.id, all)

SampleWith(fields, names, all) ==
    Build([name \in names |-> SampleValue(fields[name], all)])

SampleOfFields(fields, all) ==
    SampleWith(fields, IF all THEN DOMAIN fields ELSE RequiredOf(fields), all)

Sample(type, all) == SampleOfFields(Structs[type], all)

Samples(fields) ==
    {SampleOfFields(fields, all) : all \in BOOLEAN}
        \cup {SampleWith(fields, RequiredOf(fields) \cup {name}, FALSE) :
                 name \in DOMAIN fields}

(* What the constructor gives a member that is not in the message: there   *)
(* is one such.                                                            *)
WithDefault(v2) ==
    Build(v2.vals @@ [is_compressed |-> 1])

AsRead(type, obj) ==
    IF type = "DataPageHeaderV2" THEN WithDefault(obj)
    ELSE IF Has(obj, "data_page_header_v2")
    THEN [obj EXCEPT !.vals["data_page_header_v2"] = WithDefault(@)]
    ELSE obj

Behind == <<Value(3), Value(3)>>      \* the contents of a page, say

MessageOf(type, obj, tokens, sound) ==
    Stream(type, tokens \o Behind, AsRead(type, obj), Len(tokens), sound)

(* Fields that a later version of the format may add, before everything:   *)
(* of an unknown number, or of a known one with another type.              *)
Unknown(kind) ==
    CASE kind = "LIST" -> <<Header(2, "STRUCT"), Header(1, "I32"), Value(5), Stop, Stop>>
      [] kind = "STRUCT" -> <<Header(1, "LIST"), Header(2, "I64"), Value(5), Value(6), Stop>>
      [] OTHER -> <<Value(5)>>

UnknownFields(fields) ==
    {<<Header(id, kind)>> \o Unknown(kind) : <<id, kind>> \in
        {h \in {1, 40} \X {"LIST", "STRUCT", "I32"} : Matching(fields, h) = {}}}

(* The messages of an object, of which `written' has each field: as it is  *)
(* written here; the fields in the opposite order; with unknown ones; and  *)
(* with a required one left out.                                           *)
MessagesOf(type, fields, names, obj, written) ==
    {MessageOf(type, obj, FlattenSeq(written) \o <<Stop>>, TRUE),
     MessageOf(type, obj, FlattenSeq(Reverse(written)) \o <<Stop>>, TRUE)}
    \cup {MessageOf(type, obj, unknown \o FlattenSeq(written) \o <<Stop>>, TRUE) :
             unknown \in UnknownFields(fields)}
    \cup {MessageOf(type, obj, FlattenSeq(RemoveAt(written, i)) \o <<Stop>>, FALSE) :
             i \in {j \in DOMAIN names : names[j] \in RequiredOf(fields)}}

(* Streams that end before their message does.                             *)
CutShort(s) ==
    {[s EXCEPT !.tokens = SubSeq(@, 1, n)] : n \in {m \in 0..60 : m < s.length}}

OfType(type, fields, names) ==
    UNION {MessagesOf(type, fields, names, obj, WriteMembers(fields, names, obj)) :
              obj \in Samples(fields)}

WithCut(messages) ==
    messages \cup UNION {CutShort(s) : s \in
        {s \in messages : \A t \in messages : t.length <= s.length}}

MCMessages ==
    UNION {WithCut(OfType(type, Structs[type], InOrder(Structs[type]))) :
              type \in DOMAIN Structs}

-----------------------------------------------------------------------------
FileOf(tokens, whole, meta, fields, leafPaths, chunk, chunkLength, place) ==
    [tokens |-> tokens, whole |-> whole, metadata |-> meta, fields |-> fields,
     leafPaths |-> leafPaths, chunk |-> chunk, chunkLength |-> chunkLength,
     place |-> place]

Tokens(chunks, meta) ==
    LET footer == WriteStruct("FileMetaData", meta)
    IN  <<Magic>> \o chunks \o footer \o <<FooterLength(Len(footer)), Magic>>

MetadataWith(flat, groups) ==
    Build([version |-> 1, schema |-> flat, num_rows |-> 0, row_groups |-> groups])

Plain(flat, fields, leafPaths) ==
    LET meta == MetadataWith(flat, <<>>)
    IN  FileOf(Tokens(<<>>, meta), TRUE, meta, fields, leafPaths, Empty, 0, NotFound)

OfWriter(fields) ==
    LET out == WriteSchema(fields)
    IN  Plain(out.elements, fields, out.leafPaths)

(* Schemas of this library's.                                              *)
Leaf1(name, optional) == PrimitiveNode(name, optional, Logical("DOUBLE"), 0)

LogicalTypes1 ==
    {Logical(name) : name \in
        {"BOOLEAN", "INT32", "INT64", "INT96", "FLOAT", "DOUBLE", "BYTE_ARRAY",
         "STRING", "ENUM", "INT8", "INT16", "UINT8", "UINT16", "UINT32", "UINT64",
         "DATE", "JSON", "BSON", "UNKNOWN"}}
    \cup {Decimal(name, 5, 2) : name \in
             {"DECIMAL_INT32", "DECIMAL_INT64", "DECIMAL_BYTE_ARRAY",
              "DECIMAL_FIXED_LEN_BYTE_ARRAY"}}
    \cup {Time("TIME_INT32", TRUE, "none"), Time("TIME_INT32", FALSE, "none")}
    \cup {Time("TIME_INT64", utc, unit) : utc \in BOOLEAN, unit \in {"MICROS", "NANOS"}}
    \cup {Time("TIMESTAMP", utc, unit) : utc \in BOOLEAN,
                                         unit \in {"MILLIS", "MICROS", "NANOS"}}

Length(logical) ==
    CASE logical.name = "UUID" -> 16 [] logical.name = "INTERVAL" -> 12
      [] PhysicalType(logical.name) = "FIXED_LEN_BYTE_ARRAY" -> 3 [] OTHER -> 0

Leaves1 ==
    {PrimitiveNode("p", FALSE, logical, Length(logical)) : logical \in
        LogicalTypes1 \cup {Logical(name) : name \in {"UUID", "INTERVAL", "FIXED_LEN_BYTE_ARRAY"}}}

Around(nodes) ==
    {ListNode("l", optional, n) : optional \in BOOLEAN, n \in nodes}
    \cup {MapNode("m", optional, Leaf1("k", FALSE), n) : optional \in BOOLEAN, n \in nodes}
    \cup {StructNode("s", optional, fields) : optional \in BOOLEAN, fields \in
             {<<>>} \cup {<<n>> : n \in nodes} \cup {<<Leaf1("f", TRUE), n>> : n \in nodes}}

Depth0 == {Leaf1("p", FALSE), Leaf1("p", TRUE)}
Depth1 == Depth0 \cup Around(Depth0)
Depth2 == Depth1 \cup Around(Depth1)

OwnFiles ==
    {OfWriter(<<n>>) : n \in Depth2 \cup Leaves1}
    \cup {OfWriter(<<n, Leaf1("b", TRUE)>>) : n \in Depth1}

(* Schemas of other programs': up to three elements below the root, each a *)
(* leaf or a group of any kind, and some that are deeper.                  *)
GroupAs(name, n, repetition, kind) ==
    Element([num_children |-> n, name |-> name, repetition_type |-> repetition] @@
            (IF kind = "none" THEN NoMembers ELSE [converted_type |-> kind]))
LeafAs(name, repetition) ==
    Element([type |-> "INT32", name |-> name, repetition_type |-> repetition])

Repetitions == {"REQUIRED", "OPTIONAL", "REPEATED"}
AnyElement(name) ==
    {LeafAs(name, repetition) : repetition \in Repetitions}
    \cup {GroupAs(name, n, repetition, kind) :
             n \in {-1, 1, 2}, repetition \in Repetitions, kind \in {"none", "LIST", "MAP"}}
Root(n) == Element([num_children |-> n, name |-> "schema"])

Lists ==
    {<<Root(1), GroupAs("l", 1, repetition, "LIST"), GroupAs(name, n, "REPEATED", "none"),
       LeafAs("e", "OPTIONAL"), LeafAs("e", "REPEATED")>> :
        repetition \in Repetitions, name \in {"list", "array", "l_tuple"}, n \in {1, 2}}
Maps ==
    {<<Root(1), GroupAs("m", 1, outer, kind), GroupAs("kv", 2, middle, "none"),
       LeafAs("k", key), LeafAs("v", value)>> :
        outer \in Repetitions, kind \in {"MAP", "MAP_KEY_VALUE"}, middle \in Repetitions,
        key \in Repetitions, value \in Repetitions}

ForeignFiles ==
    {Plain(flat, <<>>, <<>>) : flat \in
        Lists \cup Maps \cup {<<>>}
        \cup {<<Root(1), a, b>> : a \in AnyElement("a"), b \in AnyElement("array")}
        \cup {<<Root(1), a, b, c>> : a \in AnyElement("a") \ {LeafAs("a", r) : r \in Repetitions},
                                    b \in AnyElement("b"), c \in {LeafAs("c", r) : r \in Repetitions}}}

(* Files with column chunks, the metadata of which is in the footer or not,*)
(* and with or without a column that has none.                             *)
Column(dict) ==
    Build([type |-> 1, encodings |-> <<0>>, path_in_schema |-> <<"a">>, codec |-> 0,
           num_values |-> 1, total_uncompressed_size |-> 9, total_compressed_size |-> 8,
           data_page_offset |-> 5] @@
          (IF dict THEN [dictionary_page_offset |-> 4] ELSE NoMembers))

WithChunkOf(flat, dict, inFooter) ==
    LET written == WriteStruct("ColumnMetaData", Column(dict))
        chunk == Build([file_offset |-> 3] @@
                       (IF inFooter THEN [meta_data |-> Column(dict)] ELSE NoMembers))
        meta  == MetadataWith(flat,
                              <<Build([columns |-> <<chunk>>,
                                                   total_byte_size |-> 9, num_rows |-> 1])>>)
    IN  FileOf(Tokens(Behind \o written, meta), TRUE, meta, <<>>, <<>>, Column(dict),
               Len(written), [start |-> IF dict THEN 4 ELSE 5, size |-> 8])

OneLeaf == <<Root(1), LeafAs("a", "REQUIRED")>>
TwoLeaves == <<Root(2), LeafAs("a", "REQUIRED"), LeafAs("b", "REQUIRED")>>

ChunkFiles ==
    {WithChunkOf(flat, dict, inFooter) :
        flat \in {OneLeaf, TwoLeaves}, dict \in BOOLEAN, inFooter \in BOOLEAN}

(* Files that were not closed, or are not Parquet files, or not for us.    *)
Broken(f) ==
    {[f EXCEPT !.whole = FALSE, !.tokens = SubSeq(@, 1, n)] : n \in 1..(Len(f.tokens) - 1)}
    \cup {[f EXCEPT !.whole = FALSE, !.tokens[Len(f.tokens)] = Encrypted]}
    \cup {[f EXCEPT !.whole = FALSE, !.tokens[Len(f.tokens) - 1] = FooterLength(n)] :
             n \in {0, Len(f.tokens) - 1, 2^LengthBits - 1}}

MCFiles ==
    OwnFiles \cup ForeignFiles \cup ChunkFiles
        \cup UNION {Broken(f) : f \in {WithChunkOf(OneLeaf, TRUE, FALSE), OfWriter(<<Leaf1("p", TRUE)>>)}}
=============================================================================
