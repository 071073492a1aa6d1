----------------------------- MODULE FileReader -----------------------------
(***************************************************************************)
(* file_reader (file_reader.cc, file_reader.hh) and the messages it and    *)
(* page_reader deserialize.  A file is a sequence of tokens: those of the  *)
(* messages in it, the length of the footer, and the magic bytes.  A       *)
(* program opens a file, computes its schemas, opens column chunks, and    *)
(* reads messages from streams with read_thrift_from_stream.               *)
(***************************************************************************)
EXTENDS WriterSchema, ReaderSchema

CONSTANTS
    Files,         \* what may be found in storage
    Messages,      \* the messages that streams begin with
    LengthBits,    \* bits of the length of a footer: 32 in the code
    ExpectedSizes, \* expected_size of a first attempt: 1024 in the code
    MaxAllowed     \* max_allowed_size: 16 MiB

VARIABLES
    file,      \* the file there is, or the streams by themselves
    status,    \* "closed"; after open(): "open", or "refused" by an exception
    metadata,  \* _metadata
    raw,       \* _raw_schema: <<>> until it is computed
    schema,    \* _schema, likewise
    opened,    \* the column chunk that was opened last: <<row group, column>>
    found,     \* where its pages are
    stream,    \* the stream that is read, of what type, and what it should give
    expected,  \* expected_size of the attempt
    object,    \* deserialized_msg
    outcome,   \* of the reading: "none", "going on", "read", or why not
    used       \* what advance() consumed

fileVars == <<file, status, metadata, raw, schema>>
chunkVars == <<opened, found>>
readVars == <<stream, expected, object, outcome, used>>
vars == <<fileVars, chunkVars, readVars>>

Magic == <<1, "PAR1">>
Encrypted == <<1, "PARE">>
FooterLength(n) == <<n, "LENGTH">>
TailSize == 2      \* of the length and the magic bytes: 8 bytes in the code

(* A stream: its tokens, the message they should begin with, its length,   *)
(* and whether read() can make anything of it.                             *)
Stream(type, tokens, content, length, sound) ==
    [type |-> type, tokens |-> tokens, content |-> content, length |-> length,
     sound |-> sound]

NoStream == Stream("none", <<>>, Empty, 0, FALSE)
NotFound == [start |-> 0, size |-> 0]

(* What a message is read as does not depend on the file around it: there  *)
(* is none then.                                                           *)
NoFile == [tokens |-> <<>>, whole |-> FALSE]

Init ==
    /\ file \in Files \cup {NoFile}
    /\ status = "closed"
    /\ metadata = Fresh("FileMetaData")
    /\ raw = <<>> /\ schema = <<>>
    /\ opened = <<>> /\ found = NotFound
    /\ stream = NoStream
    /\ expected = 0
    /\ object = Empty
    /\ outcome = "none"
    /\ used = 0

-----------------------------------------------------------------------------
(* The length is whatever these bytes are, if they are not one.            *)
LengthsAt(token) == IF token[2] = "LENGTH" THEN {token[1]} ELSE {0, 2^LengthBits - 1}

NoMetadata == Ended(0, "invalid", Fresh("FileMetaData"))

(* read_exactly fails when the file has not got the bytes.                 *)
MetadataOf(tokens, len) ==
    IF \/ (len + TailSize) % 2^LengthBits > Len(tokens)
       \/ len > Len(tokens) - TailSize
    THEN NoMetadata
    ELSE ReadStruct(SubSeq(tokens, Len(tokens) - TailSize - len + 1,
                           Len(tokens) - TailSize),
                    "FileMetaData", 1, Fresh("FileMetaData"))

(* Fault: the magic bytes are not looked at.                               *)
FooterAnyMagic(tokens) ==
    IF Len(tokens) < TailSize THEN {NoMetadata}
    ELSE {MetadataOf(tokens, len) : len \in LengthsAt(tokens[Len(tokens) - 1])}

(* read_file_metadata: what may come of it.                                *)
Footer(tokens) ==
    IF Len(tokens) < TailSize \/ tokens[Len(tokens)][2] # "PAR1" THEN {NoMetadata}
    ELSE {MetadataOf(tokens, len) : len \in LengthsAt(tokens[Len(tokens) - 1])}

Open ==
    /\ status = "closed" /\ file # NoFile
    /\ \E footer \in Footer(file.tokens) :
          /\ status' = IF footer.end = "ok" THEN "open" ELSE "refused"
          /\ metadata' = IF footer.end = "ok" THEN footer.val ELSE metadata
    /\ UNCHANGED <<file, raw, schema, chunkVars, readVars>>

(* raw_schema() and schema(), when they are first asked for; one that      *)
(* throws leaves everything as it is.                                      *)
ComputeRaw ==
    /\ status = "open"
    /\ raw = <<>>
    /\ \E tree \in {RawSchema(metadata.vals["schema"])} :
          ~RawThrows(tree) /\ raw' = <<tree>>
    /\ UNCHANGED <<file, status, metadata, schema, chunkVars, readVars>>

ComputeSchema ==
    /\ raw # <<>>
    /\ schema = <<>>
    /\ \E fields \in {LogicalSchema(raw[1])} :
          /\ \A i \in DOMAIN fields : ~Throws(fields[i])
          /\ schema' = <<fields>>
    /\ UNCHANGED <<file, status, metadata, raw, chunkVars, readVars>>

-----------------------------------------------------------------------------
(* What a message is read into: page_reader clears its one header for each *)
(* page, and the metadata of a chunk is an object of its own.              *)
(* Fault: the header is not cleared.                                       *)
ObjectKept(type, old) == IF old = Empty THEN Fresh(type) ELSE old

ObjectFor(type, old) == Fresh(type)

Begin(s) ==
    /\ stream' = s
    /\ expected' \in ExpectedSizes
    /\ object' = ObjectFor(s.type, object)
    /\ outcome' = "going on"
    /\ used' = 0

(* A page_reader goes on to its next page; other readers are new.          *)
BeginMessage ==
    /\ outcome = "none" /\ file = NoFile
    /\ \E s \in Messages :
          (object = Empty \/ s.type = "PageHeader") /\ Begin(s)
    /\ UNCHANGED <<fileVars, chunkVars>>

(* Fault: the stream is taken to end where the peek does.                  *)
EndsAtMost(peeked) == Len(peeked) <= expected

EndsWith(peeked) == Len(peeked) < expected

(* One attempt of read_thrift_from_stream; `read' is what thrift makes of  *)
(* what was peeked.                                                        *)
Deserialized(peeked, read) ==
    /\ object' = read.val
    /\ \/ /\ read.end = "ok"
          /\ outcome' = "read" /\ used' = read.at - 1 /\ UNCHANGED expected
       \/ /\ read.end = "eof" /\ EndsWith(peeked)
          /\ outcome' = "cut" /\ UNCHANGED <<expected, used>>
       \/ /\ read.end = "eof" /\ ~EndsWith(peeked)
          /\ expected' = 2 * expected /\ UNCHANGED <<outcome, used>>
       \/ /\ read.end = "invalid"
          /\ outcome' = "invalid" /\ UNCHANGED <<expected, used>>

Peeked == SubSeq(stream.tokens, 1, IF expected < Len(stream.tokens) THEN expected
                                   ELSE Len(stream.tokens))

Stopped(why) == outcome' = why /\ UNCHANGED <<expected, object, used>>

Attempt ==
    /\ outcome = "going on"
    /\ \/ expected > MaxAllowed /\ Stopped("too large")
       \/ expected <= MaxAllowed /\ Peeked = <<>> /\ Stopped("nothing")
       \/ /\ expected <= MaxAllowed /\ Peeked # <<>>
          /\ \E read \in {ReadStruct(Peeked, stream.type, 1, object)} :
                Deserialized(Peeked, read)
    /\ UNCHANGED <<stream, fileVars, chunkVars>>

(* The reader of the stream lives on only if it is a page_reader.          *)
Finish ==
    /\ outcome \notin {"none", "going on"}
    /\ opened = <<>>
    /\ stream' = NoStream /\ expected' = 0 /\ outcome' = "none" /\ used' = 0
    /\ object' = IF outcome = "read" /\ stream.type = "PageHeader" THEN object
                 ELSE Empty
    /\ UNCHANGED <<fileVars, chunkVars>>

-----------------------------------------------------------------------------
Place(chunk) ==
    [start |-> IF Has(chunk, "dictionary_page_offset")
               THEN chunk.vals["dictionary_page_offset"]
               ELSE chunk.vals["data_page_offset"],
     size  |-> chunk.vals["total_compressed_size"]]

ChunksOf(g) == metadata.vals["row_groups"][g].vals["columns"]

(* A chunk whose metadata is not in the footer has it at its file_offset;  *)
(* that of a chunk in another file is an assertion's to refuse.            *)
OpenChunk(g, c) ==
    LET chunk == ChunksOf(g)[c]
        offset == chunk.vals["file_offset"]
    IN  /\ opened = <<>> /\ outcome = "none" /\ object = Empty
        /\ c \in DOMAIN ChunksOf(g)
        /\ ~Has(chunk, "file_path")
        /\ opened' = <<g, c>>
        /\ IF Has(chunk, "meta_data")
           THEN found' = Place(chunk.vals["meta_data"]) /\ UNCHANGED readVars
           ELSE /\ UNCHANGED found
                /\ Begin(Stream("ColumnMetaData",
                                SubSeq(file.tokens, offset + 1, Len(file.tokens)),
                                file.chunk, file.chunkLength, TRUE))
        /\ UNCHANGED fileVars

(* A column of the schema that a row group has no chunk of.                *)
ChunkMissing(g, c) ==
    /\ opened = <<>> /\ outcome = "none" /\ object = Empty
    /\ c \notin DOMAIN ChunksOf(g)
    /\ opened' = <<g, c>> /\ outcome' = "missing"
    /\ UNCHANGED <<found, stream, expected, object, used, fileVars>>

ChunkMetadataRead ==
    /\ opened # <<>> /\ outcome = "read" /\ found = NotFound
    /\ found' = Place(object)
    /\ UNCHANGED <<opened, fileVars, readVars>>

Next ==
    \/ Open \/ ComputeRaw \/ ComputeSchema
    \/ BeginMessage \/ Attempt \/ Finish
    \/ /\ raw # <<>>
       /\ \E g \in DOMAIN metadata.vals["row_groups"] :
             \E c \in DOMAIN RawLeaves(raw[1]) :
                 OpenChunk(g, c) \/ ChunkMissing(g, c)
    \/ ChunkMetadataRead

Spec == Init /\ [][Next]_vars

-----------------------------------------------------------------------------
(* However many attempts it takes, and whatever the header of the page     *)
(* before left, a message that is read is the one that is there, the       *)
(* fields apart that are unknown or of another type, and no byte more is   *)
(* consumed.                                                               *)
ReadRight ==
    outcome = "read" =>
        /\ stream.sound
        /\ object = stream.content
        /\ used = stream.length

(* An attempt on a part of a message ends at the end of what was peeked    *)
(* and in no other way, or read_thrift_from_stream would not try again: a  *)
(* message that is all there is refused only when it is not sound, or too  *)
(* large.                                                                  *)
EndsRight ==
    /\ outcome \in {"cut", "nothing"} => Len(stream.tokens) < stream.length
    /\ outcome = "invalid" => ~stream.sound
    /\ outcome = "too large" => 2 * stream.length > MaxAllowed

(* A file opens if and only if it is all there, with the metadata that was *)
(* written; one that was not closed, or is encrypted, is refused.  And a   *)
(* chunk begins at its first page, whichever place its metadata is at.     *)
OpenedRight ==
    /\ status = "open" => file.whole /\ metadata = file.metadata
    /\ status = "refused" => ~file.whole
    /\ found # NotFound => found = file.place

(* A date, and a type that is unknown, are not read as what they are.      *)
Kept(logical) ==
    IF logical.name \in {"DATE", "UNKNOWN"} THEN Logical("INT32") ELSE logical

Step(n, i) ==
    CASE n.node = "list" -> <<"list", "element">>
      [] n.node = "map" -> <<"key_value", IF i = 1 THEN "key" ELSE "value">>
      [] OTHER -> <<n.children[i].name>>

RECURSIVE Shows(_, _, _, _, _)

(* A node of the reader's shows one of the writer's that has this path and *)
(* is below this many nodes that may be missing, or be there repeatedly.   *)
Shows(r, n, path, def, rep) ==
    /\ r.def = def /\ r.rep = rep /\ r.path = path
    /\ IF n.optional
       THEN /\ r.node = "optional"
            /\ Shows(r.children[1], [n EXCEPT !.optional = FALSE], path, def + 1, rep)
       ELSE /\ r.node = n.node
            /\ r.name = path[Len(path)]
            /\ n.node = "primitive" => r.logical = Kept(n.logical)
            /\ Len(r.children) = Len(n.children)
            /\ LET more == IF n.node \in {"list", "map"} THEN 1 ELSE 0
               IN  \A i \in DOMAIN n.children :
                       Shows(r.children[i], n.children[i], path \o Step(n, i),
                             def + more, rep + more)

(* The schema of a file of this library's is that of its writer, in every  *)
(* name, level, logical type and order.                                    *)
SchemaKept ==
    schema # <<>> /\ file.fields # <<>> =>
        /\ Len(schema[1]) = Len(file.fields)
        /\ \A i \in DOMAIN file.fields :
              Shows(schema[1][i], file.fields[i], <<file.fields[i].name>>, 0, 0)
        /\ file.leafPaths = [i \in DOMAIN RawLeaves(raw[1]) |->
                                RawLeaves(raw[1])[i].path]

RECURSIVE Nests(_, _, _)

(* A node has the levels that the readers of the nodes around it leave it: *)
(* but a list of two levels is read as a list of lists, the outer of which *)
(* has one element.                                                        *)
Nests(n, def, rep) ==
    LET outer == n.node = "list" /\ n.children[1].node = "list"
                    /\ n.children[1].def = def
        more == IF n.node \in {"list", "map"} /\ ~outer THEN 1 ELSE 0
    IN  /\ n.def = def /\ n.rep = rep
        /\ \A i \in DOMAIN n.children :
              Nests(n.children[i],
                    def + (IF n.node = "optional" THEN 1 ELSE more), rep + more)

(* Whatever schema is accepted, its leaves are the columns of the file in  *)
(* order, and its levels are those that the record reader counts with.     *)
LevelsNest ==
    schema # <<>> =>
        /\ \A i \in DOMAIN schema[1] : Nests(schema[1][i], 0, 0)
        /\ LET leaves == FlattenSeq([i \in DOMAIN schema[1] |-> Leaves(schema[1][i])])
               columns == RawLeaves(raw[1])
           IN  /\ Len(leaves) = Len(columns)
               /\ \A i \in DOMAIN leaves :
                     /\ leaves[i].column = i
                     /\ leaves[i].def = columns[i].def /\ leaves[i].rep = columns[i].rep
=============================================================================
