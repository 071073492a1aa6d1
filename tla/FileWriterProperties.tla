------------------------ MODULE FileWriterProperties ------------------------
(***************************************************************************)
(* What the file a writer leaves behind has to say about the entries put   *)
(* into it, as a reader that follows its metadata would find.              *)
(***************************************************************************)
EXTENDS FileWriter

-----------------------------------------------------------------------------
(* The reader's view.  file_reader opens a chunk at the offset of its      *)
(* dictionary page, or of its data pages if it has none, and reads         *)
(* total_compressed_size bytes of pages.                                   *)
Start(meta) == IF meta.dict = NoOffset THEN meta.data ELSE meta.dict
End(meta)   == Start(meta) + meta.compressed

(* Positions only grow, so that what lies in a range of them is contiguous.*)
Before(at) == Cardinality({k \in 1..Len(sink) : sink[k].pos < at})

Writes(meta) == SubSeq(sink, Before(Start(meta)) + 1, Before(End(meta)))

(* A page is a header and what it is the header of; that of the dictionary *)
(* comes first.                                                            *)
HasDictionary(ws) == Len(ws) >= 2 /\ ws[2].kind = "dict"

Leading(ws) == IF HasDictionary(ws) THEN 2 ELSE 0

Dictionary(ws) == IF HasDictionary(ws) THEN ws[2].body ELSE <<>>

PagesOf(ws) ==
    [k \in 1..((Len(ws) - Leading(ws)) \div 2) |->
        ws[Leading(ws) + 2 * k].body]

PageEntries(maxDef, dict, page) ==
    Entries(maxDef, page.levels, DecodedValues(dict, page.values))

PageReadable(maxDef, dict, page) ==
    /\ Decodable(dict, page.values)
    /\ Len(page.values.data) = ValueCount(maxDef, page.levels)

ChunkReadable(i, meta) ==
    LET ws == Writes(meta)
    IN  /\ IF ws = <<>> THEN meta.compressed = 0
           ELSE /\ ws[1].pos = Start(meta)
                /\ ws[Len(ws)].pos + ws[Len(ws)].size = End(meta)
        /\ Len(ws) % 2 = 0
        /\ \A k \in 1..Len(ws) :
              IF k % 2 = 1 THEN ws[k].kind = "header"
              ELSE ws[k].kind = "page" \/ (k = 2 /\ ws[k].kind = "dict")
        /\ \A k \in 1..Len(PagesOf(ws)) :
              PageReadable(cols[i].maxDef, Dictionary(ws), PagesOf(ws)[k])

EntriesOf(maxDef, dict, pages) ==
    LET Read[q \in {<<dict, pages>>}] ==
            FlattenSeq([k \in 1..Len(q[2]) |->
                           PageEntries(maxDef, q[1], q[2][k])])
    IN  Read[<<dict, pages>>]

ReadChunk(i, meta) ==
    LET Read[ws \in {Writes(meta)}] ==
            EntriesOf(cols[i].maxDef, Dictionary(ws), PagesOf(ws))
    IN  Read[Writes(meta)]

(* Column by column the groups get their chunks; the last may lack some.   *)
ChunkCount(i) ==
    Cardinality({k \in 1..Len(groups) : Len(groups[k].columns) >= i})

Chunks(i) ==
    [k \in 1..ChunkCount(i) |-> ReadChunk(i, groups[k].columns[i])]

(* The entries column writer i holds: its pages, then the page being made. *)
Held(i) ==
    LET c == cols[i]
        current == [levels |-> c.levels, values |-> Encoded(c.enc)]
    IN  EntriesOf(c.maxDef, c.enc.entries, Append(c.pages, current))

AllMetas == {p \in Columns \X (1..Len(groups)) :
                Len(groups[p[2]].columns) >= p[1]}
Meta(p) == groups[p[2]].columns[p[1]]

-----------------------------------------------------------------------------
CopyCovers ==
    fiber.phase \in {"dict", "header", "body"} =>
        \A k \in 1..Len(cols[fiber.col].pages) :
            PageReadable(cols[fiber.col].maxDef, cols[fiber.col].dict,
                         cols[fiber.col].pages[k])

(* A page that waits to be written can be decoded with the dictionary as   *)
(* it is now, and, once its chunk is opened, with the copy that goes in    *)
(* front of it, whatever was put since.                                    *)
PagesReadable ==
    /\ \A i \in Columns : \A k \in 1..Len(cols[i].pages) :
          PageReadable(cols[i].maxDef, cols[i].enc.entries, cols[i].pages[k])
    /\ CopyCovers

(* Every chunk the metadata names is where the metadata says, is as long   *)
(* as it says, and consists of pages that can be decoded with the          *)
(* dictionary in front of them, whatever was put or flushed while the      *)
(* chunks were being written.                                              *)
ChunksReadable ==
    /\ \A p \in AllMetas : ChunkReadable(p[1], Meta(p))
    /\ PagesReadable

(* The chunks of a column, followed by what its writer holds, are the      *)
(* entries put into it: none is lost, written twice or out of order.       *)
NothingLost ==
    /\ ChunksReadable
    /\ \A i \in Columns : FlattenSeq(Chunks(i)) \o Held(i) = input[i]

MetaTrue(i, meta) ==
    LET ws    == Writes(meta)
        pages == PagesOf(ws)
    IN  /\ meta.data = Start(meta)
             + (IF HasDictionary(ws)
                THEN HeaderBytes + CompressedSize(Len(Dictionary(ws)))
                ELSE 0)
        /\ meta.values = Len(ReadChunk(i, meta))
        /\ \A k \in 1..Len(pages) :
              pages[k].values.encoding \in meta.encodings

(* What readers rely on in a chunk's metadata: data_page_offset is behind  *)
(* the dictionary page, num_values counts the levels of the pages, and     *)
(* every encoding they use is listed.                                      *)
ChunkMetaTrue == \A p \in AllMetas : MetaTrue(p[1], Meta(p))

(* A closed file holds every entry that was put.                           *)
ClosedFileComplete ==
    fiber.phase = "closed" =>
        \A i \in Columns : FlattenSeq(Chunks(i)) = input[i]

InStepWithSink ==
    \/ fiber.phase \in {"idle", "chunk", "footer"} /\ written = offset
    \/ fiber.phase = "header" /\ written = offset + cmd.compressed
    \/ fiber.phase \in {"dict", "body", "closed"} /\ written > offset

MetaBehindChunk(meta) ==
    /\ End(meta) = meta.file
    /\ \E k \in 1..Len(sink) :
          sink[k].kind = "meta" /\ sink[k].pos = meta.file

ChunksApart ==
    \A p, q \in AllMetas :
        p # q => \/ Meta(p).file < Start(Meta(q))
                 \/ Meta(q).file < Start(Meta(p))

(* _file_offset is kept by adding up sizes; it is the writer's position in *)
(* the sink whenever it is used to place a chunk.  Therefore no two chunks *)
(* of the metadata overlap, and behind each chunk, where its file_offset   *)
(* says, its ColumnMetaData was written.                                   *)
OffsetIsPosition ==
    /\ InStepWithSink
    /\ \A p \in AllMetas : MetaBehindChunk(Meta(p))
    /\ ChunksApart

T == INSTANCE Table WITH
        chunks   <- [i \in Columns |-> Chunks(i)],
        open     <- [i \in Columns |-> Held(i)],
        finished <- fiber.phase = "closed"

(* The writer implements the abstract table: the entries of a column are   *)
(* cut into chunks in order, and all are in chunks when close() is done.   *)
TableSpec == T!Spec

(* close() ends with the footer written, whatever the other fibers do.     *)
Finishes == closed ~> fiber.phase = "closed"

-----------------------------------------------------------------------------
(* What the format's documentation says, and the code does otherwise.      *)

GroupRows(k) ==
    Len(SelectSeq(ReadChunk(1, groups[k].columns[1]),
                  LAMBDA e : e.rep = 0))

(* RowGroup.num_rows: "Number of rows in this row group".                  *)
RowsOfGroup ==
    \A k \in 1..Len(groups) :
        Len(groups[k].columns) = Len(Schema) => groups[k].rows = GroupRows(k)
=============================================================================
