----------------------------- MODULE FileWriter -----------------------------
(***************************************************************************)
(* writer<SINK> (file_writer.hh) over its column writers.  Seastar runs    *)
(* one continuation at a time: every sink.write() of a flush is a point    *)
(* where another fiber of the program may put values into a column, and    *)
(* each action below is the code between two such points.                  *)
(*                                                                         *)
(* The program keeps to a contract the code does not check: one flush or   *)
(* close at a time, nothing is put once close() is called, and no page of  *)
(* a column is flushed while the column's chunk is being written.          *)
(***************************************************************************)
EXTENDS ColumnChunkWriter

CONSTANTS
    Schema,       \* the columns: a sequence of [maxDef, maxRep, dict]
    Batches,      \* the levels and values given to put_batch
    BatchColumns, \* the columns filled with put_batch, not with put
    MaxPuts,      \* bound: entries put into a column
    MaxPages,     \* bound: pages flushed by the program
    MaxGroups     \* bound: row groups, without the one close() adds

Columns == 1..Len(Schema)

ASSUME SchemaAssumption ==
    /\ Schema \in Seq([maxDef : Nat, maxRep : Nat, dict : BOOLEAN])
    /\ Len(Schema) > 0

(* Batches are put into columns without nulls only (see BatchValueCount).  *)
ASSUME BatchAssumption ==
    /\ Batches \subseteq [levels : Seq(Level), vals : Seq(Data)]
    /\ \A i \in BatchColumns : i \in Columns /\ Schema[i].maxDef = 0

HeaderBytes  == 1   \* a serialized page header
MetaBytes    == 1   \* a serialized ColumnMetaData
MagicBytes   == 4   \* "PAR1"

VARIABLES
    cols,     \* _writers
    groups,   \* _metadata.row_groups
    offset,   \* _file_offset
    closed,   \* _closed
    numRows,  \* _metadata.num_rows
    sink,     \* the writes the sink has accepted, each with its position
    written,  \* bytes the sink has accepted
    fiber,    \* where flush_row_group() or close() is
    cmd,      \* the ColumnMetaData flush_chunk is filling in
    input     \* history: the entries put into each column

vars == <<cols, groups, offset, closed, numRows, sink, written, fiber, cmd,
          input>>

file == <<groups, offset, closed, numRows, sink, written, fiber, cmd>>

-----------------------------------------------------------------------------
NoOffset == -1   \* dictionary_page_offset is not set

ChunkMeta == [dict : Nat \cup {NoOffset}, data : Nat, file : Nat,
              values : Nat, compressed : Nat, uncompressed : Nat,
              encodings : SUBSET Encodings]

RowGroup == [rows : Nat, bytes : Nat, columns : Seq(ChunkMeta)]

Phases == {"idle", "chunk", "dict", "header", "body", "footer", "closed"}

(* Columns, metadata and the write under way are well formed.              *)
TypeOK ==
    /\ cols \in Seq(Column) /\ Len(cols) = Len(Schema)
    /\ groups \in Seq(RowGroup)
    /\ offset \in Nat /\ written \in Nat /\ numRows \in Nat
    /\ closed \in BOOLEAN
    /\ \A i \in 1..Len(sink) : sink[i].pos \in Nat /\ sink[i].size \in Nat
    /\ fiber \in [phase : Phases, col : Columns, page : Nat, last : Nat]
    /\ cmd \in ChunkMeta
    /\ input \in [Columns -> Seq(Entry)]

NoChunk == [dict |-> NoOffset, data |-> 0, file |-> 0, values |-> 0,
            compressed |-> 0, uncompressed |-> 0, encodings |-> {}]

Write(kind, size, body) ==
    /\ sink' = Append(sink, [pos |-> written, size |-> size,
                             kind |-> kind, body |-> body])
    /\ written' = written + size

(* open_and_write_par1.                                                    *)
Init ==
    /\ cols = [i \in Columns |->
                 NewColumn(Schema[i].maxDef, Schema[i].maxRep, Schema[i].dict)]
    /\ groups = <<>>
    /\ offset = MagicBytes
    /\ closed = FALSE
    /\ numRows = 0
    /\ sink = <<[pos |-> 0, size |-> MagicBytes, kind |-> "magic",
                 body |-> <<>>]>>
    /\ written = MagicBytes
    /\ fiber = [phase |-> "idle", col |-> 1, page |-> 0, last |-> 0]
    /\ cmd = NoChunk
    /\ input = [i \in Columns |-> <<>>]

-----------------------------------------------------------------------------
(* The program.                                                            *)

(* flush_row_group() has taken the rows and not yet flushed the last page  *)
(* of the first column: no wait is between the two, so that no other fiber *)
(* runs until the first flush_chunk() waits for a write.                   *)
Starting == fiber.phase = "chunk" /\ fiber.col = 1

PutEntry(i) ==
    /\ ~closed
    /\ ~Starting
    /\ i \notin BatchColumns
    /\ Len(input[i]) < MaxPuts
    /\ \E def \in 0..cols[i].maxDef, rep \in 0..cols[i].maxRep, v \in Data :
          /\ cols' = [cols EXCEPT ![i] = Put(@, def, rep, v)]
          /\ input' = [input EXCEPT ![i] = Append(@,
                [def |-> def, rep |-> rep,
                 val |-> IF def = cols[i].maxDef THEN v ELSE Null])]
    /\ UNCHANGED file

(* The values given to put_batch are, as those read_batch gives back, the  *)
(* values of the levels that have one.                                     *)
PutEntries(i) ==
    /\ ~closed
    /\ ~Starting
    /\ i \in BatchColumns
    /\ \E batch \in Batches :
          LET maxDef == cols[i].maxDef
              levels == batch.levels
          IN  /\ \A k \in 1..Len(levels) : /\ levels[k].def <= maxDef
                                           /\ levels[k].rep <= cols[i].maxRep
              /\ Len(batch.vals) = ValueCount(maxDef, levels)
              /\ Len(input[i]) + Len(levels) <= MaxPuts
              /\ cols' = [cols EXCEPT ![i] = PutBatch(@, levels, batch.vals)]
              /\ input' = [input EXCEPT ![i] =
                             @ \o Entries(maxDef, levels, batch.vals)]
    /\ UNCHANGED file

(* flush_page on a column, directly or when its size passes a limit.       *)
FlushColumnPage(i) ==
    /\ ~closed
    /\ ~Starting
    /\ fiber.phase # "idle" => fiber.col # i
    /\ Len(cols[i].pages) < MaxPages
    /\ cols' = [cols EXCEPT ![i] = FlushPage(@)]
    /\ UNCHANGED <<file, input>>

(* The beginning of flush_row_group: the rows are those the first column   *)
(* writer has counted.  OpenChunk of that column is the next step but for  *)
(* stutters (Starting).                                                    *)
BeginRowGroup ==
    /\ groups' = Append(groups, [rows |-> cols[1].rows, bytes |-> 0,
                                 columns |-> <<>>])
    /\ fiber' = [phase |-> "chunk", col |-> 1, page |-> 0, last |-> 0]
    /\ UNCHANGED <<cols, offset, numRows, sink, written, cmd, input>>

FlushRowGroup ==
    /\ fiber.phase = "idle"
    /\ ~closed
    /\ Len(groups) < MaxGroups
    /\ BeginRowGroup
    /\ UNCHANGED closed

Close ==
    /\ fiber.phase = "idle"
    /\ ~closed
    /\ closed' = TRUE
    /\ BeginRowGroup

-----------------------------------------------------------------------------
(* flush_chunk of column fiber.col.                                        *)

CountPage(meta, size, stored) ==
    [meta EXCEPT !.uncompressed = @ + HeaderBytes + size,
                 !.compressed   = @ + HeaderBytes + stored]

(* The rest of the pending values becomes a page; a dictionary encoder     *)
(* has its dictionary, as it is now, written before the data pages.        *)
OpenChunk ==
    /\ fiber.phase = "chunk"
    /\ LET c     == FlushPending(cols[fiber.col])
           fresh == [NoChunk EXCEPT !.encodings = c.used]
           size  == Len(c.enc.entries)
       IN  IF HasDict(c.enc)
           THEN /\ cols' = [cols EXCEPT ![fiber.col] = FillDictionaryPage(c)]
                /\ cmd' = CountPage([fresh EXCEPT !.dict = 0], size,
                                    CompressedSize(size))
                /\ Write("header", HeaderBytes, <<>>)
                /\ fiber' = [fiber EXCEPT !.phase = "dict"]
           ELSE /\ cols' = [cols EXCEPT ![fiber.col] = c]
                /\ cmd' = fresh
                /\ fiber' = [fiber EXCEPT !.phase = "header", !.page = 1,
                                          !.last = Len(c.pages)]
                /\ UNCHANGED <<sink, written>>
    /\ UNCHANGED <<groups, offset, closed, numRows, input>>

(* The dictionary is written; the data pages there are now will follow.    *)
WriteDict ==
    /\ fiber.phase = "dict"
    /\ LET c == cols[fiber.col]
       IN  /\ Write("dict", CompressedSize(Len(c.dict)), c.dict)
           /\ fiber' = [fiber EXCEPT !.phase = "header", !.page = 1,
                                     !.last = Len(c.pages)]
    /\ cmd' = [cmd EXCEPT !.data = cmd.compressed]
    /\ UNCHANGED <<cols, groups, offset, closed, numRows, input>>

CurrentPage == cols[fiber.col].pages[fiber.page]

WriteHeader ==
    /\ fiber.phase = "header"
    /\ fiber.page <= fiber.last
    /\ LET size == UncompressedSize(CurrentPage)
       IN  cmd' = [CountPage(cmd, size, CompressedSize(size))
                     EXCEPT !.values = @ + Len(CurrentPage.levels)]
    /\ Write("header", HeaderBytes, <<>>)
    /\ fiber' = [fiber EXCEPT !.phase = "body"]
    /\ UNCHANGED <<cols, groups, offset, closed, numRows, input>>

WriteBody ==
    /\ fiber.phase = "body"
    /\ Write("page", CompressedSize(UncompressedSize(CurrentPage)),
             CurrentPage)
    /\ fiber' = [fiber EXCEPT !.phase = "header", !.page = @ + 1]
    /\ UNCHANGED <<cols, groups, offset, closed, numRows, cmd, input>>

(* Fault: the ColumnMetaData behind a chunk is not counted in the offset.  *)
AfterChunkOnly(meta) == offset + meta.compressed

(* _file_offset behind a chunk and the ColumnMetaData that follows it.     *)
AfterChunk(meta) == offset + meta.compressed + MetaBytes

(* Fault: close() does not go on after its row group.                      *)
AfterGroupIdle == "idle"

AfterGroup == IF closed THEN "footer" ELSE "idle"

(* The chunk is written: the writer places it in the file, and writes the  *)
(* ColumnMetaData behind it.                                               *)
CloseChunk ==
    /\ fiber.phase = "header"
    /\ fiber.page > fiber.last
    /\ cols' = [cols EXCEPT ![fiber.col] = ClearPages(@)]
    /\ LET placed == [cmd EXCEPT !.file = offset + cmd.compressed,
                                 !.data = @ + offset,
                                 !.dict = IF @ = NoOffset THEN @
                                          ELSE @ + offset]
           group  == groups[Len(groups)]
       IN  groups' = [groups EXCEPT ![Len(groups)] =
                        [group EXCEPT
                           !.columns = Append(@, placed),
                           !.bytes   = @ + cmd.compressed + MetaBytes]]
    /\ offset' = AfterChunk(cmd)
    /\ Write("meta", MetaBytes, <<>>)
    /\ fiber' = IF fiber.col < Len(Schema)
                THEN [fiber EXCEPT !.phase = "chunk", !.col = @ + 1]
                ELSE [fiber EXCEPT !.phase = AfterGroup]
    /\ UNCHANGED <<closed, numRows, cmd, input>>

TotalRows ==
    LET Sum[k \in 0..Len(groups)] ==
            IF k = 0 THEN 0 ELSE Sum[k - 1] + groups[k].rows
    IN  Sum[Len(groups)]

(* The rest of close(): the FileMetaData, its length, the magic bytes.     *)
WriteFooter ==
    /\ fiber.phase = "footer"
    /\ numRows' = numRows + TotalRows
    /\ Write("footer", 1, <<>>)
    /\ fiber' = [fiber EXCEPT !.phase = "closed"]
    /\ UNCHANGED <<cols, groups, offset, closed, cmd, input>>

Flushing == OpenChunk \/ WriteDict \/ WriteHeader \/ WriteBody \/ CloseChunk
                \/ WriteFooter

Done == fiber.phase = "closed" /\ UNCHANGED vars

Next ==
    \/ \E i \in Columns : PutEntry(i) \/ PutEntries(i) \/ FlushColumnPage(i)
    \/ FlushRowGroup
    \/ Close
    \/ Flushing
    \/ Done

Spec == Init /\ [][Next]_vars

(* Seastar's reactor completes every write and runs the continuation.      *)
FairSpec == Spec /\ WF_vars(Flushing)
=============================================================================
