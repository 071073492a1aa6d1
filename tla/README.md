# parquet4seastar in TLA+

parquet4seastar reads and writes Parquet files from Seastar programs: `future`s
and continuations on one reactor thread, input from a `seastar::input_stream`,
output into a sink. This directory holds TLA+ models of its parts, TLC
configurations that check them on small instances, and proofs that TLAPS checks
for every value of the constants. Paths are those of the repository;
`hh` files without a directory are under `include/parquet4seastar/`.

To check a run: `tlc -config FileWriter.cfg FileWriterMC.tla`; to check the proofs
of a module: `tlapm LevelDecoderProofs.tla`.

## The system

    program --put--> writer --> column_chunk_writer --> rle_builder (levels, twice)
                       |                  |        `--> value_encoder (--> RleEncoder)
                       `------ sink <-----'   pages, dictionary page, metadata

    file --> input_stream --> peekable_stream --> page_reader --> column_chunk_reader
                                    level_decoder (twice), value_decoder <--'   |
      rows of CQL <-- cql_consumer <-- record_reader <---------------------------'

    schemas --> writer_schema --> footer --> file_reader --> reader_schema --> record_reader

| component | state | operations | what is hard | what makes it correct |
|---|---|---|---|---|
| `RleEncoder` (rle_encoding.hh) | buffered group, counters, place of the indicator byte, full flag | Put, Flush, Clear | a group decides late whether it extends a literal or a repeated run; the buffer must have room for what a later flush adds | the runs decode to the values put; the assertions hold |
| `rle_builder` (encoding.hh) | buffer, encoder, bytes of earlier encoders | put, view, clear | hand-over to a new encoder must not pad a group in the middle of the stream; reuse after clear | one stream, in order, padded only at its end |
| dictionary indices (`dict_encoder::flush`, encoding.cc) | indices, an encoder over a buffer of computed size | put_batch, flush | the result of `Put` is ignored: an estimate too small loses the rest of a page silently | `MaxBufferSize` is an upper bound |
| value encoders (encoding.cc) | buffered values, dictionary, fallen back or not | put_batch, flush, view_dict | fallback in the middle of a chunk changes the coding of later pages only | every page decodes with the dictionary written in front of it |
| `column_chunk_writer` | two level builders, value encoder, finished pages, page being made | put, put_batch, flush_page, flush_chunk | page buffer size is added up by hand; `flush_chunk` waits for the sink several times while the program may put more | pages hold what was put; chunk metadata describes the pages written |
| `writer` / `sync_writer` (file_writer.hh) | column writers, row groups, offset, closed flag | open, flush_page, flush_row_group, close | continuations that interleave with put; offsets added up, not asked for | a closed file holds every entry, where its metadata says |
| `peekable_stream` (thrift_serdes.hh, .cc) | power-of-two buffer, two indices, input stream | peek, advance, read_exactly | views into a buffer that is rewound, refilled and replaced; short reads | a view is the bytes of the stream at that place, never more copying or memory than needed |
| `page_reader`, `read_thrift_from_stream` | expected header size, contents view | next_page | headers of unknown size found by peeking twice as much each time | pages in order, the end told from a cut |
| `level_decoder`, `RleDecoder` (encoding.hh, rle_encoding.hh) | current run, rest of it, levels left in the page | reset_v1, reset_v2, read_batch | batches that end inside runs; reset that must forget; buffers that end inside a run | any sequence of batches gives the levels in order, once |
| `column_chunk_reader`, `value_decoder` | page loaded or not, three decoders, dictionary, end flag | read_batch | page boundaries in the middle of batches, pages that are skipped, one dictionary for later pages, errors of one part of three | triplets in order, whatever the division into pages and batches |
| delta and other codings (encoding.cc) | block, miniblock, last value | put_batch, flush, reset, read_batch | arithmetic that wraps, miniblocks that are not full, rounds and batches that end inside a miniblock, pages that are cut | decoding inverts encoding; the bytes kept for a page are enough; nothing is made up of a page that is cut |
| record readers (record_reader.hh) | a buffered batch per leaf, one level looked ahead | read_field, skip_field, read_one, read_all | every leaf under a list must agree on where a record ends, each with batches of its own | every record is put together of its own values, in the shape it had |
| `cql_reader` (cql_reader.cc) | rows, structures open, the next type's number | the consumer's calls, CREATE and INSERT | types inside types; one flag for nested structures; unsigned integers | a row is a literal of the types that were created, and these are created before they are used |
| schemas (reader_schema, writer_schema) | none | write_schema, flat_schema_to_raw_schema, raw_schema_to_schema | levels accumulated down a tree, legacy forms of lists and maps | a schema comes back as it was written; levels of a leaf match its ancestors |
| logical types (logical_type.cc) | none | read, write | two tables, each with its own order | what is written is read |
| `file_reader` (file_reader.cc) | footer, schemas computed when asked for | open, read_schema, open_column_chunk_reader | the length of the footer comes from the file; files that were not closed | a file opens if and only if all of it is there; the chunk opened is the chunk asked for |
| thrift types (parquet_types.cpp) | the members and their `__isset` flags | read, write | a message is read again into the object that a cut one was read into; fields that are unknown | what is read is what is there, whatever was in the object |
| compression, bpacking | | calls into libraries, unrolled code | | |

A component's exact status, with what was left out of it, is in `PROJECT.json` under
"components"; the places in the code where one of the hard behaviours bites, and the
property that watches it, are under "hazards".

## How the modules are built

Data is abstract where no property tells more apart: a bit-packed group is its values
and its size, a page is its levels and values and their sizes, the serialized form of
a thrift structure is a number of bytes. Control is kept: every branch, early return,
error and the order of assignments, down to the sequence of waits where other
continuations may run. An operator with a comment "Fault: ..." is a plausible mistake
in the definition that follows it; nothing uses it. It is there to show that a
property would notice.

Pairs of a detailed and an abstract specification:

| detailed | implements | what the abstract one says |
|---|---|---|
| `FileWriter` | `Table` | the entries of a column are cut into chunks in order, all of them when the file is finished |
| `PeekableStream` | `ByteStream` | peek shows the next bytes, as many as asked for unless the source ends; advance drops them |
| `LevelDecoder` | `BatchReader` | full batches in order until the levels are used up, nothing of the source before |
| `ColumnChunkReader` | `TripletReader` | triplets in order up to the end or to the first thing that is wrong |
| `ValueCoding` | `BatchReader` | the values of a page in full batches, in the codings that keep this promise (`InBatches`) |

and of a component and the one it runs on: `DataPage` extends `RleBuilder` (every one
of its behaviours is one of `RleBuilder`, theorem `PageUsesBuilder`), `PageReader`
extends `PeekableStream` and takes its steps (theorem `ReaderUsesStream`), `FileWriter` is built from
`ColumnChunkWriter`, and that from `ValueEncoder`. The levels that `LevelDecoder`
reads in its run are produced by the operators of `RleEncoder`. `ValueCoding` puts the
encoders (`DeltaBinaryPacked`, `ValueEncoder`) and `ValueDecoders` at the two ends of a
page, `FileReader` `WriterSchema` and `ReaderSchema` at the two ends of a file, and
`CqlReader` the record readers on schemas that went through both.

The readers of schemas, messages and records are recursive over trees, and are written as
recursive operators. These modules (`ThriftMessages`, `ReaderSchema`, `WriterSchema`,
`FileReader`, `RecordReader`, `CqlReader`) are for TLC only.

### Encoding levels and indices

* `RleFormat`: the runs of the RLE / bit-packing hybrid, their sizes, what they decode
  to, `MinBufferSize` and `MaxBufferSize`.
* `RleEncoder`: class `RleEncoder` as operators on a record (`vals`, the buffered
  group, `lit` = literal_count_, `rep` = repeat_count_, `cur` = current_value_, `ind` =
  whether an indicator byte is reserved, `bytes`, `full`), one operator for each of
  `Put`, `FlushBufferedValues`, `FlushLiteralRun`, `FlushRepeatedRun`,
  `CheckBufferFull`, `Flush`, `Clear`.
* `RleBuilder`: `rle_builder` as put, view and clear over a chain of encoders. `done` is
  what earlier encoders of the chain have written. The history `input` is what was put.
* `DictIndices`: the loop of `dict_encoder::flush`, with the result of `Put` ignored as
  in the code.

### Writing

* `ValueEncoder`: `plain_encoder`, `dict_encoder` with `dict_builder`, and
  `dict_or_plain_encoder` as operators on a record. The limit on the dictionary's size
  is `FallbackThreshold`.
* `ColumnChunkWriter`: members of `column_chunk_writer` as operators on a record.
  `PutBatch` counts values the way the code does, and reads `Garbage` where
  that goes past the caller's array.
* `FileWriter`: `writer`. The code between two waits for the sink is one action, and
  the program's actions come in between: `OpenChunk` (flush the pending page, copy the
  dictionary, write its header), `WriteDict`, `WriteHeader`, `WriteBody` per page,
  `CloseChunk`, `WriteFooter`. A row group takes its number of rows from the first
  column and opens that column's chunk without a wait between: nothing is put there
  (`Starting`). `sink` is what the sink has accepted with
  positions, so that `FileWriterProperties` can open the file the way
  `file_reader::open_column_chunk_reader_internal` does. `sync_writer` is the same
  sequence without anything in between.
* `DataPage`: the bytes of a page under construction, for one optional column:
  `flush_page` sizes its buffer by `current_page_max_size()` and writes levels with a
  four-byte length in front, and values behind them.

### Reading

* `PeekableStream`: `peek` is `PeekNothing`, `PeekBuffered`, or `BeginPeek` (with
  `ensure_space`: `Rewind`, `Reallocate`), any number of `ReadSome`, and `ReadNothing`
  or `EndPeek`. The buffer holds numbers of bytes in the source, so that a view that
  was overwritten shows.
* `PageReader`: `next_page` with `read_thrift_from_stream`: peek, try to deserialize,
  double what is expected up to the limit, consume, check the size, peek the contents,
  consume. A chunk is a sequence of pages, each with the place `at` where it begins
  (`Layouts`); which header is seen is told from the first byte in the view (`SeenPage`), so that
  a reader out of step would find none. `Tried` is the set of the values of `expected_size`: the
  first one and its doubles within the limit. `ReaderSpec` is a page reader alone, about which
  the theorems are; the run checks `AnySpec` of `PageReaderMC`, which adds other programs
  and fairness.
* `LevelDecoder`: `read_batch` with one step for each round of `RleDecoder::GetBatch`. A
  repeated run sets the value even when its count is 0. `have` differs from `lit` only in a buffer that ends inside a literal run.
* `ColumnChunkReader`: `read_batch` as `LoadNext` (until a data page is there),
  then one of `ReturnBatch`, `PageUsedUp`, `BatchFails`, or `ReturnNothing` at the end.
  `num_values` of a data page is not compared with the levels read: a page that has fewer
  of both kinds is read as a shorter page, and only one that has more of one kind
  than of the other is refused. The lengths of levels in a V2 header are used unchecked
  (column_chunk_reader.cc:124-127); here they are right, as the levels and values of a page are
  given apart.

### Codings of values

* `DeltaBinaryPacked`: `delta_binary_packed_encoder` and `delta_binary_packed_decoder`
  as operators on records, with every member of the classes that is read
  before it is set holding anything (`Unset`, `spill`). Words have `BufferBits` bits, INT64
  twice as many, and arithmetic wraps. A page is its numbers: the header, the smallest delta and the bit
  widths of a block, and packed deltas as the numbers they stand for.
* `ValueDecoders`: the decoders `value_decoder::reset` chooses between: plain (for
  fixed widths, booleans, byte arrays), dictionary, delta, delta-length, delta byte array, byte stream
  split, RLE booleans; each with its `reset`, its `read_batch` and its exceptions. Pages of
  indices and of RLE booleans are runs, and `GetBatch` is the loop of `RleDecoder::GetBatch`: a run
  is a part of the page's numbers (`from`, `count`), all of it there unless the page is cut (`present`).
  `dict_decoder` calls it for `IndexBatch` indices at a time.
* `ValueCoding`: a program that puts batches of values into an encoder of
  `make_value_encoder`, flushes pages, and reads these and other programs' pages in
  batches of any size, behind a batch that came back short too. A page of indices is any
  stream of runs that stands for the indices with less than a group of zeros behind them
  (`IndexStream`), which is what the property `NoIndexLost` of `DictIndices` says of
  `dict_encoder::flush`; in the run, `Streams` is what the operators of `RleEncoder` make. Those
  zeros come back as copies of the first entry, as no decoder knows which values are padding:
  the values of a page (`Held`) are the content put and its padding. `column_chunk_reader`
  does not ask for them: it reads as many values as there are levels for, and throws
  when a batch has fewer (column_chunk_reader.hh:137-141). A page of RLE booleans is its runs: the code
  reads them without a length in front.

### Files, schemas and records

* `ParquetTypes`: the structures of parquet.thrift as parquet_types.cpp has them, a table of
  fields with their numbers, types and whether they are required.
* `ThriftMessages`: one `read()` and one `write()` over that table for what the 51 generated
  functions do: fields by number and type, unknown ones skipped, required ones missed at the
  end, an exception where the tokens end. The object that is read into keeps what the
  message does not have, its flags included.
* `LogicalTypes`: `read_logical_type` and `write_logical_type`.
* `WriterSchema`, `ReaderSchema`: `write_schema`; `flat_schema_to_raw_schema` (levels, paths,
  column numbers) and `raw_schema_to_schema` (lists and maps in their forms).
* `FileReader`: `Open` (length, magic bytes, footer), `ComputeRaw`, `ComputeSchema`,
  `OpenChunk` (or `ChunkMissing`, where the row group does not have the column) with
  `ChunkMetadataRead` when the footer does not have a chunk's metadata;
  and `read_thrift_from_stream` as `BeginMessage`, `Attempt`, `Finish`, into an object
  that may have been read into before. `PageReader` has the same loop over bytes and
  buffers, where a header is only a length.
* `RecordReader`: the readers of record_reader.hh as operators on a reading: what each
  leaf has buffered, and what the consumer was told. `ReadField`, `SkipField` and
  `CurrentLevels` are the three functions each reader has; `ReadOne` and `NoMore` are those of
  `record_reader`.
* `CqlConsumer`, `CqlReader`: the consumer that prints rows of CQL, and `parquet_to_cql`
  around it: the types and the table, then the records of each row group. Text is
  tokens.

## The runs

| run | question | instance | distinct states |
|---|---|---|---|
| `dict_indices` | is the buffer of a page of indices always large enough? | 13 indices, groups of 2 | 49 135 |
| `data_page` | do the bytes of a level stream stand for the levels put, within the buffer, and does a page hold its values when the value encoder has slack? | groups of 2, literal runs of up to 7 groups, 15 puts, any view and clear, slack 8 | 131 406 |
| `data_page_plain` | and with none, as for plain INT32 values? (violation) | sizes of the code, 504 levels, every other one null | |
| `file_writer` | does the file hold what was put, whatever is put during a flush; does the writer implement `Table`, and does close end? | two columns (one with a dictionary that falls back), 3 entries each, one by one and in batches, a page flushed, a row group and that of close | 200 398 |
| `row_group_rows` | is `num_rows` of a row group its number of rows? (violation) | a repeated column, 2 puts, a group flushed and that of close | |
| `value_coding` | do pages of every coding stand for what was put and come back, as far as the code promises? | up to 6 values, batches of up to 4, pages of this library and of others, cut at every place | 572 977 |
| `value_coding_delta` | are all delta-coded values read as they were put? (violation) | two values of one delta-coded column | |
| `page_reader` | pages in order, end told from a cut; does peek show the stream, with bounded memory and copying? | 14 bytes in reads of any size, 2 to 4 pages, or any other program with peeks of up to 6 | 588 853 |
| `level_decoder` | do batches of any size give the levels? | 7 levels, batches of up to 3, resets | 17 673 |
| `column_chunk_reader` | do batches over pages give the triplets? | chunks of up to 3 pages, batches of up to 3 | 27 513 |
| `file_reader` | are messages read as they are, do files open when and only when they are whole, do schemas come back? | every structure, 3 first sizes; schemas two deep of this library, three elements of others | 76 791 |
| `records` | does each record become one row, as the types were created? | schemas two deep, values of every shape, pages of 1 or 3 levels, batches of 2 | 300 120 |

What the bounds reach:

* `data_page`: two values in a group and seven groups are the smallest numbers for
  which literal runs are closed because they are long, repeated runs follow
  literal ones and the other way round, and an encoder becomes full with values
  pending. `RleFormat` assumes at least seven groups because `MinBufferSize` counts on
  a closed literal run being larger than two repeated runs (64 groups in the code).
  `MaxPuts < 2^30` is where `repeat_count_ << 1` would overflow its 32 bits. Only
  definition levels: the repetition levels go through the same lines.
* `dict_indices`: 13 indices make a literal run and every mix of six groups.
* `file_writer`: one entry in the dictionary, then fallback, so that a chunk may
  have dictionary pages and plain pages; the fallback may happen while the dictionary of the
  chunk is being written. A second row group sees what the first left behind:
  `_rows_written` and the dictionary are kept. Deadlock is on; the only end is `Done`.
* `value_coding`: words of three bits (six for INT64), so that differences
  wrap; blocks of four values in two miniblocks, so that a page has a block that is used
  up, one that is only begun, and miniblocks of which nothing is used; lengths and suffixes in
  batches of four; groups of two literals and indices read two at a time, so that batches
  end inside of runs, groups and padding. Pages of runs are cut in every run. Deltas of INT64 are wider than `BufferBits`, the 32 bits of
  `delta_buffer`.
* `page_reader`: headers of 1, 3 and 5 bytes against an expected size of 1 and a limit
  of 4 make no retry, two retries and the refusal (in the code 1024 bytes and 16
  MiB); contents of 0, 2 and 3 bytes; headers that cannot be deserialized, negative sizes,
  and sources that end anywhere. The buffer goes through sizes 1 to 16, is rewound, replaced and
  emptied; every read may be as short as one byte. A page reader peeks in a pattern of its own;
  the second kind of behaviour (`OtherNext` in `PageReaderMC`) is any program that peeks and
  advances.
* `level_decoder`: all sequences of up to seven levels as the encoder writes them,
  streams this encoder does not write, bit-packed and zero-width levels, and
  sources of up to five levels cut at every place.
* `column_chunk_reader`: a list of optional values and a flat required column, two
  dictionaries of different length, pages of unknown type between, and chunks in which
  one page is wrong in one of: it does not load, too few levels of a kind, levels too high, too few
  values, an index too high, a dictionary index without a dictionary.
* `file_reader`: sizes are in tokens. First sizes of 1, 3 and 5 make retries end at every place
  of a message; `MaxAllowed` = 400 is just below twice the largest of them. Lengths of
  footers have 12 bits, so that adding to the largest wraps. Messages have their
  required members only, all of them, or one of the optional ones; in both orders; with unknown
  fields of every kind in front; with a required one left out; cut. Messages and files are
  read in behaviours apart (`NoFile`): a message does not depend on the
  file around it. Broken files are cut at every token, or have a wrong length or the magic bytes of
  encrypted ones.
* `records`: bytes of two bits make the limits of every integer type small numbers. Pages of one
  level and of three against batches of two put the ends of pages and batches at every place
  of a record, in each column for itself. Records have one column of any shape and the others
  full; a file has one row group or three, one of them empty, and may have one
  column that lacks the last record.

### What programs are assumed to do

The code does not check how it is used. `FileWriter` lets a program do anything but:
start a flush or close while another is under way, put after `close()`, and flush a
page of a column while its chunk is being written (hazard at
column_chunk_writer.hh:205). `PeekableStream` has one operation at a time and does not
advance past the end of the source. `PageReader` and `ColumnChunkReader` are not used
again after an exception, as no caller in the repository does; nor is a value decoder or a
file reader. `FileWriter` puts batches into columns whose maximum definition level is 0 only,
as `put_batch` counts values otherwise wrongly (see below).

### Fairness

`RleBuilder`, `DictIndices`, `DataPage`, `ValueCoding`, `FileReader` and `CqlReader` have no fairness:
the first four do nothing by themselves, and the others have no property that something
happens. Elsewhere there is weak fairness of the code's own steps and none of the program's:
the reactor runs a continuation that is ready, and a sink or an input stream answers
every request (`WF(Flushing)`, `WF(ReaderNext)`, `WF(Proceed)`);
`RleDecoder::GetBatch` is a loop (`WF(Round)`). `page_reader` is called again for each
page by its only caller, which reads until the end; hence fairness of all of its steps.
The other program in `PageReaderMC` has none.
The runs in which the modelled part stops for good (a file after close, a page reader
at its end, a chunk reader that failed, indices flushed, a file read) say
`CHECK_DEADLOCK FALSE`.

## What the runs show

Every property of a passing run holds on its instance, and fails for at least one
faulty version of a definition it depends on ("mutants" in `PROJECT.json`).

Disagreements between the code and what is said of it, each with a run:

* `data_page_plain`: `current_page_max_size()` adds up the two level encoders and the
  values, not the four bytes of length in front of the levels. When a level stream
  fills its buffer up and the values have no slack (`plain_encoder`), the values are written
  past the end of the page's buffer, and are zeros after the last resize.
  `PageHoldsValuesGivenSlack` says what saves the other encoders: `dict_encoder` reserves more
  than it uses, by at least `PrefixBytes`.
* `row_group_rows`: parquet.thrift says of `num_rows` "Number of rows in this row group";
  `_rows_written` is never reset, so that a later row group counts the rows of the
  earlier ones too.
* `value_coding_delta`: `delta_binary_packed_decoder::read_batch` gives its last value again at the
  start of every round (encoding.cc:226), where a page of more values than a miniblock is read
  or a second batch is; tests/delta_binary_packed_test.cc:107 expects the values put.
  `FirstRoundRight` says what does hold.

Others were met while reading and have no run, because they concern a comment
more than a behaviour, or are kept apart from what the passing runs say by a named condition:

* column_chunk_writer.hh:85: `put_batch` takes a value for each definition level that is 0 instead
  of each that is the maximum, where doc/parquet/README.md:160 and Encodings.md say that nulls
  are not encoded. `BatchValueCount` is as the code has it.
* file_writer.hh:168 takes the sum of compressed sizes for `total_byte_size`, which
  parquet.thrift:807 calls the "Total byte size of all the uncompressed column data".
* file_writer.hh:155: a sink write that fails leaves `_metadata` with some columns of a row group.
* `plain_encoder` writes a boolean as a byte, where Encodings.md:35 and `plain_decoder_boolean`
  (encoding.cc:526) have a bit. `InBatches` leaves these pages out.
* encoding.cc:251: deltas are unpacked into 32 bits, INT64 ones too (`NarrowDeltas`).
* encoding.cc:367: nothing advances `_current_idx`, so that a second batch of a
  DELTA_BYTE_ARRAY page starts at the first string again (`InBatches`, `LengthsSure`).
* encoding.cc:42 compares the length before the levels of a page with a buffer that includes the
  four bytes of that length. The pages of the models have lengths that are right.
* rle_encoding.hh:487-493 fills the last group of literals of a page up with zeros, and encoding.cc:584-612
  gives them as values: `read_batch` past the values of a page written here comes back full,
  where encoding.hh:144 has the last batch smaller. `NothingMadeUp` and `ReadsInBatches` have
  the padding behind the content.
* encoding.cc:590 compares dictionary indices with `>`; an index that is the size of the
  dictionary is let through. `Beyond` stands for what is read there, and the
  chunks of the run have no such index.
* encoding.cc:567-570 reads the bit width of a page's indices without a check that there
  is one.
* column_chunk_reader.cc:41: an exception about the contents leaves the stream behind the
  header; a caller that went on would take contents for a header.
* column_chunk_reader.hh:97 says that the last batch may be smaller; the batch at the
  end of every page may be.
* thrift_serdes.cc:55-56 says that half of the allocated memory is always in use; a peek of
  three bytes with one left at index two of a buffer of four allocates eight.
* rle_encoding.hh:118 says that `GetBatch` returns less than asked for when there are
  no more values; with a buffer that ends between the count of a repeated run and
  its value, line 359 makes it return copies of an old value. Both users of the decoder
  have it: the level decoder (`RepeatedCut`) and the decoders of indices and of RLE booleans
  (pages that are not `RepeatsComplete`).
* reader_schema.cc:138: a list of two levels is read as a list of lists of one element, where
  doc/parquet/LogicalTypes.md:637-657 has a list (`Nests`).
* logical_type.cc:118: the branch for DATE checks the physical type and returns nothing, so that a
  DATE is read as INT32, as is a column of unknown type (`Kept`).
* record_reader.hh:489: only the first column is asked whether there is another record. When it ends
  first the other columns are left unread without an exception (`AllRead`), and a first
  column that is a structure without fields has no levels, so that no row is read. A short optional
  column has its null printed before the exception.
* cql_reader.cc prints floating-point numbers with six digits, and infinities that are not CQL;
  digits are not modelled.

## What is proved

For every value of the constants that the named assumptions allow. An invariant
a run checks is seldom inductive; the strengthening is named in each.

Loops and running sums are recursive functions over sequences. What they compute is not
proved by induction over data, which the prover cannot do, but by the least index at which a
claim fails; the lemmas this needs about sequences, `Nat` and the library's `FlattenSeq` are in
`SequenceLemmas`, which the other modules of proofs use.

* **RLE encoder and builder** (first parts of `RleStreamProofs`): `TypeCorrect`,
  `RoundTripHolds`, `FitsBufferHolds`, `AssertionsHoldAlways`, `RunsAreTheStreamHolds`, from
  `ValuesAssumption`, `GroupAssumption`, `WidthAssumption` and `MaxPutsAssumption`.
  `EncoderInv` relates the counters of the encoder to its values, and its bytes to the
  limit that `CheckBufferFull` compares with: until the encoder is full it has room
  for the largest thing a flush can add. The builder adds that `offset` and the
  encoder's buffer make up the whole buffer, and that an encoder that hands over has
  whole groups only (`InputKept`), which is why nothing is padded in the middle. `Written` says
  that the history of values is what the runs decode to, and that the bytes counted against
  the buffer are those of the runs and of the literal run that is open; every operation
  that ends a run keeps it, because decoding and counting go over runs one by one
  (`DecodeConcat`, `StreamBytesAppend`).
* **Dictionary indices** (in `RleStreamProofs` too): `DictTypeCorrect`,
  `NoIndexLostHolds`, `WithinMaxBufferSizeHolds`, from the same assumptions and
  `SlotAssumption`. The argument is one of payment: `MaxBufferSize` pays one slot for
  each group of indices, and every closed run has been paid for by its
  own values (`Paid`, `Budget`); a header of more than a byte belongs to a
  run of so many groups that it is paid several times. The buffer then always
  has room, so that `Put` never fails and ignoring its result is right.
* **Data pages** (in `RleStreamProofs` too): `PageUsesBuilder` (a page's level builder is an
  `RleBuilder`), `PageTypeCorrect`, `PageHoldsValuesGivenSlack`: with
  `Slack >= PrefixBytes` the values of each page survive.
* **Delta pages** (first part of `ValueCodingProofs`): `CodingInvariance`, `EncodedRightHolds`
  and `WithinMaxEncodedSizeHolds`, from `DeltaAssumption` and `CodingAssumption` (a word is whole
  bytes, the size of a block and the number of values of a page fit a word; 32 and 64 bits,
  128 and 2^32 in the code). `CodingInv` says what the encoder holds (`HeldBy`): its blocks stand for
  the values put (`Stand`), but for the last ones, which are pending behind a whole number
  of blocks. The argument is in three parts. A delta goes into a miniblock as a word above
  the smallest of its block, and comes back because all of this is modulo 2^bits
  (`ValueBack`), however the differences wrap. A reader finds it again because what is in front of
  it, the bit widths and the miniblocks of width 0 that are left out, has the
  same length for the writer and for the reader (`FlattenMinis`, `BlockRead`, `InMiniblock`), and
  what is written behind a block changes nothing in it (`BlockStays`). And a page has
  room: each number of the header and each smallest delta fits the varint of a word
  (`VlqFits`), and the bits of a block, of miniblocks that are filled up with what was never
  set too, are at most those of whole miniblocks of whole words (`BitsFit`). Every loop (`Pow2`, the
  batch, the bits, the definition of what a page stands for) is a recursive function; that it
  exists and what it gives is shown up to each index (`LoopExists`).
* **What is read of a page** (second part of `ValueCodingProofs` and `ValueReadingProofs`):
  `PuttingInvariance`, `PageInvariance`, `OwnInvariance`, and from these `NothingMadeUpHolds`,
  `FirstRoundRightHolds` and `DecoderReadsInBatches`: every property of the run `value_coding` is proved.
  The assumptions are, besides those above, `ColumnAssumption` (values have their type's
  size, and the entries of a dictionary are so few that a bit width is at most 32, which is what
  `dict_decoder::reset` accepts), `ThresholdAssumption` and `ForeignAssumption`: a page of another
  program may be anything, but what is called its content is what its numbers stand for in the way
  that Encodings.md says of its coding (`StandsFor`): all of it when the page is whole, and
  otherwise as much as there is of the numbers that would be. No index of it is just the
  number of entries, for the reason given above (encoding.cc:590), and a page of prefixes has
  one for every suffix, which the decoder does not check (encoding.cc:367). TLC evaluates all
  of them on the pages of the run.
  - A decoder is followed by the values it has given. For each coding that is read in batches
    there is a sequence `at` of sets, `at[k]` being the decoders that have given the first k
    values of the page (`Located`): `Begin(p)` is in `at[0]`, and a batch from `at[k]` gives
    the next m values and ends in `at[k + m]`, with m less than was asked for only
    where the page ends, behind its padding; or it throws, and the page is not whole (`Gives`, one lemma for
    each coding). In a page of runs the place is told from the run the decoder is in and from
    what is left of it (`RunsAt`); a round of `GetBatch` gives the next numbers, or goes on to
    the next run, and there are not more rounds than numbers and runs. Pages of lengths and of prefixes rest on what `reset()` reads with a decoder of
    deltas, to its end and in rounds (`ReadAllDelta`).
  - Of a page of deltas the first round is followed by itself (`FirstRound`), as later ones
    repeat a value; its count still goes down with every value it gives, repeated ones
    too (`DeltaLeft`), hence no page gives more values than it has.
  - That a page of this library's never throws is not seen from its values, which are wrong
    after the first round, but from its numbers: `EncodedRight`'s blocks are where the
    writer put them (`BlocksIn`), and the decoder is always between two of them or inside of
    one (`AtDelta`), with no more to read than the blocks behind it have (`RoomIn`). A round that
    repeats a value takes one number less from the page than it gives
    values, which is why the repeated values make it read too little and never too much.
  - `Putting` says that the other encoders hold what was put, as values or as indices into
    a dictionary that has them (`ValuesHeld`), through a fallback in the middle of a page; the
    padding of a page of indices is in the dictionary too, as there is a first entry
    whenever there is an index (`IndexPadded`).
* **Peekable stream** (first part of `PageReaderProofs`): `StreamTypeCorrect`,
  `SpaceToReadHolds`, `RewoundAtMostOnceHolds`, `BufferBoundedHolds`, and
  `StreamImplementsByteStream`, from `LengthAssumption` and `SizesAssumption`. `SInv` says
  that the buffer holds the next bytes of the source in order (`Contents`), that
  the view begins where they do, and that bytes rewound lie in
  the first half of the buffer (`Rewound`): a rewind takes bytes of the second half only,
  which is why no byte is rewound twice.
* **Page reader** (second part): `ReaderUsesStream` (every behaviour of a page
  reader is one of the stream, so that the theorems above hold in its use),
  `ReaderTypeCorrect`, `PagesInOrderHolds`, `InStepHolds`, `EndedRightHolds`, from
  `HeaderAssumption`, `LayoutsAssumption` and those of the stream. `RInv` adds to `SInv` where the
  stream stands at each step of the reader: what is consumed is all of the pages
  handed out (`Through(read)`), and behind `ConsumeHeader` the next header as well
  (`HeaderEnd(read + 1)`); and that a finished peek shows as much as was asked for, or all
  there is (`Peeked`). A header is refused at the limit only when it is longer than every size
  in `Tried`; what is needed for that, that no tried size lies between one and
  its double, is an induction, done as membership in every closed set.
* **Level decoder** (`LevelDecoderProofs`): `DecoderTypeCorrect`,
  `GivenInOrderHolds`, `DecoderImplementsReader`, from `SourcesAssumption`. `IInv` ties
  the counters of the current run to the number of levels given (`Placed`), so that
  the next value taken from the run is the next of the source.
* **Column chunk reader** (`ColumnChunkReaderProofs`): `ReaderTypeCorrect` and
  `ReaderImplementsTriplets`, from `ChunksAssumption`. `ReaderInv` says how far the reader is in
  its chunk (`Behind`): the dictionary it holds is the one in force (`DictAt`), every page
  passed was sound, and what it has handed out is what a reader of whole pages would have
  from these and from the part of the current page that is read (`GivenAt`). In that page, as
  many values are read as the levels read have values, which is all that keeps the two
  counts in step when batches end anywhere. A page is left when its levels are used
  up, and whatever is refused is refused where `TripletReader` lets it be
  (`BatchFails` against `Covered`). The refinement has one hypothesis, `IndicesClear`: no index
  equals the size of its dictionary. `dict_decoder` lets just that one pass (encoding.cc:590)
  and reads what lies behind the dictionary, which no specification of a reader can promise.
  The chunks of the run satisfy it (`IndicesAssumption`).
* **File writer** (`FileWriterProofs`): `WriterTypeCorrect`, `OffsetIsPositionHolds`,
  `PagesReadableHolds`, from `SchemaAssumption` and `BatchAssumption`. `FInv` says how far
  the sink is ahead of what has been added up in each phase of a flush (`Ahead`), that the
  pages still to be written are those there were when the chunk was opened (`InChunk`), and that the
  chunks in the metadata lie apart below `_file_offset`, each followed by its own metadata
  (`Placed`). A program that keeps to the contract changes none of them (`ChunkLeftAlone`).
  `PagesInv` adds what makes pages readable: every index was that of an entry when it was made,
  and entries are never taken away, so that a copy of the dictionary that is taken behind the
  last page covers all of them (`ColumnSound`). `PutIndices` and `TotalRows` are loops; what they
  keep is shown by taking the least round that does not (`UpTo`).
* **Contents of a file** (second part of `FileWriterProofs`): `ContentsInvariance`, `NothingLostHolds`,
  `ChunkMetaTrueHolds`, `ClosedFileCompleteHolds` and `WriterImplementsTable`, from the same
  assumptions. What a reader finds is defined by positions in the sink alone, and no
  property of it is inductive: while a chunk is being written no metadata leads to it.
  `ContentsInv` adds to `PagesInv`
  - what is in the sink behind the chunks placed: the dictionary's header, the dictionary, and
    the headers and bodies of the column's pages in their order, as far as `fiber.page` says, with
    `cmd` counting just these (`SoFar`, `UnderWay`). When the chunk is placed these are its pages;
  - that a chunk once placed reads the same for ever (`ChunksTrue`, `ChunkStays`): positions
    in the sink only grow (`SinkEnds`), and what is written later lies at its end or behind;
  - that what a column holds decodes to the same entries however its dictionary grows, and
    with the copy that goes in front of the pages (`HeldInParts` and the lemmas before it), so that
    `CloseChunk` moves the entries from `Held` to `Chunks` without changing their
    concatenation, while pages and pending values put meanwhile stay behind (`Kept`, `Cuts`);
  - that every encoding of a page was listed before the page was made (`ColumnsListed`), that
    groups before the last are full and the last has the columns before `fiber.col`
    (`GroupsFilled`), and that after `close()` the columns already written are empty (`Closing`).

  The refinement follows: a put adds to `Held`, `CloseChunk` cuts a beginning of it off as a
  chunk, and no other step, `FlushColumnPage` and `OpenChunk` included, changes what a
  reader would see.

The theorems on refinement say that every step of the detailed specification is one of
the abstract one or a stutter; the liveness of the abstract ones is not part of
them.

The type invariants `TypeOK` of `RleBuilder`, `DictIndices`, `PeekableStream`,
`LevelDecoder`, `ColumnChunkReader` and `FileWriter`, `PageTypeOK` and `ReaderTypeOK` are proved,
and no run repeats them.

Only model-checked: everything under fairness (`BatchesEnd`, `ReaderEnds`,
`Finishes`), which the prover does not reach; and the properties of `FileReader` (`ReadRight`,
`EndsRight`, `OpenedRight`, `SchemaKept`, `LevelsNest`) and `CqlReader` (`RowsRight`, `AllRead`,
`TypesCreated`): schemas and thrift structures are trees of any depth, their operators are
RECURSIVE, and the prover neither takes such operators nor does induction over trees.

## What is not modelled

* What bits look like: packing and unpacking inside a group (bpacking.hh is generated, unrolled code
  without control), varints, little-endian integers, TCompactProtocol; the pages of
  `ColumnChunkReader` are given decoded. The `__isset` flag of a required member, which the
  generated code keeps in a local variable, is the membership of its name while a
  message is read.
* Compression: calls into libraries. A compressed page has an external size.
* The digits, quotes and escapes of CQL literals; the kind of a literal and the casts of integers
  are modelled.
* `printTo`, `swap` and comparisons of the generated thrift code, which nothing here calls.
* Failing sinks and streams. A failed write leaves the writer as it was and its
  future fails; nothing says what a program may do with it then.
* `_estimated_chunk_size` and statistics for the caller, which the code itself
  does not read.
* `advance` past the end of the source, whose effect is that of `input_stream::skip`; a
  `reset` of a level decoder that throws; counts of 2^28 groups and more in a run header.
* The programs of tests/ and examples: record readers with other consumers. `cql_consumer`
  gets every call that a consumer gets.

## What could come next

In this order:

1. A composition of `PageReader` and `ColumnChunkReader` over one stream: that the pages a
   chunk reader decodes as views are not used after the stream has moved them.
2. What a program may do after a sink has failed, when the code or its documentation says so.
