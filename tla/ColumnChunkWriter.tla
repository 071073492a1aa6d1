------------------------- MODULE ColumnChunkWriter -------------------------
(***************************************************************************)
(* column_chunk_writer (column_chunk_writer.hh): collects the levels and   *)
(* values of one column into pages.  A writer is a record; each operator   *)
(* is one member function, up to the parts of flush_chunk that write to    *)
(* the sink, which are actions of FileWriter.  The level streams are the   *)
(* sequences RleBuilder shows them to be.                                  *)
(***************************************************************************)
EXTENDS ValueEncoder, FiniteSets

CONSTANTS
    Null,      \* stands in an entry for the value a null does not have
    Garbage    \* what the code reads behind the end of a caller's array

Level == [def : Nat, rep : Nat]
Entry == [def : Nat, rep : Nat, val : Data \cup {Null}]
Page  == [levels : Seq(Level),
          values : [encoding : Encodings, data : Seq(Nat \cup Data)]]

Column == [maxDef : Nat, maxRep : Nat,    \* _def_level, _rep_level
           enc    : ValueEncoder,         \* _val_encoder
           levels : Seq(Level),           \* _def_encoder, _rep_encoder
           pages  : Seq(Page),            \* _page_headers, _pages
           dict   : Seq(Data),            \* _dict_page
           used   : SUBSET Encodings,     \* _used_encodings
           rows   : Nat]                  \* _rows_written

NewColumn(maxDef, maxRep, dict) ==
    [maxDef |-> maxDef, maxRep |-> maxRep, enc |-> NewValueEncoder(dict),
     levels |-> <<>>, pages |-> <<>>, dict |-> <<>>, used |-> {}, rows |-> 0]

(* A level encoder exists only for a column that can have such a level.    *)
StoredLevel(c, def, rep) ==
    [def |-> IF c.maxDef > 0 THEN def ELSE 0,
     rep |-> IF c.maxRep > 0 THEN rep ELSE 0]

Put(c, def, rep, val) ==
    [c EXCEPT
        !.levels = Append(@, StoredLevel(c, def, rep)),
        !.rows   = IF c.maxRep = 0 \/ rep = 0 THEN @ + 1 ELSE @,
        !.enc    = IF c.maxDef = 0 \/ def = c.maxDef
                   THEN PutValues(@, <<val>>) ELSE @]

(* The number of values put_batch takes from the caller's array: it counts *)
(* the definition levels that are 0.                                       *)
BatchValueCount(c, batch) ==
    IF c.maxDef = 0 THEN Len(batch)
    ELSE Cardinality({i \in 1..Len(batch) : batch[i].def = 0})

PutBatch(c, batch, vals) ==
    LET n     == BatchValueCount(c, batch)
        taken == [i \in 1..n |-> IF i <= Len(vals) THEN vals[i] ELSE Garbage]
    IN  [c EXCEPT
            !.levels = @ \o [i \in 1..Len(batch) |->
                                StoredLevel(c, batch[i].def, batch[i].rep)],
            !.rows   = @ + IF c.maxRep = 0 THEN Len(batch)
                           ELSE Cardinality({i \in 1..Len(batch) :
                                                batch[i].rep = 0}),
            !.enc    = PutValues(@, taken)]

(* Fault: an encoding is only noted while the dictionary is in use.        *)
FlushPageUnlisted(c) ==
    LET page == [levels |-> c.levels, values |-> Encoded(c.enc)]
    IN  [c EXCEPT !.pages = Append(@, page),
                  !.levels = <<>>,
                  !.enc = Flushed(@),
                  !.used = IF UsesDict(c.enc)
                           THEN @ \cup {"RLE_DICTIONARY"} ELSE @]

FlushPage(c) ==
    LET page == [levels |-> c.levels, values |-> Encoded(c.enc)]
    IN  [c EXCEPT !.pages = Append(@, page),
                  !.levels = <<>>,
                  !.enc = Flushed(@),
                  !.used = @ \cup {page.values.encoding}]

(* Fault: the page being made is left for the next chunk.                  *)
FlushNothing(c) == c

(* The beginning of flush_chunk, with the copy fill_dictionary_page takes. *)
FlushPending(c) == IF Len(c.levels) > 0 THEN FlushPage(c) ELSE c

FillDictionaryPage(c) == [c EXCEPT !.dict = c.enc.entries]

(* Fault: the pages stay.                                                  *)
KeepPages(c) == c

(* The end of flush_chunk.                                                 *)
ClearPages(c) == [c EXCEPT !.pages = <<>>]

-----------------------------------------------------------------------------
(* Sizes in bytes: a byte for each level and value, and a compressor.      *)
UncompressedSize(page) == Len(page.levels) + Len(page.values.data)
CompressedSize(size) == 1 + size \div 2

-----------------------------------------------------------------------------
(* What column_chunk_reader makes of levels and decoded values: the levels *)
(* that reach the maximum take the values in turn.                         *)
Entries(maxDef, levels, vals) ==
    LET Rank(i) == Cardinality({j \in 1..i : levels[j].def = maxDef})
    IN  [i \in 1..Len(levels) |->
            [def |-> levels[i].def, rep |-> levels[i].rep,
             val |-> IF levels[i].def = maxDef THEN vals[Rank(i)] ELSE Null]]

ValueCount(maxDef, levels) ==
    Cardinality({i \in 1..Len(levels) : levels[i].def = maxDef})
=============================================================================
