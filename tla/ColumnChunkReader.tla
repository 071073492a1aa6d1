-------------------------- MODULE ColumnChunkReader --------------------------
(***************************************************************************)
(* column_chunk_reader (column_chunk_reader.hh, .cc): batches of levels    *)
(* and values out of the pages of one column chunk.  The page reader and   *)
(* the level decoders are as PageReader and LevelDecoder have them: a page *)
(* is given as what they make of it.                                       *)
(***************************************************************************)
EXTENDS Integers, Sequences, FiniteSets, SequencesExt

CONSTANTS
    Chunks,    \* the column chunks
    MaxBatch,  \* bound: the largest batch
    Beyond     \* what happens to lie in memory behind the dictionary

(* A page that does not load is one that next_page, the checks of its      *)
(* header, the decompressor or a reset of a decoder throws at.  Its vals   *)
(* are plain values, or indices into the dictionary with those that fill   *)
(* up their last group.  num is num_values.  The lengths of its levels     *)
(* that a V2 header gives, which load_data_page_v2 does not compare with   *)
(* the size of the page, are taken to be right.                            *)
Page == [kind : {"data", "dictionary", "other"}, loads : BOOLEAN,
         num : Nat, defs : Seq(Nat), reps : Seq(Nat),
         coding : {"plain", "indices"}, vals : Seq(Nat)]

(* top is the maximum definition level and deepest that of repetition.     *)
Chunk == [top : Nat, deepest : Nat, pages : Seq(Page)]

ASSUME ChunksAssumption ==
    /\ MaxBatch \in Nat \ {0}
    /\ Beyond \in Nat
    /\ Chunks \subseteq Chunk

VARIABLES
    chunk,   \* the pages ahead of and behind _source, _def_level, _rep_level
    next,    \* the page that next_page returns
    eof,     \* _eof
    loaded,  \* _initialized
    read,    \* how much of the levels and values of the page is read
    dict,    \* _dict, as a sequence of none or one
    want,    \* n of the read_batch under way, 0 if there is none
    given,   \* history: what the batches handed out
    ended,   \* history: a batch came back empty
    failed   \* history: a batch came back with an exception

vars == <<chunk, next, eof, loaded, read, dict, want, given, ended, failed>>

Least(a, b) == IF a < b THEN a ELSE b

Unread == [levels |-> 0, vals |-> 0]

Init ==
    /\ chunk \in Chunks
    /\ next = 1
    /\ eof = FALSE /\ loaded = FALSE
    /\ read = Unread
    /\ dict = <<>>
    /\ want = 0
    /\ given = [top |-> chunk.top, defs |-> <<>>, reps |-> <<>>, vals |-> <<>>]
    /\ ended = FALSE /\ failed = FALSE

-----------------------------------------------------------------------------
(* After an exception the callers in this repository drop the reader.      *)
ReadBatch(n) ==
    /\ want = 0 /\ ~failed
    /\ want' = n
    /\ UNCHANGED <<chunk, next, eof, loaded, read, dict, given, ended, failed>>

ReturnNothing ==
    /\ want > 0 /\ eof
    /\ want' = 0
    /\ ended' = TRUE
    /\ UNCHANGED <<chunk, next, eof, loaded, read, dict, given, failed>>

(* load_next_page.                                                         *)
Loading == want > 0 /\ ~eof /\ ~loaded

NextPage == chunk.pages[next]

Goes(page) ==
    /\ page.loads
    /\ page.kind = "dictionary" => page.num <= Len(page.vals)
    /\ page.kind = "data" /\ page.coding = "indices" => dict # <<>>

NoNextPage ==
    /\ Loading /\ next > Len(chunk.pages)
    /\ eof' = TRUE
    /\ UNCHANGED <<chunk, next, loaded, read, dict, want, given, ended, failed>>

LoadNext ==
    /\ Loading /\ next <= Len(chunk.pages)
    /\ Goes(NextPage)
    /\ next' = next + 1
    /\ UNCHANGED <<chunk, eof, want, given, ended, failed>>

LoadData ==
    /\ LoadNext /\ NextPage.kind = "data"
    /\ loaded' = TRUE
    /\ read' = Unread
    /\ UNCHANGED dict

LoadDictionary ==
    /\ LoadNext /\ NextPage.kind = "dictionary"
    /\ dict' = <<SubSeq(NextPage.vals, 1, NextPage.num)>>
    /\ UNCHANGED <<loaded, read>>

SkipPage ==
    /\ LoadNext /\ NextPage.kind = "other"
    /\ UNCHANGED <<loaded, read, dict>>

Fails ==
    /\ want' = 0
    /\ failed' = TRUE
    /\ UNCHANGED <<chunk, eof, loaded, read, dict, given, ended>>

LoadFails ==
    /\ Loading /\ next <= Len(chunk.pages)
    /\ ~Goes(NextPage)
    /\ next' = next + 1
    /\ Fails

-----------------------------------------------------------------------------
(* The decoders of the page that is loaded.                                *)
Current == chunk.pages[next - 1]

Batch(s, from, n) == SubSeq(s, from + 1, Least(from + n, Len(s)))

DefBatch == Batch(Current.defs, read.levels, want)
RepBatch == Batch(Current.reps, read.levels, want)

Reading == want > 0 /\ ~eof /\ loaded

LevelsRight ==
    /\ Len(DefBatch) = Len(RepBatch)
    /\ \A i \in DOMAIN DefBatch : /\ DefBatch[i] <= chunk.top
                                  /\ RepBatch[i] <= chunk.deepest

(* Fault: every level but 0 has a value.                                   *)
ValuesToReadNotZero ==
    Cardinality({i \in DOMAIN DefBatch : DefBatch[i] > 0 \/ chunk.top = 0})

ValuesToRead ==
    Cardinality({i \in DOMAIN DefBatch : DefBatch[i] = chunk.top})

Stored == Batch(Current.vals, read.vals, ValuesToRead)

(* Indices count from 0; dict_decoder lets one pass that is the size.      *)
IndicesRight ==
    Current.coding = "indices" =>
        \A i \in DOMAIN Stored : Stored[i] <= Len(dict[1])

Decoded ==
    [i \in DOMAIN Stored |->
        IF Current.coding = "indices"
        THEN Append(dict[1], Beyond)[Stored[i] + 1]
        ELSE Stored[i]]

BatchRight ==
    LevelsRight /\ IndicesRight /\ Len(Stored) = ValuesToRead

(* Fault: the page is not left.                                            *)
PageUsedUpKept ==
    /\ Reading
    /\ DefBatch = <<>> /\ RepBatch = <<>>
    /\ UNCHANGED vars

PageUsedUp ==
    /\ Reading
    /\ DefBatch = <<>> /\ RepBatch = <<>>
    /\ loaded' = FALSE
    /\ UNCHANGED <<chunk, next, eof, read, dict, want, given, ended, failed>>

ReturnBatch ==
    /\ Reading
    /\ DefBatch # <<>> /\ BatchRight
    /\ read' = [levels |-> read.levels + Len(DefBatch),
                vals   |-> read.vals + Len(Stored)]
    /\ given' = [given EXCEPT !.defs = @ \o DefBatch,
                              !.reps = @ \o RepBatch,
                              !.vals = @ \o Decoded]
    /\ want' = 0
    /\ UNCHANGED <<chunk, next, eof, loaded, dict, ended, failed>>

BatchFails ==
    /\ Reading
    /\ ~BatchRight
    /\ Fails
    /\ UNCHANGED next

Proceed ==
    \/ ReturnNothing
    \/ NoNextPage
    \/ LoadData
    \/ LoadDictionary
    \/ SkipPage
    \/ LoadFails
    \/ PageUsedUp
    \/ ReturnBatch
    \/ BatchFails

Next == (\E n \in 1..MaxBatch : ReadBatch(n)) \/ Proceed

Spec == Init /\ [][Next]_vars

(* The reactor runs the continuations of read_batch to their end.          *)
FairSpec == Spec /\ WF_vars(Proceed)

-----------------------------------------------------------------------------
(* What can be read of chunk c, said of its pages alone.                   *)

(* The dictionary that page k is decoded with.                             *)
DictPages(c, k) == {j \in 1..(k - 1) : c.pages[j].kind = "dictionary"}

Dictionary(c, k) ==
    LET j == CHOOSE j \in DictPages(c, k) : \A i \in DictPages(c, k) : i <= j
    IN  SubSeq(c.pages[j].vals, 1, c.pages[j].num)

PageLoads(c, k) ==
    LET page == c.pages[k]
    IN  /\ page.loads
        /\ page.kind = "dictionary" => page.num <= Len(page.vals)
        /\ page.kind = "data" /\ page.coding = "indices" =>
              DictPages(c, k) # {}

(* The number of the value that the i-th level of page k has.              *)
Nth(c, k, i) == Cardinality({j \in 1..i : c.pages[k].defs[j] = c.top})

ValueThere(c, k, n) ==
    LET page == c.pages[k]
    IN  /\ n <= Len(page.vals)
        /\ page.coding = "indices" => page.vals[n] < Len(Dictionary(c, k))

TripletThere(c, k, i) ==
    LET page == c.pages[k]
    IN  /\ i <= Len(page.defs) /\ i <= Len(page.reps)
        /\ page.defs[i] <= c.top /\ page.reps[i] <= c.deepest
        /\ page.defs[i] = c.top => ValueThere(c, k, Nth(c, k, i))

(* The triplets of page k up to the first that is not there.               *)
Readable(c, k) ==
    LET whole == {n \in 0..Len(c.pages[k].defs) :
                     \A i \in 1..n : TripletThere(c, k, i)}
    IN  IF c.pages[k].kind = "data" /\ PageLoads(c, k)
        THEN CHOOSE n \in whole : \A m \in whole : m <= n
        ELSE 0

(* What the level decoders give is not compared with num_values: a page    *)
(* whose levels of both kinds end too early is read as a shorter one.      *)
PageSound(c, k) ==
    LET page == c.pages[k]
    IN  /\ PageLoads(c, k)
        /\ page.kind = "data" => /\ Readable(c, k) = Len(page.defs)
                                 /\ Readable(c, k) = Len(page.reps)

PageValues(c, k) ==
    [n \in 1..Nth(c, k, Readable(c, k)) |->
        LET page == c.pages[k]
        IN  IF page.coding = "indices" THEN Dictionary(c, k)[page.vals[n] + 1]
            ELSE page.vals[n]]

(* The pages that are reached: one that is not sound is the last.          *)
Reached(c) ==
    {k \in DOMAIN c.pages : \A j \in 1..(k - 1) : PageSound(c, j)}

ContentOf ==
    [c \in Chunks |->
        LET last == Cardinality(Reached(c))
            Defs(k) == SubSeq(c.pages[k].defs, 1, Readable(c, k))
            Reps(k) == SubSeq(c.pages[k].reps, 1, Readable(c, k))
        IN  [top  |-> c.top,
             defs |-> FlattenSeq([k \in 1..last |-> Defs(k)]),
             reps |-> FlattenSeq([k \in 1..last |-> Reps(k)]),
             vals |-> FlattenSeq([k \in 1..last |-> PageValues(c, k)])]]

SoundChunks == {c \in Chunks : \A k \in DOMAIN c.pages : PageSound(c, k)}

(* No index is the size of its dictionary, the one that dict_decoder lets  *)
(* pass though nothing is there.                                           *)
IndicesClear ==
    \A c \in Chunks : \A k \in DOMAIN c.pages :
        c.pages[k].kind = "data" /\ c.pages[k].coding = "indices"
            /\ DictPages(c, k) # {} =>
            \A n \in DOMAIN c.pages[k].vals :
                c.pages[k].vals[n] # Len(Dictionary(c, k))

-----------------------------------------------------------------------------
(* What is read of a page is in it; there is one dictionary at most.       *)
TypeOK ==
    /\ next \in 1..(Len(chunk.pages) + 1)
    /\ eof \in BOOLEAN /\ loaded \in BOOLEAN
    /\ loaded => /\ next > 1
                 /\ read.levels \in 0..Len(Current.defs)
                 /\ read.vals \in 0..Len(Current.vals)
    /\ dict \in Seq(Seq(Nat)) /\ Len(dict) <= 1
    /\ want \in 0..MaxBatch
    /\ given.defs \in Seq(Nat) /\ given.reps \in Seq(Nat)
    /\ given.vals \in Seq(Nat)
    /\ ended \in BOOLEAN /\ failed \in BOOLEAN

Triplets ==
    INSTANCE TripletReader WITH
        content <- ContentOf[chunk],
        sound   <- chunk \in SoundChunks

(* However the triplets are divided into pages and batches, and whichever  *)
(* dictionary a page is decoded with, the batches give them in order, each *)
(* value with its level; an empty batch says that they were all there, and *)
(* an exception that something is wrong with the chunk.                    *)
ImplementsTriplets == Triplets!Spec

(* Every batch comes back: with triplets, empty or with an exception.      *)
BatchesEnd == (want > 0) ~> (want = 0)
=============================================================================
