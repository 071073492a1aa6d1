------------------------- MODULE ColumnChunkReaderMC -------------------------
EXTENDS ColumnChunkReader

CONSTANT MaxPages   \* bound: the most pages in a chunk

Data(defs, reps, coding, vals) ==
    [kind |-> "data", loads |-> TRUE, num |-> Len(defs),
     defs |-> defs, reps |-> reps, coding |-> coding, vals |-> vals]

Dict(vals) ==
    [Data(<<>>, <<>>, "plain", vals) EXCEPT !.kind = "dictionary",
                                            !.num = Len(vals)]

IndexPage == [Data(<<>>, <<>>, "plain", <<>>) EXCEPT !.kind = "other"]

Dicts == {Dict(<<10, 11>>), Dict(<<20, 21, 22>>)}

(* Pages of lists of optional values: levels 0 (no list), 1 (null), 2.     *)
ListPages ==
    {Data(<<>>, <<>>, "plain", <<>>),
     Data(<<2, 1, 2>>, <<0, 1, 1>>, "plain", <<1, 2>>),
     Data(<<0, 2>>, <<0, 0>>, "indices", <<0>>),
     Data(<<1, 2, 2, 0>>, <<0, 1, 0, 0>>, "indices", <<1, 0>>)}

(* Pages of a required column.                                             *)
FlatPages ==
    {Data(<<0, 0, 0>>, <<0, 0, 0>>, "plain", <<1, 2, 3, 4>>),
     Data(<<0, 0>>, <<0, 0>>, "indices", <<0, 0>>)}

(* One thing wrong in each: a page that does not load, levels too few, of  *)
(* one kind or of both, or too high, values too few, an index too high, a  *)
(* dictionary too short.                                                   *)
BadPages ==
    LET page  == Data(<<2, 1, 2>>, <<0, 1, 1>>, "plain", <<1, 2>>)
        coded == Data(<<2, 2, 2>>, <<0, 1, 1>>, "indices", <<0, 0, 7>>)
    IN  {[page EXCEPT !.loads = FALSE],
         [page EXCEPT !.defs = <<2, 1>>],
         [page EXCEPT !.reps = <<>>],
         [page EXCEPT !.defs = <<2, 1>>, !.reps = <<0, 1>>],
         [page EXCEPT !.defs = <<2, 3, 2>>],
         [page EXCEPT !.reps = <<0, 1, 2>>],
         [page EXCEPT !.vals = <<1>>],
         coded,
         [Dict(<<10>>) EXCEPT !.num = 2],
         [IndexPage EXCEPT !.loads = FALSE]}

Runs(pages) == UNION {[1..n -> pages] : n \in 0..MaxPages}

OfPages(top, deepest, pages) ==
    [top |-> top, deepest |-> deepest, pages |-> pages]

MCChunks ==
    {OfPages(2, 1, pages) :
        pages \in Runs(ListPages \cup Dicts \cup {IndexPage})}
      \cup {OfPages(0, 0, pages) : pages \in Runs(FlatPages \cup Dicts)}
      \cup {OfPages(2, 1, pages \o <<bad>> \o more) :
               pages \in UNION {[1..n -> ListPages \cup Dicts] : n \in 0..2},
               bad \in BadPages,
               more \in {<<>>, <<Data(<<2>>, <<0>>, "plain", <<9>>)>>}}

(* What is proved is proved of chunks like these.                          *)
ASSUME IndicesAssumption == IndicesClear
=============================================================================
