----------------------------- MODULE RecordReader -----------------------------
(***************************************************************************)
(* record_reader.hh: the readers of fields put the levels and the values   *)
(* of the columns together again.  A reading `r' (see CqlConsumer) has the *)
(* readers of the leaves too, by column.                                   *)
(***************************************************************************)
EXTENDS CqlConsumer, ReaderSchema

CONSTANT BatchSize     \* DEFAULT_BATCH_SIZE: 1024

Triplet(def, rep, value) == [def |-> def, rep |-> rep, value |-> value]

(* typed_primitive_reader: the pages that its column_chunk_reader has left,*)
(* the levels buffered, and the values.                                    *)
LeafReader(pages) == [pages |-> pages, levels |-> <<>>, values |-> <<>>]

Threw(r) == [r EXCEPT !.end = "threw"]

(* A batch is at most what is left of a page.                              *)
BatchOf(page) == SubSeq(page, 1, IF BatchSize < Len(page) THEN BatchSize ELSE Len(page))

Refilled(leaf, batch, def) ==
    [pages  |-> IF batch = Head(leaf.pages) THEN Tail(leaf.pages)
                ELSE <<SubSeq(Head(leaf.pages), Len(batch) + 1, Len(Head(leaf.pages)))>>
                         \o Tail(leaf.pages),
     levels |-> batch,
     values |-> SelectSeq(batch, LAMBDA t : t.def = def)]

IsEmpty(leaf) == leaf.levels = <<>> /\ leaf.pages # <<>>

RefillWhenEmpty(n, r) ==
    IF IsEmpty(r.leaves[n.column])
    THEN [r EXCEPT !.leaves[n.column] = Refilled(@, BatchOf(Head(@.pages)), n.def)]
    ELSE r

RECURSIVE FirstLeaf(_)

(* The leaf that current_levels() asks; a structure may have none.         *)
FirstLeaf(n) ==
    IF n.node = "primitive" THEN {n}
    ELSE IF n.children = <<>> THEN {} ELSE FirstLeaf(n.children[1])

RefillFirst(n, r) == FoldSet(RefillWhenEmpty, r, FirstLeaf(n))

NoLevels == Triplet(-1, -1, 0)

LeafLevels(leaf) == IF leaf.levels = <<>> THEN NoLevels ELSE Head(leaf.levels)

(* current_levels(), when what it reads has been refilled.                 *)
CurrentLevels(n, r) ==
    IF FirstLeaf(n) = {} THEN NoLevels
    ELSE LeafLevels(r.leaves[(CHOOSE leaf \in FirstLeaf(n) : TRUE).column])

IsThere(n, r) == CurrentLevels(n, r).def > n.def

(* Fault: a repetition on the level of what is around the list counts.     *)
IsRepeatedAtLeast(n, r) == CurrentLevels(n, r).rep >= n.rep

IsRepeated(n, r) == CurrentLevels(n, r).rep > n.rep

-----------------------------------------------------------------------------
(* next(): of a leaf that has been refilled.                               *)
Advanced(n, r, isNull) ==
    [r EXCEPT !.leaves[n.column].levels = Tail(@),
              !.leaves[n.column].values = IF isNull THEN @ ELSE Tail(@)]

ReadNext(n, r, leaf) ==
    IF leaf.levels = <<>> THEN Threw(r)
    ELSE IF Head(leaf.levels).def < n.def THEN Advanced(n, r, TRUE)
    ELSE IF leaf.values = <<>> THEN Threw(r)
    ELSE AppendValue(Advanced(n, r, FALSE), n.logical, Head(leaf.values).value)

ReadPrimitive(n, r) == ReadNext(n, r, r.leaves[n.column])

(* The same without a consumer.                                            *)
SkipNext(n, r) == [ReadPrimitive(n, r) EXCEPT !.out = r.out]

RECURSIVE SkipField(_, _)

SkipField(n, r) ==
    IF r.end # "ok" THEN r
    ELSE IF n.node = "primitive" THEN SkipNext(n, RefillWhenEmpty(n, r))
    ELSE FoldLeft(LAMBDA q, child : SkipField(child, q), r, n.children)

RECURSIVE ReadField(_, _), ReadRepeated(_, _)

ReadStructFields(n, r) ==
    FoldLeft(LAMBDA q, child : ReadField(child, StartField(q, child.name)),
             r, n.children)

(* An element of a list, or a pair of a map.                               *)
ReadItem(n, r) ==
    IF n.node = "list" THEN ReadField(n.children[1], r)
    ELSE ReadField(n.children[2], SeparateKeyValue(ReadField(n.children[1], r)))

ReadMore(n, r) ==
    IF r.end # "ok" \/ ~IsRepeated(n, r) THEN r
    ELSE ReadRepeated(n, SeparateValues(r))

ReadRepeated(n, r) == ReadMore(n, RefillFirst(n, ReadItem(n, r)))

ReadItems(n, r) == IF IsThere(n, r) THEN ReadRepeated(n, r) ELSE SkipField(n, r)

ReadOptional(n, r) ==
    IF IsThere(n, r) THEN ReadField(n.children[1], r)
    ELSE SkipField(n.children[1], AppendNull(r))

ReadField(n, r) ==
    CASE r.end # "ok" -> r
      [] n.node = "primitive" -> ReadPrimitive(n, RefillWhenEmpty(n, r))
      [] n.node = "optional" -> ReadOptional(n, RefillFirst(n, r))
      [] n.node = "struct" -> EndStruct(ReadStructFields(n, StartStruct(r)))
      [] n.node = "list" -> EndList(ReadItems(n, RefillFirst(n, StartList(r))))
      [] OTHER -> EndMap(ReadItems(n, RefillFirst(n, StartMap(r))))

-----------------------------------------------------------------------------
(* record_reader, of the nodes `fields'.                                   *)
ReadColumn(n, r) ==
    IF n.node = "optional" /\ r.end = "ok"
    THEN IF CurrentLevels(n, r).def > 0 THEN ReadOptional(n, r)
         ELSE SkipField(n, AppendNull(r))
    ELSE ReadField(n, r)

ReadOne(fields, r) ==
    EndRecord(FoldLeft(LAMBDA q, n : ReadColumn(n, StartColumn(RefillFirst(n, q))),
                       StartRecord(r), fields))

RefillRecord(fields, r) == IF fields = <<>> THEN r ELSE RefillFirst(fields[1], r)

(* Fault: a row whose first column is null is taken for the end.           *)
NoMoreOrNull(fields, r) ==
    fields = <<>> \/ ~(CurrentLevels(fields[1], r).def > 0)

(* Where read_all() stops.                                                 *)
NoMore(fields, r) ==
    fields = <<>> \/ CurrentLevels(fields[1], r).def < 0
=============================================================================
