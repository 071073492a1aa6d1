---------------------------- MODULE ReaderSchema ----------------------------
(***************************************************************************)
(* reader_schema.cc: the tree of the flat list of elements that a file     *)
(* has, and the logical tree that the record reader is built from.         *)
(***************************************************************************)
EXTENDS LogicalTypes

Get(info, name, otherwise) ==
    IF name \in DOMAIN info.vals THEN info.vals[name] ELSE otherwise

IsLeaf(info) == ~Has(info, "num_children")
RepetitionOf(info) == Get(info, "repetition_type", "REQUIRED")

-----------------------------------------------------------------------------
(* A raw_node and the index behind it; `info' of Bad is no element, but an *)
(* exception.                                                              *)
RawNode(index, info, children, next, column, def, rep, path) ==
    [index |-> index, info |-> info, children |-> children, next |-> next,
     column |-> column,             \* column_index, from 1; 0 for a group
     def |-> def, rep |-> rep, path |-> path]

BadRaw(next) == RawNode(0, Fresh("SchemaElement"), <<>>, next, 0, 0, 0, <<>>)

IsBadRaw(r) == r.index = 0

Definition(info, def) ==
    IF RepetitionOf(info) \in {"OPTIONAL", "REPEATED"} THEN def + 1 ELSE def
RepetitionLevel(info, rep) ==
    IF RepetitionOf(info) = "REPEATED" THEN rep + 1 ELSE rep

ColumnOf(flat, index) ==
    IF IsLeaf(flat[index])
    THEN Cardinality({i \in 1..index : IsLeaf(flat[i])}) ELSE 0

RECURSIVE Shape(_, _, _, _, _)

(* compute_shape, with the levels, paths and columns that compute_levels,  *)
(* compute_path and compute_leaves then give the nodes.                    *)
ShapeOf(flat, index, def, rep, path) ==
    LET info == flat[index]
        Child(done, i) ==
            IF done # <<>> /\ IsBadRaw(done[Len(done)]) THEN done
            ELSE Append(done, Shape(flat,
                                    IF done = <<>> THEN index + 1
                                    ELSE done[Len(done)].next,
                                    def, rep, path))
        children == FoldLeft(Child, <<>>,
                             [i \in 1..Get(info, "num_children", 0) |-> i])
        next == IF children = <<>> THEN index + 1
                ELSE children[Len(children)].next
    IN  RawNode(index, info, children, next, ColumnOf(flat, index), def, rep, path)

Shape(flat, index, def, rep, path) ==
    IF index > Len(flat) \/ Get(flat[index], "num_children", 0) < 0 THEN BadRaw(index)
    ELSE ShapeOf(flat, index, Definition(flat[index], def),
                 RepetitionLevel(flat[index], rep),
                 IF index = 1 THEN <<>>
                 ELSE Append(path, flat[index].vals["name"]))

RECURSIVE RawThrows(_), RawLeaves(_)

(* The exception of any node is that of the schema.                        *)
RawThrows(r) == IsBadRaw(r) \/ \E i \in DOMAIN r.children : RawThrows(r.children[i])

RawLeaves(r) ==
    IF IsLeaf(r.info) THEN <<r>>
    ELSE FlattenSeq([i \in DOMAIN r.children |-> RawLeaves(r.children[i])])

(* flat_schema_to_raw_schema.                                              *)
RawSchema(flat) == Shape(flat, 1, 0, 0, <<>>)

-----------------------------------------------------------------------------
(* A node of the logical tree.                                             *)
Node(kind, r, children) ==
    [node |-> kind, name |-> Get(r.info, "name", "none"), path |-> r.path,
     def |-> r.def, rep |-> r.rep, children |-> children,
     logical |-> Unannotated, column |-> r.column]

BadNode(r) == Node("bad", r, <<>>)

BuildPrimitive(r) ==
    LET logical == ReadLogicalType(r.info)
    IN  IF logical = Corrupted THEN BadNode(r)
        ELSE [Node("primitive", r, <<>>) EXCEPT !.logical = logical]

NodeType(info) ==
    CASE IsLeaf(info) -> "primitive"
      [] Is(info, "converted_type", "MAP") \/ Is(info, "converted_type", "MAP_KEY_VALUE")
            -> "map"
      [] Is(info, "converted_type", "LIST") -> "list"
      [] OTHER -> "struct"

RECURSIVE BuildLogical(_)

(* A list of two levels, of the time before the rules for lists.           *)
TwoLevels(r, repeated) ==
    \/ Len(repeated.children) # 1
    \/ repeated.info.vals["name"] = "array"
    \/ repeated.info.vals["name"] = r.info.vals["name"] \o "_tuple"

BuildList(r) ==
    IF \/ Len(r.children) # 1
       \/ RepetitionOf(r.info) = "REPEATED"
       \/ RepetitionOf(r.children[1].info) # "REPEATED"
    THEN BadNode(r)
    ELSE Node("list", r,
              <<BuildLogical(IF TwoLevels(r, r.children[1]) THEN r.children[1]
                             ELSE r.children[1].children[1])>>)

BuildMap(r) ==
    IF \/ Len(r.children) # 1
       \/ Len(r.children[1].children) # 2
       \/ RepetitionOf(r.children[1].info) # "REPEATED"
       \/ r.children[1].children[1].children # <<>>
    THEN BadNode(r)
    ELSE Node("map", r, <<BuildLogical(r.children[1].children[1]),
                          BuildLogical(r.children[1].children[2])>>)

BuildUnwrapped(r) ==
    CASE NodeType(r.info) = "primitive" -> BuildPrimitive(r)
      [] NodeType(r.info) = "map" -> BuildMap(r)
      [] NodeType(r.info) = "list" -> BuildList(r)
      [] OTHER -> Node("struct", r, [i \in DOMAIN r.children |->
                                        BuildLogical(r.children[i])])

(* Fault: the node around one that is repeated has its levels.             *)
BuildLogicalSame(r) ==
    CASE RepetitionOf(r.info) = "OPTIONAL" ->
            Node("optional", [r EXCEPT !.def = @ - 1], <<BuildUnwrapped(r)>>)
      [] RepetitionOf(r.info) = "REPEATED" ->
            Node("list", r, <<BuildUnwrapped(r)>>)
      [] OTHER -> BuildUnwrapped(r)

BuildLogical(r) ==
    CASE RepetitionOf(r.info) = "OPTIONAL" ->
            Node("optional", [r EXCEPT !.def = @ - 1], <<BuildUnwrapped(r)>>)
      [] RepetitionOf(r.info) = "REPEATED" ->
            Node("list", [r EXCEPT !.def = @ - 1, !.rep = @ - 1],
                 <<BuildUnwrapped(r)>>)
      [] OTHER -> BuildUnwrapped(r)

RECURSIVE Throws(_), Leaves(_)

Throws(n) == n.node = "bad" \/ \E i \in DOMAIN n.children : Throws(n.children[i])

(* The primitive nodes, as compute_leaves collects them.                   *)
Leaves(n) ==
    IF n.node = "primitive" THEN <<n>>
    ELSE FlattenSeq([i \in DOMAIN n.children |-> Leaves(n.children[i])])

(* raw_schema_to_schema: its fields.                                       *)
LogicalSchema(raw) == [i \in DOMAIN raw.children |-> BuildLogical(raw.children[i])]
=============================================================================
