---------------------------- MODULE WriterSchema ----------------------------
(***************************************************************************)
(* writer_schema.cc: the tree of nodes that a program hands to a writer,   *)
(* as the flat list of elements that a file has.                           *)
(***************************************************************************)
EXTENDS LogicalTypes

PrimitiveNode(name, optional, logical, length) ==
    [node |-> "primitive", name |-> name, optional |-> optional,
     logical |-> logical, length |-> length,      \* 0: without a type_length
     children |-> <<>>]
Nested(node, name, optional, children) ==
    [node |-> node, name |-> name, optional |-> optional, children |-> children]
ListNode(name, optional, element) == Nested("list", name, optional, <<element>>)
MapNode(name, optional, key, value) == Nested("map", name, optional, <<key, value>>)
StructNode(name, optional, fields) == Nested("struct", name, optional, fields)

Element(vals) == Build(vals)    \* of a schema

Repetition(n) == IF n.optional THEN "OPTIONAL" ELSE "REQUIRED"

RepeatedElement(name, n) ==
    Element([num_children |-> n, name |-> name, repetition_type |-> "REPEATED"])

AnnotatedGroup(n, name, kind) ==
    Element([num_children |-> 1, name |-> name, repetition_type |-> Repetition(n),
             converted_type |-> kind, logicalType |-> Union(kind, Empty)])

Leaf(n, name) ==
    Element(LogicalMembers(n.logical) @@
            [type |-> PhysicalType(n.logical.name), name |-> name,
             repetition_type |-> Repetition(n)] @@
            (IF n.length = 0 THEN NoMembers ELSE [type_length |-> n.length]))

(* What write_schema has put out, and whether it threw.                    *)
Output(elements, leafPaths, threw) ==
    [elements |-> elements, leafPaths |-> leafPaths, threw |-> threw]

And(a, b) == Output(a.elements \o b.elements, a.leafPaths \o b.leafPaths,
                    a.threw \/ b.threw)

RECURSIVE Convert(_, _)

(* The children of n, the i-th called names[i].                            *)
ConvertAll(children, names, path) ==
    FoldLeft(LAMBDA out, i : And(out, Convert(children[i], Append(path, names[i]))),
             Output(<<>>, <<>>, FALSE), [i \in DOMAIN children |-> i])

(* A node has the name that is last in its path.                           *)
Convert(n, path) ==
    LET name == path[Len(path)]
    IN  CASE n.node = "list" ->
                And(Output(<<AnnotatedGroup(n, name, "LIST"),
                             RepeatedElement("list", 1)>>, <<>>, FALSE),
                    ConvertAll(n.children, <<"element">>, Append(path, "list")))
          [] n.node = "map" ->
                And(Output(<<AnnotatedGroup(n, name, "MAP"),
                             RepeatedElement("key_value", 2)>>, <<>>,
                           n.children[1].optional),
                    ConvertAll(n.children, <<"key", "value">>,
                               Append(path, "key_value")))
          [] n.node = "struct" ->
                And(Output(<<Element([num_children |-> Len(n.children), name |-> name,
                                      repetition_type |-> Repetition(n)])>>,
                           <<>>, FALSE),
                    ConvertAll(n.children,
                               [i \in DOMAIN n.children |-> n.children[i].name], path))
          [] OTHER -> Output(<<Leaf(n, name)>>, <<path>>, FALSE)

WriteSchema(fields) ==
    And(Output(<<Element([num_children |-> Len(fields), name |-> "schema"])>>,
               <<>>, FALSE),
        ConvertAll(fields, [i \in DOMAIN fields |-> fields[i].name], <<>>))
=============================================================================
