----------------------------- MODULE CqlReaderMC -----------------------------
(***************************************************************************)
(* Small files for TLC: schemas of the writer's, nested two deep, with     *)
(* values of every shape, and a leaf of every type at its limits.          *)
(***************************************************************************)
EXTENDS CqlReader, WriterSchema

FieldsFor(nodes) == LogicalSchema(RawSchema(WriteSchema(nodes).elements))

P(name) == PrimitiveNode(name, FALSE, Logical("INT32"), 0)
O(name) == PrimitiveNode(name, TRUE, Logical("INT32"), 0)

Around(nodes) ==
    {ListNode("l", optional, n) : optional \in BOOLEAN, n \in nodes}
    \cup {MapNode("m", optional, P("k"), n) : optional \in BOOLEAN, n \in nodes}
    \cup {StructNode("s", optional, <<n>>) : optional \in BOOLEAN, n \in nodes}
    \cup {StructNode("s", FALSE, <<n, O("f")>>) : n \in nodes}

Depth0 == {P("p"), O("o")}
Depth1 == Around(Depth0)
Depth2 == Around({n \in Depth1 : ~n.optional})
              \cup Around({n \in Depth1 : n.optional /\ n.children[1] = O("o")})

Single == {<<n>> : n \in Depth0 \cup Depth1 \cup Depth2}
Several ==
    {<<a, n>> : a \in Depth0 \cup {ListNode("l", TRUE, O("e"))}, n \in Depth1}
    \cup {<<P("a"), StructNode("e", FALSE, <<>>), O("b")>>,
          <<P("a"), StructNode("s", FALSE, <<StructNode("e", FALSE, <<>>), O("b")>>)>>}

-----------------------------------------------------------------------------
(* A value of a node that has everything, with numbers from k on; and the  *)
(* values: a list of two has one such item.                                *)
RECURSIVE Values(_), Full(_, _)

Full(n, k) ==
    CASE n.node = "primitive" -> Plain(k)
      [] n.node = "optional" -> Full(n.children[1], k)
      [] n.node = "list" -> Many(<<Full(n.children[1], k), Full(n.children[1], k + 2)>>)
      [] n.node = "map" ->
            Many(<<<<Full(n.children[1], k), Full(n.children[2], k + 1)>>,
                   <<Full(n.children[1], k + 2), Full(n.children[2], k + 3)>>>>)
      [] OTHER -> Many([i \in DOMAIN n.children |-> Full(n.children[i], k + 4 * i)])

Lists(items, full) ==
    {Many(list) : list \in {<<>>} \cup UNION {{<<x>>, <<x, full>>, <<full, x>>} : x \in items}}

Values(n) ==
    CASE n.node = "primitive" -> {Plain(0)}
      [] n.node = "optional" -> {Null} \cup Values(n.children[1])
      [] n.node = "list" -> Lists(Values(n.children[1]), Full(n.children[1], 2))
      [] n.node = "map" ->
            Lists({<<Plain(0), x>> : x \in Values(n.children[2])},
                  <<Plain(2), Full(n.children[2], 3)>>)
      [] n.children = <<>> -> {Many(<<>>)}
      [] Len(n.children) = 1 -> {Many(<<x>>) : x \in Values(n.children[1])}
      [] OTHER -> {Many(items) : items \in Values(n.children[1]) \X Values(n.children[2])}

FullRecord(fields, k) == [i \in DOMAIN fields |-> Full(fields[i], k * i)]

(* Records in which one column has any value and the others everything.    *)
RecordsOf(fields) ==
    UNION {{[FullRecord(fields, 1) EXCEPT ![i] = x] : x \in Values(fields[i])} :
              i \in DOMAIN fields}

File(fields, groups, short) == [fields |-> fields, groups |-> groups, short |-> short]

FilesWith(fields, x, full, shorts) ==
    {File(fields, groups, short) : short \in shorts, groups \in
        {<<<<x, full>>>>, <<<<full>>, <<>>, <<x, x>>>>}}

FilesOf(fields) ==
    UNION {FilesWith(fields, x, FullRecord(fields, 3), 0..Len(LeavesOf(fields))) :
              x \in RecordsOf(fields)}

-----------------------------------------------------------------------------
(* A file with one column of each type.                                    *)
Types ==
    {Logical(name) : name \in
        {"BOOLEAN", "INT32", "INT64", "INT96", "FLOAT", "DOUBLE", "BYTE_ARRAY",
         "FIXED_LEN_BYTE_ARRAY", "STRING", "ENUM", "UUID", "INT8", "INT16", "UINT8",
         "UINT16", "UINT32", "UINT64", "INTERVAL", "JSON", "BSON"}}
    \cup {Decimal("DECIMAL_INT32", 5, 2), Time("TIME_INT32", TRUE, "none"),
          Time("TIME_INT64", TRUE, "NANOS"), Time("TIMESTAMP", TRUE, "MILLIS"),
          Time("TIMESTAMP", TRUE, "NANOS")}

Length(logical) ==
    CASE logical.name = "UUID" -> 16 [] logical.name = "INTERVAL" -> 12
      [] PhysicalType(logical.name) = "FIXED_LEN_BYTE_ARRAY" -> 3 [] OTHER -> 0

Limits(name) ==
    IF name \notin DOMAIN BytesOf THEN {1}
    ELSE IF name \in UnsignedTypes THEN {0, 2^(BytesOf[name] * ByteBits) - 1}
    ELSE {0 - 2^(BytesOf[name] * ByteBits - 1), 2^(BytesOf[name] * ByteBits - 1) - 1}

TypeFiles ==
    UNION {{File(FieldsFor(<<PrimitiveNode("p", FALSE, logical, Length(logical))>>),
                 <<<<<<Plain(v)>>>>>>, 0) : v \in Limits(logical.name)} :
              logical \in Types}

MCFiles ==
    TypeFiles \cup UNION {FilesOf(FieldsFor(nodes)) : nodes \in Single \cup Several}
=============================================================================
