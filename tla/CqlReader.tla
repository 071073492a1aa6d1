------------------------------ MODULE CqlReader ------------------------------
(***************************************************************************)
(* parquet_to_cql (cql_reader.cc): the statements that create the types    *)
(* and the table for the schema of a file, and then a row for each of its  *)
(* records, of one row group after the other.                              *)
(***************************************************************************)
EXTENDS RecordReader

CONSTANTS
    Files,      \* the fields, the records of each row group, and a column
                \* that lacks the last of them, 0 for none
    PageSizes   \* how many levels the pages of a column may have

ASSUME SizesAssumption ==
    ByteBits \in Nat \ {0} /\ BatchSize \in Nat \ {0} /\ PageSizes \subseteq Nat \ {0}

VARIABLES
    file,     \* one of Files
    sizes,    \* the size of the pages of each column
    created,  \* the CREATE TYPE statements
    columns,  \* the columns of the CREATE TABLE statement
    group,    \* the row group that is read
    reading,  \* its record_reader, and the cql_consumer
    rows,     \* the INSERT statements
    status    \* "start", "between" row groups, "reading", "threw", "done"

vars == <<file, sizes, created, columns, group, reading, rows, status>>

LeavesOf(fields) == FlattenSeq([i \in DOMAIN fields |-> Leaves(fields[i])])

Columns == 1..Len(LeavesOf(file.fields))

-----------------------------------------------------------------------------
(* parquet_schema_to_cql_schema: a type, the node of the CQL schema, and   *)
(* the index of the next user-defined type.                                *)
CqlType(cql, of, udt) == [cql |-> cql, of |-> of, udt |-> udt]
Frozen(type) == CqlType("frozen", <<type>>, 0)

CqlNode(n, type, children, isUdt) ==
    [struct |-> n.node = "struct", name |-> n.name, type |-> type,
     children |-> children, isUdt |-> isUdt]

Converted(nodes, index) == [nodes |-> nodes, index |-> index]

(* Fault: an optional structure is not known for a user-defined type.      *)
IsUdtNever(n, children) == n.node = "struct"

IsUdt(n, children) ==
    n.node = "struct" \/ (n.node = "optional" /\ children[1].isUdt)

TypeOfNode(n, children, index) ==
    LET types == [i \in DOMAIN children |-> children[i].type]
    IN  CASE n.node = "primitive" -> CqlType(PrimitiveCqlType(n.logical), <<>>, 0)
          [] n.node \in {"list", "map"} -> Frozen(CqlType(n.node, types, 0))
          [] n.node = "optional" -> types[1]
          [] OTHER -> CqlType("udt", <<>>, index)

(* A structure takes its index after what is in it.                        *)
NodeOf(n, before, inside) ==
    Converted(Append(before, CqlNode(n, TypeOfNode(n, inside.nodes, inside.index),
                                     inside.nodes, IsUdt(n, inside.nodes))),
              inside.index + (IF n.node = "struct" THEN 1 ELSE 0))

RECURSIVE ConvertNode(_, _)

ConvertNode(done, n) ==
    NodeOf(n, done.nodes, FoldLeft(ConvertNode, Converted(<<>>, done.index), n.children))

CqlSchema(fields) == FoldLeft(ConvertNode, Converted(<<>>, 0), fields).nodes

(* print_udt_create_statements.                                            *)
FieldType(child) ==
    IF child.isUdt THEN Frozen(child.type) ELSE child.type

CreateType(node) ==
    [udt    |-> node.type.udt,
     fields |-> [i \in DOMAIN node.children |->
                    [name |-> node.children[i].name,
                     type |-> FieldType(node.children[i])]]]

RECURSIVE CreateTypes(_)

CreateTypes(nodes) ==
    FlattenSeq([i \in DOMAIN nodes |->
        CreateTypes(nodes[i].children)
            \o (IF nodes[i].struct THEN <<CreateType(nodes[i])>> ELSE <<>>)])

-----------------------------------------------------------------------------
(* What a column of a row group holds: the triplets of its records.        *)
(* The integers of a physical type have a sign.                            *)
Stored(logical, x) ==
    IF logical.name \in UnsignedTypes
    THEN Signed(x, IF logical.name = "UINT64" THEN 8 ELSE 4) ELSE x

Null == [null |-> TRUE]
Plain(v) == [null |-> FALSE, value |-> v]
Many(items) == [null |-> FALSE, items |-> items]   \* of a list, map, structure

RECURSIVE Shred(_, _, _, _)

(* The triplets of column c in a value x of n that begins with repetition  *)
(* level rep.                                                              *)
Absent(n, rep, c) ==
    IF \E i \in DOMAIN Leaves(n) : Leaves(n)[i].column = c
    THEN <<Triplet(n.def, rep, 0)>> ELSE <<>>

ShredItem(n, item, rep, c) ==
    IF n.node = "list" THEN Shred(n.children[1], item, rep, c)
    ELSE Shred(n.children[1], item[1], rep, c) \o Shred(n.children[2], item[2], rep, c)

Shred(n, x, rep, c) ==
    CASE n.node = "primitive" ->
            IF n.column = c THEN <<Triplet(n.def, rep, Stored(n.logical, x.value))>>
            ELSE <<>>
      [] n.node = "optional" ->
            IF x.null THEN Absent(n, rep, c) ELSE Shred(n.children[1], x, rep, c)
      [] n.node = "struct" ->
            FlattenSeq([i \in DOMAIN n.children |->
                           Shred(n.children[i], x.items[i], rep, c)])
      [] OTHER ->
            IF x.items = <<>> THEN Absent(n, rep, c)
            ELSE FlattenSeq([i \in DOMAIN x.items |->
                    ShredItem(n, x.items[i], IF i = 1 THEN rep ELSE n.rep + 1, c)])

ShredRecord(fields, record, c) ==
    FlattenSeq([i \in DOMAIN fields |-> Shred(fields[i], record[i], 0, c)])

ShredRecords(fields, records, c) ==
    FlattenSeq([i \in DOMAIN records |-> ShredRecord(fields, records[i], c)])

RECURSIVE Pages(_, _)

Pages(triplets, size) ==
    IF Len(triplets) <= size THEN SelectSeq(<<triplets>>, LAMBDA page : page # <<>>)
    ELSE <<SubSeq(triplets, 1, size)>> \o Pages(SubSeq(triplets, size + 1, Len(triplets)), size)

(* Nothing makes the columns of a file have the same number of records.    *)
Held(g, c) ==
    IF file.short = c /\ g = Len(file.groups) THEN Front(file.groups[g]) ELSE file.groups[g]

-----------------------------------------------------------------------------
NotReading == [leaves |-> <<>>, out |-> <<>>, first |-> TRUE, row |-> 0, end |-> "ok"]

Init ==
    /\ file \in Files
    /\ sizes \in [Columns -> PageSizes]
    /\ created = <<>> /\ columns = <<>>
    /\ group = 0
    /\ reading = NotReading
    /\ rows = <<>>
    /\ status = "start"

PutCreate ==
    /\ status = "start"
    /\ \E schema \in {CqlSchema(file.fields)} :
          /\ created' = CreateTypes(schema)
          /\ columns' = [i \in DOMAIN schema |->
                            [name |-> schema[i].name, type |-> schema[i].type]]
    /\ status' = "between"
    /\ UNCHANGED <<file, sizes, group, reading, rows>>

(* record_reader::make, for the next row group.                            *)
MakeReaders(g) ==
    [reading EXCEPT !.leaves =
        [c \in Columns |-> LeafReader(Pages(ShredRecords(file.fields, Held(g, c), c), sizes[c]))]]

NextGroup ==
    /\ status = "between" /\ group < Len(file.groups)
    /\ group' = group + 1
    /\ reading' = MakeReaders(group')
    /\ status' = "reading"
    /\ UNCHANGED <<file, sizes, created, columns, rows>>

Finish ==
    /\ status = "between" /\ group = Len(file.groups)
    /\ status' = "done"
    /\ UNCHANGED <<file, sizes, created, columns, group, reading, rows>>

(* One round of read_all().  What a row has when an exception ends it is   *)
(* left unfinished.                                                        *)
Round(r) ==
    IF NoMore(file.fields, r)
    THEN reading' = r /\ status' = "between" /\ UNCHANGED rows
    ELSE \E read \in {ReadOne(file.fields, r)} :
            IF read.end = "ok"
            THEN /\ rows' = Append(rows, read.out)
                 /\ reading' = [read EXCEPT !.out = <<>>]
                 /\ UNCHANGED status
            ELSE reading' = read /\ status' = "threw" /\ UNCHANGED rows

ReadRecord ==
    /\ status = "reading"
    /\ \E r \in {RefillRecord(file.fields, reading)} : Round(r)
    /\ UNCHANGED <<file, sizes, created, columns, group>>

Next == PutCreate \/ NextGroup \/ ReadRecord \/ Finish

Spec == Init /\ [][Next]_vars

-----------------------------------------------------------------------------
(* The integers that a type of CQL takes.                                  *)
SignedRange(bytes) ==
    (0 - 2^(bytes * ByteBits - 1))..(2^(bytes * ByteBits - 1) - 1)

IntegerTypes ==
    [tinyint |-> SignedRange(1), smallint |-> SignedRange(2), int |-> SignedRange(4),
     bigint |-> SignedRange(8), timestamp |-> SignedRange(8), varint |-> Int]

(* The literal for a value; none if the type does not take it.             *)
LiteralFor(cql, v) ==
    CASE cql \in DOMAIN IntegerTypes ->
            <<IF v \in IntegerTypes[cql] THEN "integer" ELSE "too large", v>>
      [] cql = "text" -> <<"quoted", v>>
      [] cql = "double" -> <<"float", v>>
      [] OTHER -> <<cql, v>>

Separated(items) ==
    FlattenSeq([i \in DOMAIN items |->
                   (IF i = 1 THEN <<>> ELSE <<<<", ", 0>>>>) \o items[i]])

Within(open, items, close) ==
    <<<<open, 0>>>> \o Separated(items) \o <<<<close, 0>>>>

FieldsOf(type) ==
    created[CHOOSE i \in DOMAIN created : created[i].udt = type.udt].fields

RECURSIVE Written(_, _)

(* A value as CQL writes it for a column that was declared with this type. *)
Written(type, x) ==
    CASE x.null -> <<<<"null", 0>>>>
      [] type.cql = "frozen" -> Written(type.of[1], x)
      [] type.cql = "list" ->
            Within("[", [i \in DOMAIN x.items |-> Written(type.of[1], x.items[i])], "]")
      [] type.cql = "map" ->
            Within("{", [i \in DOMAIN x.items |->
                            Written(type.of[1], x.items[i][1]) \o <<<<": ", 0>>>>
                                \o Written(type.of[2], x.items[i][2])], "}")
      [] type.cql = "udt" ->
            Within("{", [i \in DOMAIN FieldsOf(type) |->
                            <<<<FieldsOf(type)[i].name, 0>>>>
                                \o Written(FieldsOf(type)[i].type, x.items[i])], "}")
      [] OTHER -> <<LiteralFor(type.cql, x.value)>>

Row(record, number) ==
    <<<<"INSERT", number>>>>
        \o FlattenSeq([i \in DOMAIN columns |->
                          <<<<", ", 0>>>> \o Written(columns[i].type, record[i])])
        \o <<<<")", 0>>>>

Records == FlattenSeq(file.groups)

(* Every row inserts one record, in the order of the file and with its     *)
(* number in it, as the created types and columns have it: no value of     *)
(* another record, no item in another list, no literal out of range.       *)
RowsRight ==
    /\ Len(rows) <= Len(Records)
    /\ \A i \in DOMAIN rows : rows[i] = Row(Records[i], i - 1)

(* All records are read, and an exception says so when a column lacks one: *)
(* but if it is the first column, the rest of the record is left unread.   *)
AllRead ==
    /\ status = "threw" => file.short > 1
    /\ status = "done" => /\ file.short <= 1
                          /\ Len(rows) = Len(Records) - file.short

RECURSIVE UdtsIn(_)

UdtsIn(type) ==
    (IF type.cql = "udt" THEN {type.udt} ELSE {})
        \cup UNION {UdtsIn(type.of[i]) : i \in DOMAIN type.of}

CreatedBefore(k) == {created[i].udt : i \in 1..(k - 1)}

(* A type is created once, and before a type or the table that has it, and *)
(* is frozen in a type.                                                    *)
TypesCreated ==
    /\ \A k \in DOMAIN created :
          /\ created[k].udt \notin CreatedBefore(k)
          /\ \A i \in DOMAIN created[k].fields :
                /\ created[k].fields[i].type.cql # "udt"
                /\ UdtsIn(created[k].fields[i].type) \subseteq CreatedBefore(k)
    /\ \A i \in DOMAIN columns :
          UdtsIn(columns[i].type) \subseteq CreatedBefore(Len(created) + 1)
=============================================================================
