----------------------------- MODULE CqlConsumer -----------------------------
(***************************************************************************)
(* cql_consumer of cql_reader.cc: what is printed at each call of the      *)
(* readers of records.  A reading `r' has the tokens that the row has so   *)
(* far, first_field, _row_number, and whether an exception ended it.       *)
(***************************************************************************)
EXTENDS LogicalTypes

CONSTANT ByteBits      \* bits of a byte: 8 in the code

Out(r, text, n) ==
    IF r.end # "ok" THEN r ELSE [r EXCEPT !.out = Append(@, <<text, n>>)]

StartRecord(r) == Out(r, "INSERT", r.row)
EndRecord(r) == [Out(r, ")", 0) EXCEPT !.row = @ + 1]
StartColumn(r) == Out(r, ", ", 0)

StartStruct(r) == [Out(r, "{", 0) EXCEPT !.first = TRUE]
EndStruct(r) == [Out(r, "}", 0) EXCEPT !.first = FALSE]
StartField(r, name) ==
    [Out(IF r.first THEN r ELSE Out(r, ", ", 0), name, 0) EXCEPT !.first = FALSE]

StartList(r) == Out(r, "[", 0)
EndList(r) == Out(r, "]", 0)
StartMap(r) == Out(r, "{", 0)
EndMap(r) == Out(r, "}", 0)
SeparateKeyValue(r) == Out(r, ": ", 0)
SeparateValues(r) == Out(r, ", ", 0)
AppendNull(r) == Out(r, "null", 0)

-----------------------------------------------------------------------------
(* The casts between integers of so many bytes.                            *)
Unsigned(v, bytes) == v % 2^(bytes * ByteBits)

Signed(v, bytes) ==
    LET half == 2^(bytes * ByteBits - 1) IN Unsigned(v + half, bytes) - half

BytesOf == [INT8 |-> 1, INT16 |-> 2, INT32 |-> 4, INT64 |-> 8,
            UINT8 |-> 1, UINT16 |-> 2, UINT32 |-> 4, UINT64 |-> 8]

UnsignedTypes == {"UINT8", "UINT16", "UINT32", "UINT64"}

(* append_value: the kind of literal, and what of its value the casts      *)
(* leave.                                                                  *)
Literal(name, v) ==
    CASE name \in UnsignedTypes -> <<"integer", Unsigned(v, BytesOf[name])>>
      [] name \in DOMAIN BytesOf \ UnsignedTypes ->
            <<"integer", Signed(v, BytesOf[name])>>
      [] name = "DATE" ->
            <<"integer", Unsigned(Unsigned(v, 4) + 2^(4 * ByteBits - 1), 4)>>
      [] name \in {"TIMESTAMP", "INT96"} -> <<"integer", v>>
      [] name \in {"STRING", "ENUM", "JSON"} -> <<"quoted", v>>
      [] name \in {"BSON", "BYTE_ARRAY", "FIXED_LEN_BYTE_ARRAY"} -> <<"blob", v>>
      [] name \in {"DECIMAL_INT32", "DECIMAL_INT64", "DECIMAL_BYTE_ARRAY",
                   "DECIMAL_FIXED_LEN_BYTE_ARRAY"} -> <<"decimal", v>>
      [] name \in {"TIME_INT32", "TIME_INT64"} -> <<"time", v>>
      [] name \in {"FLOAT", "DOUBLE"} -> <<"float", v>>
      [] name = "UUID" -> <<"uuid", v>>
      [] name = "INTERVAL" -> <<"duration", v>>
      [] name = "BOOLEAN" -> <<"boolean", v>>
      [] OTHER -> <<"null", 0>>

AppendValue(r, logical, v) ==
    Out(r, Literal(logical.name, v)[1], Literal(logical.name, v)[2])

-----------------------------------------------------------------------------
CqlTypes ==
    [STRING |-> "text", ENUM |-> "text", UUID |-> "uuid", INT8 |-> "tinyint",
     INT16 |-> "smallint", INT32 |-> "int", INT64 |-> "bigint",
     UINT8 |-> "smallint", UINT16 |-> "int", UINT32 |-> "bigint",
     UINT64 |-> "varint", DECIMAL_INT32 |-> "decimal",
     DECIMAL_INT64 |-> "decimal", DECIMAL_BYTE_ARRAY |-> "decimal",
     DECIMAL_FIXED_LEN_BYTE_ARRAY |-> "decimal", DATE |-> "date",
     TIME_INT32 |-> "time", TIME_INT64 |-> "time", INTERVAL |-> "duration",
     JSON |-> "text", BSON |-> "blob", FLOAT |-> "float",
     DOUBLE |-> "double", BYTE_ARRAY |-> "blob",
     FIXED_LEN_BYTE_ARRAY |-> "blob", INT96 |-> "varint",
     BOOLEAN |-> "boolean", UNKNOWN |-> "int"]

(* primitive_cql_type.                                                     *)
PrimitiveCqlType(logical) ==
    IF logical.name = "TIMESTAMP"
    THEN IF logical.unit = "MILLIS" THEN "timestamp" ELSE "bigint"
    ELSE CqlTypes[logical.name]
=============================================================================
