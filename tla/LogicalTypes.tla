---------------------------- MODULE LogicalTypes ----------------------------
(***************************************************************************)
(* logical_type.cc: what the annotations of a leaf of a schema mean, and   *)
(* the annotations that are written for a logical type.                    *)
(***************************************************************************)
EXTENDS ThriftMessages

Logical(name) ==
    [name |-> name, precision |-> 0, scale |-> 0, utc |-> FALSE, unit |-> "none"]
Decimal(name, precision, scale) ==
    [Logical(name) EXCEPT !.precision = precision, !.scale = scale]
Time(name, utc, unit) == [Logical(name) EXCEPT !.utc = utc, !.unit = unit]

Binary == {"BYTE_ARRAY", "FIXED_LEN_BYTE_ARRAY"}

(* physical_type of the structures of logical_type.hh.                     *)
PhysicalType(name) ==
    CASE name \in {"BOOLEAN", "INT64", "INT96", "FLOAT", "DOUBLE",
                   "BYTE_ARRAY", "FIXED_LEN_BYTE_ARRAY"} -> name
      [] name \in {"STRING", "ENUM", "JSON", "BSON", "DECIMAL_BYTE_ARRAY"}
            -> "BYTE_ARRAY"
      [] name \in {"UUID", "INTERVAL", "DECIMAL_FIXED_LEN_BYTE_ARRAY"}
            -> "FIXED_LEN_BYTE_ARRAY"
      [] name \in {"UINT64", "DECIMAL_INT64", "TIME_INT64", "TIMESTAMP"} -> "INT64"
      [] OTHER -> "INT32"

(* The converted types that are read on their own: the physical types they *)
(* may annotate, and what they stand for.                                  *)
Annotation(types, logical) == [types |-> types, logical |-> logical]

OfConvertedType ==
    [UTF8 |-> Annotation(Binary, Logical("STRING")),
     ENUM |-> Annotation(Binary, Logical("ENUM")),
     JSON |-> Annotation(Binary, Logical("JSON")),
     BSON |-> Annotation(Binary, Logical("BSON")),
     INT_8 |-> Annotation({"INT32"}, Logical("INT8")),
     INT_16 |-> Annotation({"INT32"}, Logical("INT16")),
     INT_32 |-> Annotation({"INT32"}, Logical("INT32")),
     INT_64 |-> Annotation({"INT64"}, Logical("INT64")),
     UINT_8 |-> Annotation({"INT32"}, Logical("UINT8")),
     UINT_16 |-> Annotation({"INT32"}, Logical("UINT16")),
     UINT_32 |-> Annotation({"INT32"}, Logical("UINT32")),
     UINT_64 |-> Annotation({"INT64"}, Logical("UINT64")),
     TIME_MILLIS |-> Annotation({"INT32"}, Time("TIME_INT32", TRUE, "none")),
     TIME_MICROS |-> Annotation({"INT64"}, Time("TIME_INT64", TRUE, "MICROS")),
     TIMESTAMP_MILLIS |-> Annotation({"INT64"}, Time("TIMESTAMP", TRUE, "MILLIS")),
     TIMESTAMP_MICROS |-> Annotation({"INT64"}, Time("TIMESTAMP", TRUE, "MICROS"))]

Corrupted == Logical("corrupted")    \* parquet_exception::corrupted_file
Unannotated == Logical("none")       \* no branch returned
Verify(condition, logical) == IF condition THEN logical ELSE Corrupted

(* The member of a union that is looked at first.                          *)
UnitOf(time) ==
    LET unit == time.vals["unit"]
    IN  IF Has(unit, "MILLIS") THEN "MILLIS"
        ELSE IF Has(unit, "MICROS") THEN "MICROS"
        ELSE IF Has(unit, "NANOS") THEN "NANOS" ELSE "none"

LengthIs(x, n) == Is(x, "type_length", n)

ReadTime(type, utc, unit) ==
    CASE unit = "none" -> Unannotated
      [] unit = "MILLIS" -> Verify(type = "INT32", Time("TIME_INT32", utc, "none"))
      [] OTHER -> Verify(type = "INT64", Time("TIME_INT64", utc, unit))

ReadTimestamp(type, utc, unit) ==
    IF type # "INT64" THEN Corrupted
    ELSE IF unit = "none" THEN Unannotated ELSE Time("TIMESTAMP", utc, unit)

ReadUnion(x, type, union) ==
    LET Utc(name) == union.vals[name].vals["isAdjustedToUTC"] = 1
        Unit(name) == UnitOf(union.vals[name])
    IN  IF Has(union, "TIME") THEN ReadTime(type, Utc("TIME"), Unit("TIME"))
        ELSE IF Has(union, "TIMESTAMP")
        THEN ReadTimestamp(type, Utc("TIMESTAMP"), Unit("TIMESTAMP"))
        ELSE IF Has(union, "UUID")
        THEN Verify(type = "FIXED_LEN_BYTE_ARRAY" /\ LengthIs(x, 16), Logical("UUID"))
        ELSE Unannotated

ReadDecimal(type, precision, scale) ==
    CASE type = "INT32" ->
            Verify(precision \in 1..9, Decimal("DECIMAL_INT32", precision, scale))
      [] type = "INT64" ->
            Verify(precision \in 1..18, Decimal("DECIMAL_INT64", precision, scale))
      [] type = "BYTE_ARRAY" -> Decimal("DECIMAL_BYTE_ARRAY", precision, scale)
      [] type = "FIXED_LEN_BYTE_ARRAY" ->
            Verify(precision > 0,
                   Decimal("DECIMAL_FIXED_LEN_BYTE_ARRAY", precision, scale))
      [] OTHER -> Corrupted

(* A date is only looked at: no branch returns it.                         *)
ReadConverted(x, type, converted) ==
    CASE converted = "DECIMAL" ->
            IF Has(x, "precision") /\ Has(x, "scale")
            THEN ReadDecimal(type, x.vals["precision"], x.vals["scale"])
            ELSE Corrupted
      [] converted = "DATE" -> Verify(type = "INT32", Unannotated)
      [] converted = "INTERVAL" ->
            Verify(type = "FIXED_LEN_BYTE_ARRAY" /\ LengthIs(x, 12),
                   Logical("INTERVAL"))
      [] converted \in DOMAIN OfConvertedType ->
            Verify(type \in OfConvertedType[converted].types,
                   OfConvertedType[converted].logical)
      [] OTHER -> Unannotated

Or(logical, otherwise) == IF logical = Unannotated THEN otherwise ELSE logical

(* read_logical_type.                                                      *)
ReadLogicalType(x) ==
    IF ~Has(x, "type") THEN Logical("UNKNOWN")
    ELSE Or(IF Has(x, "logicalType")
            THEN ReadUnion(x, x.vals["type"], x.vals["logicalType"])
            ELSE Unannotated,
         Or(IF Has(x, "converted_type")
            THEN ReadConverted(x, x.vals["type"], x.vals["converted_type"])
            ELSE Unannotated,
            Logical(x.vals["type"])))

-----------------------------------------------------------------------------
Union(name, member) == Build([n \in {name} |-> member])
Empty == Build(NoMembers)      \* of the members without fields

IntUnion(bits, signed) ==
    Union("INTEGER", Build([bitWidth |-> bits, isSigned |-> signed]))

DecimalUnion(logical) ==
    Union("DECIMAL", Build([precision |-> logical.precision,
                                           scale     |-> logical.scale]))

TimeUnion(name, logical) ==
    LET unit == IF logical.unit = "none" THEN "MILLIS" ELSE logical.unit
    IN  Union(name,
              Build([isAdjustedToUTC |-> IF logical.utc THEN 1 ELSE 0,
                     unit |-> Build([n \in {unit} |-> Empty])]))

Both(converted, union) == [converted_type |-> converted, logicalType |-> union]
Just(union) == [logicalType |-> union]

(* Fault: the unit of a time is not looked at.                             *)
MembersOfTimeMicros(name, logical) ==
    Both("TIME_MICROS", TimeUnion("TIME", [logical EXCEPT !.unit = "MICROS"]))

(* Nanoseconds have no converted type.                                     *)
MembersOfTime(name, logical) ==
    LET converted == CASE logical.unit \in {"none", "MILLIS"} -> name \o "_MILLIS"
                       [] logical.unit = "MICROS" -> name \o "_MICROS"
                       [] OTHER -> "none"
    IN  IF converted = "none" THEN Just(TimeUnion(name, logical))
        ELSE Both(converted, TimeUnion(name, logical))

(* write_logical_type: the members of the leaf that it sets.               *)
LogicalMembers(logical) ==
    LET name == logical.name
    IN  CASE name = "STRING" -> Both("UTF8", Union("STRING", Empty))
          [] name \in {"ENUM", "DATE", "JSON", "BSON"} ->
                Both(name, Union(name, Empty))
          [] name \in {"UUID", "UNKNOWN"} -> Just(Union(name, Empty))
          [] name = "INT8" -> Both("INT_8", IntUnion(8, 1))
          [] name = "INT16" -> Both("INT_16", IntUnion(16, 1))
          [] name = "INT32" -> Both("INT_32", IntUnion(32, 1))
          [] name = "INT64" -> Both("INT_64", IntUnion(64, 1))
          [] name = "UINT8" -> Both("UINT_8", IntUnion(8, 0))
          [] name = "UINT16" -> Both("UINT_16", IntUnion(16, 0))
          [] name = "UINT32" -> Both("UINT_32", IntUnion(32, 0))
          [] name = "UINT64" -> Both("UINT_64", IntUnion(64, 0))
          [] name \in {"DECIMAL_INT32", "DECIMAL_INT64", "DECIMAL_BYTE_ARRAY",
                       "DECIMAL_FIXED_LEN_BYTE_ARRAY"} ->
                [converted_type |-> "DECIMAL", precision |-> logical.precision,
                 scale |-> logical.scale, logicalType |-> DecimalUnion(logical)]
          [] name \in {"TIME_INT32", "TIME_INT64"} -> MembersOfTime("TIME", logical)
          [] name = "TIMESTAMP" -> MembersOfTime("TIMESTAMP", logical)
          [] name = "INTERVAL" -> [converted_type |-> "INTERVAL"]
          [] OTHER -> NoMembers
=============================================================================
