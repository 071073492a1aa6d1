--------------------------- MODULE ThriftMessages ---------------------------
(***************************************************************************)
(* read() and write() of the structures of parquet_types.cpp, over the     *)
(* tokens that TCompactProtocol puts and gets: the header of a field or of *)
(* a list, a value, the end of a structure.  An object has the values of   *)
(* the members that were ever assigned, and the __isset flags.             *)
(***************************************************************************)
EXTENDS ParquetTypes, Sequences, FiniteSets, SequencesExt

Scalars == {"BOOL", "BYTE", "I16", "I32", "I64", "STRING"}

(* The types in the headers of a field and of a list.                      *)
TypeOf(of) == IF of \in Scalars THEN of ELSE "STRUCT"
KindOf(field) == IF field.list THEN "LIST" ELSE TypeOf(field.of)

Stop == <<0, "STOP">>
Header(id, kind) == <<id, kind>>     \* of a field, or of a list of id elements
Value(v) == <<v, "VALUE">>

NoMembers == [name \in {} |-> 0]

(* An object with the members `vals' set.  Those that are required have no *)
(* flag in the code, and nothing looks at theirs here.                     *)
Build(vals) == [vals |-> vals, isset |-> DOMAIN vals]

(* The constructors: one structure has an optional member with a default.  *)
Fresh(type) ==
    Build(IF type = "DataPageHeaderV2" THEN [is_compressed |-> 1] ELSE NoMembers)

Default(field) ==
    IF field.list THEN <<>>
    ELSE IF field.of \in Scalars THEN 0 ELSE Fresh(field.of)

ValueOf(field, obj, name) ==
    IF name \in DOMAIN obj.vals THEN obj.vals[name] ELSE Default(field)

Has(obj, name) == name \in obj.isset
Is(obj, name, v) == Has(obj, name) /\ obj.vals[name] = v

-----------------------------------------------------------------------------
(* write(): the fields in the order of their numbers.                      *)
InOrder(fields) ==
    [i \in 1..Cardinality(DOMAIN fields) |->
        CHOOSE name \in DOMAIN fields :
            i = Cardinality({n \in DOMAIN fields : fields[n].id <= fields[name].id})]

RECURSIVE WriteStruct(_, _)

WriteValue(of, v) == IF of \in Scalars THEN <<Value(v)>> ELSE WriteStruct(of, v)

WriteField(field, v) ==
    <<Header(field.id, KindOf(field))>> \o
        IF field.list
        THEN <<Header(Len(v), TypeOf(field.of))>>
                 \o FlattenSeq([i \in DOMAIN v |-> WriteValue(field.of, v[i])])
        ELSE WriteValue(field.of, v)

WriteMember(fields, obj, name) ==
    IF fields[name].required \/ Has(obj, name)
    THEN WriteField(fields[name], ValueOf(fields[name], obj, name)) ELSE <<>>

(* Each of the fields.                                                     *)
WriteMembers(fields, names, obj) ==
    [i \in DOMAIN names |-> WriteMember(fields, obj, names[i])]

WriteFields(fields, obj) == WriteMembers(fields, InOrder(fields), obj)

WriteStruct(type, obj) == FlattenSeq(WriteFields(Structs[type], obj)) \o <<Stop>>

-----------------------------------------------------------------------------
(* read(), of the tokens `in': where it ended and how, and what it left.   *)
Ended(at, end, val) == [at |-> at, end |-> end, val |-> val]

RECURSIVE SkipFields(_, _), SkipElements(_, _, _, _)

(* TProtocol::skip.                                                        *)
Skip(in, kind, at) ==
    IF kind = "STRUCT" THEN SkipFields(in, at)
    ELSE IF at > Len(in) THEN Ended(at, "eof", 0)
    ELSE IF kind = "LIST" THEN SkipElements(in, in[at][2], in[at][1], at + 1)
    ELSE Ended(at + 1, "ok", 0)

SkipElements(in, kind, n, at) ==
    IF n = 0 THEN Ended(at, "ok", 0)
    ELSE LET one == Skip(in, kind, at)
         IN  IF one.end # "ok" THEN one
             ELSE SkipElements(in, kind, n - 1, one.at)

SkipFields(in, at) ==
    IF at > Len(in) THEN Ended(at, "eof", 0)
    ELSE IF in[at][2] = "STOP" THEN Ended(at + 1, "ok", 0)
    ELSE LET one == Skip(in, in[at][2], at + 1)
         IN  IF one.end # "ok" THEN one ELSE SkipFields(in, one.at)

RECURSIVE ReadFields(_, _, _, _, _)

ReadStruct(in, type, at, obj) == ReadFields(in, Structs[type], at, obj, {})

(* A structure is read into the member that is there.                      *)
ReadValue(in, of, at, old) ==
    IF of \notin Scalars THEN ReadStruct(in, of, at, old)
    ELSE IF at > Len(in) THEN Ended(at, "eof", old)
    ELSE Ended(at + 1, "ok", in[at][1])

AppendTo(list, one) == Ended(one.at, one.end, Append(list.val, one.val))

AppendElement(in, of, list) ==
    IF list.end # "ok" THEN list
    ELSE AppendTo(list, ReadValue(in, of, list.at,
                                  IF of \in Scalars THEN 0 ELSE Fresh(of)))

ReadElements(in, of, at, old) ==
    IF at > Len(in) THEN Ended(at, "eof", old)
    ELSE FoldLeft(LAMBDA list, i : AppendElement(in, of, list),
                  Ended(at + 1, "ok", old), [i \in 1..in[at][1] |-> i])

(* clear(), and the elements.                                              *)
ReadList(in, of, at, old) == ReadElements(in, of, at, <<>>)

ReadMember(in, field, at, old) ==
    IF field.list THEN ReadList(in, field.of, at, old)
    ELSE ReadValue(in, field.of, at, old)

(* The case of the switch that a field comes to, if its type is right.     *)
Matching(fields, header) ==
    {name \in DOMAIN fields : /\ header[2] = KindOf(fields[name])
                              /\ header[1] = fields[name].id}

(* A member that is read in part is not flagged.                           *)
Assigned(obj, name, read) ==
    [vals  |-> (name :> read.val) @@ obj.vals,
     isset |-> IF read.end = "ok" THEN obj.isset \cup {name} ELSE obj.isset]

(* The rest, after what was read, or skipped.                              *)
ThenFields(in, fields, obj, got, read) ==
    IF read.end # "ok" THEN Ended(read.at, read.end, obj)
    ELSE ReadFields(in, fields, read.at, obj, got)

Assign(in, fields, obj, got, name, read) ==
    ThenFields(in, fields, Assigned(obj, name, read), got \cup {name}, read)

RequiredOf(fields) == {name \in DOMAIN fields : fields[name].required}

ReadNamed(in, fields, at, obj, got, name) ==
    Assign(in, fields, obj, got, name,
           ReadMember(in, fields[name], at, ValueOf(fields[name], obj, name)))

(* One round of the loop.                                                  *)
ReadFields(in, fields, at, obj, got) ==
    IF at > Len(in) THEN Ended(at, "eof", obj)
    ELSE IF in[at][2] = "STOP"
    THEN Ended(at + 1, IF RequiredOf(fields) \subseteq got THEN "ok" ELSE "invalid", obj)
    ELSE IF Matching(fields, in[at]) = {}
    THEN ThenFields(in, fields, obj, got, Skip(in, in[at][2], at + 1))
    ELSE ReadNamed(in, fields, at + 1, obj, got,
                   CHOOSE name \in Matching(fields, in[at]) : TRUE)
=============================================================================
