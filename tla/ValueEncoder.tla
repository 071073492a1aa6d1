---------------------------- MODULE ValueEncoder ----------------------------
(***************************************************************************)
(* The value encoders of encoding.cc a column writer is given: plain       *)
(* encoding, and dict_or_plain_encoder, which numbers the distinct values  *)
(* and falls back to plain encoding once its dictionary has grown too big. *)
(* An encoder is a record; each operator is one member function.           *)
(***************************************************************************)
EXTENDS Integers, Sequences, SequencesExt

CONSTANTS
    Data,              \* the values a column may hold
    FallbackThreshold  \* largest dictionary, in entries, that is kept in use

ASSUME ThresholdAssumption == FallbackThreshold \in Nat

Encodings == {"PLAIN", "RLE_DICTIONARY"}

ValueEncoder ==
    [dict    : BOOLEAN,   \* dict_or_plain_encoder, else plain_encoder
     fallen  : BOOLEAN,   \* fallen_back
     entries : Seq(Data), \* _dict_encoder._values, in the order of the indices
     indices : Seq(Nat),  \* _dict_encoder._indices
     plain   : Seq(Data)] \* _plain_encoder._buf

NewValueEncoder(dict) ==
    [dict |-> dict, fallen |-> FALSE,
     entries |-> <<>>, indices |-> <<>>, plain |-> <<>>]

UsesDict(e) == e.dict /\ ~e.fallen

(* dict_builder::put and its caller.                                       *)
PutIndex(e, v) ==
    LET new == IF v \in ToSet(e.entries) THEN e.entries
                                         ELSE Append(e.entries, v)
        i   == CHOOSE i \in 1..Len(new) : new[i] = v
    IN  [e EXCEPT !.entries = new, !.indices = Append(@, i - 1)]

(* dict_encoder::put_batch puts one value after the other.                 *)
PutIndices(e, vals) ==
    LET Loop[n \in 0..Len(vals)] ==
            IF n = 0 THEN e ELSE PutIndex(Loop[n - 1], vals[n])
    IN  Loop[Len(vals)]

PutValues(e, vals) ==
    IF UsesDict(e) THEN PutIndices(e, vals)
                   ELSE [e EXCEPT !.plain = @ \o vals]

(* flush(): what it writes, and the encoder it leaves.  The page in which  *)
(* the dictionary passes the threshold is still written with indices.      *)
Encoded(e) ==
    IF UsesDict(e) THEN [encoding |-> "RLE_DICTIONARY", data |-> e.indices]
                   ELSE [encoding |-> "PLAIN", data |-> e.plain]

(* Fault: the dictionary goes when it is no longer in use.                 *)
FlushedForgetful(e) ==
    LET full == Len(e.entries) > FallbackThreshold
    IN  IF UsesDict(e)
        THEN [e EXCEPT !.indices = <<>>, !.fallen = full,
                       !.entries = IF full THEN <<>> ELSE @]
        ELSE [e EXCEPT !.plain = <<>>]

Flushed(e) ==
    IF UsesDict(e)
    THEN [e EXCEPT !.indices = <<>>,
                   !.fallen = Len(e.entries) > FallbackThreshold]
    ELSE [e EXCEPT !.plain = <<>>]

(* view_dict(): a dictionary encoder always has one, be it empty or no     *)
(* longer in use.                                                          *)
HasDict(e) == e.dict

-----------------------------------------------------------------------------
(* The values a reader decodes from what flush() wrote, given the entries  *)
(* of the chunk's dictionary page.                                         *)
DecodedValues(entries, encoded) ==
    IF encoded.encoding = "PLAIN"
    THEN encoded.data
    ELSE [i \in 1..Len(encoded.data) |-> entries[encoded.data[i] + 1]]

Decodable(entries, encoded) ==
    encoded.encoding = "RLE_DICTIONARY" =>
        \A i \in 1..Len(encoded.data) : encoded.data[i] < Len(entries)
=============================================================================
