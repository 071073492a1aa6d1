------------------------------ MODULE RleFormat ------------------------------
(***************************************************************************)
(* The RLE / bit-packing hybrid stream of Parquet as rle_encoding.hh       *)
(* writes and reads it, for one bit width.  A stream is a sequence of      *)
(* runs.  A repeated run stands for `count' copies of one value; a literal *)
(* run stands for `count' bit-packed values, and its header can only count *)
(* whole groups of GroupSize values.                                       *)
(***************************************************************************)
EXTENDS Integers, Sequences, SequencesExt

CONSTANTS
    Values,       \* the values of the bit width in use; 0 is one of them
    GroupSize,    \* values in a literal group: 8 in the code
    MaxGroups,    \* 1 << 6 in the code: literal runs are closed before this
    GroupBytes,   \* bytes of a bit-packed group: bit_width for groups of 8
    ValueBytes    \* bytes of an aligned value: CeilDiv(bit_width, 8)

ASSUME ValuesAssumption == Values \subseteq Nat /\ 0 \in Values
(* Seven groups make a literal run that is closed larger than two repeated *)
(* runs, which MinBufferSize relies on; the code has 64.                   *)
ASSUME GroupAssumption ==
    /\ GroupSize \in Nat /\ GroupSize >= 2 /\ GroupSize < 64
    /\ MaxGroups \in Nat /\ MaxGroups >= 7

(* A bit-packed group is never smaller than an aligned value, which holds  *)
(* for every width from 1 to 64 bits and groups of 8.                      *)
ASSUME WidthAssumption ==
    /\ GroupBytes \in Nat /\ GroupBytes >= 1
    /\ ValueBytes \in Nat /\ ValueBytes >= 1 /\ ValueBytes <= GroupBytes

MaxOf(a, b) == IF a > b THEN a ELSE b

-----------------------------------------------------------------------------
(* Sizes.                                                                  *)

MaxVlqBytes == 5

(* Bytes of the header of a repeated run of `count' values: the VLQ of     *)
(* count << 1, seven bits to a byte.                                       *)
VlqBytes(count) ==
    IF count < 64 THEN 1
    ELSE IF count < 8192 THEN 2
    ELSE IF count < 1048576 THEN 3
    ELSE IF count < 134217728 THEN 4 ELSE MaxVlqBytes

(* The largest size of a single run.  CheckBufferFull declares the buffer  *)
(* full when less than this is left.                                       *)
MinBufferSize ==
    MaxOf(1 + MaxGroups * GroupBytes, MaxVlqBytes + ValueBytes)

CeilDiv(value, divisor) ==
    IF value = 0 THEN 0 ELSE 1 + (value - 1) \div divisor

(* Fault: the values of a group that is not complete are not counted.      *)
MaxBufferSizeFloor(n) ==
    (n \div GroupSize) * MaxOf(1 + GroupBytes, 1 + ValueBytes)

(* The largest size of a stream of n values.                               *)
MaxBufferSize(n) ==
    CeilDiv(n, GroupSize) * MaxOf(1 + GroupBytes, 1 + ValueBytes)

-----------------------------------------------------------------------------
(* Runs and what they decode to.                                           *)

Repeated(value, count) ==
    [literal |-> FALSE, count |-> count, vals |-> <<value>>]
Literal(vals, count) == [literal |-> TRUE, count |-> count, vals |-> vals]

Run == [literal : BOOLEAN, count : Nat, vals : Seq(Values)]

Copies(value, count) == [i \in 1..count |-> value]

RunValues(run) ==
    IF run.literal THEN SubSeq(run.vals, 1, run.count)
                   ELSE Copies(run.vals[1], run.count)

Decode(runs) == FlattenSeq([i \in 1..Len(runs) |-> RunValues(runs[i])])

(* Bytes of a finished run.                                                *)
RunBytes(run) ==
    IF run.literal THEN 1 + GroupBytes * (run.count \div GroupSize)
                   ELSE VlqBytes(run.count) + ValueBytes

(* Bytes of a stream of finished runs.                                     *)
StreamBytes(runs) ==
    LET upTo[n \in 0..Len(runs)] ==
            IF n = 0 THEN 0 ELSE upTo[n - 1] + RunBytes(runs[n])
    IN  upTo[Len(runs)]
=============================================================================
