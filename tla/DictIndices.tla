---------------------------- MODULE DictIndices ----------------------------
(***************************************************************************)
(* dict_encoder::flush (encoding.cc): the indices of a page are put into   *)
(* one RleEncoder over a buffer of fixed size, and the result of Put() is  *)
(* not looked at.  An encoder that became full would drop the rest of the  *)
(* page without a word.                                                    *)
(***************************************************************************)
EXTENDS RleEncoder

CONSTANT MaxIndices      \* bound: indices in a page

ASSUME MaxIndicesAssumption ==
    MaxIndices \in Nat /\ MaxIndices < 1073741824

(* A repeated run whose header needs more than a byte stands for at least  *)
(* five groups; in the code, for eight.                                    *)
ASSUME SlotAssumption == 5 * GroupSize <= 64

VARIABLES
    count,   \* _indices.size()
    encoder, \* the RleEncoder
    taken,   \* history: the indices the loop has gone over
    flushed  \* encoder.Flush() has been called

dictVars == <<count, encoder, taken, flushed>>

(* Fault: the size of the stream alone.                                    *)
StreamSize(n) == MaxOf(MinBufferSize, MaxBufferSize(n))

(* max_encoded_size() - 1: the byte of the bit width comes first.          *)
IndexBufferSize(n) == MinBufferSize + MaxBufferSize(n)

DictInit ==
    /\ count \in 0..MaxIndices
    /\ encoder = NewEncoder(IndexBufferSize(count))
    /\ taken = <<>>
    /\ flushed = FALSE

(* Put() returns false on a full encoder and does nothing.                 *)
PutIgnored(e, v) == IF e.full THEN e ELSE PutValue(e, v)

PutNext(v) ==
    /\ ~flushed
    /\ Len(taken) < count
    /\ encoder' = PutIgnored(encoder, v)
    /\ taken' = Append(taken, v)
    /\ UNCHANGED <<count, flushed>>

FlushIndices ==
    /\ ~flushed
    /\ Len(taken) = count
    /\ encoder' = Flush(encoder)
    /\ flushed' = TRUE
    /\ UNCHANGED <<count, taken>>

DictNext == (\E v \in Values : PutNext(v)) \/ FlushIndices

DictSpec == DictInit /\ [][DictNext]_dictVars

-----------------------------------------------------------------------------
(* The encoder of a page of indices is well formed.                        *)
DictTypeOK ==
    /\ count \in 0..MaxIndices
    /\ encoder \in Encoder
    /\ taken \in Seq(Values)
    /\ flushed \in BOOLEAN

IndexPadding == Len(Contents(encoder)) - Len(taken)

(* The indices written decode to those of the page, followed by less than  *)
(* a group of padding once the encoder is flushed.                         *)
NoIndexLost ==
    /\ Contents(encoder) = taken \o Copies(0, IndexPadding)
    /\ IndexPadding < GroupSize
    /\ ~flushed => IndexPadding = 0

(* MaxBufferSize(n) is what its comment says, "the maximum byte size it    *)
(* could take to encode" n values, so that a page never outgrows the bytes *)
(* the column writer has reserved for it.                                  *)
WithinMaxBufferSize == flushed => encoder.bytes <= MaxBufferSize(count)
=============================================================================
