----------------------------- MODULE RleBuilder -----------------------------
(***************************************************************************)
(* rle_builder (encoding.hh): an RLE stream of unbounded length, built by  *)
(* a chain of RleEncoders over one buffer.  When the encoder is full it is *)
(* flushed, the buffer doubles, and a new encoder takes over behind the    *)
(* bytes written.  column_chunk_writer keeps two of them, for repetition   *)
(* and for definition levels: put, put, ..., view, clear, put, ...         *)
(***************************************************************************)
EXTENDS RleEncoder

CONSTANT MaxPuts      \* bound: values put between two clears

(* From 2^30 equal values on, repeat_count_ << 1 overflows its 32 bits.     *)
ASSUME MaxPutsAssumption == MaxPuts \in Nat /\ MaxPuts < 1073741824

VARIABLES
    enc,     \* _encoder
    offset,  \* _buffer_offset
    size,    \* _buffer.size()
    done,    \* the stream in _buffer[0, offset): its runs, what they decode to
    viewed,  \* view() has been called since the last clear()
    input    \* history: the values put since the last clear()

vars == <<enc, offset, size, done, viewed, input>>

Stream == [runs : Seq(Run), vals : Seq(Values)]

(* The builder and the stream it has written are well formed.              *)
TypeOK ==
    /\ enc \in Encoder
    /\ offset \in Nat
    /\ size \in Nat
    /\ done \in Stream
    /\ viewed \in BOOLEAN
    /\ input \in Seq(Values)

-----------------------------------------------------------------------------
Fresh(e, o, s, d) ==
    /\ e = NewEncoder(MinBufferSize)
    /\ o = 0
    /\ s = MinBufferSize
    /\ d = [runs |-> <<>>, vals |-> <<>>]

Init ==
    /\ Fresh(enc, offset, size, done)
    /\ viewed = FALSE
    /\ input = <<>>

(* put() on an encoder with room.                                          *)
PutInPlace(v) ==
    /\ ~enc.full
    /\ enc' = PutValue(enc, v)
    /\ UNCHANGED <<offset, size, done>>

(* put() on a full encoder: the body of the while loop runs once, then the *)
(* new encoder accepts the value.                                          *)
PutAndGrow(v) ==
    LET flushed == Flush(enc)
    IN  /\ enc.full
        /\ offset' = offset + flushed.bytes
        /\ size' = 2 * size
        /\ done' = [runs |-> done.runs \o flushed.runs,
                    vals |-> done.vals \o flushed.vals]
        /\ enc' = PutValue(NewEncoder(size' - offset'), v)

Put(v) ==
    /\ ~viewed
    /\ Len(input) < MaxPuts
    /\ PutInPlace(v) \/ PutAndGrow(v)
    /\ input' = Append(input, v)
    /\ UNCHANGED viewed

(* view() flushes; flush_page calls it once and then clear().  A second    *)
(* view() finds nothing pending.                                           *)
View ==
    /\ enc' = Flush(enc)
    /\ viewed' = TRUE
    /\ UNCHANGED <<offset, size, done, input>>

Clear ==
    /\ Fresh(enc', offset', size', done')
    /\ viewed' = FALSE
    /\ input' = <<>>

Next == (\E v \in Values : Put(v)) \/ View \/ Clear

Spec == Init /\ [][Next]_vars

-----------------------------------------------------------------------------
(* Properties.                                                             *)

Padding == Len(done.vals \o Contents(enc)) - Len(input)

(* The bytes in the buffer stand for exactly the values put, in order: a   *)
(* group is padded with zeros by view() only, never where one encoder of   *)
(* the chain takes over from another, and by less than a group.  A level   *)
(* reader that knows the number of levels gets back the ones written.      *)
RoundTrip ==
    /\ done.vals \o Contents(enc) = input \o Copies(0, Padding)
    /\ Padding < GroupSize
    /\ ~viewed => Padding = 0

(* CheckBufferFull stops the encoder early enough: neither the bytes       *)
(* written nor the bytes a flush would add reach past the end of the       *)
(* buffer, so the assert on PutValue ("There is a bug in using             *)
(* CheckBufferFull()") never fires, and the encoder of a grown buffer has  *)
(* the room its constructor asserts.                                       *)
FitsBuffer ==
    /\ enc.bytes <= enc.len
    /\ Flush(enc).bytes <= enc.len
    /\ offset + enc.len = size
    /\ enc.len >= MinBufferSize

(* The history kept with the runs is what a decoder makes of them, and the *)
(* byte count is the size of the runs plus that of the open literal run.   *)
RunsAreTheStream ==
    /\ done.vals = Decode(done.runs)
    /\ enc.vals = Decode(enc.runs)
    /\ enc.bytes =
         StreamBytes(enc.runs)
           + (IF enc.ind THEN 1 + GroupBytes * (enc.lit \div GroupSize) ELSE 0)

(* The counters agree with the values they count, which is what the        *)
(* encoder's assertions (literal_count_ % 8 == 0, repeat_count_ == 8,      *)
(* literal_count_ == 0, indicator byte reserved) assume of each other.     *)
AssertionsHold == CountersAgree(enc)
=============================================================================
