----------------------------- MODULE RleEncoder -----------------------------
(***************************************************************************)
(* RleEncoder (rle_encoding.hh) as operators on its state.  An encoder is  *)
(* a record; each operator below is one member function and returns the    *)
(* encoder the function leaves behind.  The encoder buffers GroupSize      *)
(* values at a time: if they are all the same it goes on with a repeated   *)
(* run, if not it adds them to the current literal run.                    *)
(***************************************************************************)
EXTENDS RleFormat

Encoder == [full : BOOLEAN,    \* buffer_full_
            buf  : Seq(Values),\* buffered_values_[0 .. num_buffered_values_)
            cur  : Values,     \* current_value_
            rep  : Nat,        \* repeat_count_
            lit  : Nat,        \* literal_count_
            ind  : BOOLEAN,    \* literal_indicator_byte_ != NULL
            open : Seq(Values),\* literals written after that byte
            runs : Seq(Run),   \* the runs whose header is written
            vals : Seq(Values),\* history: what these runs decode to
            bytes: Nat,        \* bit_writer_.bytes_written()
            len  : Nat]        \* bit_writer_.buffer_len()

(* The constructor and Clear().                                            *)
NewEncoder(len) ==
    [full |-> FALSE, buf |-> <<>>, cur |-> 0, rep |-> 0, lit |-> 0,
     ind |-> FALSE, open |-> <<>>, runs |-> <<>>, vals |-> <<>>,
     bytes |-> 0, len |-> len]

(* Fault: room for one more group is taken for room for one more run.      *)
CheckGroupFits(e) ==
    [e EXCEPT !.full = @ \/ e.bytes + 1 + GroupBytes > e.len]

CheckBufferFull(e) ==
    [e EXCEPT !.full = @ \/ e.bytes + MinBufferSize > e.len]

(* A run is complete: its header goes into the stream.                     *)
CloseRun(e, run) ==
    [e EXCEPT !.runs = Append(@, run), !.vals = @ \o RunValues(run)]

FlushRepeatedRun(e) ==
    CheckBufferFull(
        [CloseRun(e, Repeated(e.cur, e.rep)) EXCEPT
            !.bytes = @ + VlqBytes(e.rep) + ValueBytes,
            !.buf = <<>>, !.rep = 0])

(* Fault: an indicator byte for every group of the run.                    *)
WriteLiteralsWithByte(e) ==
    [e EXCEPT !.bytes = @ + 1 + GroupBytes * (Len(e.buf) \div GroupSize),
              !.ind = TRUE, !.open = @ \o e.buf, !.buf = <<>>]

(* Reserve the indicator byte if the literal run has none yet, and write   *)
(* the buffered values behind it.                                          *)
WriteLiterals(e) ==
    [e EXCEPT !.bytes = @ + (IF e.ind THEN 0 ELSE 1)
                          + GroupBytes * (Len(e.buf) \div GroupSize),
              !.ind = TRUE, !.open = @ \o e.buf, !.buf = <<>>]

FlushLiteralRun(e, updateIndicatorByte) ==
    LET w == WriteLiterals(e)
    IN  IF updateIndicatorByte
        THEN CheckBufferFull(
                [CloseRun(w, Literal(w.open, w.lit)) EXCEPT
                    !.ind = FALSE, !.open = <<>>, !.lit = 0])
        ELSE w

(* Fault: a repeated run begins behind a literal run left open.            *)
FlushBufferedValuesOpen(e) ==
    IF e.rep >= GroupSize
    THEN [e EXCEPT !.buf = <<>>]
    ELSE LET counted == [e EXCEPT !.lit = @ + Len(e.buf)]
             groups  == counted.lit \div GroupSize
         IN  [FlushLiteralRun(counted, groups + 1 >= MaxGroups)
                EXCEPT !.rep = 0]

(* FlushBufferedValues(false); the code never passes true.                 *)
FlushBufferedValues(e) ==
    IF e.rep >= GroupSize
    THEN LET dropped == [e EXCEPT !.buf = <<>>]
         IN  IF e.lit # 0 THEN FlushLiteralRun(dropped, TRUE) ELSE dropped
    ELSE LET counted == [e EXCEPT !.lit = @ + Len(e.buf)]
             groups  == counted.lit \div GroupSize
         IN  [FlushLiteralRun(counted, groups + 1 >= MaxGroups)
                EXCEPT !.rep = 0]

Buffered(e, v) ==
    LET b == [e EXCEPT !.buf = Append(@, v)]
    IN  IF Len(b.buf) = GroupSize THEN FlushBufferedValues(b) ELSE b

(* Put(v) on an encoder that is not full; on a full one Put returns false  *)
(* and leaves the encoder alone.                                           *)
PutValue(e, v) ==
    IF v = e.cur
    THEN LET longer == [e EXCEPT !.rep = @ + 1]
         IN  IF longer.rep > GroupSize THEN longer ELSE Buffered(longer, v)
    ELSE LET ended == IF e.rep >= GroupSize THEN FlushRepeatedRun(e) ELSE e
         IN  Buffered([ended EXCEPT !.rep = 1, !.cur = v], v)

(* Zero-pads a partial group.                                              *)
PadGroup(e) ==
    IF Len(e.buf) = 0 THEN e
    ELSE [e EXCEPT !.buf = @ \o Copies(0, GroupSize - Len(e.buf))]

(* Fault: the values buffered behind an open literal run are taken for all *)
(* there is to flush when they repeat.                                     *)
FlushTail(e) ==
    LET allRepeat == e.rep = Len(e.buf) \/ Len(e.buf) = 0
        padded    == PadGroup(e)
    IN  IF e.lit = 0 /\ e.rep = 0 /\ Len(e.buf) = 0 THEN e
        ELSE IF e.rep > 0 /\ allRepeat THEN FlushRepeatedRun(e)
        ELSE [FlushLiteralRun([padded EXCEPT !.lit = @ + Len(padded.buf)],
                              TRUE) EXCEPT !.rep = 0]

Flush(e) ==
    LET allRepeat == e.lit = 0 /\ (e.rep = Len(e.buf) \/ Len(e.buf) = 0)
        padded    == PadGroup(e)
    IN  IF e.lit = 0 /\ e.rep = 0 /\ Len(e.buf) = 0 THEN e
        ELSE IF e.rep > 0 /\ allRepeat THEN FlushRepeatedRun(e)
        ELSE [FlushLiteralRun([padded EXCEPT !.lit = @ + Len(padded.buf)],
                              TRUE) EXCEPT !.rep = 0]

-----------------------------------------------------------------------------
(* The values put since the encoder was made that no finished run holds    *)
(* yet: the open literal run, then the buffered values or, when a repeated *)
(* run has replaced the buffer, its copies.                                *)
Pending(e) ==
    e.open \o (IF e.rep >= GroupSize THEN Copies(e.cur, e.rep) ELSE e.buf)

Contents(e) == e.vals \o Pending(e)

(* What the assertions in Put, FlushBufferedValues, FlushLiteralRun and    *)
(* FlushRepeatedRun rely on.                                               *)
CountersAgree(e) ==
    /\ e.lit = Len(e.open)
    /\ e.lit % GroupSize = 0
    /\ e.ind <=> e.lit # 0
    /\ e.lit < GroupSize * (MaxGroups - 1)
    /\ Len(e.buf) < GroupSize
    /\ e.rep >= GroupSize => e.lit = 0 /\ e.buf = <<>>
    /\ e.rep < GroupSize =>
          /\ e.rep <= Len(e.buf)
          /\ \A i \in (Len(e.buf) - e.rep + 1)..Len(e.buf) : e.buf[i] = e.cur
=============================================================================
