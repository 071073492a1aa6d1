---------------------------- MODULE TripletReader ----------------------------
(***************************************************************************)
(* What column_chunk_reader promises (column_chunk_reader.hh): "extracts   *)
(* batches of (repetition level, definition level, value (optional))" of a *)
(* column chunk, in order and without a gap, up to its end or to the first *)
(* place where something is wrong with it.                                 *)
(***************************************************************************)
EXTENDS Integers, Sequences, FiniteSets

CONSTANT MaxBatch   \* bound: the largest batch

VARIABLES
    content,  \* what can be read of the chunk: the levels, and the values of
              \* those definition levels that are `top'
    sound,    \* nothing is wrong with the chunk
    given,    \* what the batches handed out
    ended,    \* a batch came back empty
    failed    \* a batch came back with an exception

vars == <<content, sound, given, ended, failed>>

Least(a, b) == IF a < b THEN a ELSE b

(* The first n triplets: a null has no place among the values.             *)
First(c, n) ==
    [top  |-> c.top,
     defs |-> SubSeq(c.defs, 1, n),
     reps |-> SubSeq(c.reps, 1, n),
     vals |-> SubSeq(c.vals, 1, Cardinality({i \in 1..n : c.defs[i] = c.top}))]

Count == Len(given.defs)

Open == ~ended /\ ~failed

Init ==
    /\ given = First(content, 0)
    /\ ended = FALSE
    /\ failed = FALSE

Give(n) ==
    /\ Open
    /\ Count + n <= Len(content.defs)
    /\ given' = First(content, Count + n)
    /\ UNCHANGED <<content, sound, ended, failed>>

(* The end is told only when all is handed out of a chunk that is sound.   *)
End ==
    /\ Open /\ sound
    /\ Count = Len(content.defs)
    /\ ended' = TRUE
    /\ UNCHANGED <<content, sound, given, failed>>

Fail ==
    /\ Open /\ ~sound
    /\ failed' = TRUE
    /\ UNCHANGED <<content, sound, given, ended>>

Next == (\E n \in 1..MaxBatch : Give(n)) \/ End \/ Fail

Spec == Init /\ [][Next]_vars
=============================================================================
