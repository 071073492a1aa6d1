----------------------------- MODULE BatchReader -----------------------------
(***************************************************************************)
(* What level_decoder promises (encoding.hh): "Set a new source of levels" *)
(* and "Read a batch of n levels (the last batch may be smaller than n)".  *)
(* Of a source that ends before its levels do it promises nothing.         *)
(***************************************************************************)
EXTENDS Integers, Sequences

CONSTANTS
    Levels,    \* the levels there are
    MaxBatch   \* bound: the largest batch

VARIABLES
    content,   \* the levels of the source
    sound,     \* the source has all of them
    given      \* the levels handed out by the batches read from it

vars == <<content, sound, given>>

Least(a, b) == IF a < b THEN a ELSE b

Init == content \in Seq(Levels) /\ sound \in BOOLEAN /\ given = <<>>

Reset == content' \in Seq(Levels) /\ sound' \in BOOLEAN /\ given' = <<>>

Read(n) ==
    /\ given' \in Seq(Levels)
    /\ sound =>
          given' = SubSeq(content, 1, Least(Len(given) + n, Len(content)))
    /\ UNCHANGED <<content, sound>>

Next == Reset \/ \E n \in 1..MaxBatch : Read(n)

Spec == Init /\ [][Next]_vars
=============================================================================
