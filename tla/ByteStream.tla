----------------------------- MODULE ByteStream -----------------------------
(***************************************************************************)
(* What IPeekableStream promises (thrift_serdes.hh): "Assuming there is k  *)
(* bytes remaining in stream, view the next unconsumed min(k, n) bytes",   *)
(* and "Consume n bytes".  The bytes of the stream are 1, 2, ..., Length.  *)
(* A view can be used until the next peek, whatever is consumed meanwhile. *)
(***************************************************************************)
EXTENDS Naturals

CONSTANTS
    Length,    \* bytes in the stream
    MaxPeek    \* bound: the longest peek

VARIABLES
    consumed,  \* bytes consumed
    view       \* the bytes in the last view, while it can be used

vars == <<consumed, view>>

Least(a, b) == IF a < b THEN a ELSE b

NextBytes(n) == [i \in 1..Least(Length - consumed, n) |-> consumed + i]

NothingSeen == [i \in 1..0 |-> 0]

Init == consumed = 0 /\ view = NothingSeen

(* Between the call of peek and its result there is no view.               *)
DropView == view' = NothingSeen /\ UNCHANGED consumed

Peek(n) == view' = NextBytes(n) /\ UNCHANGED consumed

Advance(n) ==
    /\ n <= Length - consumed
    /\ consumed' = consumed + n
    /\ UNCHANGED view

Next ==
    \/ DropView
    \/ \E n \in 1..MaxPeek : Peek(n)
    \/ \E n \in 0..Length : Advance(n)

Spec == Init /\ [][Next]_vars
=============================================================================
