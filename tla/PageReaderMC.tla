---------------------------- MODULE PageReaderMC ----------------------------
EXTENDS PageReader, SequencesExt

Sized(header, contents) ==
    [header |-> header, contents |-> contents, parses |-> TRUE, sized |-> TRUE]

Pages ==
    {Sized(header, contents) : header \in {1, 3, 5}, contents \in {0, 2, 3}}
        \cup {[Sized(3, 2) EXCEPT !.parses = FALSE],
              [Sized(3, 2) EXCEPT !.sized = FALSE]}

(* Pages one behind the other.                                             *)
Laid(chunk) ==
    FoldLeft(LAMBDA layout, page :
                 Append(layout, page @@ [at |-> IF layout = <<>> THEN 0
                                                ELSE PageEnd(Last(layout))]),
             <<>>, chunk)

(* Chunks of up to four pages that the source ends behind, or inside of.  *)
MCLayouts ==
    {layout \in {Laid(chunk) : chunk \in UNION {[1..n -> Pages] : n \in 2..4}} :
        PageEnd(Last(layout)) >= Length}

-----------------------------------------------------------------------------
(* Besides a page reader, a program that peeks and advances as it likes:   *)
(* pc is "other" then.                                                     *)
OtherInit ==
    /\ Init
    /\ pages = <<>>
    /\ pc = "other"
    /\ expected = ExpectedHeader
    /\ read = 0

OtherNext ==
    /\ pc = "other"
    /\ Next
    /\ UNCHANGED readerVars

AnyInit == ReaderInit \/ OtherInit

AnyNext == ReaderNext \/ OtherNext

AnySpec ==
    /\ AnyInit
    /\ [][AnyNext]_<<vars, readerVars>>
    /\ WF_<<vars, readerVars>>(ReaderNext)
=============================================================================
