-------------------------------- MODULE Table --------------------------------
(***************************************************************************)
(* What a file writer promises, seen column by column: the entries put     *)
(* into a column are cut, in order, into the column chunks of the row      *)
(* groups, and once the file is finished every entry is in a chunk.        *)
(***************************************************************************)
EXTENDS Naturals, Sequences

CONSTANTS Columns, Entry

VARIABLES
    chunks,    \* the chunks of each column a reader of the file would find
    open,      \* the entries of each column not in a chunk yet
    finished

vars == <<chunks, open, finished>>

Init ==
    /\ chunks = [i \in Columns |-> <<>>]
    /\ open = [i \in Columns |-> <<>>]
    /\ finished = FALSE

AddEntries(i) ==
    /\ ~finished
    /\ LET old == open[i]
           new == open'[i]
       IN  /\ Len(new) > Len(old)
           /\ new \in Seq(Entry)
           /\ SubSeq(new, 1, Len(old)) = old
           /\ open' = [open EXCEPT ![i] = new]
    /\ UNCHANGED <<chunks, finished>>

(* The oldest entries become a chunk; it may be empty.                     *)
CutChunk(i) ==
    /\ ~finished
    /\ Len(chunks'[i]) = Len(chunks[i]) + 1
    /\ \E k \in 0..Len(open[i]) :
          /\ chunks' = [chunks EXCEPT ![i] =
                          Append(@, SubSeq(open[i], 1, k))]
          /\ open' = [open EXCEPT ![i] = SubSeq(@, k + 1, Len(@))]
    /\ UNCHANGED finished

Finish ==
    /\ ~finished
    /\ finished' = TRUE
    /\ \A i \in Columns : open[i] = <<>>
    /\ UNCHANGED <<chunks, open>>

Next == (\E i \in Columns : AddEntries(i) \/ CutChunk(i)) \/ Finish

Spec == Init /\ [][Next]_vars
=============================================================================
