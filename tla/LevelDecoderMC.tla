--------------------------- MODULE LevelDecoderMC ---------------------------
EXTENDS LevelDecoder, SequencesExt

CONSTANTS MaxLevels,  \* bound: the most levels in a source
          MaxCut,     \* bound: the most levels in one that is cut
          GroupSize

Enc == INSTANCE RleEncoder WITH
          Values <- {0, 1}, MaxGroups <- 7, GroupBytes <- 1, ValueBytes <- 1

Stream(levels) ==
    Enc!Flush(FoldLeft(LAMBDA e, v : Enc!PutValue(e, v),
                       Enc!NewEncoder(1000), levels)).runs

(* Where the values of a run begin in what the stream stands for.          *)
From(runs, k) == Len(Enc!Decode(SubSeq(runs, 1, k - 1)))

Laid(runs) ==
    [k \in DOMAIN runs |->
        [literal |-> runs[k].literal, value |-> runs[k].vals[1],
         from |-> From(runs, k),
         count |-> runs[k].count, present |-> runs[k].count]]

(* What the encoder of this library writes.                                *)
Encoded(levels) ==
    [coding |-> "rle", num |-> Len(levels),
     content |-> Enc!Decode(Stream(levels)), runs |-> Laid(Stream(levels))]

LevelSeqs(n) == UNION {[1..k -> {0, 1}] : k \in 0..n}

(* The decoder is given back what was encoded.                             *)
ASSUME EncodedRight ==
    \A levels \in LevelSeqs(MaxLevels) : Contents(Encoded(levels)) = levels

(* What other encoders may write as well: literals of several groups, runs *)
(* of no values, and sources with fewer levels than the page has.          *)
Part(literal, value, from, count) ==
    [literal |-> literal, value |-> value, from |-> from, count |-> count,
     present |-> count]

Foreign ==
    {[coding |-> "rle", num |-> num, content |-> <<0, 1, 1, 0, 2, 2, 2>>,
      runs |-> <<Part(TRUE, 0, 0, 4), Part(FALSE, 1, 4, 0), Part(TRUE, 0, 4, 0),
                 Part(FALSE, 2, 4, 3)>>] : num \in {6, 7, 9}}

Uncoded ==
    {[coding |-> "zero width", num |-> 3, content |-> <<0, 0, 0>>,
      runs |-> <<>>],
     [coding |-> "packed", num |-> 3, content |-> <<1, 0, 1, 0>>,
      runs |-> <<>>]}

IntactSources ==
    Uncoded \cup Foreign
        \cup {Encoded(levels) : levels \in LevelSeqs(MaxLevels)}

(* The buffer ends inside the last run, and the page says there is more.   *)
Cut(s, present) ==
    [s EXCEPT !.num = 2 * @,
              !.runs = [@ EXCEPT ![Len(s.runs)] =
                           [@ EXCEPT !.present = present]]]

CutSources ==
    UNION {{Cut(s, present) : present \in
               0..(IF s.runs[Len(s.runs)].literal
                   THEN s.runs[Len(s.runs)].count - 1 ELSE 0)} :
             s \in {r \in Foreign \cup {Encoded(l) : l \in LevelSeqs(MaxCut)} :
                       r.runs # <<>> /\ r.runs[Len(r.runs)].count > 0}}

AllSources == IntactSources \cup CutSources
=============================================================================
