---------------------------- MODULE LevelDecoder ----------------------------
(***************************************************************************)
(* level_decoder (encoding.hh) and the RleDecoder it uses (rle_encoding.hh)*)
(* One step of Next is one round of the loop of RleDecoder::GetBatch.  The *)
(* runs of a source are given with the place of their values in what the   *)
(* source stands for, so that decoding can be compared with it.            *)
(***************************************************************************)
EXTENDS Integers, Sequences

CONSTANTS
    Sources,   \* the sources of levels
    MaxBatch   \* bound: the largest batch

(* A run stands for the `count' values of the content behind the first     *)
(* `from', and a repeated one for copies of `value'; the buffer holds      *)
(* `present' of them, which is all unless the buffer ends inside the run.  *)
Run == [literal : BOOLEAN, value : Nat, from : Nat, count : Nat, present : Nat]

(* The values of the content; num is num_values of the page header, and a  *)
(* source may hold more values (the padding of a group) or fewer.          *)
Source == [coding : {"zero width", "packed", "rle"}, num : Nat,
           content : Seq(Nat), runs : Seq(Run)]

RunsFollow(source) ==
    \A k \in DOMAIN source.runs :
        LET run == source.runs[k]
        IN  /\ run.from + run.count <= Len(source.content)
            /\ run.present <= run.count
            /\ k = 1 => run.from = 0
            /\ k + 1 \in DOMAIN source.runs =>
                  source.runs[k + 1].from = run.from + run.count
            /\ k = Len(source.runs) =>
                  Len(source.content) = run.from + run.count
            /\ ~run.literal =>
                  \A i \in 1..run.count :
                      source.content[run.from + i] = run.value

ASSUME SourcesAssumption ==
    /\ MaxBatch \in Nat \ {0}
    /\ Sources \subseteq Source
    /\ \A source \in Sources :
          /\ source.runs = <<>> /\ source.coding = "rle" => source.content = <<>>
          /\ source.coding = "zero width" =>
                /\ Len(source.content) = source.num
                /\ \A i \in 1..source.num : source.content[i] = 0
          /\ RunsFollow(source)

VARIABLES
    source,  \* the bytes of _decoder, and _num_values
    next,    \* the run whose indicator is read next
    cur,     \* current_value_
    rep,     \* repeat_count_
    lit,     \* literal_count_
    have,    \* values of the literal run that are ahead in the buffer
    want,    \* batch_size of the batch under way, 0 if there is none
    batch,   \* the values_read values of that batch
    out      \* the _values_read levels of the batches before

vars == <<source, next, cur, rep, lit, have, want, batch, out>>

Least(a, b) == IF a < b THEN a ELSE b

(* RleDecoder's constructor, and the members of level_decoder.             *)
Fresh(n, c, r, l, h, w, b, o) ==
    /\ n = 1 /\ c = 0 /\ r = 0 /\ l = 0 /\ h = 0
    /\ w = 0 /\ b = <<>> /\ o = <<>>

Init ==
    /\ source \in Sources
    /\ Fresh(next, cur, rep, lit, have, want, batch, out)

(* Fault: repeat_count_ is left as it was.                                 *)
ResetNotRepeats ==
    /\ want = 0
    /\ source' \in Sources
    /\ Fresh(next', cur', 0, lit', have', want', batch', out')
    /\ UNCHANGED rep

(* reset_v1 and reset_v2: a new RleDecoder or BitReader.                   *)
Reset ==
    /\ want = 0
    /\ source' \in Sources
    /\ Fresh(next', cur', rep', lit', have', want', batch', out')

-----------------------------------------------------------------------------
(* read_batch asks for no more than the page has.                          *)
Asked(n) == Least(n, source.num - Len(out))

Idle == want = 0

BeginBatch(n) ==
    /\ Idle
    /\ source.coding = "rle"
    /\ want' = Asked(n)
    /\ UNCHANGED <<source, next, cur, rep, lit, have, batch, out>>

(* Levels of no width are all zero, and packed ones are read from where    *)
(* the batch before ended.                                                 *)
ReadUncoded(n) ==
    /\ Idle
    /\ source.coding # "rle"
    /\ out' = SubSeq(source.content, 1,
                     Least(Len(out) + Asked(n), Len(source.content)))
    /\ UNCHANGED <<source, next, cur, rep, lit, have, want, batch>>

Remaining == want - Len(batch)

Return ==
    /\ out' = out \o batch
    /\ batch' = <<>>
    /\ want' = 0

BatchFull ==
    /\ want > 0
    /\ Remaining = 0
    /\ Return
    /\ UNCHANGED <<source, next, cur, rep, lit, have>>

TakeRepeats ==
    /\ Remaining > 0
    /\ rep > 0
    /\ LET taken == Least(Remaining, rep)
       IN  /\ batch' = batch \o [i \in 1..taken |-> cur]
           /\ rep' = rep - taken
    /\ UNCHANGED <<source, next, cur, lit, have, want, out>>

(* The literals not yet read are the last of their run.                    *)
Literals(n) ==
    LET run == source.runs[next - 1]
    IN  [i \in 1..n |-> source.content[run.from + run.count - lit + i]]

TakeLiterals ==
    /\ Remaining > 0
    /\ rep = 0 /\ lit > 0
    /\ LET taken == Least(Remaining, lit)
       IN  /\ taken <= have
           /\ batch' = batch \o Literals(taken)
           /\ lit' = lit - taken
           /\ have' = have - taken
    /\ UNCHANGED <<source, next, cur, rep, want, out>>

(* Fault: what was read of a run that is cut is kept, and read again.      *)
LiteralsCutKept ==
    /\ Remaining > 0
    /\ rep = 0 /\ lit > 0
    /\ have < Least(Remaining, lit)
    /\ out' = out \o batch \o Literals(have)
    /\ batch' = <<>> /\ want' = 0
    /\ UNCHANGED <<source, next, cur, rep, lit, have>>

(* The buffer ends before the literals do: what is left of it is read, but *)
(* not counted.                                                            *)
LiteralsCut ==
    /\ Remaining > 0
    /\ rep = 0 /\ lit > 0
    /\ have < Least(Remaining, lit)
    /\ have' = 0
    /\ Return
    /\ UNCHANGED <<source, next, cur, rep, lit>>

CountsUsed == Remaining > 0 /\ rep = 0 /\ lit = 0

NextLiteral ==
    /\ CountsUsed
    /\ next <= Len(source.runs)
    /\ source.runs[next].literal
    /\ lit' = source.runs[next].count
    /\ have' = source.runs[next].present
    /\ next' = next + 1
    /\ UNCHANGED <<source, cur, rep, want, batch, out>>

NextRepeated ==
    /\ CountsUsed
    /\ next <= Len(source.runs)
    /\ LET run == source.runs[next]
       IN  /\ ~run.literal
           /\ run.present = run.count
           /\ rep' = run.count
           /\ cur' = run.value
    /\ next' = next + 1
    /\ UNCHANGED <<source, lit, have, want, batch, out>>

(* The buffer ends between the indicator and the value: NextCounts fails,  *)
(* but repeat_count_ is set.                                               *)
RepeatedCut ==
    /\ CountsUsed
    /\ next <= Len(source.runs)
    /\ ~source.runs[next].literal
    /\ source.runs[next].present < source.runs[next].count
    /\ rep' = source.runs[next].count
    /\ next' = next + 1
    /\ Return
    /\ UNCHANGED <<source, cur, lit, have>>

(* Fault: the end of the buffer is not noticed.                            *)
NoMoreRunsUnseen ==
    /\ CountsUsed
    /\ next > Len(source.runs)
    /\ UNCHANGED vars

NoMoreRuns ==
    /\ CountsUsed
    /\ next > Len(source.runs)
    /\ Return
    /\ UNCHANGED <<source, next, cur, rep, lit, have>>

Round ==
    \/ BatchFull
    \/ TakeRepeats
    \/ TakeLiterals
    \/ LiteralsCut
    \/ NextLiteral
    \/ NextRepeated
    \/ RepeatedCut
    \/ NoMoreRuns

Next ==
    \/ Reset
    \/ \E n \in 1..MaxBatch : BeginBatch(n) \/ ReadUncoded(n)
    \/ Round

Spec == Init /\ [][Next]_vars

(* GetBatch is a loop: nothing keeps it from going on.                     *)
FairSpec == Spec /\ WF_vars(Round)

-----------------------------------------------------------------------------
(* A batch is no longer than asked for, nor the levels than num_values.    *)
TypeOK ==
    /\ source \in Sources
    /\ next \in 1..(Len(source.runs) + 1)
    /\ cur \in Nat /\ rep \in Nat /\ lit \in Nat /\ have \in Nat
    /\ want \in 0..MaxBatch
    /\ batch \in Seq(Nat) /\ Len(batch) <= want
    /\ out \in Seq(Nat) /\ Len(out) + want <= source.num

Intact(s) == \A k \in DOMAIN s.runs : s.runs[k].present = s.runs[k].count

ValueMissing(s) ==
    \E k \in DOMAIN s.runs : ~s.runs[k].literal
                                /\ s.runs[k].present < s.runs[k].count

(* The levels handed out are those the source stands for, in order and     *)
(* without a gap, whatever the sizes of the batches; in a buffer that ends *)
(* inside a group of literals too.                                         *)
GivenInOrder ==
    ~ValueMissing(source) =>
        \A i \in 1..Len(out \o batch) :
            /\ i <= Len(source.content)
            /\ (out \o batch)[i] = source.content[i]

(* The levels a source stands for.                                         *)
Contents(s) == SubSeq(s.content, 1, Least(s.num, Len(s.content)))

Reader ==
    INSTANCE BatchReader WITH
        Levels  <- Nat,
        content <- Contents(source),
        sound   <- Intact(source),
        given   <- out

(* Batches are full until the levels of the source are used up, and after a*)
(* reset none of them is of the source before.                             *)
ImplementsReader == Reader!Spec

(* Every batch comes back.                                                 *)
BatchesEnd == (want > 0) ~> (want = 0)
=============================================================================
