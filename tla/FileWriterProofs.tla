-------------------------- MODULE FileWriterProofs --------------------------
(***************************************************************************)
(* Whatever is put and flushed while chunks are being written:             *)
(* _file_offset, a sum of sizes computed apart from the writes, is the     *)
(* position in the sink when a chunk is placed; and the pages of a chunk   *)
(* can be decoded with the copy of the dictionary in front of them.        *)
(* A reader of the chunks finds the entries that were put, each once and   *)
(* in order; what a chunk's metadata says of it is true; and a closed file *)
(* holds all of them.  Therefore the writer implements the abstract table. *)
(***************************************************************************)
EXTENDS FileWriterProperties, SequenceLemmas

-----------------------------------------------------------------------------
(* Types.                                                                  *)

LEMMA PutIndexType ==
    ASSUME NEW e \in ValueEncoder, NEW v \in Data
    PROVE  PutIndex(e, v) \in ValueEncoder
<1> DEFINE new == IF v \in ToSet(e.entries) THEN e.entries
                                            ELSE Append(e.entries, v)
<1>1. e.entries \in Seq(Data) /\ e.indices \in Seq(Nat)
  BY DEF ValueEncoder
<1>2. new \in Seq(Data) /\ \E i \in 1..Len(new) : new[i] = v
  <2>1. CASE v \in ToSet(e.entries)
    BY <1>1, <2>1 DEF ToSet
  <2>2. CASE v \notin ToSet(e.entries)
    <3>1. Append(e.entries, v) \in Seq(Data)
          /\ Len(Append(e.entries, v)) = Len(e.entries) + 1
          /\ Append(e.entries, v)[Len(e.entries) + 1] = v
      BY <1>1
    <3>2. Len(e.entries) \in Nat
      BY <1>1
    <3>3. QED
      BY <2>2, <3>1, <3>2
  <2>3. QED
    BY <2>1, <2>2
<1> DEFINE i == CHOOSE i \in 1..Len(new) : new[i] = v
<1>3. i - 1 \in Nat
  <2>1. i \in 1..Len(new)
    BY <1>2
  <2> HIDE DEF i
  <2>2. QED
    BY <1>2, <2>1
<1> HIDE DEF i
<1>4. Append(e.indices, i - 1) \in Seq(Nat)
  BY <1>1, <1>3
<1>5. PutIndex(e, v) = [e EXCEPT !.entries = new,
                                 !.indices = Append(@, i - 1)]
  BY DEF PutIndex, i
<1> HIDE DEF new
<1>6. QED
  BY <1>2, <1>4, <1>5 DEF ValueEncoder

(* The encoders between the values of a batch.                             *)
LEMMA PutIndicesLoop ==
    ASSUME NEW e \in ValueEncoder, NEW vals \in Seq(Data)
    PROVE  \E f : /\ f[0] = e
                  /\ \A k \in 1..Len(vals) :
                        f[k] = PutIndex(f[k - 1], vals[k])
                  /\ PutIndices(e, vals) = f[Len(vals)]
<1> DEFINE n == Len(vals)
           Def(f, k) == IF k = 0 THEN e ELSE PutIndex(f[k - 1], vals[k])
           Upto(f, k) == f = [j \in 0..k |-> Def(f, j)]
           Loop == CHOOSE f : Upto(f, n)
<1>1. n \in Nat /\ \A k \in 1..n : vals[k] \in Data
  BY LenProperties
<1>2. PutIndices(e, vals) = Loop[n]
  BY DEF PutIndices
<1>3. \E f : Upto(f, n)
  <2> DEFINE S == {k \in 0..n : \E f : Upto(f, k)}
  <2>1. 0 \in S
    <3>1. Upto([j \in 0..0 |-> e], 0)
      OBVIOUS
    <3> HIDE DEF Upto
    <3>2. QED
      BY <1>1, <3>1
  <2>2. ASSUME NEW k \in 1..n, k - 1 \in S PROVE k \in S
    <3>1. PICK f : Upto(f, k - 1)
      BY <2>2
    <3> DEFINE g == [j \in 0..k |-> IF j < k THEN f[j]
                                    ELSE PutIndex(f[k - 1], vals[k])]
    <3>2. ASSUME NEW j \in 0..k PROVE g[j] = Def(g, j)
      <4>1. CASE j = 0
        BY <1>1, <3>1, <4>1
      <4>2. CASE j # 0 /\ j < k
        <5>1. j \in 0..(k - 1) /\ j - 1 \in 0..k /\ j - 1 < k
          BY <1>1, <4>2
        <5>2. g[j] = f[j] /\ g[j - 1] = f[j - 1]
          BY <4>2, <5>1
        <5>3. f[j] = Def(f, j)
          BY <3>1, <5>1
        <5>4. QED
          BY <4>2, <5>2, <5>3
      <4>3. CASE j = k
        BY <1>1, <4>3
      <4>4. QED
        BY <4>1, <4>2, <4>3
    <3>3. Upto(g, k)
      BY <3>2
    <3> HIDE DEF Upto, g
    <3>4. QED
      BY <3>3
  <2>3. QED
    <3>1. 0..n \subseteq S
      <4> HIDE DEF S, n
      <4>1. QED
        BY <1>1, <2>1, <2>2, UpTo, Zenon
    <3>2. n \in 0..n
      BY <1>1
    <3>3. QED
      BY <3>1, <3>2
<1>4. \A j \in 0..n : Loop[j] = Def(Loop, j)
  <2>1. Upto(Loop, n)
    BY <1>3
  <2> HIDE DEF Loop, Def
  <2>2. QED
    BY <2>1
<1> HIDE DEF Loop
<1>5. Loop[0] = e /\ \A k \in 1..n : Loop[k] = PutIndex(Loop[k - 1], vals[k])
  BY <1>1, <1>4
<1> HIDE DEF n
<1>6. QED
  BY <1>2, <1>5 DEF n

LEMMA PutIndicesType ==
    ASSUME NEW e \in ValueEncoder, NEW vals \in Seq(Data)
    PROVE  PutIndices(e, vals) \in ValueEncoder
<1> DEFINE n == Len(vals)
<1>1. PICK f : /\ f[0] = e
               /\ \A k \in 1..n : f[k] = PutIndex(f[k - 1], vals[k])
               /\ PutIndices(e, vals) = f[n]
  BY PutIndicesLoop
<1>2. n \in Nat /\ \A k \in 1..n : vals[k] \in Data
  BY LenProperties
<1> DEFINE S == {k \in 0..n : f[k] \in ValueEncoder}
<1>3. 0 \in S
  BY <1>1, <1>2
<1>4. ASSUME NEW k \in 1..n, k - 1 \in S PROVE k \in S
  BY <1>1, <1>2, <1>4, PutIndexType
<1>5. n \in S
  <2>1. 0..n \subseteq S
    <3> HIDE DEF S, n
    <3>1. QED
      BY <1>2, <1>3, <1>4, UpTo, Zenon
  <2>2. QED
    BY <1>2, <2>1
<1>6. QED
  BY <1>1, <1>5

-----------------------------------------------------------------------------
(* Encoders and column writers.                                            *)

LEMMA PutValuesType ==
    ASSUME NEW e \in ValueEncoder, NEW vals \in Seq(Data)
    PROVE  PutValues(e, vals) \in ValueEncoder
<1>1. CASE UsesDict(e)
  BY <1>1, PutIndicesType DEF PutValues
<1>2. CASE ~UsesDict(e)
  <2>1. e.plain \o vals \in Seq(Data)
    BY ConcatProperties DEF ValueEncoder
  <2>2. QED
    BY <1>2, <2>1 DEF PutValues, ValueEncoder
<1>3. QED
  BY <1>1, <1>2

LEMMA FlushedType ==
    ASSUME NEW e \in ValueEncoder
    PROVE  /\ Flushed(e) \in ValueEncoder
           /\ Encoded(e) \in [encoding : Encodings, data : Seq(Nat \cup Data)]
<1>1. e.indices \in Seq(Nat \cup Data) /\ e.plain \in Seq(Nat \cup Data)
  <2>1. e.indices \in Seq(Nat) /\ e.plain \in Seq(Data)
    BY DEF ValueEncoder
  <2>2. QED
    BY <2>1, SeqMonotonic
<1>2. Encoded(e) \in [encoding : Encodings, data : Seq(Nat \cup Data)]
  BY <1>1 DEF Encoded, Encodings
<1>3. <<>> \in Seq(Nat) /\ <<>> \in Seq(Data)
  OBVIOUS
<1>4. (Len(e.entries) > FallbackThreshold) \in BOOLEAN
  OBVIOUS
<1>5. Flushed(e) \in ValueEncoder
  BY <1>3, <1>4 DEF Flushed, ValueEncoder
<1>6. QED
  BY <1>2, <1>5

LEMMA NewColumnType ==
    ASSUME NEW maxDef \in Nat, NEW maxRep \in Nat, NEW dict \in BOOLEAN
    PROVE  NewColumn(maxDef, maxRep, dict) \in Column
<1>1. /\ <<>> \in Seq(Nat) /\ <<>> \in Seq(Data) /\ <<>> \in Seq(Level)
      /\ <<>> \in Seq(Page) /\ {} \in SUBSET Encodings
  OBVIOUS
<1>2. NewValueEncoder(dict) \in ValueEncoder
  BY <1>1 DEF NewValueEncoder, ValueEncoder
<1>3. QED
  BY <1>1, <1>2 DEF NewColumn, Column

(* A writer's maximum levels never change, nor does anything but a flush   *)
(* touch its pages.                                                        *)
SameLevels(c, d) == d.maxDef = c.maxDef /\ d.maxRep = c.maxRep

SamePages(c, d) == d.pages = c.pages /\ d.dict = c.dict

LEMMA PutType ==
    ASSUME NEW c \in Column, NEW def \in 0..c.maxDef,
           NEW rep \in 0..c.maxRep, NEW val \in Data
    PROVE  /\ Put(c, def, rep, val) \in Column
           /\ SameLevels(c, Put(c, def, rep, val))
           /\ SamePages(c, Put(c, def, rep, val))
<1>1. StoredLevel(c, def, rep) \in Level
  BY DEF StoredLevel, Level, Column
<1>2. Append(c.levels, StoredLevel(c, def, rep)) \in Seq(Level)
  BY <1>1 DEF Column
<1>3. PutValues(c.enc, <<val>>) \in ValueEncoder
  <2>1. <<val>> \in Seq(Data)
    OBVIOUS
  <2>2. c.enc \in ValueEncoder
    BY DEF Column
  <2>3. QED
    BY <2>1, <2>2, PutValuesType
<1> DEFINE levels == Append(c.levels, StoredLevel(c, def, rep))
           rows == IF c.maxRep = 0 \/ rep = 0 THEN c.rows + 1 ELSE c.rows
           enc == IF c.maxDef = 0 \/ def = c.maxDef
                  THEN PutValues(c.enc, <<val>>) ELSE c.enc
<1>4. rows \in Nat /\ enc \in ValueEncoder
  BY <1>3 DEF Column
<1>5. Put(c, def, rep, val) =
         [c EXCEPT !.levels = levels, !.rows = rows, !.enc = enc]
  BY DEF Put
<1> HIDE DEF levels, rows, enc
<1>6. QED
  BY <1>2, <1>4, <1>5 DEF Column, SameLevels, SamePages, levels

LEMMA CountUpto ==
    ASSUME NEW n \in Nat
    PROVE  IsFiniteSet(1..n) /\ Cardinality(1..n) = n
BY FS_Interval

LEMMA CountType ==
    ASSUME NEW n \in Nat, NEW S \in SUBSET (1..n)
    PROVE  IsFiniteSet(S) /\ Cardinality(S) \in Nat /\ Cardinality(S) <= n
<1>1. IsFiniteSet(1..n) /\ Cardinality(1..n) = n
  BY CountUpto
<1>2. QED
  BY <1>1, FS_Subset, FS_CardinalityType

(* Where no entry is null there are as many values as levels.              *)
LEMMA ValuesOfBatch ==
    ASSUME NEW c \in Column, c.maxDef = 0,
           NEW levels \in Seq(Level), NEW vals \in Seq(Data),
           \A k \in 1..Len(levels) : levels[k].def <= c.maxDef,
           Len(vals) = ValueCount(c.maxDef, levels)
    PROVE  Len(vals) = Len(levels)
<1>1. Len(levels) \in Nat
  BY LenProperties
<1>2. ASSUME NEW k \in 1..Len(levels) PROVE levels[k].def = 0
  <2>1. levels[k] \in Level
    BY ElementOfSeq
  <2>2. QED
    BY <2>1 DEF Level
<1>3. {i \in 1..Len(levels) : levels[i].def = c.maxDef} = 1..Len(levels)
  BY <1>2
<1>4. Cardinality(1..Len(levels)) = Len(levels)
  BY <1>1, CountUpto
<1>5. QED
  BY <1>3, <1>4 DEF ValueCount

LEMMA PutBatchType ==
    ASSUME NEW c \in Column, c.maxDef = 0,
           NEW levels \in Seq(Level), NEW vals \in Seq(Data),
           Len(vals) = Len(levels)
    PROVE  /\ PutBatch(c, levels, vals) \in Column
           /\ SameLevels(c, PutBatch(c, levels, vals))
           /\ SamePages(c, PutBatch(c, levels, vals))
<1> DEFINE n == BatchValueCount(c, levels)
           taken == [i \in 1..n |-> IF i <= Len(vals) THEN vals[i]
                                    ELSE Garbage]
           stored == [i \in 1..Len(levels) |->
                         StoredLevel(c, levels[i].def, levels[i].rep)]
           rows == IF c.maxRep = 0 THEN Len(levels)
                   ELSE Cardinality({i \in 1..Len(levels) :
                                        levels[i].rep = 0})
<1>1. Len(levels) \in Nat /\ n = Len(levels)
  BY LenProperties DEF BatchValueCount
<1>2. taken \in Seq(Data)
  <2>1. taken \in [1..n -> Data]
    BY <1>1
  <2>2. QED
    BY <1>1, <2>1
<1>3. c.levels \o stored \in Seq(Level)
  <2>1. ASSUME NEW i \in 1..Len(levels) PROVE levels[i] \in Level
    BY ElementOfSeq
  <2>2. stored \in [1..Len(levels) -> Level]
    BY <2>1 DEF StoredLevel, Level
  <2>3. stored \in Seq(Level)
    BY <1>1, <2>2
  <2>4. c.levels \in Seq(Level)
    BY DEF Column
  <2>5. QED
    BY <2>3, <2>4, ConcatProperties
<1>4. rows \in Nat
  BY <1>1, CountType
<1>5. PutValues(c.enc, taken) \in ValueEncoder
  <2>1. c.enc \in ValueEncoder
    BY DEF Column
  <2>2. QED
    BY <1>2, <2>1, PutValuesType
<1>6. PutBatch(c, levels, vals) =
         [c EXCEPT !.levels = @ \o stored, !.rows = @ + rows,
                   !.enc = PutValues(@, taken)]
  BY DEF PutBatch
<1> HIDE DEF taken, stored, rows
<1>7. c.rows + rows \in Nat
  BY <1>4 DEF Column
<1>8. QED
  BY <1>3, <1>5, <1>6, <1>7 DEF Column, SameLevels, SamePages

LEMMA FlushPageType ==
    ASSUME NEW c \in Column
    PROVE  /\ FlushPage(c) \in Column
           /\ SameLevels(c, FlushPage(c))
           /\ FlushPage(c).dict = c.dict
<1> DEFINE page == [levels |-> c.levels, values |-> Encoded(c.enc)]
<1>1. c.enc \in ValueEncoder /\ c.levels \in Seq(Level)
  BY DEF Column
<1>2. page \in Page /\ page.values.encoding \in Encodings
  BY <1>1, FlushedType DEF Page
<1>3. Append(c.pages, page) \in Seq(Page)
  BY <1>2 DEF Column
<1>4. Flushed(c.enc) \in ValueEncoder /\ <<>> \in Seq(Level)
  BY <1>1, FlushedType
<1>5. c.used \cup {page.values.encoding} \in SUBSET Encodings
  BY <1>2 DEF Column
<1>6. FlushPage(c) = [c EXCEPT !.pages = Append(@, page), !.levels = <<>>,
                               !.enc = Flushed(@),
                               !.used = @ \cup {page.values.encoding}]
  BY DEF FlushPage
<1> HIDE DEF page
<1>7. QED
  BY <1>3, <1>4, <1>5, <1>6 DEF Column, SameLevels

LEMMA FlushPendingType ==
    ASSUME NEW c \in Column
    PROVE  /\ FlushPending(c) \in Column
           /\ SameLevels(c, FlushPending(c))
           /\ FlushPending(c).dict = c.dict
BY FlushPageType DEF FlushPending, SameLevels

LEMMA FillDictionaryPageType ==
    ASSUME NEW c \in Column
    PROVE  /\ FillDictionaryPage(c) \in Column
           /\ SameLevels(c, FillDictionaryPage(c))
           /\ FillDictionaryPage(c).dict = c.enc.entries
           /\ FillDictionaryPage(c).pages = c.pages
BY DEF FillDictionaryPage, Column, ValueEncoder, SameLevels

LEMMA ClearPagesType ==
    ASSUME NEW c \in Column
    PROVE  ClearPages(c) \in Column /\ SameLevels(c, ClearPages(c))
<1>1. <<>> \in Seq(Page)
  OBVIOUS
<1>2. QED
  BY <1>1 DEF ClearPages, Column, SameLevels

LEMMA SizeType ==
    /\ \A page \in Page : UncompressedSize(page) \in Nat
    /\ \A size \in Nat : CompressedSize(size) \in Nat
                          /\ CompressedSize(size) > 0
    /\ \A s \in Seq(Data) : Len(s) \in Nat
<1>1. ASSUME NEW page \in Page PROVE UncompressedSize(page) \in Nat
  <2>1. page.levels \in Seq(Level) /\ page.values.data \in Seq(Nat \cup Data)
    BY DEF Page
  <2> DEFINE m == Len(page.levels)
             n == Len(page.values.data)
  <2>2. m \in Nat /\ n \in Nat
    BY <2>1, LenProperties
  <2>3. UncompressedSize(page) = m + n
    BY DEF UncompressedSize
  <2> HIDE DEF m, n
  <2>4. QED
    BY <2>2, <2>3
<1>2. ASSUME NEW size \in Nat
      PROVE  CompressedSize(size) \in Nat /\ CompressedSize(size) > 0
  BY DEF CompressedSize
<1>3. QED
  BY <1>1, <1>2, LenProperties

LEMMA EntriesType ==
    ASSUME NEW maxDef \in Nat, NEW levels \in Seq(Level),
           NEW vals \in Seq(Data), Len(vals) = ValueCount(maxDef, levels)
    PROVE  Entries(maxDef, levels, vals) \in Seq(Entry)
<1> DEFINE Rank(i) == Cardinality({j \in 1..i : levels[j].def = maxDef})
           entry == [i \in 1..Len(levels) |->
                        [def |-> levels[i].def, rep |-> levels[i].rep,
                         val |-> IF levels[i].def = maxDef
                                 THEN vals[Rank(i)] ELSE Null]]
<1>1. Len(levels) \in Nat
  BY LenProperties
<1>2. ASSUME NEW i \in 1..Len(levels), levels[i].def = maxDef
      PROVE  Rank(i) \in 1..Len(vals)
  <2> DEFINE S == {j \in 1..i : levels[j].def = maxDef}
             A == {j \in 1..Len(levels) : levels[j].def = maxDef}
  <2>1. S \in SUBSET A /\ A \in SUBSET (1..Len(levels)) /\ i \in S
    BY <1>1, <1>2
  <2>2. IsFiniteSet(A) /\ Cardinality(A) \in Nat
    BY <1>1, <2>1, CountType
  <2>3. IsFiniteSet(S) /\ Cardinality(S) <= Cardinality(A)
        /\ Cardinality(S) \in Nat
    BY <2>1, <2>2, FS_Subset, FS_CardinalityType
  <2>4. Cardinality(S) # 0
    BY <2>1, <2>3, FS_EmptySet
  <2>5. Len(vals) = Cardinality(A) /\ Rank(i) = Cardinality(S)
    BY DEF ValueCount
  <2> HIDE DEF S, A, Rank
  <2>6. QED
    BY <2>2, <2>3, <2>4, <2>5
<1>3. ASSUME NEW i \in 1..Len(levels) PROVE entry[i] \in Entry
  <2>1. levels[i] \in Level
    BY ElementOfSeq
  <2>2. levels[i].def = maxDef => vals[Rank(i)] \in Data
    BY <1>2, ElementOfSeq
  <2> HIDE DEF Rank
  <2>3. QED
    BY <2>1, <2>2 DEF Entry, Level
<1>4. entry \in Seq(Entry)
  <2> HIDE DEF Rank
  <2>1. entry \in [1..Len(levels) -> Entry]
    BY <1>3
  <2>2. QED
    BY <1>1, <2>1
<1>5. Entries(maxDef, levels, vals) = entry
  BY DEF Entries
<1>6. QED
  BY <1>4, <1>5

LEMMA TotalRowsType ==
    ASSUME groups \in Seq(RowGroup)
    PROVE  TotalRows \in Nat
<1> DEFINE n == Len(groups)
           Def(f, k) == IF k = 0 THEN 0 ELSE f[k - 1] + groups[k].rows
           Upto(f, k) == f = [j \in 0..k |-> Def(f, j)]
           Sum == CHOOSE f : Upto(f, n)
<1>1. n \in Nat /\ \A k \in 1..n : groups[k].rows \in Nat
  <2>1. n \in Nat
    BY LenProperties
  <2>2. ASSUME NEW k \in 1..n PROVE groups[k].rows \in Nat
    <3>1. groups[k] \in RowGroup
      BY ElementOfSeq
    <3>2. QED
      BY <3>1 DEF RowGroup
  <2>3. QED
    BY <2>1, <2>2
<1>2. TotalRows = Sum[n]
  BY DEF TotalRows
<1>3. \E f : Upto(f, n)
  <2> DEFINE S == {k \in 0..n : \E f : Upto(f, k)}
  <2>1. 0 \in S
    <3>1. Upto([j \in 0..0 |-> 0], 0)
      OBVIOUS
    <3> HIDE DEF Upto
    <3>2. QED
      BY <1>1, <3>1
  <2>2. ASSUME NEW k \in 1..n, k - 1 \in S PROVE k \in S
    <3>1. PICK f : Upto(f, k - 1)
      BY <2>2
    <3> DEFINE g == [j \in 0..k |-> IF j < k THEN f[j]
                                    ELSE f[k - 1] + groups[k].rows]
    <3>2. ASSUME NEW j \in 0..k PROVE g[j] = Def(g, j)
      <4>1. CASE j = 0
        BY <1>1, <3>1, <4>1
      <4>2. CASE j # 0 /\ j < k
        <5>1. j \in 0..(k - 1) /\ j - 1 \in 0..k /\ j - 1 < k
          BY <1>1, <4>2
        <5>2. g[j] = f[j] /\ g[j - 1] = f[j - 1]
          BY <4>2, <5>1
        <5>3. f[j] = Def(f, j)
          BY <3>1, <5>1
        <5>4. QED
          BY <4>2, <5>2, <5>3
      <4>3. CASE j = k
        BY <1>1, <4>3
      <4>4. QED
        BY <4>1, <4>2, <4>3
    <3>3. Upto(g, k)
      BY <3>2
    <3> HIDE DEF Upto, g
    <3>4. QED
      BY <3>3
  <2>3. QED
    <3>1. 0..n \subseteq S
      <4> HIDE DEF S, n
      <4>1. QED
        BY <1>1, <2>1, <2>2, UpTo, Zenon
    <3>2. n \in 0..n
      BY <1>1
    <3>3. QED
      BY <3>1, <3>2
<1>4. \A j \in 0..n : Sum[j] = Def(Sum, j)
  <2>1. Upto(Sum, n)
    BY <1>3
  <2> HIDE DEF Sum, Def
  <2>2. QED
    BY <2>1
<1> HIDE DEF Sum
<1>5. n \in {k \in 0..n : Sum[k] \in Nat}
  <2> DEFINE S == {k \in 0..n : Sum[k] \in Nat}
  <2>1. 0 \in S
    BY <1>1, <1>4
  <2>2. ASSUME NEW k \in 1..n, k - 1 \in S PROVE k \in S
    <3>1. Sum[k] = Sum[k - 1] + groups[k].rows
      BY <1>1, <1>4
    <3>2. QED
      BY <1>1, <2>2, <3>1
  <2>3. QED
    <3>1. 0..n \subseteq S
      <4> HIDE DEF S, n
      <4>1. QED
        BY <1>1, <2>1, <2>2, UpTo, Zenon
    <3>2. n \in 0..n
      BY <1>1
    <3>3. QED
      BY <3>1, <3>2
<1>6. QED
  BY <1>2, <1>5

-----------------------------------------------------------------------------
(* The invariant.                                                          *)

Kinds == {"magic", "dict", "header", "page", "meta", "footer"}

Accepted == [pos : Nat, size : Nat, kind : Kinds, body : Seq(Data) \cup Page]

ColumnsOK ==
    /\ cols \in Seq(Column) /\ Len(cols) = Len(Schema)
    /\ \A i \in Columns : SameLevels(Schema[i], cols[i])

SinkOK == sink \in Seq(Accepted) /\ written \in Nat

MetadataOK ==
    groups \in Seq(RowGroup) /\ offset \in Nat /\ numRows \in Nat

FiberOK ==
    /\ closed \in BOOLEAN
    /\ fiber \in [phase : Phases, col : Columns, page : Nat, last : Nat]
    /\ cmd \in ChunkMeta

(* The chunk being written belongs to the last row group; the dictionary,  *)
(* if it has one, is at its beginning; and the pages that are to be written*)
(* are those of the column.                                                *)
InChunk ==
    /\ fiber.phase \in {"chunk", "dict", "header", "body"} => Len(groups) > 0
    /\ fiber.phase = "dict" => cmd.dict = 0
    /\ fiber.phase \in {"header", "body"} =>
          /\ cmd.dict = 0 \/ (cmd.dict = NoOffset /\ cmd.data = 0)
          /\ fiber.page > 0
          /\ fiber.last = Len(cols[fiber.col].pages)
    /\ fiber.phase = "body" => fiber.page <= fiber.last

(* How far the sink is ahead of what has been added up.                    *)
Ahead ==
    /\ fiber.phase \in {"idle", "chunk", "footer"} => written = offset
    /\ fiber.phase = "dict" =>
          /\ written = offset + HeaderBytes
          /\ cmd.compressed = HeaderBytes
                                + CompressedSize(Len(cols[fiber.col].dict))
    /\ fiber.phase = "header" => written = offset + cmd.compressed
    /\ fiber.phase = "body" =>
          /\ written > offset
          /\ written + CompressedSize(UncompressedSize(CurrentPage))
                = offset + cmd.compressed
    /\ fiber.phase = "closed" => written = offset + 1

Placed ==
    /\ \A p \in AllMetas :
          /\ MetaBehindChunk(Meta(p))
          /\ Meta(p).file < offset
    /\ ChunksApart

FInv ==
    /\ ColumnsOK /\ SinkOK /\ MetadataOK /\ FiberOK
    /\ input \in [Columns -> Seq(Entry)]
    /\ InChunk /\ Ahead /\ Placed

LEMMA ColumnFacts ==
    ASSUME ColumnsOK, NEW i \in Columns
    PROVE  /\ cols[i] \in Column
           /\ cols[i].maxDef \in Nat /\ cols[i].maxRep \in Nat
           /\ cols[i].pages \in Seq(Page) /\ Len(cols[i].pages) \in Nat
           /\ cols[i].dict \in Seq(Data)
           /\ cols[i].enc \in ValueEncoder
<1>1. cols[i] \in Column
  BY ElementOfSeq DEF ColumnsOK, Columns
<1>2. QED
  BY <1>1, LenProperties DEF Column

LEMMA ColumnReplaced ==
    ASSUME ColumnsOK, NEW i \in Columns, NEW d \in Column,
           SameLevels(cols[i], d), cols' = [cols EXCEPT ![i] = d]
    PROVE  /\ ColumnsOK'
           /\ cols'[i] = d
           /\ \A j \in Columns : j # i => cols'[j] = cols[j]
<1>1. /\ cols' \in Seq(Column) /\ Len(cols') = Len(cols)
      /\ \A j \in 1..Len(cols) : cols'[j] = IF j = i THEN d ELSE cols[j]
  BY ExceptSeq DEF ColumnsOK, Columns
<1>2. \A j \in Columns : SameLevels(Schema[j], cols'[j])
  BY <1>1 DEF ColumnsOK, Columns, SameLevels
<1>3. QED
  BY <1>1, <1>2 DEF ColumnsOK, Columns

SinkGrows ==
    /\ Len(sink) \in Nat /\ Len(sink') \in Nat /\ Len(sink) <= Len(sink')
    /\ \A k \in 1..Len(sink) : sink'[k] = sink[k]

LEMMA WriteAppends ==
    ASSUME SinkOK, NEW kind \in Kinds, NEW n \in Nat,
           NEW body \in Seq(Data) \cup Page, Write(kind, n, body)
    PROVE  /\ SinkOK' /\ written' = written + n
           /\ SinkGrows /\ Len(sink') = Len(sink) + 1
           /\ sink'[Len(sink) + 1].pos = written
           /\ sink'[Len(sink) + 1].kind = kind
<1> DEFINE w == [pos |-> written, size |-> n, kind |-> kind, body |-> body]
<1>1. w \in Accepted /\ w.pos = written /\ w.kind = kind
  BY DEF SinkOK, Accepted
<1>2. sink' = Append(sink, w) /\ written' = written + n
  BY DEF Write
<1> HIDE DEF w
<1>3. /\ Len(sink) \in Nat /\ Len(sink') = Len(sink) + 1
      /\ \A k \in 1..Len(sink) : sink'[k] = sink[k]
      /\ sink'[Len(sink) + 1] = w /\ sink' \in Seq(Accepted)
  BY <1>1, <1>2, LenProperties, AppendProperties DEF SinkOK
<1>4. QED
  BY <1>1, <1>2, <1>3 DEF SinkOK, SinkGrows

LEMMA SameMetas ==
    ASSUME groups' = groups
    PROVE  AllMetas' = AllMetas /\ \A p \in AllMetas : Meta(p)' = Meta(p)
BY DEF AllMetas, Meta

(* Chunks that are in the metadata stay where they are.                    *)
LEMMA PlacedKept ==
    ASSUME Placed, offset' = offset, SinkGrows,
           AllMetas' = AllMetas, \A p \in AllMetas : Meta(p)' = Meta(p)
    PROVE  Placed'
<1>1. /\ AllMetas' = AllMetas
      /\ \A p \in AllMetas : Meta(p)' = Meta(p)
  OBVIOUS
<1>2. ASSUME NEW p \in AllMetas
      PROVE  MetaBehindChunk(Meta(p))' /\ (Meta(p).file < offset)'
  <2>1. PICK k \in 1..Len(sink) :
           sink[k].kind = "meta" /\ sink[k].pos = Meta(p).file
    BY DEF Placed, MetaBehindChunk
  <2>2. k \in 1..Len(sink') /\ sink'[k] = sink[k]
    BY <2>1 DEF SinkGrows
  <2>3. End(Meta(p)) = Meta(p).file /\ Meta(p).file < offset
    BY DEF Placed, MetaBehindChunk
  <2>4. QED
    BY <1>1, <2>1, <2>2, <2>3 DEF MetaBehindChunk, End, Start
<1>3. ChunksApart'
  BY <1>1 DEF Placed, ChunksApart, Start
<1>4. QED
  BY <1>1, <1>2, <1>3 DEF Placed

-----------------------------------------------------------------------------
(* The program's steps leave the chunk that is being written alone.        *)

LEMMA ChunkLeftAlone ==
    ASSUME FInv, ColumnsOK', UNCHANGED file,
           input' \in [Columns -> Seq(Entry)],
           \A j \in Columns :
              fiber.phase # "idle" /\ fiber.col = j =>
                 SamePages(cols[j], cols'[j])
    PROVE  FInv'
<1>1. /\ groups' = groups /\ offset' = offset /\ closed' = closed
      /\ numRows' = numRows /\ sink' = sink /\ written' = written
      /\ fiber' = fiber /\ cmd' = cmd
  BY DEF file
<1>2. SinkOK' /\ MetadataOK' /\ FiberOK'
  BY <1>1 DEF FInv, SinkOK, MetadataOK, FiberOK, ChunkMeta, RowGroup
<1>3. fiber.phase # "idle" =>
         /\ cols'[fiber.col].pages = cols[fiber.col].pages
         /\ cols'[fiber.col].dict = cols[fiber.col].dict
  BY DEF FInv, FiberOK, SamePages
<1>4. InChunk'
  BY <1>1, <1>3 DEF FInv, InChunk
<1>5. Ahead'
  BY <1>1, <1>3 DEF FInv, Ahead, CurrentPage, UncompressedSize
<1>6. Placed'
  <2>1. Len(sink) \in Nat
    BY LenProperties DEF FInv, SinkOK
  <2>2. SinkGrows
    BY <1>1, <2>1 DEF SinkGrows
  <2>3. QED
    BY <1>1, <2>2, SameMetas, PlacedKept DEF FInv
<1>7. QED
  BY <1>2, <1>4, <1>5, <1>6 DEF FInv

LEMMA PutEntryKeeps ==
    ASSUME FInv, NEW i \in Columns, PutEntry(i)
    PROVE  FInv'
<1>1. PICK def \in 0..cols[i].maxDef, rep \in 0..cols[i].maxRep, v \in Data :
         /\ cols' = [cols EXCEPT ![i] = Put(cols[i], def, rep, v)]
         /\ input' = [input EXCEPT ![i] = Append(@,
               [def |-> def, rep |-> rep,
                val |-> IF def = cols[i].maxDef THEN v ELSE Null])]
  BY DEF PutEntry
<1> DEFINE d == Put(cols[i], def, rep, v)
           entry == [def |-> def, rep |-> rep,
                     val |-> IF def = cols[i].maxDef THEN v ELSE Null]
<1>2. cols[i] \in Column /\ cols[i].maxDef \in Nat /\ cols[i].maxRep \in Nat
  BY ColumnFacts DEF FInv
<1>3. d \in Column /\ SameLevels(cols[i], d) /\ SamePages(cols[i], d)
  BY <1>2, PutType
<1>4. /\ ColumnsOK'
      /\ cols'[i] = d
      /\ \A j \in Columns : j # i => cols'[j] = cols[j]
  <2> HIDE DEF d
  <2>1. QED
    BY <1>1, <1>3, ColumnReplaced DEF FInv, d
<1>5. input' \in [Columns -> Seq(Entry)]
  <2>1. entry \in Entry
    BY <1>2 DEF Entry
  <2>2. input' = [input EXCEPT ![i] = Append(input[i], entry)]
    BY <1>1
  <2> HIDE DEF entry
  <2>3. Append(input[i], entry) \in Seq(Entry)
    BY <2>1, AppendProperties DEF FInv
  <2>4. QED
    BY <2>2, <2>3 DEF FInv
<1>6. \A j \in Columns : SamePages(cols[j], cols'[j])
  <2> HIDE DEF d
  <2>1. QED
    BY <1>3, <1>4 DEF SamePages
<1>7. QED
  BY <1>4, <1>5, <1>6, ChunkLeftAlone DEF PutEntry

LEMMA PutEntriesKeeps ==
    ASSUME FInv, NEW i \in Columns, PutEntries(i)
    PROVE  FInv'
<1>1. PICK batch \in Batches :
         /\ \A k \in 1..Len(batch.levels) :
               batch.levels[k].def <= cols[i].maxDef
         /\ Len(batch.vals) = ValueCount(cols[i].maxDef, batch.levels)
         /\ cols' = [cols EXCEPT ![i] =
                        PutBatch(cols[i], batch.levels, batch.vals)]
         /\ input' = [input EXCEPT ![i] =
               input[i] \o Entries(cols[i].maxDef, batch.levels, batch.vals)]
  BY DEF PutEntries
<1> DEFINE d == PutBatch(cols[i], batch.levels, batch.vals)
           entries == Entries(cols[i].maxDef, batch.levels, batch.vals)
<1>2. batch.levels \in Seq(Level) /\ batch.vals \in Seq(Data)
  BY BatchAssumption
<1>3. cols[i] \in Column /\ cols[i].maxDef = 0
  <2>1. Schema[i].maxDef = 0
    BY BatchAssumption DEF PutEntries
  <2>2. QED
    BY <2>1, ColumnFacts DEF FInv, ColumnsOK, SameLevels
<1>4. Len(batch.vals) = Len(batch.levels)
  BY <1>1, <1>2, <1>3, ValuesOfBatch
<1>5. d \in Column /\ SameLevels(cols[i], d) /\ SamePages(cols[i], d)
  BY <1>2, <1>3, <1>4, PutBatchType
<1>6. /\ ColumnsOK'
      /\ cols'[i] = d
      /\ \A j \in Columns : j # i => cols'[j] = cols[j]
  <2> HIDE DEF d
  <2>1. QED
    BY <1>1, <1>5, ColumnReplaced DEF FInv, d
<1>7. input' \in [Columns -> Seq(Entry)]
  <2>1. entries \in Seq(Entry)
    BY <1>1, <1>2, <1>3, EntriesType
  <2>2. input' = [input EXCEPT ![i] = input[i] \o entries]
    BY <1>1
  <2> HIDE DEF entries
  <2>3. input[i] \o entries \in Seq(Entry)
    BY <2>1, ConcatProperties DEF FInv
  <2>4. QED
    BY <2>2, <2>3 DEF FInv
<1>8. \A j \in Columns : SamePages(cols[j], cols'[j])
  <2> HIDE DEF d
  <2>1. QED
    BY <1>5, <1>6 DEF SamePages
<1>9. QED
  BY <1>6, <1>7, <1>8, ChunkLeftAlone DEF PutEntries

LEMMA FlushColumnPageKeeps ==
    ASSUME FInv, NEW i \in Columns, FlushColumnPage(i)
    PROVE  FInv'
<1> DEFINE d == FlushPage(cols[i])
<1>1. d \in Column /\ SameLevels(cols[i], d)
  BY ColumnFacts, FlushPageType DEF FInv
<1>2. /\ cols' = [cols EXCEPT ![i] = d]
      /\ fiber.phase # "idle" => fiber.col # i
      /\ UNCHANGED <<file, input>>
  BY DEF FlushColumnPage
<1> HIDE DEF d
<1>3. /\ ColumnsOK'
      /\ \A j \in Columns : j # i => cols'[j] = cols[j]
  BY <1>1, <1>2, ColumnReplaced DEF FInv
<1>4. \A j \in Columns :
         fiber.phase # "idle" /\ fiber.col = j => SamePages(cols[j], cols'[j])
  BY <1>2, <1>3 DEF SamePages
<1>5. input' \in [Columns -> Seq(Entry)]
  BY <1>2 DEF FInv
<1>6. QED
  BY <1>2, <1>3, <1>4, <1>5, ChunkLeftAlone

-----------------------------------------------------------------------------
(* The steps of the writer.                                                *)

LEMMA BeginRowGroupKeeps ==
    ASSUME FInv, fiber.phase = "idle", BeginRowGroup, closed' \in BOOLEAN
    PROVE  FInv'
<1> DEFINE group == [rows |-> cols[1].rows, bytes |-> 0, columns |-> <<>>]
<1>1. /\ groups' = Append(groups, group)
      /\ fiber' = [phase |-> "chunk", col |-> 1, page |-> 0, last |-> 0]
      /\ UNCHANGED <<cols, offset, numRows, sink, written, cmd, input>>
  BY DEF BeginRowGroup
<1>2. 1 \in Columns
  BY SchemaAssumption DEF Columns
<1>3. group \in RowGroup /\ group.columns = <<>>
  <2>1. cols[1] \in Column
    BY <1>2, ColumnFacts DEF FInv
  <2>2. <<>> \in Seq(ChunkMeta)
    OBVIOUS
  <2>3. QED
    BY <2>1, <2>2 DEF Column, RowGroup
<1> HIDE DEF group
<1>4. /\ groups' \in Seq(RowGroup) /\ Len(groups) \in Nat
      /\ Len(groups') = Len(groups) + 1
      /\ \A k \in 1..Len(groups) : groups'[k] = groups[k]
      /\ groups'[Len(groups) + 1] = group
  BY <1>1, <1>3, AppendProperties, LenProperties DEF FInv, MetadataOK
<1>5. ColumnsOK' /\ SinkOK' /\ MetadataOK' /\ FiberOK'
  BY <1>1, <1>2, <1>4
  DEF FInv, ColumnsOK, SinkOK, MetadataOK, FiberOK, ChunkMeta, RowGroup, Phases
<1>6. InChunk' /\ Ahead'
  BY <1>1, <1>4 DEF FInv, InChunk, Ahead
<1>7. Placed'
  <2>1. AllMetas' = AllMetas
    <3>1. ASSUME NEW p \in Columns \X (1..Len(groups'))
          PROVE  Len(groups'[p[2]].columns) >= p[1] =>
                    p[2] \in 1..Len(groups)
      <4>1. CASE p[2] = Len(groups) + 1
        BY <1>3, <1>4, <4>1 DEF Columns
      <4>2. CASE p[2] # Len(groups) + 1
        BY <1>4, <4>2
      <4>3. QED
        BY <4>1, <4>2
    <3>2. \A p \in Columns \X (1..Len(groups)) :
             groups'[p[2]] = groups[p[2]] /\ p \in Columns \X (1..Len(groups'))
      BY <1>4
    <3>3. QED
      BY <3>1, <3>2 DEF AllMetas
  <2>2. \A p \in AllMetas : Meta(p)' = Meta(p)
    BY <1>4 DEF AllMetas, Meta
  <2>3. SinkGrows
    BY <1>1, LenProperties DEF FInv, SinkOK, SinkGrows
  <2>4. QED
    BY <1>1, <2>1, <2>2, <2>3, PlacedKept DEF FInv
<1>8. QED
  BY <1>1, <1>5, <1>6, <1>7 DEF FInv

(* The members of the position in a chunk.                                 *)
LEMMA FiberFacts ==
    ASSUME FInv
    PROVE  /\ fiber.col \in Columns /\ fiber.phase \in Phases
           /\ fiber.page \in Nat /\ fiber.last \in Nat
           /\ cmd.compressed \in Nat /\ cmd.uncompressed \in Nat
           /\ cmd.data \in Nat /\ cmd.values \in Nat
           /\ cmd.encodings \in SUBSET Encodings
           /\ offset \in Nat /\ written \in Nat
BY DEF FInv, FiberOK, ChunkMeta, MetadataOK, SinkOK

LEMMA WriteDictKeeps ==
    ASSUME FInv, WriteDict
    PROVE  FInv'
<1> DEFINE c == cols[fiber.col]
<1>1. /\ fiber.phase = "dict"
      /\ Write("dict", CompressedSize(Len(c.dict)), c.dict)
      /\ fiber' = [fiber EXCEPT !.phase = "header", !.page = 1,
                                !.last = Len(c.pages)]
      /\ cmd' = [cmd EXCEPT !.data = cmd.compressed]
      /\ UNCHANGED <<cols, groups, offset, closed, numRows, input>>
  BY DEF WriteDict
<1>2. c.dict \in Seq(Data) /\ Len(c.pages) \in Nat
  BY FiberFacts, ColumnFacts DEF FInv
<1>3. CompressedSize(Len(c.dict)) \in Nat
  BY <1>2, SizeType
<1>4. /\ SinkOK' /\ written' = written + CompressedSize(Len(c.dict))
      /\ SinkGrows
  <2>1. SinkOK /\ Write("dict", CompressedSize(Len(c.dict)), c.dict)
        /\ c.dict \in Seq(Data) \cup Page /\ "dict" \in Kinds
    BY <1>1, <1>2 DEF FInv, Kinds
  <2>2. QED
    BY <1>3, <2>1, WriteAppends, Zenon
<1>5. ColumnsOK' /\ MetadataOK'
  BY <1>1 DEF FInv, ColumnsOK, MetadataOK, RowGroup
<1>6. FiberOK'
  BY <1>1, <1>2, FiberFacts DEF FInv, FiberOK, ChunkMeta, Phases
<1>7. InChunk'
  BY <1>1, <1>2, FiberFacts DEF FInv, InChunk, FiberOK, ChunkMeta
<1>8. Ahead'
  <2>1. /\ written = offset + 1
        /\ cmd.compressed = 1 + CompressedSize(Len(c.dict))
    BY <1>1 DEF FInv, Ahead, HeaderBytes
  <2>2. fiber'.phase = "header" /\ cmd'.compressed = cmd.compressed
    BY <1>1 DEF FInv, FiberOK, ChunkMeta
  <2> DEFINE stored == CompressedSize(Len(c.dict))
  <2> HIDE DEF stored
  <2>3. written' = offset' + cmd'.compressed
    BY <1>1, <1>3, <1>4, <2>1, <2>2, FiberFacts, SMTT(30) DEF stored
  <2>4. QED
    BY <2>2, <2>3 DEF Ahead
<1>9. Placed'
  BY <1>1, <1>4, SameMetas, PlacedKept DEF FInv
<1>10. QED
  BY <1>1, <1>4, <1>5, <1>6, <1>7, <1>8, <1>9 DEF FInv

(* A page that is to be written is one of the column's.                    *)
LEMMA PageWritten ==
    ASSUME FInv, fiber.phase \in {"header", "body"},
           fiber.page <= fiber.last
    PROVE  /\ CurrentPage \in Page
           /\ UncompressedSize(CurrentPage) \in Nat
           /\ CompressedSize(UncompressedSize(CurrentPage)) \in Nat
           /\ Len(CurrentPage.levels) \in Nat
<1>1. cols[fiber.col].pages \in Seq(Page)
  BY FiberFacts, ColumnFacts DEF FInv
<1>2. fiber.page \in 1..Len(cols[fiber.col].pages)
  BY FiberFacts DEF FInv, InChunk
<1>3. CurrentPage \in Page
  BY <1>1, <1>2, ElementOfSeq DEF CurrentPage
<1>4. Len(CurrentPage.levels) \in Nat
  BY <1>3, LenProperties DEF Page
<1>5. QED
  BY <1>3, <1>4, SizeType

LEMMA WriteHeaderKeeps ==
    ASSUME FInv, WriteHeader
    PROVE  FInv'
<1> DEFINE size == UncompressedSize(CurrentPage)
           stored == CompressedSize(size)
           levels == Len(CurrentPage.levels)
<1>1. /\ fiber.phase = "header" /\ fiber.page <= fiber.last
      /\ cmd' = [CountPage(cmd, size, stored) EXCEPT !.values = @ + levels]
      /\ Write("header", HeaderBytes, <<>>)
      /\ fiber' = [fiber EXCEPT !.phase = "body"]
      /\ UNCHANGED <<cols, groups, offset, closed, numRows, input>>
  BY DEF WriteHeader
<1>2. size \in Nat /\ stored \in Nat /\ levels \in Nat
  BY <1>1, PageWritten
<1>3. stored = CompressedSize(UncompressedSize(CurrentPage))'
  BY <1>1, FiberFacts
  DEF CurrentPage, UncompressedSize, FInv, FiberOK
<1>4. SinkOK' /\ written' = written + 1 /\ SinkGrows
  <2>1. SinkOK /\ Write("header", 1, <<>>) /\ 1 \in Nat
        /\ <<>> \in Seq(Data) \cup Page /\ "header" \in Kinds
    BY <1>1 DEF FInv, HeaderBytes, Kinds
  <2>2. QED
    BY <2>1, WriteAppends, Zenon
<1> HIDE DEF size, stored, levels
<1>5. ColumnsOK' /\ MetadataOK'
  BY <1>1 DEF FInv, ColumnsOK, MetadataOK, RowGroup
<1>6. /\ cmd' \in ChunkMeta /\ cmd'.compressed = cmd.compressed + 1 + stored
      /\ cmd'.data = cmd.data /\ cmd'.dict = cmd.dict
  <2> DEFINE meta == CountPage(cmd, size, stored)
  <2>1. cmd \in ChunkMeta
    BY DEF FInv, FiberOK
  <2>2. /\ meta \in ChunkMeta /\ meta.compressed = cmd.compressed + 1 + stored
        /\ meta.data = cmd.data /\ meta.dict = cmd.dict
    <3> DEFINE u == cmd.uncompressed + 1 + size
               k == cmd.compressed + 1 + stored
    <3>1. u \in Nat /\ k \in Nat
      BY <1>2, FiberFacts
    <3>2. meta = [cmd EXCEPT !.uncompressed = u, !.compressed = k]
      BY DEF CountPage, HeaderBytes
    <3> HIDE DEF u, meta
    <3>3. QED
      <4> HIDE DEF k
      <4>1. meta \in ChunkMeta /\ meta.compressed = k
            /\ meta.data = cmd.data /\ meta.dict = cmd.dict
        BY <2>1, <3>1, <3>2 DEF ChunkMeta
      <4>2. QED
        BY <4>1 DEF k
  <2> HIDE DEF meta
  <2>3. cmd' = [meta EXCEPT !.values = @ + levels]
    BY <1>1 DEF meta
  <2>4. QED
    BY <1>2, <2>2, <2>3 DEF ChunkMeta
<1>7. FiberOK'
  BY <1>1, <1>6 DEF FInv, FiberOK, ChunkMeta, Phases
<1>8. InChunk'
  BY <1>1, <1>6, FiberFacts DEF FInv, InChunk, FiberOK
<1>9. Ahead'
  <2>1. written = offset + cmd.compressed
    BY <1>1 DEF FInv, Ahead
  <2>2. fiber'.phase = "body"
    BY <1>1 DEF FInv, FiberOK
  <2>3. /\ written' + stored = offset' + cmd'.compressed
        /\ written' > offset'
    BY <1>1, <1>2, <1>4, <1>6, <2>1, FiberFacts, SMTT(30)
  <2>4. QED
    BY <1>3, <2>2, <2>3 DEF Ahead
<1>10. Placed'
  BY <1>1, <1>4, SameMetas, PlacedKept DEF FInv
<1>11. QED
  BY <1>1, <1>4, <1>5, <1>7, <1>8, <1>9, <1>10 DEF FInv

LEMMA WriteBodyKeeps ==
    ASSUME FInv, WriteBody
    PROVE  FInv'
<1> DEFINE stored == CompressedSize(UncompressedSize(CurrentPage))
<1>1. /\ fiber.phase = "body"
      /\ Write("page", stored, CurrentPage)
      /\ fiber' = [fiber EXCEPT !.phase = "header", !.page = @ + 1]
      /\ UNCHANGED <<cols, groups, offset, closed, numRows, cmd, input>>
  BY DEF WriteBody
<1>2. stored \in Nat /\ CurrentPage \in Page
  BY <1>1, PageWritten DEF FInv, InChunk
<1>3. SinkOK' /\ written' = written + stored /\ SinkGrows
  <2>1. SinkOK /\ Write("page", stored, CurrentPage)
        /\ CurrentPage \in Seq(Data) \cup Page /\ "page" \in Kinds
    BY <1>1, <1>2 DEF FInv, Kinds
  <2>2. QED
    BY <1>2, <2>1, WriteAppends, Zenon
<1>4. written + stored = offset + cmd.compressed
  BY <1>1 DEF FInv, Ahead
<1> HIDE DEF stored
<1>5. ColumnsOK' /\ MetadataOK'
  BY <1>1 DEF FInv, ColumnsOK, MetadataOK, RowGroup
<1>6. /\ fiber' \in [phase : Phases, col : Columns, page : Nat, last : Nat]
      /\ fiber'.phase = "header" /\ fiber'.col = fiber.col
      /\ fiber'.page = fiber.page + 1 /\ fiber'.last = fiber.last
  <2> DEFINE n == fiber.page + 1
  <2>1. n \in Nat
    BY FiberFacts
  <2>2. fiber' = [fiber EXCEPT !.phase = "header", !.page = n]
    BY <1>1
  <2> HIDE DEF n
  <2>3. /\ fiber' \in [phase : Phases, col : Columns, page : Nat, last : Nat]
        /\ fiber'.phase = "header" /\ fiber'.col = fiber.col
        /\ fiber'.page = n /\ fiber'.last = fiber.last
    BY <2>1, <2>2 DEF FInv, FiberOK, Phases
  <2>4. QED
    BY <2>3 DEF n
<1>7. FiberOK'
  BY <1>1, <1>6 DEF FInv, FiberOK, ChunkMeta
<1>8. InChunk' /\ Ahead'
  BY <1>1, <1>3, <1>4, <1>6, FiberFacts DEF FInv, InChunk, Ahead
<1>9. Placed'
  BY <1>1, <1>3, SameMetas, PlacedKept DEF FInv
<1>10. QED
  BY <1>1, <1>3, <1>5, <1>7, <1>8, <1>9 DEF FInv

LEMMA WriteFooterKeeps ==
    ASSUME FInv, WriteFooter
    PROVE  FInv'
<1>1. /\ fiber.phase = "footer"
      /\ numRows' = numRows + TotalRows
      /\ Write("footer", 1, <<>>)
      /\ fiber' = [fiber EXCEPT !.phase = "closed"]
      /\ UNCHANGED <<cols, groups, offset, closed, cmd, input>>
  BY DEF WriteFooter
<1>2. SinkOK' /\ written' = written + 1 /\ SinkGrows
  <2>1. SinkOK /\ Write("footer", 1, <<>>) /\ 1 \in Nat
        /\ <<>> \in Seq(Data) \cup Page /\ "footer" \in Kinds
    BY <1>1 DEF FInv, Kinds
  <2>2. QED
    BY <2>1, WriteAppends, Zenon
<1>3. MetadataOK'
  BY <1>1, TotalRowsType DEF FInv, MetadataOK, RowGroup
<1>4. ColumnsOK' /\ FiberOK'
  BY <1>1 DEF FInv, ColumnsOK, FiberOK, ChunkMeta, Phases
<1>5. InChunk' /\ Ahead'
  BY <1>1, <1>2, FiberFacts DEF FInv, InChunk, Ahead, FiberOK
<1>6. Placed'
  BY <1>1, <1>2, SameMetas, PlacedKept DEF FInv
<1>7. QED
  BY <1>1, <1>2, <1>3, <1>4, <1>5, <1>6 DEF FInv

LEMMA OpenChunkKeeps ==
    ASSUME FInv, OpenChunk
    PROVE  FInv'
<1> DEFINE i == fiber.col
           c == FlushPending(cols[i])
           d == FillDictionaryPage(c)
           fresh == [NoChunk EXCEPT !.encodings = c.used]
           size == Len(c.enc.entries)
           stored == CompressedSize(size)
<1>1. /\ fiber.phase = "chunk"
      /\ UNCHANGED <<groups, offset, closed, numRows, input>>
  BY DEF OpenChunk
<1>2. i \in Columns /\ cols[i] \in Column
  BY FiberFacts, ColumnFacts DEF FInv
<1>3. c \in Column /\ SameLevels(cols[i], c)
  BY <1>2, FlushPendingType
<1>4. written = offset /\ Len(groups) > 0
  BY <1>1 DEF FInv, InChunk, Ahead
<1>5. /\ fresh \in ChunkMeta /\ fresh.compressed = 0
      /\ fresh.uncompressed = 0 /\ fresh.dict = NoOffset /\ fresh.data = 0
  BY <1>3 DEF NoChunk, ChunkMeta, Column
<1>6. size \in Nat /\ stored \in Nat
  <2>1. c.enc.entries \in Seq(Data)
    BY <1>3 DEF Column, ValueEncoder
  <2>2. QED
    BY <2>1, SizeType
<1>7. MetadataOK' /\ input' \in [Columns -> Seq(Entry)]
  BY <1>1 DEF FInv, MetadataOK, RowGroup
<1>8. CASE HasDict(c.enc)
  <2>1. /\ cols' = [cols EXCEPT ![i] = d]
        /\ cmd' = CountPage([fresh EXCEPT !.dict = 0], size, stored)
        /\ Write("header", HeaderBytes, <<>>)
        /\ fiber' = [fiber EXCEPT !.phase = "dict"]
    BY <1>8 DEF OpenChunk
  <2>2. d \in Column /\ SameLevels(cols[i], d) /\ Len(d.dict) = size
    BY <1>3, FillDictionaryPageType DEF SameLevels
  <2>3. SinkOK' /\ written' = written + 1 /\ SinkGrows
    <3>1. SinkOK /\ Write("header", 1, <<>>) /\ 1 \in Nat
          /\ <<>> \in Seq(Data) \cup Page /\ "header" \in Kinds
      BY <2>1 DEF FInv, HeaderBytes, Kinds
    <3>2. QED
      BY <3>1, WriteAppends, Zenon
  <2>4. cmd' \in ChunkMeta /\ cmd'.dict = 0 /\ cmd'.compressed = 1 + stored
    <3> DEFINE meta == [fresh EXCEPT !.dict = 0]
               u == meta.uncompressed + 1 + size
               k == meta.compressed + 1 + stored
    <3> HIDE DEF fresh, size, stored
    <3>1. /\ meta \in ChunkMeta /\ meta.compressed = 0
          /\ meta.uncompressed = 0 /\ meta.dict = 0
      BY <1>5 DEF ChunkMeta
    <3>2. cmd' = [meta EXCEPT !.uncompressed = u, !.compressed = k]
      BY <2>1 DEF CountPage, HeaderBytes
    <3> HIDE DEF meta
    <3>3. u \in Nat /\ k = 1 + stored /\ k \in Nat
      BY <1>6, <3>1
    <3> HIDE DEF u, k
    <3>4. cmd' \in ChunkMeta /\ cmd'.dict = 0 /\ cmd'.compressed = k
      BY <3>1, <3>2, <3>3 DEF ChunkMeta
    <3>5. QED
      BY <3>3, <3>4
  <2> HIDE DEF d, c, fresh, size, stored
  <2>5. ColumnsOK' /\ cols'[i] = d
    BY <1>2, <2>1, <2>2, ColumnReplaced DEF FInv
  <2>6. /\ fiber' \in [phase : Phases, col : Columns, page : Nat, last : Nat]
        /\ fiber'.phase = "dict" /\ fiber'.col = i
    BY <2>1 DEF FInv, FiberOK, Phases
  <2>7. FiberOK'
    BY <1>1, <2>4, <2>6 DEF FInv, FiberOK, ChunkMeta
  <2>8. InChunk'
    BY <1>1, <1>4, <2>4, <2>6 DEF InChunk
  <2>9. Ahead'
    <3>1. CompressedSize(Len(cols'[fiber'.col].dict)) = stored
      BY <2>2, <2>5, <2>6 DEF stored
    <3>2. QED
      BY <1>1, <1>4, <2>3, <2>4, <2>6, <3>1 DEF Ahead, HeaderBytes
  <2>10. Placed'
    BY <1>1, <2>3, SameMetas, PlacedKept DEF FInv
  <2>11. QED
    BY <1>7, <2>3, <2>5, <2>7, <2>8, <2>9, <2>10 DEF FInv
<1>9. CASE ~HasDict(c.enc)
  <2>1. /\ cols' = [cols EXCEPT ![i] = c]
        /\ cmd' = fresh
        /\ fiber' = [fiber EXCEPT !.phase = "header", !.page = 1,
                                  !.last = Len(c.pages)]
        /\ UNCHANGED <<sink, written>>
    BY <1>9 DEF OpenChunk
  <2> HIDE DEF c, fresh
  <2>2. ColumnsOK' /\ cols'[i] = c
    BY <1>2, <1>3, <2>1, ColumnReplaced DEF FInv
  <2>3. SinkOK'
    BY <2>1 DEF FInv, SinkOK
  <2>4. Len(c.pages) \in Nat
    BY <1>3, LenProperties DEF Column
  <2>5. /\ fiber' \in [phase : Phases, col : Columns, page : Nat, last : Nat]
        /\ fiber'.phase = "header" /\ fiber'.col = i
        /\ fiber'.page = 1 /\ fiber'.last = Len(c.pages)
    BY <2>1, <2>4 DEF FInv, FiberOK, Phases
  <2>6. FiberOK'
    BY <1>1, <1>5, <2>1, <2>5 DEF FInv, FiberOK, ChunkMeta
  <2>7. InChunk'
    BY <1>1, <1>4, <1>5, <2>1, <2>2, <2>5 DEF InChunk
  <2>8. Ahead'
    BY <1>1, <1>4, <1>5, <2>1, <2>5, FiberFacts DEF Ahead
  <2>9. Placed'
    <3>1. SinkGrows
      BY <2>1, LenProperties DEF FInv, SinkOK, SinkGrows
    <3>2. QED
      BY <1>1, <3>1, SameMetas, PlacedKept DEF FInv
  <2>10. QED
    BY <1>7, <2>2, <2>3, <2>6, <2>7, <2>8, <2>9 DEF FInv
<1>10. QED
  BY <1>8, <1>9

(* The chunk's place is that of the first of its pages, and its own        *)
(* metadata follows the last.                                              *)
LEMMA CloseChunkKeeps ==
    ASSUME FInv, CloseChunk
    PROVE  FInv'
<1> DEFINE i == fiber.col
           n == Len(groups)
           group == groups[n]
           meta == [cmd EXCEPT !.file = offset + cmd.compressed,
                               !.data = @ + offset,
                               !.dict = IF @ = NoOffset THEN @
                                        ELSE @ + offset]
           longer == [group EXCEPT !.columns = Append(@, meta),
                                   !.bytes = @ + cmd.compressed + MetaBytes]
           new == <<Len(group.columns) + 1, n>>
<1>1. /\ fiber.phase = "header" /\ fiber.page > fiber.last
      /\ cols' = [cols EXCEPT ![i] = ClearPages(cols[i])]
      /\ groups' = [groups EXCEPT ![n] = longer]
      /\ offset' = offset + cmd.compressed + 1
      /\ Write("meta", 1, <<>>)
      /\ fiber' = IF fiber.col < Len(Schema)
                  THEN [fiber EXCEPT !.phase = "chunk", !.col = fiber.col + 1]
                  ELSE [fiber EXCEPT !.phase = AfterGroup]
      /\ UNCHANGED <<closed, numRows, cmd, input>>
  BY DEF CloseChunk, AfterChunk, MetaBytes
<1>2. i \in Columns /\ cols[i] \in Column
  BY FiberFacts, ColumnFacts DEF FInv
<1>3. written = offset + cmd.compressed
  BY <1>1 DEF FInv, Ahead
<1>4. ColumnsOK'
  <2>1. ClearPages(cols[i]) \in Column
        /\ SameLevels(cols[i], ClearPages(cols[i]))
    BY <1>2, ClearPagesType
  <2>2. QED
    BY <1>1, <1>2, <2>1, ColumnReplaced DEF FInv
<1>5. /\ SinkOK' /\ written' = written + 1 /\ SinkGrows
      /\ Len(sink') = Len(sink) + 1
      /\ sink'[Len(sink) + 1].kind = "meta"
      /\ sink'[Len(sink) + 1].pos = written
  <2>1. SinkOK /\ Write("meta", 1, <<>>) /\ 1 \in Nat
        /\ <<>> \in Seq(Data) \cup Page /\ "meta" \in Kinds
    BY <1>1 DEF FInv, Kinds
  <2>2. QED
    BY <2>1, WriteAppends, Zenon
<1>6. /\ meta \in ChunkMeta /\ meta.file = offset + cmd.compressed
      /\ Start(meta) = offset /\ End(meta) = meta.file
  <2> DEFINE end == offset + cmd.compressed
             data == cmd.data + offset
             dict == IF cmd.dict = NoOffset THEN NoOffset
                     ELSE cmd.dict + offset
  <2>1. cmd.dict = 0 \/ (cmd.dict = NoOffset /\ cmd.data = 0)
    BY <1>1 DEF FInv, InChunk
  <2>2. /\ end \in Nat /\ data \in Nat
        /\ dict = offset \/ (dict = NoOffset /\ data = offset)
    BY <2>1, FiberFacts DEF NoOffset
  <2>3. cmd \in ChunkMeta
    BY DEF FInv, FiberOK
  <2>4. meta = [cmd EXCEPT !.file = end, !.data = data, !.dict = dict]
    OBVIOUS
  <2>5. dict \in Nat \cup {NoOffset}
    BY <2>2, FiberFacts
  <2> HIDE DEF end, data, dict, meta
  <2>6. /\ meta \in ChunkMeta /\ meta.file = end /\ meta.dict = dict
        /\ meta.data = data /\ meta.compressed = cmd.compressed
    BY <2>2, <2>3, <2>4, <2>5 DEF ChunkMeta
  <2>7. Start(meta) = offset
    <3>1. offset # NoOffset
      BY FiberFacts DEF NoOffset
    <3>2. QED
      BY <2>2, <2>6, <3>1 DEF Start
  <2>8. QED
    BY <2>6, <2>7 DEF End, end
<1>7. /\ n \in Nat /\ n > 0 /\ group \in RowGroup
      /\ group.columns \in Seq(ChunkMeta) /\ Len(group.columns) \in Nat
  <2>1. n \in Nat /\ n > 0
    BY <1>1, LenProperties DEF FInv, InChunk, MetadataOK
  <2>2. group \in RowGroup
    BY <2>1, ElementOfSeq DEF FInv, MetadataOK
  <2>3. group.columns \in Seq(ChunkMeta)
    BY <2>2 DEF RowGroup
  <2>4. QED
    BY <2>1, <2>2, <2>3, LenProperties
<1> HIDE DEF meta
<1>8. /\ longer \in RowGroup
      /\ Len(longer.columns) = Len(group.columns) + 1
      /\ \A k \in 1..Len(group.columns) :
            longer.columns[k] = group.columns[k]
      /\ longer.columns[Len(group.columns) + 1] = meta
  <2> DEFINE columns == Append(group.columns, meta)
             bytes == group.bytes + cmd.compressed + MetaBytes
  <2>1. bytes \in Nat
    BY <1>7, FiberFacts DEF RowGroup, MetaBytes
  <2>2. /\ columns \in Seq(ChunkMeta)
        /\ Len(columns) = Len(group.columns) + 1
        /\ \A k \in 1..Len(group.columns) : columns[k] = group.columns[k]
        /\ columns[Len(group.columns) + 1] = meta
    BY <1>6, <1>7, AppendProperties
  <2>3. longer = [group EXCEPT !.columns = columns, !.bytes = bytes]
    OBVIOUS
  <2> HIDE DEF columns, bytes, longer, group
  <2>4. longer \in RowGroup /\ longer.columns = columns
    BY <1>7, <2>1, <2>2, <2>3 DEF RowGroup
  <2>5. QED
    BY <2>2, <2>4
<1> HIDE DEF longer
<1>9. /\ groups' \in Seq(RowGroup) /\ Len(groups') = n
      /\ \A k \in 1..n : groups'[k] = IF k = n THEN longer ELSE groups[k]
  <2>1. n \in 1..Len(groups) /\ groups \in Seq(RowGroup)
    BY <1>7 DEF FInv, MetadataOK
  <2> HIDE DEF n
  <2>2. QED
    BY <1>1, <1>8, <2>1, ExceptSeq DEF n
<1>10. MetadataOK' /\ input' \in [Columns -> Seq(Entry)]
  <2>1. offset' \in Nat
    BY <1>1, FiberFacts
  <2>2. groups' \in Seq(RowGroup)' /\ numRows' \in Nat
    BY <1>1, <1>9 DEF FInv, MetadataOK, RowGroup, ChunkMeta
  <2>3. input' \in [Columns -> Seq(Entry)]
    BY <1>1 DEF FInv
  <2>4. QED
    BY <2>1, <2>2, <2>3 DEF MetadataOK
<1>11. /\ fiber' \in [phase : Phases, col : Columns, page : Nat, last : Nat]
       /\ fiber'.phase \in {"chunk", "idle", "footer"}
  <2>1. CASE fiber.col < Len(Schema)
    <3> DEFINE next == fiber.col + 1
    <3>1. next \in Columns
      BY <1>2, <2>1, SchemaAssumption, LenProperties DEF Columns
    <3>2. fiber' = [fiber EXCEPT !.phase = "chunk", !.col = next]
      BY <1>1, <2>1
    <3> HIDE DEF next
    <3>3. QED
      BY <3>1, <3>2 DEF FInv, FiberOK, Phases
  <2>2. CASE ~(fiber.col < Len(Schema))
    BY <1>1, <2>2 DEF FInv, FiberOK, Phases, AfterGroup
  <2>3. QED
    BY <2>1, <2>2
<1>12. FiberOK'
  BY <1>1, <1>11 DEF FInv, FiberOK, ChunkMeta
<1>13. InChunk' /\ Ahead'
  <2>1. written' = offset'
    BY <1>1, <1>3, <1>5, FiberFacts
  <2>2. QED
    BY <1>7, <1>9, <1>11, <2>1 DEF InChunk, Ahead
<1>14. ASSUME NEW p \in AllMetas'
       PROVE  \/ p \in AllMetas /\ Meta(p)' = Meta(p)
              \/ p = new /\ Meta(p)' = meta
  <2>1. p \in Columns \X (1..n) /\ Len(groups'[p[2]].columns) >= p[1]
    BY <1>9 DEF AllMetas
  <2>2. p[1] \in Columns /\ p[2] \in 1..n /\ p = <<p[1], p[2]>>
    BY <2>1
  <2>3. CASE p[2] # n
    <3>1. groups'[p[2]] = groups[p[2]]
      BY <1>9, <2>2, <2>3
    <3>2. QED
      BY <2>1, <3>1 DEF AllMetas, Meta
  <2>4. CASE p[2] = n
    <3>1. groups'[p[2]] = longer
      BY <1>9, <2>2, <2>4
    <3>2. CASE p[1] <= Len(group.columns)
      <4>1. p[1] \in 1..Len(group.columns)
        BY <2>2, <3>2 DEF Columns
      <4>2. Meta(p)' = Meta(p)
        BY <1>8, <2>4, <3>1, <4>1 DEF Meta
      <4>3. p \in AllMetas
        BY <1>7, <2>1, <2>2, <2>4, <3>2 DEF AllMetas, Columns
      <4>4. QED
        BY <4>2, <4>3
    <3>3. CASE p[1] > Len(group.columns)
      <4>1. p[1] = Len(group.columns) + 1
        BY <1>7, <1>8, <2>1, <2>2, <3>1, <3>3 DEF Columns
      <4>2. QED
        BY <1>8, <2>2, <2>4, <3>1, <4>1 DEF Meta
    <3>4. QED
      BY <1>7, <2>2, <3>2, <3>3 DEF Columns
  <2>5. QED
    BY <2>3, <2>4
<1>15. Placed'
  <2>1. ASSUME NEW p \in AllMetas', p \in AllMetas, Meta(p)' = Meta(p)
        PROVE  /\ MetaBehindChunk(Meta(p))'
               /\ Meta(p)'.file < offset /\ Meta(p).file < offset
    <3>1. PICK k \in 1..Len(sink) :
             sink[k].kind = "meta" /\ sink[k].pos = Meta(p).file
      BY <2>1 DEF FInv, Placed, MetaBehindChunk
    <3>2. k \in 1..Len(sink') /\ sink'[k] = sink[k]
      BY <1>5, <3>1 DEF SinkGrows
    <3>3. End(Meta(p)) = Meta(p).file /\ Meta(p).file < offset
      BY <2>1 DEF FInv, Placed, MetaBehindChunk
    <3>4. QED
      BY <2>1, <3>1, <3>2, <3>3 DEF MetaBehindChunk, End, Start
  <2>2. ASSUME NEW p \in AllMetas', Meta(p)' = meta
        PROVE  MetaBehindChunk(Meta(p))' /\ Meta(p)'.file < offset'
    <3>1. Len(sink) + 1 \in 1..Len(sink')
      BY <1>5 DEF SinkGrows
    <3>2. meta.file = written /\ meta.file < offset'
      BY <1>1, <1>3, <1>6, FiberFacts
    <3>3. QED
      BY <1>5, <1>6, <2>2, <3>1, <3>2 DEF MetaBehindChunk, End, Start
  <2>3. \A p \in AllMetas' : MetaBehindChunk(Meta(p))'
                             /\ Meta(p)'.file < offset'
    <3>1. ASSUME NEW p \in AllMetas', p \in AllMetas, Meta(p)' = Meta(p)
          PROVE  Meta(p)'.file < offset'
      <4>1. PICK j \in 1..Len(sink) : sink[j].pos = Meta(p).file
        BY <3>1 DEF FInv, Placed, MetaBehindChunk
      <4>2. sink[j] \in Accepted
        BY ElementOfSeq DEF FInv, SinkOK
      <4>3. Meta(p).file \in Nat
        BY <4>1, <4>2 DEF Accepted
      <4>4. QED
        BY <1>1, <2>1, <3>1, <4>3, FiberFacts
    <3>2. QED
      BY <1>14, <2>1, <2>2, <3>1
  <2>4. ASSUME NEW p \in AllMetas', NEW q \in AllMetas', p # q
        PROVE  \/ Meta(p)'.file < Start(Meta(q)')
               \/ Meta(q)'.file < Start(Meta(p)')
    <3>1. CASE /\ p \in AllMetas /\ Meta(p)' = Meta(p)
               /\ q \in AllMetas /\ Meta(q)' = Meta(q)
      BY <2>4, <3>1 DEF FInv, Placed, ChunksApart
    <3>2. CASE p \in AllMetas /\ Meta(p)' = Meta(p) /\ Meta(q)' = meta
      BY <1>6, <2>1, <3>2
    <3>3. CASE q \in AllMetas /\ Meta(q)' = Meta(q) /\ Meta(p)' = meta
      BY <1>6, <2>1, <3>3
    <3>4. QED
      BY <1>14, <2>4, <3>1, <3>2, <3>3
  <2>5. ChunksApart'
    BY <2>4 DEF ChunksApart, Start
  <2>6. QED
    BY <2>3, <2>5 DEF Placed
<1>16. QED
  BY <1>4, <1>5, <1>10, <1>12, <1>13, <1>15 DEF FInv

-----------------------------------------------------------------------------
LEMMA WriterStarts == Init => FInv
<1> SUFFICES ASSUME Init PROVE FInv
  OBVIOUS
<1>1. ASSUME NEW i \in Columns
      PROVE  Schema[i] \in [maxDef : Nat, maxRep : Nat, dict : BOOLEAN]
  BY SchemaAssumption, ElementOfSeq DEF Columns
<1>2. ASSUME NEW i \in Columns
      PROVE  cols[i] \in Column /\ SameLevels(Schema[i], cols[i])
  BY <1>1, NewColumnType DEF Init, NewColumn, SameLevels
<1>3. ColumnsOK
  <2>1. Len(Schema) \in Nat
    BY SchemaAssumption, LenProperties
  <2>2. cols \in [1..Len(Schema) -> Column]
    BY <1>2 DEF Init, Columns
  <2>3. QED
    BY <1>2, <2>1, <2>2 DEF ColumnsOK
<1>4. SinkOK
  BY DEF Init, SinkOK, Accepted, Kinds, MagicBytes
<1>5. MetadataOK /\ groups = <<>>
  BY DEF Init, MetadataOK, MagicBytes
<1>6. FiberOK
  <2>1. 1 \in Columns
    BY SchemaAssumption, LenProperties DEF Columns
  <2>2. cmd \in ChunkMeta
    BY DEF Init, NoChunk, ChunkMeta
  <2>3. QED
    BY <2>1, <2>2 DEF Init, FiberOK, Phases
<1>7. InChunk /\ Ahead
  BY DEF Init, InChunk, Ahead
<1>8. Placed
  <2>1. AllMetas = {}
    BY <1>5 DEF AllMetas
  <2>2. QED
    BY <2>1 DEF Placed, ChunksApart
<1>9. input \in [Columns -> Seq(Entry)]
  BY DEF Init
<1>10. QED
  BY <1>3, <1>4, <1>5, <1>6, <1>7, <1>8, <1>9 DEF FInv

LEMMA WriterKeeps == FInv /\ [Next]_vars => FInv'
<1> SUFFICES ASSUME FInv, [Next]_vars PROVE FInv'
  OBVIOUS
<1>1. ASSUME NEW i \in Columns, PutEntry(i) PROVE FInv'
  BY <1>1, PutEntryKeeps
<1>2. ASSUME NEW i \in Columns, PutEntries(i) PROVE FInv'
  BY <1>2, PutEntriesKeeps
<1>3. ASSUME NEW i \in Columns, FlushColumnPage(i) PROVE FInv'
  BY <1>3, FlushColumnPageKeeps
<1>4. CASE FlushRowGroup
  <2>1. fiber.phase = "idle" /\ BeginRowGroup /\ closed' = closed
    BY <1>4 DEF FlushRowGroup
  <2>2. closed \in BOOLEAN
    BY DEF FInv, FiberOK
  <2>3. QED
    BY <2>1, <2>2, BeginRowGroupKeeps
<1>5. CASE Close
  BY <1>5, BeginRowGroupKeeps DEF Close
<1>6. CASE Flushing
  BY <1>6, OpenChunkKeeps, WriteDictKeeps, WriteHeaderKeeps, WriteBodyKeeps,
     CloseChunkKeeps, WriteFooterKeeps DEF Flushing
<1>7. CASE UNCHANGED vars
  <2>1. /\ UNCHANGED file /\ cols' = cols /\ input' = input
    BY <1>7 DEF vars, file
  <2>2. ColumnsOK' /\ input' \in [Columns -> Seq(Entry)]
    BY <2>1 DEF FInv, ColumnsOK
  <2>3. \A j \in Columns : SamePages(cols[j], cols'[j])
    BY <2>1 DEF SamePages
  <2>4. QED
    BY <2>1, <2>2, <2>3, ChunkLeftAlone
<1>8. CASE Done
  BY <1>7, <1>8 DEF Done
<1>9. QED
  BY <1>1, <1>2, <1>3, <1>4, <1>5, <1>6, <1>7, <1>8 DEF Next

LEMMA WriterInvariance == Spec => []FInv
BY WriterStarts, WriterKeeps, PTL DEF Spec

-----------------------------------------------------------------------------
(* Columns, metadata and the write under way are well formed, whatever is  *)
(* put into a column and however the chunks are flushed.                   *)
THEOREM WriterTypeCorrect == Spec => []TypeOK
<1>1. FInv => TypeOK
  <2> SUFFICES ASSUME FInv PROVE TypeOK
    OBVIOUS
  <2>1. ASSUME NEW k \in 1..Len(sink)
        PROVE  sink[k].pos \in Nat /\ sink[k].size \in Nat
    <3>1. sink[k] \in Accepted
      BY ElementOfSeq DEF FInv, SinkOK
    <3>2. QED
      BY <3>1 DEF Accepted
  <2>2. QED
    BY <2>1 DEF FInv, TypeOK, ColumnsOK, SinkOK, MetadataOK, FiberOK
<1>2. QED
  BY <1>1, WriterInvariance, PTL

(* The sum of sizes the writer keeps is the position of its sink when a    *)
(* chunk is placed; so the chunks of every file lie apart, each followed by*)
(* its ColumnMetaData where file_offset says.                              *)
THEOREM OffsetIsPositionHolds == Spec => []OffsetIsPosition
<1>1. FInv => OffsetIsPosition
  <2> SUFFICES ASSUME FInv PROVE OffsetIsPosition
    OBVIOUS
  <2>1. InStepWithSink
    <3>1. CASE fiber.phase \in {"idle", "chunk", "footer", "header"}
      BY <3>1 DEF FInv, Ahead, InStepWithSink
    <3>2. CASE fiber.phase \in {"dict", "closed"}
      BY <3>2, FiberFacts DEF FInv, Ahead, InStepWithSink, HeaderBytes
    <3>3. CASE fiber.phase = "body"
      BY <3>3 DEF FInv, Ahead, InStepWithSink
    <3>4. QED
      BY <3>1, <3>2, <3>3, FiberFacts DEF Phases
  <2>2. QED
    BY <2>1 DEF FInv, Placed, OffsetIsPosition
<1>2. QED
  BY <1>1, WriterInvariance, PTL

-----------------------------------------------------------------------------
(* Pages and dictionaries.  Every index is that of an entry the dictionary *)
(* has when the index is made, and entries are never taken away.           *)

IndicesHaveEntries(e) ==
    \A k \in 1..Len(e.indices) : e.indices[k] < Len(e.entries)

EncoderSound(e) ==
    /\ IndicesHaveEntries(e)
    /\ UsesDict(e) => e.plain = <<>>
    /\ ~UsesDict(e) => e.indices = <<>>

PageSound(c, page) ==
    /\ PageReadable(c.maxDef, c.enc.entries, page)
    /\ page.values.encoding = "RLE_DICTIONARY" =>
          HasDict(c.enc) /\ page.values.data \in Seq(Nat)

ColumnSound(c) ==
    /\ EncoderSound(c.enc)
    /\ \A k \in 1..Len(c.levels) : c.levels[k].def <= c.maxDef
    /\ Len(Encoded(c.enc).data) = ValueCount(c.maxDef, c.levels)
    /\ \A k \in 1..Len(c.pages) : PageSound(c, c.pages[k])

(* A later encoder: nothing but values has been added.                     *)
Grown(e, f, n) ==
    /\ f.dict = e.dict /\ f.fallen = e.fallen
    /\ Len(f.entries) >= Len(e.entries)
    /\ Len(f.indices) = Len(e.indices) + n
    /\ f.plain = e.plain
    /\ IndicesHaveEntries(f)

LEMMA EncoderLengths ==
    ASSUME NEW e \in ValueEncoder
    PROVE  /\ Len(e.entries) \in Nat /\ Len(e.indices) \in Nat
           /\ Len(e.plain) \in Nat
           /\ \A k \in 1..Len(e.indices) : e.indices[k] \in Nat
<1>1. e.entries \in Seq(Data) /\ e.indices \in Seq(Nat) /\ e.plain \in Seq(Data)
  BY DEF ValueEncoder
<1>2. QED
  BY <1>1, LenProperties, ElementOfSeq

LEMMA PutIndexGrows ==
    ASSUME NEW e \in ValueEncoder, NEW v \in Data, IndicesHaveEntries(e)
    PROVE  Grown(e, PutIndex(e, v), 1)
<1> DEFINE new == IF v \in ToSet(e.entries) THEN e.entries
                                            ELSE Append(e.entries, v)
           i == CHOOSE i \in 1..Len(new) : new[i] = v
           indices == Append(e.indices, i - 1)
<1>1. e.entries \in Seq(Data) /\ e.indices \in Seq(Nat)
  BY DEF ValueEncoder
<1>2. /\ Len(new) \in Nat /\ Len(new) >= Len(e.entries)
      /\ \E k \in 1..Len(new) : new[k] = v
  <2>1. Len(e.entries) \in Nat
    BY <1>1, LenProperties
  <2>2. CASE v \in ToSet(e.entries)
    BY <1>1, <2>1, <2>2 DEF ToSet
  <2>3. CASE v \notin ToSet(e.entries)
    <3>1. Len(Append(e.entries, v)) = Len(e.entries) + 1
          /\ Append(e.entries, v)[Len(e.entries) + 1] = v
      BY <1>1, AppendProperties
    <3>2. QED
      BY <2>1, <2>3, <3>1
  <2>4. QED
    BY <2>2, <2>3
<1>3. i \in 1..Len(new)
  BY <1>2
<1> HIDE DEF i, new
<1>4. i - 1 \in Nat /\ i - 1 < Len(new)
  BY <1>2, <1>3
<1>5. /\ Len(e.indices) \in Nat
      /\ Len(indices) = Len(e.indices) + 1
      /\ \A k \in 1..Len(e.indices) : indices[k] = e.indices[k]
      /\ indices[Len(e.indices) + 1] = i - 1
  BY <1>1, <1>4, AppendProperties, LenProperties
<1>6. PutIndex(e, v) = [e EXCEPT !.entries = new, !.indices = indices]
  BY DEF PutIndex, i, new
<1> HIDE DEF indices
<1> DEFINE f == PutIndex(e, v)
<1>7. /\ f.entries = new /\ f.indices = indices /\ f.plain = e.plain
      /\ f.dict = e.dict /\ f.fallen = e.fallen
  BY <1>6 DEF ValueEncoder
<1>8. ASSUME NEW k \in 1..Len(indices) PROVE indices[k] < Len(new)
  <2>1. CASE k = Len(e.indices) + 1
    BY <1>4, <1>5, <2>1
  <2>2. CASE k # Len(e.indices) + 1
    <3>1. k \in 1..Len(e.indices)
      BY <1>5, <2>2
    <3>2. indices[k] = e.indices[k] /\ e.indices[k] < Len(e.entries)
          /\ e.indices[k] \in Nat /\ Len(e.entries) \in Nat
      BY <1>5, <3>1, EncoderLengths DEF IndicesHaveEntries
    <3>3. QED
      BY <1>2, <3>2
  <2>3. QED
    BY <2>1, <2>2
<1> HIDE DEF f
<1>9. Grown(e, f, 1)
  BY <1>2, <1>5, <1>7, <1>8 DEF Grown, IndicesHaveEntries
<1>10. QED
  BY <1>9 DEF f

LEMMA PutIndicesGrows ==
    ASSUME NEW e \in ValueEncoder, NEW vals \in Seq(Data),
           IndicesHaveEntries(e)
    PROVE  Grown(e, PutIndices(e, vals), Len(vals))
<1> DEFINE n == Len(vals)
<1>1. PICK f : /\ f[0] = e
               /\ \A k \in 1..n : f[k] = PutIndex(f[k - 1], vals[k])
               /\ PutIndices(e, vals) = f[n]
  BY PutIndicesLoop
<1>2. n \in Nat /\ \A k \in 1..n : vals[k] \in Data
  BY LenProperties
<1> DEFINE S == {k \in 0..n : f[k] \in ValueEncoder /\ Grown(e, f[k], k)}
<1>3. 0 \in S
  BY <1>1, <1>2, EncoderLengths DEF Grown
<1>4. ASSUME NEW k \in 1..n, k - 1 \in S PROVE k \in S
  <2> DEFINE g == f[k - 1]
  <2>1. g \in ValueEncoder /\ Grown(e, g, k - 1) /\ IndicesHaveEntries(g)
    BY <1>4 DEF Grown
  <2>2. f[k] = PutIndex(g, vals[k]) /\ vals[k] \in Data
    BY <1>1, <1>2
  <2> HIDE DEF g
  <2>3. f[k] \in ValueEncoder /\ Grown(g, f[k], 1)
    BY <2>1, <2>2, PutIndexType, PutIndexGrows
  <2>4. Grown(e, f[k], k)
    <3>1. /\ Len(e.entries) \in Nat /\ Len(g.entries) \in Nat
          /\ Len(f[k].entries) \in Nat /\ Len(e.indices) \in Nat
      BY <2>1, <2>3, EncoderLengths
    <3>2. Len(f[k].indices) = Len(e.indices) + k
      BY <2>1, <2>3, <3>1 DEF Grown
    <3>3. QED
      BY <2>1, <2>3, <3>1, <3>2 DEF Grown
  <2>5. QED
    BY <1>2, <2>3, <2>4
<1>5. n \in S
  <2>1. 0..n \subseteq S
    <3> HIDE DEF S, n
    <3>1. QED
      BY <1>2, <1>3, <1>4, UpTo, Zenon
  <2>2. QED
    BY <1>2, <2>1
<1>6. QED
  BY <1>1, <1>5

LEMMA PutValuesSound ==
    ASSUME NEW e \in ValueEncoder, NEW vals \in Seq(Data), EncoderSound(e)
    PROVE  /\ EncoderSound(PutValues(e, vals))
           /\ Len(PutValues(e, vals).entries) >= Len(e.entries)
           /\ HasDict(PutValues(e, vals)) = HasDict(e)
           /\ Len(Encoded(PutValues(e, vals)).data) =
                 Len(Encoded(e).data) + Len(vals)
<1>1. CASE UsesDict(e)
  <2> DEFINE f == PutIndices(e, vals)
  <2>1. PutValues(e, vals) = f /\ Grown(e, f, Len(vals))
    BY <1>1, PutIndicesGrows DEF PutValues, EncoderSound
  <2> HIDE DEF f
  <2>2. QED
    BY <1>1, <2>1 DEF Grown, EncoderSound, UsesDict, HasDict, Encoded
<1>2. CASE ~UsesDict(e)
  <2> DEFINE f == PutValues(e, vals)
             plain == e.plain \o vals
  <2>1. Len(plain) = Len(e.plain) + Len(vals)
    BY ConcatProperties DEF ValueEncoder
  <2>2. f = [e EXCEPT !.plain = plain]
    BY <1>2 DEF PutValues
  <2> HIDE DEF plain, f
  <2>3. /\ f.entries = e.entries /\ f.indices = e.indices
        /\ f.plain = plain /\ UsesDict(f) = UsesDict(e)
        /\ HasDict(f) = HasDict(e)
    BY <2>2 DEF ValueEncoder, UsesDict, HasDict
  <2>4. Len(f.entries) >= Len(e.entries)
    BY <2>3, EncoderLengths
  <2>5. EncoderSound(f)
    BY <1>2, <2>3 DEF EncoderSound, IndicesHaveEntries
  <2>6. Len(Encoded(f).data) = Len(Encoded(e).data) + Len(vals)
    BY <1>2, <2>1, <2>3 DEF Encoded
  <2>7. QED
    BY <2>3, <2>4, <2>5, <2>6 DEF f
<1>3. QED
  BY <1>1, <1>2

(* A page remains readable while entries are added.                        *)
LEMMA StillReadable ==
    ASSUME NEW page \in Page, NEW d \in Seq(Data), NEW e \in Seq(Data),
           Len(d) <= Len(e), NEW maxDef, PageReadable(maxDef, d, page),
           page.values.encoding = "RLE_DICTIONARY" =>
              page.values.data \in Seq(Nat)
    PROVE  PageReadable(maxDef, e, page)
<1>1. Len(d) \in Nat /\ Len(e) \in Nat
  BY LenProperties
<1>2. CASE page.values.encoding = "RLE_DICTIONARY"
  <2>1. ASSUME NEW k \in 1..Len(page.values.data)
        PROVE  page.values.data[k] < Len(e)
    <3>1. page.values.data[k] \in Nat /\ page.values.data[k] < Len(d)
      BY <1>2, ElementOfSeq DEF PageReadable, Decodable
    <3>2. QED
      BY <1>1, <3>1
  <2>2. QED
    BY <2>1 DEF PageReadable, Decodable
<1>3. CASE page.values.encoding # "RLE_DICTIONARY"
  BY <1>3 DEF PageReadable, Decodable
<1>4. QED
  BY <1>2, <1>3

LEMMA CountAppend ==
    ASSUME NEW levels \in Seq(Level), NEW l \in Level, NEW maxDef
    PROVE  ValueCount(maxDef, Append(levels, l)) =
              ValueCount(maxDef, levels) + (IF l.def = maxDef THEN 1 ELSE 0)
<1> DEFINE n == Len(levels)
           more == Append(levels, l)
           A == {i \in 1..n : levels[i].def = maxDef}
           B == {i \in 1..(n + 1) : more[i].def = maxDef}
<1>1. /\ n \in Nat /\ Len(more) = n + 1 /\ more[n + 1] = l
      /\ \A i \in 1..n : more[i] = levels[i]
  BY LenProperties, AppendProperties
<1>2. ValueCount(maxDef, more) = Cardinality(B)
      /\ ValueCount(maxDef, levels) = Cardinality(A)
  BY <1>1 DEF ValueCount
<1>3. B = IF l.def = maxDef THEN A \cup {n + 1} ELSE A
  <2> HIDE DEF more, n
  <2>1. \A i \in 1..(n + 1) : i \in 1..n \/ i = n + 1
    BY <1>1
  <2>2. n + 1 \notin 1..n /\ n + 1 \in 1..(n + 1)
    BY <1>1
  <2>3. \A i \in 1..n : i \in 1..(n + 1)
    BY <1>1
  <2>4. QED
    BY <1>1, <2>1, <2>2, <2>3
<1>4. /\ IsFiniteSet(A) /\ Cardinality(A) \in Nat
      /\ Cardinality(A \cup {n + 1}) = Cardinality(A) + 1
  <2>1. A \in SUBSET (1..n) /\ n + 1 \notin A
    BY <1>1
  <2>2. IsFiniteSet(A) /\ Cardinality(A) \in Nat
    BY <1>1, <2>1, CountType
  <2> HIDE DEF A, n
  <2>3. QED
    BY <2>1, <2>2, FS_AddElement
<1> HIDE DEF A, B, n, more
<1>5. QED
  BY <1>2, <1>3, <1>4 DEF more

(* Where the maximum level is 0 every entry has a value.                   *)
LEMMA CountAll ==
    ASSUME NEW levels \in Seq(Level),
           \A k \in 1..Len(levels) : levels[k].def <= 0
    PROVE  ValueCount(0, levels) = Len(levels)
<1>1. Len(levels) \in Nat
  BY LenProperties
<1>2. ASSUME NEW k \in 1..Len(levels) PROVE levels[k].def = 0
  <2>1. levels[k] \in Level
    BY ElementOfSeq
  <2>2. QED
    BY <2>1 DEF Level
<1>3. {i \in 1..Len(levels) : levels[i].def = 0} = 1..Len(levels)
  BY <1>2
<1>4. QED
  BY <1>1, <1>3, CountUpto DEF ValueCount

(* The pages a column has stay sound when values are added.                *)
LEMMA PagesStaySound ==
    ASSUME NEW c \in Column, NEW d \in Column, ColumnSound(c),
           d.pages = c.pages, d.maxDef = c.maxDef,
           Len(d.enc.entries) >= Len(c.enc.entries),
           HasDict(d.enc) = HasDict(c.enc)
    PROVE  \A k \in 1..Len(d.pages) : PageSound(d, d.pages[k])
<1>1. /\ c.pages \in Seq(Page)
      /\ c.enc.entries \in Seq(Data) /\ d.enc.entries \in Seq(Data)
  BY DEF Column, ValueEncoder
<1>2. ASSUME NEW k \in 1..Len(c.pages) PROVE PageSound(d, c.pages[k])
  <2> DEFINE page == c.pages[k]
  <2>1. page \in Page
    BY <1>1, ElementOfSeq
  <2>2. PageSound(c, page)
    BY DEF ColumnSound
  <2> HIDE DEF page
  <2>3. Len(c.enc.entries) <= Len(d.enc.entries)
    BY <1>1, LenProperties
  <2>4. PageReadable(c.maxDef, d.enc.entries, page)
    BY <1>1, <2>1, <2>2, <2>3, StillReadable DEF PageSound
  <2>5. PageSound(d, page)
    BY <2>2, <2>4 DEF PageSound
  <2>6. QED
    BY <2>5 DEF page
<1>3. QED
  BY <1>2

LEMMA PutSound ==
    ASSUME NEW c \in Column, ColumnSound(c),
           NEW def \in 0..c.maxDef, NEW rep \in 0..c.maxRep, NEW val \in Data
    PROVE  ColumnSound(Put(c, def, rep, val))
<1> DEFINE d == Put(c, def, rep, val)
           l == StoredLevel(c, def, rep)
           valued == c.maxDef = 0 \/ def = c.maxDef
<1>1. c.maxDef \in Nat /\ c.levels \in Seq(Level) /\ c.enc \in ValueEncoder
  BY DEF Column
<1>2. l \in Level /\ l.def <= c.maxDef /\ (l.def = c.maxDef <=> valued)
  BY <1>1 DEF StoredLevel, Level, Column
<1>3. d \in Column /\ d.maxDef = c.maxDef /\ d.pages = c.pages
  BY PutType DEF SameLevels, SamePages
<1>4. d.levels = Append(c.levels, l)
  BY DEF Put, Column
<1>5. d.enc = IF valued THEN PutValues(c.enc, <<val>>) ELSE c.enc
  BY DEF Put, Column
<1> HIDE DEF d, l, valued
<1>6. /\ EncoderSound(d.enc)
      /\ Len(d.enc.entries) >= Len(c.enc.entries)
      /\ HasDict(d.enc) = HasDict(c.enc)
      /\ Len(Encoded(d.enc).data) =
            Len(Encoded(c.enc).data) + (IF valued THEN 1 ELSE 0)
  <2>1. CASE valued
    <3>1. <<val>> \in Seq(Data) /\ Len(<<val>>) = 1
      OBVIOUS
    <3>2. EncoderSound(c.enc) /\ d.enc = PutValues(c.enc, <<val>>)
      BY <1>5, <2>1 DEF ColumnSound
    <3>3. QED
      BY <1>1, <2>1, <3>1, <3>2, PutValuesSound
  <2>2. CASE ~valued
    <3>1. d.enc = c.enc /\ EncoderSound(c.enc)
      BY <1>5, <2>2 DEF ColumnSound
    <3>2. Len(Encoded(c.enc).data) \in Nat /\ Len(c.enc.entries) \in Nat
      BY <1>1, EncoderLengths DEF Encoded
    <3>3. QED
      BY <2>2, <3>1, <3>2
  <2>3. QED
    BY <2>1, <2>2
<1>7. ValueCount(d.maxDef, d.levels) =
         ValueCount(c.maxDef, c.levels) + (IF valued THEN 1 ELSE 0)
  BY <1>1, <1>2, <1>3, <1>4, CountAppend
<1>8. ASSUME NEW k \in 1..Len(d.levels) PROVE d.levels[k].def <= d.maxDef
  BY <1>1, <1>2, <1>3, <1>4, AppendProperties, LenProperties DEF ColumnSound
<1>9. Len(Encoded(d.enc).data) = ValueCount(d.maxDef, d.levels)
  BY <1>6, <1>7 DEF ColumnSound
<1>10. \A k \in 1..Len(d.pages) : PageSound(d, d.pages[k])
  BY <1>3, <1>6, PagesStaySound
<1>11. QED
  BY <1>6, <1>8, <1>9, <1>10 DEF ColumnSound, d

LEMMA PutBatchSound ==
    ASSUME NEW c \in Column, c.maxDef = 0, ColumnSound(c),
           NEW levels \in Seq(Level), NEW vals \in Seq(Data),
           Len(vals) = Len(levels)
    PROVE  ColumnSound(PutBatch(c, levels, vals))
<1> DEFINE d == PutBatch(c, levels, vals)
           taken == [i \in 1..BatchValueCount(c, levels) |->
                        IF i <= Len(vals) THEN vals[i] ELSE Garbage]
           stored == [i \in 1..Len(levels) |->
                         StoredLevel(c, levels[i].def, levels[i].rep)]
<1>1. c.levels \in Seq(Level) /\ c.enc \in ValueEncoder
  BY DEF Column
<1>2. Len(levels) \in Nat /\ BatchValueCount(c, levels) = Len(levels)
  BY LenProperties DEF BatchValueCount
<1>3. taken \in Seq(Data) /\ Len(taken) = Len(levels)
  <2>1. taken \in [1..Len(levels) -> Data]
    BY <1>2
  <2>2. QED
    BY <1>2, <2>1
<1>4. /\ stored \in Seq(Level) /\ Len(stored) = Len(levels)
      /\ \A i \in 1..Len(levels) : stored[i].def = 0
  <2>1. ASSUME NEW i \in 1..Len(levels) PROVE levels[i] \in Level
    BY ElementOfSeq
  <2>2. /\ stored \in [1..Len(levels) -> Level]
        /\ \A i \in 1..Len(levels) : stored[i].def = 0
    BY <2>1 DEF StoredLevel, Level
  <2>3. QED
    BY <1>2, <2>2
<1>5. d \in Column /\ d.maxDef = 0 /\ d.pages = c.pages
  BY PutBatchType DEF SameLevels, SamePages
<1>6. d.levels = c.levels \o stored /\ d.enc = PutValues(c.enc, taken)
  BY DEF PutBatch, Column
<1> HIDE DEF d, stored, taken
<1>7. /\ EncoderSound(d.enc)
      /\ Len(d.enc.entries) >= Len(c.enc.entries)
      /\ HasDict(d.enc) = HasDict(c.enc)
      /\ Len(Encoded(d.enc).data) = Len(Encoded(c.enc).data) + Len(levels)
  BY <1>1, <1>3, <1>6, PutValuesSound DEF ColumnSound
<1>8. d.levels \in Seq(Level) /\ Len(d.levels) = Len(c.levels) + Len(levels)
  <2>1. stored \in Seq(Level) /\ c.levels \in Seq(Level)
    BY <1>1, <1>4
  <2>2. /\ c.levels \o stored \in Seq(Level)
        /\ Len(c.levels \o stored) = Len(c.levels) + Len(stored)
    BY <2>1, ConcatProperties
  <2>3. QED
    BY <1>4, <1>6, <2>2
<1>9. ASSUME NEW k \in 1..Len(d.levels) PROVE d.levels[k].def <= 0
  <2>1. Len(c.levels) \in Nat
    BY <1>1, LenProperties
  <2>2. CASE k <= Len(c.levels)
    <3>1. k \in 1..Len(c.levels) /\ d.levels[k] = c.levels[k]
      BY <1>1, <1>4, <1>6, <1>8, <2>1, <2>2, ConcatProperties
    <3>2. QED
      BY <3>1 DEF ColumnSound
  <2>3. CASE k > Len(c.levels)
    <3>1. k - Len(c.levels) \in 1..Len(levels)
      BY <1>2, <1>8, <2>1, <2>3
    <3>2. d.levels[k] = stored[k - Len(c.levels)]
      BY <1>1, <1>2, <1>4, <1>6, <1>8, <2>1, <2>3, ConcatProperties
    <3>3. QED
      BY <1>4, <3>1, <3>2
  <2>4. QED
    BY <1>8, <2>1, <2>2, <2>3
<1>10. Len(Encoded(d.enc).data) = ValueCount(d.maxDef, d.levels)
  <2>1. Len(Encoded(c.enc).data) = Len(c.levels)
    BY <1>1, CountAll DEF ColumnSound
  <2>2. ValueCount(0, d.levels) = Len(d.levels)
    BY <1>8, <1>9, CountAll
  <2>3. QED
    BY <1>5, <1>7, <1>8, <2>1, <2>2
<1>11. \A k \in 1..Len(d.pages) : PageSound(d, d.pages[k])
  BY <1>5, <1>7, PagesStaySound
<1>12. QED
  BY <1>5, <1>7, <1>9, <1>10, <1>11 DEF ColumnSound, d

LEMMA FlushedSound ==
    ASSUME NEW e \in ValueEncoder, EncoderSound(e)
    PROVE  /\ EncoderSound(Flushed(e))
           /\ Flushed(e).entries = e.entries
           /\ HasDict(Flushed(e)) = HasDict(e)
           /\ Len(Encoded(Flushed(e)).data) = 0
<1> DEFINE f == Flushed(e)
           big == Len(e.entries) > FallbackThreshold
<1>1. CASE UsesDict(e)
  <2>1. f = [e EXCEPT !.indices = <<>>, !.fallen = big]
    BY <1>1 DEF Flushed
  <2>2. e.plain = <<>>
    BY <1>1 DEF EncoderSound
  <2> HIDE DEF f, big
  <2>3. /\ f.indices = <<>> /\ f.plain = <<>> /\ f.entries = e.entries
        /\ f.dict = e.dict
    BY <2>1, <2>2 DEF ValueEncoder
  <2>4. QED
    BY <2>3 DEF EncoderSound, IndicesHaveEntries, HasDict, Encoded, f
<1>2. CASE ~UsesDict(e)
  <2>1. f = [e EXCEPT !.plain = <<>>]
    BY <1>2 DEF Flushed
  <2>2. e.indices = <<>>
    BY <1>2 DEF EncoderSound
  <2> HIDE DEF f
  <2>3. /\ f.indices = <<>> /\ f.plain = <<>> /\ f.entries = e.entries
        /\ f.dict = e.dict
    BY <2>1, <2>2 DEF ValueEncoder
  <2>4. QED
    BY <2>3 DEF EncoderSound, IndicesHaveEntries, HasDict, Encoded, f
<1>3. QED
  BY <1>1, <1>2

LEMMA CountNone == \A maxDef : ValueCount(maxDef, <<>>) = 0
<1> TAKE maxDef
<1>1. {i \in 1..Len(<<>>) : <<>>[i].def = maxDef} = {}
  OBVIOUS
<1>2. QED
  BY <1>1, FS_EmptySet DEF ValueCount

(* The page that is made has the values of its levels, and can be decoded  *)
(* with the entries there are.                                             *)
LEMMA FlushPageSound ==
    ASSUME NEW c \in Column, ColumnSound(c)
    PROVE  ColumnSound(FlushPage(c))
<1> DEFINE d == FlushPage(c)
           page == [levels |-> c.levels, values |-> Encoded(c.enc)]
<1>1. c.enc \in ValueEncoder /\ EncoderSound(c.enc)
      /\ c.enc.indices \in Seq(Nat) /\ c.pages \in Seq(Page)
  BY DEF Column, ColumnSound, ValueEncoder
<1>2. d \in Column /\ d.maxDef = c.maxDef
  BY FlushPageType DEF SameLevels
<1>3. d.pages = Append(c.pages, page) /\ d.levels = <<>>
      /\ d.enc = Flushed(c.enc)
  BY DEF FlushPage, Column
<1>4. /\ EncoderSound(d.enc) /\ d.enc.entries = c.enc.entries
      /\ HasDict(d.enc) = HasDict(c.enc)
      /\ Len(Encoded(d.enc).data) = 0
  BY <1>1, <1>3, FlushedSound
<1>5. page \in Page
  BY <1>1, FlushedType DEF Page, Column
<1>6. PageSound(d, page)
  <2>1. Len(page.values.data) = ValueCount(c.maxDef, page.levels)
    BY DEF ColumnSound
  <2>2. CASE UsesDict(c.enc)
    <3>1. page.values.data = c.enc.indices /\ HasDict(c.enc)
      BY <2>2 DEF Encoded, UsesDict, HasDict
    <3>2. Decodable(d.enc.entries, page.values)
      BY <1>1, <1>4, <3>1 DEF Decodable, EncoderSound, IndicesHaveEntries
    <3>3. QED
      BY <1>1, <1>2, <1>4, <2>1, <3>1, <3>2 DEF PageSound, PageReadable
  <2>3. CASE ~UsesDict(c.enc)
    <3>1. page.values.encoding # "RLE_DICTIONARY"
      BY <2>3 DEF Encoded
    <3>2. QED
      BY <1>2, <2>1, <3>1 DEF PageSound, PageReadable, Decodable
  <2>4. QED
    BY <2>2, <2>3
<1> HIDE DEF d, page
<1>7. ASSUME NEW k \in 1..Len(d.pages) PROVE PageSound(d, d.pages[k])
  <2>1. /\ Len(c.pages) \in Nat /\ Len(d.pages) = Len(c.pages) + 1
        /\ \A j \in 1..Len(c.pages) : d.pages[j] = c.pages[j]
        /\ d.pages[Len(c.pages) + 1] = page
    BY <1>1, <1>3, <1>5, AppendProperties, LenProperties
  <2>2. CASE k = Len(c.pages) + 1
    BY <1>6, <2>1, <2>2
  <2>3. CASE k # Len(c.pages) + 1
    <3>1. k \in 1..Len(c.pages) /\ d.pages[k] = c.pages[k]
      BY <2>1, <2>3
    <3>2. PageSound(c, c.pages[k])
      BY <3>1 DEF ColumnSound
    <3>3. QED
      BY <1>2, <1>4, <3>1, <3>2 DEF PageSound
  <2>4. QED
    BY <2>2, <2>3
<1>8. QED
  BY <1>3, <1>4, <1>7, CountNone DEF ColumnSound, d

LEMMA FlushPendingSound ==
    ASSUME NEW c \in Column, ColumnSound(c)
    PROVE  ColumnSound(FlushPending(c))
BY FlushPageSound DEF FlushPending

(* The copy of the dictionary covers the pages there are.                  *)
LEMMA FillDictionaryPageSound ==
    ASSUME NEW c \in Column, ColumnSound(c)
    PROVE  LET d == FillDictionaryPage(c)
           IN  /\ ColumnSound(d)
               /\ \A k \in 1..Len(d.pages) :
                     PageReadable(d.maxDef, d.dict, d.pages[k])
<1> DEFINE d == FillDictionaryPage(c)
<1>1. /\ d.enc = c.enc /\ d.levels = c.levels /\ d.pages = c.pages
      /\ d.maxDef = c.maxDef /\ d.dict = c.enc.entries
  BY DEF FillDictionaryPage, Column
<1> HIDE DEF d
<1>2. ColumnSound(d)
  BY <1>1 DEF ColumnSound, PageSound
<1>3. \A k \in 1..Len(d.pages) : PageReadable(d.maxDef, d.dict, d.pages[k])
  BY <1>1 DEF ColumnSound, PageSound
<1>4. QED
  BY <1>2, <1>3 DEF d

(* A column without a dictionary has pages that need none.                 *)
LEMMA PlainPagesReadable ==
    ASSUME NEW c \in Column, ColumnSound(c), ~HasDict(c.enc)
    PROVE  \A k \in 1..Len(c.pages) :
              PageReadable(c.maxDef, c.dict, c.pages[k])
BY DEF ColumnSound, PageSound, PageReadable, Decodable

LEMMA ClearPagesSound ==
    ASSUME NEW c \in Column, ColumnSound(c)
    PROVE  ColumnSound(ClearPages(c))
<1> DEFINE d == ClearPages(c)
<1>1. /\ d.enc = c.enc /\ d.levels = c.levels /\ d.pages = <<>>
      /\ d.maxDef = c.maxDef
  BY DEF ClearPages, Column
<1> HIDE DEF d
<1>2. ColumnSound(d)
  BY <1>1 DEF ColumnSound
<1>3. QED
  BY <1>2 DEF d

LEMMA NewColumnSound ==
    \A maxDef, maxRep, dict : ColumnSound(NewColumn(maxDef, maxRep, dict))
<1> TAKE maxDef, maxRep, dict
<1>1. EncoderSound(NewValueEncoder(dict))
      /\ Len(Encoded(NewValueEncoder(dict)).data) = 0
  BY DEF NewValueEncoder, EncoderSound, IndicesHaveEntries, Encoded
<1>2. QED
  BY <1>1, CountNone DEF NewColumn, ColumnSound
-----------------------------------------------------------------------------
ColumnsSound == \A i \in Columns : ColumnSound(cols[i])

PagesInv == FInv /\ ColumnsSound /\ CopyCovers

LEMMA SoundReplaced ==
    ASSUME ColumnsOK, ColumnsSound, NEW i \in Columns, NEW d \in Column,
           SameLevels(cols[i], d), ColumnSound(d),
           cols' = [cols EXCEPT ![i] = d]
    PROVE  ColumnsSound' /\ cols'[i] = d
<1>1. cols'[i] = d /\ \A j \in Columns : j # i => cols'[j] = cols[j]
  BY ColumnReplaced
<1>2. ASSUME NEW j \in Columns PROVE ColumnSound(cols'[j])
  <2>1. CASE j = i
    BY <1>1, <2>1
  <2>2. CASE j # i
    <3>1. ColumnSound(cols[j])
      BY DEF ColumnsSound
    <3>2. QED
      BY <1>1, <2>2, <3>1
  <2>3. QED
    BY <2>1, <2>2
<1>3. QED
  BY <1>1, <1>2 DEF ColumnsSound

(* What the program does to a column leaves the pages of the chunk that is *)
(* being written, and the copy of its dictionary, as they are.             *)
LEMMA ProgramKeepsPages ==
    ASSUME PagesInv, NEW i \in Columns, NEW d \in Column,
           SameLevels(cols[i], d), ColumnSound(d),
           cols' = [cols EXCEPT ![i] = d], fiber' = fiber,
           fiber.phase # "idle" /\ fiber.col = i => SamePages(cols[i], d)
    PROVE  ColumnsSound' /\ CopyCovers'
<1>1. ColumnsSound'
  BY SoundReplaced DEF PagesInv, FInv
<1>2. cols'[i] = d /\ \A j \in Columns : j # i => cols'[j] = cols[j]
  BY ColumnReplaced DEF PagesInv, FInv
<1>3. fiber.phase # "idle" =>
         /\ cols'[fiber.col].pages = cols[fiber.col].pages
         /\ cols'[fiber.col].dict = cols[fiber.col].dict
         /\ cols'[fiber.col].maxDef = cols[fiber.col].maxDef
  BY <1>2, FiberFacts DEF PagesInv, SamePages, SameLevels
<1>4. CopyCovers'
  BY <1>3 DEF PagesInv, CopyCovers
<1>5. QED
  BY <1>1, <1>4

LEMMA PutEntryKeepsPages ==
    ASSUME PagesInv, NEW i \in Columns, PutEntry(i)
    PROVE  ColumnsSound' /\ CopyCovers'
<1>1. PICK def \in 0..cols[i].maxDef, rep \in 0..cols[i].maxRep, v \in Data :
         cols' = [cols EXCEPT ![i] = Put(cols[i], def, rep, v)]
  BY DEF PutEntry
<1> DEFINE d == Put(cols[i], def, rep, v)
<1>2. cols[i] \in Column /\ ColumnSound(cols[i]) /\ fiber' = fiber
  BY ColumnFacts DEF PagesInv, FInv, ColumnsSound, PutEntry, file
<1>3. /\ d \in Column /\ SameLevels(cols[i], d) /\ SamePages(cols[i], d)
      /\ ColumnSound(d)
  BY <1>2, PutType, PutSound
<1> HIDE DEF d
<1>4. QED
  BY <1>1, <1>2, <1>3, ProgramKeepsPages DEF d

LEMMA PutEntriesKeepsPages ==
    ASSUME PagesInv, NEW i \in Columns, PutEntries(i)
    PROVE  ColumnsSound' /\ CopyCovers'
<1>1. PICK batch \in Batches :
         /\ Len(batch.vals) = ValueCount(cols[i].maxDef, batch.levels)
         /\ \A k \in 1..Len(batch.levels) :
               batch.levels[k].def <= cols[i].maxDef
         /\ cols' = [cols EXCEPT ![i] =
                        PutBatch(cols[i], batch.levels, batch.vals)]
  BY DEF PutEntries
<1> DEFINE d == PutBatch(cols[i], batch.levels, batch.vals)
<1>2. batch.levels \in Seq(Level) /\ batch.vals \in Seq(Data)
  BY BatchAssumption
<1>3. /\ cols[i] \in Column /\ ColumnSound(cols[i]) /\ fiber' = fiber
      /\ cols[i].maxDef = 0
  <2>1. Schema[i].maxDef = 0
    BY BatchAssumption DEF PutEntries
  <2>2. QED
    BY <2>1, ColumnFacts
    DEF PagesInv, FInv, ColumnsOK, ColumnsSound, SameLevels, PutEntries, file
<1>4. Len(batch.vals) = Len(batch.levels)
  BY <1>1, <1>2, <1>3, ValuesOfBatch
<1>5. /\ d \in Column /\ SameLevels(cols[i], d) /\ SamePages(cols[i], d)
      /\ ColumnSound(d)
  BY <1>2, <1>3, <1>4, PutBatchType, PutBatchSound
<1> HIDE DEF d
<1>6. QED
  BY <1>1, <1>3, <1>5, ProgramKeepsPages DEF d

LEMMA FlushColumnPageKeepsPages ==
    ASSUME PagesInv, NEW i \in Columns, FlushColumnPage(i)
    PROVE  ColumnsSound' /\ CopyCovers'
<1> DEFINE d == FlushPage(cols[i])
<1>1. cols[i] \in Column /\ ColumnSound(cols[i])
  BY ColumnFacts DEF PagesInv, FInv, ColumnsSound
<1>2. d \in Column /\ SameLevels(cols[i], d) /\ ColumnSound(d)
  BY <1>1, FlushPageType, FlushPageSound
<1>3. /\ cols' = [cols EXCEPT ![i] = d] /\ fiber' = fiber
      /\ ~(fiber.phase # "idle" /\ fiber.col = i)
  BY DEF FlushColumnPage, file
<1> HIDE DEF d
<1>4. QED
  BY <1>2, <1>3, ProgramKeepsPages

(* The last page is made before the copy of the dictionary is taken.       *)
LEMMA OpenChunkKeepsPages ==
    ASSUME PagesInv, OpenChunk
    PROVE  ColumnsSound' /\ CopyCovers'
<1> DEFINE i == fiber.col
           c == FlushPending(cols[i])
           d == FillDictionaryPage(c)
<1>1. i \in Columns /\ cols[i] \in Column /\ ColumnSound(cols[i])
  BY FiberFacts, ColumnFacts DEF PagesInv, FInv, ColumnsSound
<1>2. c \in Column /\ SameLevels(cols[i], c) /\ ColumnSound(c)
  BY <1>1, FlushPendingType, FlushPendingSound
<1>3. fiber'.col = i
  BY DEF OpenChunk, PagesInv, FInv, FiberOK
<1>4. CASE HasDict(c.enc)
  <2>1. cols' = [cols EXCEPT ![i] = d]
    BY <1>4 DEF OpenChunk
  <2>2. /\ d \in Column /\ SameLevels(cols[i], d) /\ ColumnSound(d)
        /\ \A k \in 1..Len(d.pages) :
              PageReadable(d.maxDef, d.dict, d.pages[k])
    BY <1>2, FillDictionaryPageType, FillDictionaryPageSound DEF SameLevels
  <2> HIDE DEF d
  <2>3. ColumnsSound' /\ cols'[i] = d
    BY <1>1, <2>1, <2>2, SoundReplaced DEF PagesInv, FInv
  <2>4. QED
    BY <1>3, <2>2, <2>3 DEF CopyCovers
<1>5. CASE ~HasDict(c.enc)
  <2>1. cols' = [cols EXCEPT ![i] = c]
    BY <1>5 DEF OpenChunk
  <2>2. \A k \in 1..Len(c.pages) : PageReadable(c.maxDef, c.dict, c.pages[k])
    BY <1>2, <1>5, PlainPagesReadable
  <2> HIDE DEF c
  <2>3. ColumnsSound' /\ cols'[i] = c
    BY <1>1, <1>2, <2>1, SoundReplaced DEF PagesInv, FInv
  <2>4. QED
    BY <1>3, <2>2, <2>3 DEF CopyCovers
<1>6. QED
  BY <1>4, <1>5

LEMMA CloseChunkKeepsPages ==
    ASSUME PagesInv, CloseChunk
    PROVE  ColumnsSound' /\ CopyCovers'
<1> DEFINE i == fiber.col
           d == ClearPages(cols[i])
<1>1. i \in Columns /\ cols[i] \in Column /\ ColumnSound(cols[i])
  BY FiberFacts, ColumnFacts DEF PagesInv, FInv, ColumnsSound
<1>2. d \in Column /\ SameLevels(cols[i], d) /\ ColumnSound(d)
  BY <1>1, ClearPagesType, ClearPagesSound
<1>3. cols' = [cols EXCEPT ![i] = d]
  BY DEF CloseChunk
<1>4. fiber'.phase \in {"chunk", "idle", "footer"}
  BY DEF CloseChunk, AfterGroup, PagesInv, FInv, FiberOK
<1> HIDE DEF d
<1>5. ColumnsSound'
  BY <1>1, <1>2, <1>3, SoundReplaced DEF PagesInv, FInv
<1>6. QED
  BY <1>4, <1>5 DEF CopyCovers

(* The other steps leave the columns as they are.                          *)
LEMMA ColumnsUntouched ==
    ASSUME PagesInv, cols' = cols,
           \/ fiber'.phase \notin {"dict", "header", "body"}
           \/ /\ fiber.phase \in {"dict", "header", "body"}
              /\ fiber'.col = fiber.col
    PROVE  ColumnsSound' /\ CopyCovers'
BY DEF PagesInv, ColumnsSound, CopyCovers

LEMMA PagesStart == Init => PagesInv
<1> SUFFICES ASSUME Init PROVE PagesInv
  OBVIOUS
<1>1. FInv
  BY WriterStarts
<1>2. ColumnsSound
  BY NewColumnSound DEF Init, ColumnsSound
<1>3. CopyCovers
  BY DEF Init, CopyCovers
<1>4. QED
  BY <1>1, <1>2, <1>3 DEF PagesInv

LEMMA PagesKeep == PagesInv /\ [Next]_vars => PagesInv'
<1> SUFFICES ASSUME PagesInv, [Next]_vars PROVE PagesInv'
  OBVIOUS
<1>1. FInv'
  BY WriterKeeps DEF PagesInv
<1>2. ColumnsSound' /\ CopyCovers'
  <2>1. ASSUME NEW i \in Columns, PutEntry(i)
        PROVE  ColumnsSound' /\ CopyCovers'
    BY <2>1, PutEntryKeepsPages
  <2>2. ASSUME NEW i \in Columns, PutEntries(i)
        PROVE  ColumnsSound' /\ CopyCovers'
    BY <2>2, PutEntriesKeepsPages
  <2>3. ASSUME NEW i \in Columns, FlushColumnPage(i)
        PROVE  ColumnsSound' /\ CopyCovers'
    BY <2>3, FlushColumnPageKeepsPages
  <2>4. CASE FlushRowGroup \/ Close
    <3>1. cols' = cols /\ fiber'.phase = "chunk"
      BY <2>4 DEF FlushRowGroup, Close, BeginRowGroup
    <3>2. QED
      BY <3>1, ColumnsUntouched
  <2>5. CASE OpenChunk
    BY <2>5, OpenChunkKeepsPages
  <2>6. CASE WriteDict \/ WriteHeader \/ WriteBody
    <3>1. /\ cols' = cols /\ fiber.phase \in {"dict", "header", "body"}
          /\ fiber'.col = fiber.col
      BY <2>6
      DEF WriteDict, WriteHeader, WriteBody, PagesInv, FInv, FiberOK
    <3>2. QED
      BY <3>1, ColumnsUntouched
  <2>7. CASE CloseChunk
    BY <2>7, CloseChunkKeepsPages
  <2>8. CASE WriteFooter
    <3>1. cols' = cols /\ fiber'.phase = "closed"
      BY <2>8 DEF WriteFooter, PagesInv, FInv, FiberOK
    <3>2. QED
      BY <3>1, ColumnsUntouched
  <2>9. CASE UNCHANGED vars
    <3>1. cols' = cols /\ fiber' = fiber
      BY <2>9 DEF vars
    <3>2. QED
      BY <3>1, ColumnsUntouched
  <2>10. QED
    BY <2>1, <2>2, <2>3, <2>4, <2>5, <2>6, <2>7, <2>8, <2>9
    DEF Next, Flushing, Done
<1>3. QED
  BY <1>1, <1>2 DEF PagesInv

LEMMA PagesInvariance == Spec => []PagesInv
BY PagesStart, PagesKeep, PTL DEF Spec

(* Whatever is put into a column while its chunks are being written: every *)
(* page that waits to be written can be decoded with the dictionary as it  *)
(* is now, and with the copy of it that was written in front of the chunk. *)
THEOREM PagesReadableHolds == Spec => []PagesReadable
<1>1. PagesInv => PagesReadable
  BY DEF PagesInv, ColumnsSound, ColumnSound, PageSound, PagesReadable
<1>2. QED
  BY <1>1, PagesInvariance, PTL

-----------------------------------------------------------------------------
(* What a column writer holds.                                             *)

Begins(d, e) == Len(d) <= Len(e) /\ \A k \in 1..Len(d) : e[k] = d[k]

Decoded(e) == DecodedValues(e.entries, Encoded(e))

PageMade(c) == [levels |-> c.levels, values |-> Encoded(c.enc)]

HeldBy(c) == EntriesOf(c.maxDef, c.enc.entries, Append(c.pages, PageMade(c)))

Empty(c) == c.pages = <<>> /\ c.levels = <<>>

Listed(c, encodings) ==
    \A k \in 1..Len(c.pages) : c.pages[k].values.encoding \in encodings

(* The writes of a chunk, as far as they go: a header and the dictionary,  *)
(* if there is one, then a header and a page for each page.                *)
CopyOf(c) == IF HasDict(c.enc) THEN c.dict ELSE <<>>

DictWrites(c) == IF HasDict(c.enc) THEN 2 ELSE 0

LaidAt(w, k, front, dict, pages) ==
    IF k % 2 = 1 THEN w.kind = "header"
    ELSE IF k <= front THEN w.kind = "dict" /\ w.body = dict
    ELSE LET n == (k - front) \div 2
         IN  n \in 1..Len(pages) /\ w.kind = "page" /\ w.body = pages[n]

Laid(ws, front, dict, pages) ==
    \A k \in 1..Len(ws) : LaidAt(ws[k], k, front, dict, pages)

-----------------------------------------------------------------------------
(* The entries of pages.                                                   *)

(* Pages a reader can decode with a dictionary.                            *)
WellCoded(page) ==
    /\ page.values.encoding = "PLAIN" => page.values.data \in Seq(Data)
    /\ page.values.encoding = "RLE_DICTIONARY" =>
          page.values.data \in Seq(Nat)

Good(maxDef, dict) ==
    {page \in Page : WellCoded(page) /\ PageReadable(maxDef, dict, page)}

LEMMA GoodPageRead ==
    ASSUME NEW maxDef \in Nat, NEW dict \in Seq(Data),
           NEW page \in Good(maxDef, dict)
    PROVE  /\ DecodedValues(dict, page.values) \in Seq(Data)
           /\ Len(DecodedValues(dict, page.values)) =
                 ValueCount(maxDef, page.levels)
           /\ PageEntries(maxDef, dict, page) \in Seq(Entry)
           /\ Len(PageEntries(maxDef, dict, page)) = Len(page.levels)
<1> DEFINE vals == DecodedValues(dict, page.values)
           n == Len(page.values.data)
<1>1. /\ page \in Page /\ PageReadable(maxDef, dict, page)
      /\ page.levels \in Seq(Level)
      /\ page.values.encoding \in Encodings
      /\ n \in Nat /\ n = ValueCount(maxDef, page.levels)
  <2>1. page.values.data \in Seq(Nat \cup Data)
    BY DEF Good, Page
  <2>2. n \in Nat
    BY <2>1, LenProperties
  <2>3. QED
    BY <2>2 DEF Good, Page, PageReadable
<1>2. vals \in Seq(Data) /\ Len(vals) = n
  <2>1. CASE page.values.encoding = "PLAIN"
    BY <2>1 DEF DecodedValues, Good, WellCoded
  <2>2. CASE page.values.encoding = "RLE_DICTIONARY"
    <3>1. page.values.data \in Seq(Nat)
      BY <2>2 DEF Good, WellCoded
    <3>2. ASSUME NEW i \in 1..n PROVE dict[page.values.data[i] + 1] \in Data
      <4>1. page.values.data[i] \in Nat /\ page.values.data[i] < Len(dict)
        BY <1>1, <2>2, <3>1, ElementOfSeq DEF PageReadable, Decodable
      <4>2. Len(dict) \in Nat
        BY LenProperties
      <4>3. page.values.data[i] + 1 \in 1..Len(dict)
        BY <4>1, <4>2
      <4>4. QED
        BY <4>3, ElementOfSeq
    <3>3. vals = [i \in 1..n |-> dict[page.values.data[i] + 1]]
      BY <2>2 DEF DecodedValues
    <3> HIDE DEF vals, n
    <3>4. vals \in [1..n -> Data]
      BY <3>2, <3>3
    <3>5. QED
      BY <1>1, <3>4
  <2>3. QED
    BY <1>1, <2>1, <2>2 DEF Encodings
<1> HIDE DEF vals
<1>3. PageEntries(maxDef, dict, page) = Entries(maxDef, page.levels, vals)
  BY DEF PageEntries, vals
<1>4. Len(Entries(maxDef, page.levels, vals)) = Len(page.levels)
  <2>1. Len(page.levels) \in Nat
    BY <1>1, LenProperties
  <2>2. QED
    BY <2>1 DEF Entries
<1>5. Entries(maxDef, page.levels, vals) \in Seq(Entry)
  BY <1>1, <1>2, EntriesType
<1>6. QED
  BY <1>1, <1>2, <1>3, <1>4, <1>5 DEF vals

LEMMA GoodArePages ==
    ASSUME NEW maxDef, NEW dict, NEW pages \in Seq(Good(maxDef, dict))
    PROVE  /\ pages \in Seq(Page) /\ Len(pages) \in Nat
           /\ \A k \in 1..Len(pages) : pages[k] \in Good(maxDef, dict)
<1>1. Good(maxDef, dict) \subseteq Page
  BY DEF Good
<1>2. QED
  BY <1>1, SeqMonotonic, LenProperties, ElementOfSeq

Reads(maxDef, dict, pages) ==
    [k \in 1..Len(pages) |-> PageEntries(maxDef, dict, pages[k])]

LEMMA EntriesAreReads ==
    ASSUME NEW maxDef, NEW dict \in Seq(Data), NEW pages \in Seq(Page)
    PROVE  EntriesOf(maxDef, dict, pages) =
              FlattenSeq(Reads(maxDef, dict, pages))
BY DEF EntriesOf, Reads

LEMMA ReadsType ==
    ASSUME NEW maxDef \in Nat, NEW dict \in Seq(Data),
           NEW pages \in Seq(Good(maxDef, dict))
    PROVE  /\ Reads(maxDef, dict, pages) \in Seq(Seq(Entry))
           /\ Len(Reads(maxDef, dict, pages)) = Len(pages)
           /\ EntriesOf(maxDef, dict, pages) \in Seq(Entry)
<1>1. /\ pages \in Seq(Page) /\ Len(pages) \in Nat
      /\ \A k \in 1..Len(pages) : pages[k] \in Good(maxDef, dict)
  BY GoodArePages
<1>2. \A k \in 1..Len(pages) :
         PageEntries(maxDef, dict, pages[k]) \in Seq(Entry)
  BY <1>1, GoodPageRead
<1>3. Reads(maxDef, dict, pages) \in [1..Len(pages) -> Seq(Entry)]
  BY <1>2 DEF Reads
<1>4. Reads(maxDef, dict, pages) \in Seq(Seq(Entry))
      /\ Len(Reads(maxDef, dict, pages)) = Len(pages)
  BY <1>1, <1>3
<1>5. EntriesOf(maxDef, dict, pages) \in Seq(Entry)
  BY <1>1, <1>4, EntriesAreReads, FlattenType
<1>6. QED
  BY <1>4, <1>5

LEMMA NoEntries ==
    ASSUME NEW maxDef, NEW dict \in Seq(Data)
    PROVE  EntriesOf(maxDef, dict, <<>>) = <<>>
<1>1. <<>> \in Seq(Page)
  OBVIOUS
<1>2. Reads(maxDef, dict, <<>>) = <<>>
  BY DEF Reads
<1>3. QED
  BY <1>1, <1>2, EntriesAreReads, FlattenNone

LEMMA EntriesAppend ==
    ASSUME NEW maxDef \in Nat, NEW dict \in Seq(Data),
           NEW pages \in Seq(Good(maxDef, dict)),
           NEW page \in Good(maxDef, dict)
    PROVE  EntriesOf(maxDef, dict, Append(pages, page)) =
              EntriesOf(maxDef, dict, pages)
                 \o PageEntries(maxDef, dict, page)
<1> DEFINE longer == Append(pages, page)
           old == Reads(maxDef, dict, pages)
           new == PageEntries(maxDef, dict, page)
<1>1. /\ longer \in Seq(Good(maxDef, dict)) /\ Len(longer) = Len(pages) + 1
      /\ longer[Len(pages) + 1] = page
      /\ \A k \in 1..Len(pages) : longer[k] = pages[k]
      /\ Len(pages) \in Nat
  BY AppendProperties, LenProperties
<1>2. pages \in Seq(Page) /\ longer \in Seq(Page)
  BY <1>1, GoodArePages
<1>3. old \in Seq(Seq(Entry)) /\ Len(old) = Len(pages)
  BY ReadsType
<1>4. new \in Seq(Entry)
  BY GoodPageRead
<1> HIDE DEF longer
<1>5. Reads(maxDef, dict, longer) \in Seq(Seq(Entry))
      /\ Len(Reads(maxDef, dict, longer)) = Len(pages) + 1
  BY <1>1, ReadsType
<1>6. Reads(maxDef, dict, longer) = Append(old, new)
  <2> DEFINE both == Append(old, new)
             reads == Reads(maxDef, dict, longer)
  <2>1. /\ both \in Seq(Seq(Entry)) /\ Len(both) = Len(pages) + 1
        /\ both[Len(pages) + 1] = new
        /\ \A k \in 1..Len(pages) : both[k] = old[k]
    <3> HIDE DEF old, new
    <3>1. QED
      BY <1>3, <1>4, AppendProperties
  <2>2. ASSUME NEW k \in 1..(Len(pages) + 1) PROVE reads[k] = both[k]
    <3>1. reads[k] = PageEntries(maxDef, dict, longer[k])
      BY <1>1 DEF Reads
    <3>2. CASE k = Len(pages) + 1
      BY <1>1, <2>1, <3>1, <3>2
    <3>3. CASE k # Len(pages) + 1
      <4>1. k \in 1..Len(pages)
        BY <1>1, <3>3
      <4>2. old[k] = PageEntries(maxDef, dict, pages[k])
        BY <4>1 DEF Reads
      <4> HIDE DEF reads, both, old
      <4>3. QED
        BY <1>1, <2>1, <3>1, <4>1, <4>2
    <3>4. QED
      BY <3>2, <3>3
  <2> HIDE DEF both, reads
  <2>3. QED
    BY <1>1, <1>5, <2>1, <2>2, SeqEqual DEF reads, both
<1> HIDE DEF old, new
<1>7. FlattenSeq(Append(old, new)) = FlattenSeq(old) \o new
  BY <1>3, <1>4, FlattenAppend
<1>8. QED
  BY <1>2, <1>6, <1>7, EntriesAreReads DEF longer, old, new

LEMMA BeginsFacts ==
    /\ \A d \in Seq(Data) : Begins(d, d)
    /\ \A d \in Seq(Data) : Begins(<<>>, d)
    /\ \A d, e, f \in Seq(Data) : Begins(d, e) /\ Begins(e, f) => Begins(d, f)
<1>1. \A d \in Seq(Data) : Len(d) \in Nat
  BY LenProperties
<1>2. QED
  BY <1>1 DEF Begins

(* What was decoded with a dictionary is decoded alike when it has grown.  *)
LEMMA ReadAlike ==
    ASSUME NEW maxDef \in Nat, NEW d \in Seq(Data), NEW e \in Seq(Data),
           Begins(d, e), NEW page \in Good(maxDef, d)
    PROVE  /\ page \in Good(maxDef, e)
           /\ PageEntries(maxDef, e, page) = PageEntries(maxDef, d, page)
<1> DEFINE data == page.values.data
<1>1. Len(d) \in Nat /\ Len(e) \in Nat
  BY LenProperties
<1>2. page \in Page /\ WellCoded(page) /\ PageReadable(maxDef, d, page)
      /\ page.values.encoding \in Encodings
  BY DEF Good, Page
<1>3. CASE page.values.encoding = "PLAIN"
  <2>1. PageReadable(maxDef, e, page)
    BY <1>2, <1>3 DEF PageReadable, Decodable
  <2>2. DecodedValues(e, page.values) = DecodedValues(d, page.values)
    BY <1>3 DEF DecodedValues
  <2>3. QED
    BY <1>2, <2>1, <2>2 DEF Good, PageEntries
<1>4. CASE page.values.encoding = "RLE_DICTIONARY"
  <2>1. data \in Seq(Nat)
    BY <1>2, <1>4 DEF WellCoded
  <2>2. ASSUME NEW i \in 1..Len(data)
        PROVE  data[i] < Len(e) /\ e[data[i] + 1] = d[data[i] + 1]
    <3>1. data[i] \in Nat /\ data[i] < Len(d)
      BY <1>2, <1>4, <2>1, ElementOfSeq DEF PageReadable, Decodable
    <3> HIDE DEF data
    <3>2. data[i] + 1 \in 1..Len(d) /\ data[i] < Len(e)
      BY <1>1, <3>1 DEF Begins
    <3>3. QED
      BY <3>2 DEF Begins
  <2>3. PageReadable(maxDef, e, page)
    BY <1>2, <2>2 DEF PageReadable, Decodable
  <2>4. DecodedValues(e, page.values) = DecodedValues(d, page.values)
    BY <1>4, <2>2 DEF DecodedValues
  <2>5. QED
    BY <1>2, <2>3, <2>4 DEF Good, PageEntries
<1>5. QED
  BY <1>2, <1>3, <1>4 DEF Encodings

LEMMA EntriesAlike ==
    ASSUME NEW maxDef \in Nat, NEW d \in Seq(Data), NEW e \in Seq(Data),
           Begins(d, e), NEW pages \in Seq(Good(maxDef, d))
    PROVE  /\ pages \in Seq(Good(maxDef, e))
           /\ EntriesOf(maxDef, e, pages) = EntriesOf(maxDef, d, pages)
<1>1. /\ pages \in Seq(Page) /\ Len(pages) \in Nat
      /\ \A k \in 1..Len(pages) : pages[k] \in Good(maxDef, d)
  BY GoodArePages
<1>2. \A k \in 1..Len(pages) :
         /\ pages[k] \in Good(maxDef, e)
         /\ PageEntries(maxDef, e, pages[k]) = PageEntries(maxDef, d, pages[k])
  BY <1>1, ReadAlike
<1>3. pages \in Seq(Good(maxDef, e))
  <2> DEFINE n == Len(pages)
             G == Good(maxDef, e)
  <2>1. pages = [k \in 1..n |-> pages[k]]
    BY <1>1
  <2>2. \A k \in 1..n : pages[k] \in G
    BY <1>2
  <2> HIDE DEF n, G
  <2>3. [k \in 1..n |-> pages[k]] \in [1..n -> G]
    BY <2>2
  <2>4. n \in Nat
    BY <1>1 DEF n
  <2>5. [k \in 1..n |-> pages[k]] \in Seq(G)
    BY <2>3, <2>4
  <2>6. QED
    BY <2>1, <2>5 DEF G
<1>4. Reads(maxDef, e, pages) = Reads(maxDef, d, pages)
  BY <1>2 DEF Reads
<1>5. QED
  BY <1>1, <1>3, <1>4, EntriesAreReads

-----------------------------------------------------------------------------
(* What is put is decoded.                                                 *)

LEMMA BeginningGrows ==
    ASSUME NEW S, NEW s \in Seq(S), NEW k \in 1..Len(s)
    PROVE  /\ SubSeq(s, 1, k - 1) \in Seq(S)
           /\ SubSeq(s, 1, k) = Append(SubSeq(s, 1, k - 1), s[k])
<1>1. Len(s) \in Nat /\ \A j \in 1..(k - 1) : s[j] \in S
  BY LenProperties, ElementOfSeq
<1>2. 1 \in 1..Len(s) /\ k \in 1..Len(s) /\ s[k] \in S
  BY <1>1, ElementOfSeq
<1>3. SubSeq(s, 1, k - 1) \in Seq(S)
  BY <1>1, SubSeqProperties
<1>4. SubSeq(s, 1, k) = SubSeq(s, 1, k - 1) \o <<s[k]>>
  BY <1>1, <1>2, SubSeqRecursiveSecond
<1>5. QED
  BY <1>2, <1>3, <1>4, AppendIsConcat

LEMMA DecodedType ==
    ASSUME NEW e \in ValueEncoder, IndicesHaveEntries(e)
    PROVE  /\ Decoded(e) \in Seq(Data)
           /\ Len(Decoded(e)) = Len(Encoded(e).data)
           /\ UsesDict(e) =>
                 /\ Len(Decoded(e)) = Len(e.indices)
                 /\ \A k \in 1..Len(e.indices) :
                       Decoded(e)[k] = e.entries[e.indices[k] + 1]
           /\ ~UsesDict(e) => Decoded(e) = e.plain
<1>1. /\ e.entries \in Seq(Data) /\ e.indices \in Seq(Nat)
      /\ e.plain \in Seq(Data)
      /\ Len(e.entries) \in Nat /\ Len(e.indices) \in Nat
  BY LenProperties DEF ValueEncoder
<1>2. CASE UsesDict(e)
  <2> DEFINE n == Len(e.indices)
  <2>1. Decoded(e) = [k \in 1..n |-> e.entries[e.indices[k] + 1]]
        /\ Len(Encoded(e).data) = n
    BY <1>2 DEF Decoded, DecodedValues, Encoded
  <2>2. ASSUME NEW k \in 1..n PROVE e.entries[e.indices[k] + 1] \in Data
    <3>1. e.indices[k] \in Nat /\ e.indices[k] < Len(e.entries)
      BY <1>1, ElementOfSeq DEF IndicesHaveEntries
    <3>2. e.indices[k] + 1 \in 1..Len(e.entries)
      BY <1>1, <3>1
    <3>3. QED
      BY <1>1, <3>2, ElementOfSeq
  <2>3. n \in Nat
    BY <1>1
  <2> HIDE DEF n
  <2>4. Decoded(e) \in [1..n -> Data]
    BY <2>1, <2>2
  <2>5. Decoded(e) \in Seq(Data) /\ Len(Decoded(e)) = n
    BY <2>3, <2>4
  <2>6. \A k \in 1..n : Decoded(e)[k] = e.entries[e.indices[k] + 1]
    BY <2>1
  <2>7. QED
    BY <1>2, <2>1, <2>5, <2>6 DEF n
<1>3. CASE ~UsesDict(e)
  BY <1>1, <1>3 DEF Decoded, DecodedValues, Encoded
<1>4. QED
  BY <1>2, <1>3

LEMMA PutIndexDecodes ==
    ASSUME NEW e \in ValueEncoder, NEW v \in Data,
           UsesDict(e), IndicesHaveEntries(e)
    PROVE  LET f == PutIndex(e, v)
           IN  /\ f \in ValueEncoder /\ UsesDict(f) /\ IndicesHaveEntries(f)
               /\ Begins(e.entries, f.entries)
               /\ Decoded(f) = Append(Decoded(e), v)
<1> DEFINE new == IF v \in ToSet(e.entries) THEN e.entries
                                            ELSE Append(e.entries, v)
           i == CHOOSE i \in 1..Len(new) : new[i] = v
           f == PutIndex(e, v)
<1>1. e.entries \in Seq(Data) /\ e.indices \in Seq(Nat)
      /\ Len(e.entries) \in Nat /\ Len(e.indices) \in Nat
  BY LenProperties DEF ValueEncoder
<1>2. /\ new \in Seq(Data) /\ Len(new) \in Nat
      /\ Len(new) >= Len(e.entries)
      /\ \A k \in 1..Len(e.entries) : new[k] = e.entries[k]
      /\ \E k \in 1..Len(new) : new[k] = v
  <2>1. CASE v \in ToSet(e.entries)
    BY <1>1, <2>1 DEF ToSet
  <2>2. CASE v \notin ToSet(e.entries)
    <3> DEFINE a == Append(e.entries, v)
    <3>1. /\ a \in Seq(Data) /\ Len(a) = Len(e.entries) + 1
          /\ a[Len(e.entries) + 1] = v
          /\ \A k \in 1..Len(e.entries) : a[k] = e.entries[k]
      BY <1>1, AppendProperties
    <3> HIDE DEF a
    <3>2. QED
      BY <1>1, <2>2, <3>1 DEF a
  <2>3. QED
    BY <2>1, <2>2
<1>3. i \in 1..Len(new) /\ new[i] = v
  BY <1>2
<1> HIDE DEF i, new
<1>4. i - 1 \in Nat /\ (i - 1) + 1 = i
  BY <1>2, <1>3
<1>5. f = [e EXCEPT !.entries = new, !.indices = Append(@, i - 1)]
  BY DEF PutIndex, i, new
<1>6. /\ f.entries = new /\ f.indices = Append(e.indices, i - 1)
      /\ UsesDict(f)
  <2> HIDE DEF f
  <2>1. QED
    BY <1>5 DEF ValueEncoder, UsesDict
<1>7. f \in ValueEncoder /\ IndicesHaveEntries(f)
  BY PutIndexType, PutIndexGrows DEF Grown
<1> HIDE DEF f
<1>8. Begins(e.entries, f.entries)
  BY <1>1, <1>2, <1>6 DEF Begins
<1>9. /\ Len(f.indices) = Len(e.indices) + 1
      /\ f.indices[Len(e.indices) + 1] = i - 1
      /\ \A k \in 1..Len(e.indices) : f.indices[k] = e.indices[k]
  BY <1>1, <1>4, <1>6, AppendProperties
<1> DEFINE d == Decoded(e)
           g == Decoded(f)
           n == Len(e.indices)
<1>10. /\ d \in Seq(Data) /\ Len(d) = n
       /\ \A k \in 1..n : d[k] = e.entries[e.indices[k] + 1]
  BY DecodedType
<1>11. /\ g \in Seq(Data) /\ Len(g) = n + 1
       /\ \A k \in 1..(n + 1) : g[k] = f.entries[f.indices[k] + 1]
  BY <1>6, <1>7, <1>9, DecodedType
<1> HIDE DEF d, g
<1>12. /\ Append(d, v) \in Seq(Data) /\ Len(Append(d, v)) = n + 1
       /\ Append(d, v)[n + 1] = v
       /\ \A k \in 1..n : Append(d, v)[k] = d[k]
  BY <1>10, AppendProperties
<1>13. ASSUME NEW k \in 1..(n + 1) PROVE g[k] = Append(d, v)[k]
  <2>1. CASE k = n + 1
    BY <1>1, <1>3, <1>4, <1>6, <1>9, <1>11, <1>12, <2>1
  <2>2. CASE k # n + 1
    <3>1. k \in 1..n
      BY <1>1, <2>2
    <3>2. e.indices[k] \in Nat /\ e.indices[k] < Len(e.entries)
      BY <1>1, <3>1, ElementOfSeq DEF IndicesHaveEntries
    <3>3. e.indices[k] + 1 \in 1..Len(e.entries)
      BY <1>1, <3>2
    <3>4. g[k] = e.entries[e.indices[k] + 1]
      BY <1>2, <1>6, <1>9, <1>11, <3>1, <3>3
    <3>5. QED
      BY <1>10, <1>12, <3>1, <3>4
  <2>3. QED
    BY <2>1, <2>2
<1>14. g = Append(d, v)
  <2> HIDE DEF n
  <2>1. QED
    BY <1>11, <1>12, <1>13, SeqEqual
<1>15. QED
  BY <1>6, <1>7, <1>8, <1>14 DEF d, g, f

LEMMA PutIndicesDecodes ==
    ASSUME NEW e \in ValueEncoder, NEW vals \in Seq(Data),
           UsesDict(e), IndicesHaveEntries(e)
    PROVE  /\ Begins(e.entries, PutIndices(e, vals).entries)
           /\ Decoded(PutIndices(e, vals)) = Decoded(e) \o vals
<1> DEFINE n == Len(vals)
           So(k) == Decoded(e) \o SubSeq(vals, 1, k)
           Right(g, k) == /\ g \in ValueEncoder /\ UsesDict(g)
                          /\ IndicesHaveEntries(g)
                          /\ Begins(e.entries, g.entries)
                          /\ Decoded(g) = So(k)
<1>1. PICK f : /\ f[0] = e
               /\ \A k \in 1..n : f[k] = PutIndex(f[k - 1], vals[k])
               /\ PutIndices(e, vals) = f[n]
  BY PutIndicesLoop
<1>2. n \in Nat /\ \A k \in 1..n : vals[k] \in Data
  BY LenProperties
<1>3. Decoded(e) \in Seq(Data)
  BY DecodedType
<1> DEFINE S == {k \in 0..n : Right(f[k], k)}
<1>4. 0 \in S
  <2>1. SubSeq(vals, 1, 0) = <<>>
    BY SubSeqEmpty
  <2>2. So(0) = Decoded(e)
    BY <1>3, <2>1, ConcatEmptySeq
  <2>3. Begins(e.entries, e.entries)
    BY BeginsFacts DEF ValueEncoder
  <2> HIDE DEF So
  <2>4. QED
    BY <1>1, <1>2, <2>2, <2>3
<1>5. ASSUME NEW k \in 1..n, k - 1 \in S PROVE k \in S
  <2> DEFINE g == f[k - 1]
             h == f[k]
  <2>1. Right(g, k - 1)
    BY <1>5
  <2>2. h = PutIndex(g, vals[k]) /\ vals[k] \in Data
    BY <1>1, <1>2
  <2> HIDE DEF g, h, So
  <2>3. /\ h \in ValueEncoder /\ UsesDict(h) /\ IndicesHaveEntries(h)
        /\ Begins(g.entries, h.entries)
        /\ Decoded(h) = Append(So(k - 1), vals[k])
    BY <2>1, <2>2, PutIndexDecodes
  <2>4. Begins(e.entries, h.entries)
    <3>1. /\ e.entries \in Seq(Data) /\ g.entries \in Seq(Data)
          /\ h.entries \in Seq(Data)
      BY <2>1, <2>3 DEF ValueEncoder
    <3>2. QED
      BY <2>1, <2>3, <3>1, BeginsFacts
  <2>5. Append(So(k - 1), vals[k]) = So(k)
    <3> DEFINE s == SubSeq(vals, 1, k - 1)
    <3>1. s \in Seq(Data) /\ SubSeq(vals, 1, k) = Append(s, vals[k])
      BY BeginningGrows
    <3> HIDE DEF s, n
    <3>2. <<vals[k]>> \in Seq(Data)
      BY <2>2
    <3>3. /\ Append(s, vals[k]) = s \o <<vals[k]>>
          /\ Decoded(e) \o s \in Seq(Data)
      BY <1>3, <2>2, <3>1, AppendIsConcat, ConcatProperties
    <3>4. Append(Decoded(e) \o s, vals[k]) = (Decoded(e) \o s) \o <<vals[k]>>
      BY <2>2, <3>3, AppendIsConcat
    <3>5. (Decoded(e) \o s) \o <<vals[k]>> = Decoded(e) \o (s \o <<vals[k]>>)
      BY <1>3, <3>1, <3>2, ConcatAssociative
    <3>6. QED
      BY <3>1, <3>3, <3>4, <3>5 DEF So, s
  <2>6. QED
    BY <1>2, <2>3, <2>4, <2>5 DEF h
<1>6. n \in S
  <2>1. 0..n \subseteq S
    <3> HIDE DEF S, n
    <3>1. QED
      BY <1>2, <1>4, <1>5, UpTo, Zenon
  <2>2. QED
    BY <1>2, <2>1
<1>7. SubSeq(vals, 1, n) = vals
  BY SubSeqFull
<1>8. QED
  BY <1>1, <1>6, <1>7

LEMMA PutValuesDecodes ==
    ASSUME NEW e \in ValueEncoder, NEW vals \in Seq(Data), EncoderSound(e)
    PROVE  /\ Begins(e.entries, PutValues(e, vals).entries)
           /\ Decoded(PutValues(e, vals)) = Decoded(e) \o vals
<1>1. CASE UsesDict(e)
  <2>1. PutValues(e, vals) = PutIndices(e, vals) /\ IndicesHaveEntries(e)
    BY <1>1 DEF PutValues, EncoderSound
  <2>2. QED
    BY <1>1, <2>1, PutIndicesDecodes
<1>2. CASE ~UsesDict(e)
  <2> DEFINE f == PutValues(e, vals)
             plain == e.plain \o vals
  <2>1. f = [e EXCEPT !.plain = plain]
    BY <1>2 DEF PutValues
  <2>2. e.entries \in Seq(Data)
    BY DEF ValueEncoder
  <2> HIDE DEF plain, f
  <2>3. /\ f.entries = e.entries /\ f.indices = e.indices
        /\ f.plain = plain /\ ~UsesDict(f)
    BY <1>2, <2>1 DEF ValueEncoder, UsesDict
  <2>4. Decoded(f) = plain /\ Decoded(e) = e.plain
    BY <1>2, <2>3 DEF Decoded, DecodedValues, Encoded
  <2>5. QED
    BY <2>2, <2>3, <2>4, BeginsFacts DEF plain, f
<1>3. QED
  BY <1>1, <1>2

-----------------------------------------------------------------------------
(* The entries of a page that grows.                                       *)

RankOf(maxDef, levels, i) ==
    Cardinality({j \in 1..i : levels[j].def = maxDef})

LEMMA EntriesByRank ==
    ASSUME NEW maxDef, NEW levels, NEW vals
    PROVE  Entries(maxDef, levels, vals) =
              [i \in 1..Len(levels) |->
                  [def |-> levels[i].def, rep |-> levels[i].rep,
                   val |-> IF levels[i].def = maxDef
                           THEN vals[RankOf(maxDef, levels, i)] ELSE Null]]
BY DEF Entries, RankOf

EntryOf(maxDef, levels, vals, i) ==
    [def |-> levels[i].def, rep |-> levels[i].rep,
     val |-> IF levels[i].def = maxDef
             THEN vals[RankOf(maxDef, levels, i)] ELSE Null]

LEMMA EntryAt ==
    ASSUME NEW maxDef, NEW levels \in Seq(Level), NEW vals
    PROVE  /\ Len(Entries(maxDef, levels, vals)) = Len(levels)
           /\ \A i \in 1..Len(levels) :
                 Entries(maxDef, levels, vals)[i] =
                    EntryOf(maxDef, levels, vals, i)
<1>1. Entries(maxDef, levels, vals) =
         [i \in 1..Len(levels) |-> EntryOf(maxDef, levels, vals, i)]
  BY EntriesByRank DEF EntryOf
<1>2. Len(levels) \in Nat
  BY LenProperties
<1>3. QED
  BY <1>1, <1>2

LEMMA RankInCount ==
    ASSUME NEW maxDef, NEW levels \in Seq(Level), NEW i \in 1..Len(levels),
           levels[i].def = maxDef
    PROVE  RankOf(maxDef, levels, i) \in 1..ValueCount(maxDef, levels)
<1> DEFINE n == Len(levels)
           S == {j \in 1..i : levels[j].def = maxDef}
           A == {j \in 1..n : levels[j].def = maxDef}
<1>1. n \in Nat
  BY LenProperties
<1>2. S \in SUBSET A /\ A \in SUBSET (1..n) /\ i \in S
  BY <1>1
<1>3. IsFiniteSet(A) /\ Cardinality(A) \in Nat
  BY <1>1, <1>2, CountType
<1>4. IsFiniteSet(S) /\ Cardinality(S) <= Cardinality(A)
      /\ Cardinality(S) \in Nat
  BY <1>2, <1>3, FS_Subset, FS_CardinalityType
<1>5. Cardinality(S) # 0
  BY <1>2, <1>4, FS_EmptySet
<1>6. ValueCount(maxDef, levels) = Cardinality(A)
      /\ RankOf(maxDef, levels, i) = Cardinality(S)
  BY DEF ValueCount, RankOf
<1> HIDE DEF S, A
<1>7. QED
  BY <1>3, <1>4, <1>5, <1>6

EntryFor(maxDef, l, v) ==
    [def |-> l.def, rep |-> l.rep,
     val |-> IF l.def = maxDef THEN v ELSE Null]

LEMMA EntryAppended ==
    ASSUME NEW maxDef \in Nat, NEW levels \in Seq(Level), NEW l \in Level,
           NEW vals \in Seq(Data), NEW v \in Data, NEW more \in Seq(Data),
           Len(vals) = ValueCount(maxDef, levels),
           l.def = maxDef => more = vals \o <<v>>,
           l.def # maxDef => more = vals
    PROVE  Entries(maxDef, Append(levels, l), more) =
              Append(Entries(maxDef, levels, vals), EntryFor(maxDef, l, v))
<1> DEFINE n == Len(levels)
           longer == Append(levels, l)
           entry == EntryFor(maxDef, l, v)
           old == Entries(maxDef, levels, vals)
           new == Entries(maxDef, longer, more)
<1>1. /\ n \in Nat /\ longer \in Seq(Level) /\ Len(longer) = n + 1
      /\ longer[n + 1] = l
      /\ \A i \in 1..n : longer[i] = levels[i]
  BY LenProperties, AppendProperties
<1>2. /\ ValueCount(maxDef, longer) =
            ValueCount(maxDef, levels) + (IF l.def = maxDef THEN 1 ELSE 0)
      /\ Len(vals) \in Nat
  BY CountAppend, LenProperties
<1>3. /\ Len(more) = ValueCount(maxDef, longer)
      /\ \A k \in 1..Len(vals) : more[k] = vals[k]
      /\ l.def = maxDef => more[Len(vals) + 1] = v
  <2>1. CASE l.def = maxDef
    <3>1. <<v>> \in Seq(Data) /\ Len(<<v>>) = 1 /\ <<v>>[1] = v
      OBVIOUS
    <3>2. /\ Len(vals \o <<v>>) = Len(vals) + Len(<<v>>)
          /\ \A i \in 1..(Len(vals) + Len(<<v>>)) : (vals \o <<v>>)[i] =
                IF i <= Len(vals) THEN vals[i] ELSE <<v>>[i - Len(vals)]
      BY <3>1, ConcatProperties
    <3>3. /\ Len(vals) + 1 \in 1..(Len(vals) + Len(<<v>>))
          /\ ~(Len(vals) + 1 <= Len(vals))
          /\ (Len(vals) + 1) - Len(vals) = 1
      BY <1>2, <3>1
    <3>4. more[Len(vals) + 1] = v
      BY <2>1, <3>1, <3>2, <3>3
    <3>5. \A k \in 1..Len(vals) : more[k] = vals[k]
      BY <1>2, <2>1, <3>1, <3>2
    <3>6. QED
      BY <1>2, <2>1, <3>1, <3>2, <3>4, <3>5
  <2>2. CASE l.def # maxDef
    BY <1>2, <2>2
  <2>3. QED
    BY <2>1, <2>2
<1> HIDE DEF longer
<1>4. old \in Seq(Entry) /\ new \in Seq(Entry)
  BY <1>1, <1>3, EntriesType
<1>5. entry \in Entry
  BY DEF Entry, EntryFor, Level
<1>6. /\ Len(old) = n /\ Len(new) = n + 1
      /\ \A i \in 1..n : old[i] = EntryOf(maxDef, levels, vals, i)
      /\ \A i \in 1..(n + 1) : new[i] = EntryOf(maxDef, longer, more, i)
  <2>1. /\ Len(old) = n
        /\ \A i \in 1..n : old[i] = EntryOf(maxDef, levels, vals, i)
    BY EntryAt
  <2>2. /\ Len(new) = Len(longer)
        /\ \A i \in 1..Len(longer) :
              new[i] = EntryOf(maxDef, longer, more, i)
    BY <1>1, EntryAt
  <2>3. Len(longer) = n + 1
    BY <1>1
  <2> HIDE DEF n, old, new
  <2>4. QED
    BY <2>1, <2>2, <2>3
<1> HIDE DEF n, old, new, entry
<1>7. /\ Append(old, entry) \in Seq(Entry) /\ Len(Append(old, entry)) = n + 1
      /\ Append(old, entry)[n + 1] = entry
      /\ \A i \in 1..n : Append(old, entry)[i] = old[i]
  BY <1>4, <1>5, <1>6, AppendProperties
<1>8. ASSUME NEW i \in 1..(n + 1) PROVE new[i] = Append(old, entry)[i]
  <2>1. CASE i = n + 1
    <3>1. RankOf(maxDef, longer, n + 1) = ValueCount(maxDef, longer)
      BY <1>1 DEF RankOf, ValueCount
    <3>2. l.def = maxDef => more[RankOf(maxDef, longer, n + 1)] = v
      BY <1>2, <1>3, <3>1
    <3>3. new[n + 1] = EntryOf(maxDef, longer, more, n + 1)
      BY <1>6, <2>1
    <3>4. new[n + 1] = entry
      BY <1>1, <3>2, <3>3 DEF entry, EntryFor, EntryOf
    <3>5. QED
      BY <1>7, <2>1, <3>4
  <2>2. CASE i # n + 1
    <3>1. i \in 1..n
      BY <1>1, <2>2
    <3>2. RankOf(maxDef, longer, i) = RankOf(maxDef, levels, i)
      <4>1. {j \in 1..i : longer[j].def = maxDef} =
               {j \in 1..i : levels[j].def = maxDef}
        <5>1. \A j \in 1..i : longer[j] = levels[j]
          BY <1>1, <3>1
        <5>2. QED
          BY <5>1
      <4>2. QED
        BY <4>1 DEF RankOf
    <3>3. levels[i].def = maxDef =>
             more[RankOf(maxDef, levels, i)] = vals[RankOf(maxDef, levels, i)]
      <4>1. levels[i].def = maxDef =>
               RankOf(maxDef, levels, i) \in 1..Len(vals)
        BY <3>1, RankInCount DEF n
      <4>2. QED
        BY <1>3, <4>1
    <3>4. new[i] = old[i]
      <4>1. /\ new[i] = EntryOf(maxDef, longer, more, i)
            /\ old[i] = EntryOf(maxDef, levels, vals, i)
            /\ longer[i] = levels[i]
        BY <1>1, <1>6, <3>1
      <4>2. QED
        BY <3>2, <3>3, <4>1 DEF EntryOf
    <3>5. QED
      BY <1>7, <3>1, <3>4
  <2>3. QED
    BY <2>1, <2>2
<1>9. new = Append(old, entry)
  BY <1>1, <1>4, <1>6, <1>7, <1>8, SeqEqual
<1>10. QED
  BY <1>9 DEF new, old, entry, longer

(* Without nulls the k-th entry has the k-th value.                        *)
AllFlat(levels) == \A i \in 1..Len(levels) : levels[i].def = 0

LEMMA FlatEntries ==
    ASSUME NEW levels \in Seq(Level), NEW vals \in Seq(Data),
           AllFlat(levels), Len(vals) = Len(levels)
    PROVE  /\ Entries(0, levels, vals) \in Seq(Entry)
           /\ Len(Entries(0, levels, vals)) = Len(levels)
           /\ \A i \in 1..Len(levels) : Entries(0, levels, vals)[i] =
                 [def |-> 0, rep |-> levels[i].rep, val |-> vals[i]]
<1>1. Len(levels) \in Nat
  BY LenProperties
<1>2. ValueCount(0, levels) = Len(levels)
  BY CountAll DEF AllFlat
<1>3. Entries(0, levels, vals) \in Seq(Entry)
  BY <1>2, EntriesType
<1>4. ASSUME NEW i \in 1..Len(levels) PROVE RankOf(0, levels, i) = i
  <2>1. {j \in 1..i : levels[j].def = 0} = 1..i
    BY <1>1 DEF AllFlat
  <2>2. i \in Nat
    BY <1>1
  <2>3. QED
    BY <2>1, <2>2, CountUpto DEF RankOf
<1>5. /\ Len(Entries(0, levels, vals)) = Len(levels)
      /\ \A i \in 1..Len(levels) :
            Entries(0, levels, vals)[i] = EntryOf(0, levels, vals, i)
  BY EntryAt
<1>6. ASSUME NEW i \in 1..Len(levels)
      PROVE  EntryOf(0, levels, vals, i) =
                [def |-> 0, rep |-> levels[i].rep, val |-> vals[i]]
  BY <1>4 DEF EntryOf, AllFlat
<1>7. QED
  BY <1>3, <1>5, <1>6

LEMMA EntriesConcat ==
    ASSUME NEW levels \in Seq(Level), NEW vals \in Seq(Data),
           AllFlat(levels), Len(vals) = Len(levels),
           NEW more \in Seq(Level), NEW added \in Seq(Data),
           AllFlat(more), Len(added) = Len(more)
    PROVE  Entries(0, levels \o more, vals \o added) =
              Entries(0, levels, vals) \o Entries(0, more, added)
<1> DEFINE n == Len(levels)
           m == Len(more)
           ls == levels \o more
           vs == vals \o added
           one == Entries(0, levels, vals)
           two == Entries(0, more, added)
           both == Entries(0, ls, vs)
<1>1. n \in Nat /\ m \in Nat /\ Len(vals) = n /\ Len(added) = m
  BY LenProperties
<1>2. /\ ls \in Seq(Level) /\ Len(ls) = n + m
      /\ \A i \in 1..(n + m) :
            ls[i] = IF i <= n THEN levels[i] ELSE more[i - n]
  BY ConcatProperties
<1>3. /\ vs \in Seq(Data) /\ Len(vs) = n + m
      /\ \A i \in 1..(n + m) :
            vs[i] = IF i <= n THEN vals[i] ELSE added[i - n]
  <2>1. /\ vs \in Seq(Data) /\ Len(vs) = Len(vals) + Len(added)
        /\ \A i \in 1..(Len(vals) + Len(added)) : vs[i] =
              IF i <= Len(vals) THEN vals[i] ELSE added[i - Len(vals)]
    BY ConcatProperties
  <2> HIDE DEF n, m, vs
  <2>2. QED
    BY <1>1, <2>1
<1>4. /\ one \in Seq(Entry) /\ Len(one) = n
      /\ \A i \in 1..n : one[i] =
            [def |-> 0, rep |-> levels[i].rep, val |-> vals[i]]
  BY FlatEntries
<1>5. /\ two \in Seq(Entry) /\ Len(two) = m
      /\ \A i \in 1..m : two[i] =
            [def |-> 0, rep |-> more[i].rep, val |-> added[i]]
  BY FlatEntries
<1> HIDE DEF ls, vs
<1>6. AllFlat(ls)
  <2>1. ASSUME NEW i \in 1..(n + m) PROVE ls[i].def = 0
    <3>1. CASE i <= n
      <4>1. i \in 1..n
        BY <1>1, <3>1
      <4>2. QED
        BY <1>2, <3>1, <4>1 DEF AllFlat
    <3>2. CASE i > n
      <4>1. i - n \in 1..m /\ ~(i <= n)
        BY <1>1, <3>2
      <4>2. QED
        BY <1>2, <4>1 DEF AllFlat
    <3>3. QED
      BY <1>1, <3>1, <3>2
  <2>2. QED
    BY <1>2, <2>1 DEF AllFlat
<1>7. /\ both \in Seq(Entry) /\ Len(both) = n + m
      /\ \A i \in 1..(n + m) : both[i] =
            [def |-> 0, rep |-> ls[i].rep, val |-> vs[i]]
  BY <1>2, <1>3, <1>6, FlatEntries
<1> HIDE DEF one, two, both, n, m
<1>8. /\ one \o two \in Seq(Entry) /\ Len(one \o two) = n + m
      /\ \A i \in 1..(n + m) : (one \o two)[i] =
            IF i <= n THEN one[i] ELSE two[i - n]
  <2>1. /\ one \in Seq(Entry) /\ two \in Seq(Entry)
        /\ Len(one) = n /\ Len(two) = m
    BY <1>4, <1>5
  <2>2. /\ one \o two \in Seq(Entry) /\ Len(one \o two) = Len(one) + Len(two)
        /\ \A i \in 1..(Len(one) + Len(two)) : (one \o two)[i] =
              IF i <= Len(one) THEN one[i] ELSE two[i - Len(one)]
    BY <2>1, ConcatProperties
  <2>3. QED
    BY <2>1, <2>2
<1>9. ASSUME NEW i \in 1..(n + m) PROVE both[i] = (one \o two)[i]
  <2>1. CASE i <= n
    <3>1. i \in 1..n
      BY <1>1, <2>1
    <3>2. ls[i] = levels[i] /\ vs[i] = vals[i] /\ (one \o two)[i] = one[i]
      BY <1>2, <1>3, <1>8, <2>1
    <3>3. both[i] = [def |-> 0, rep |-> ls[i].rep, val |-> vs[i]]
      BY <1>7
    <3>4. one[i] = [def |-> 0, rep |-> levels[i].rep, val |-> vals[i]]
      BY <1>4, <3>1
    <3>5. QED
      BY <3>2, <3>3, <3>4
  <2>2. CASE i > n
    <3> DEFINE k == i - n
    <3>1. k \in 1..m /\ ~(i <= n)
      BY <1>1, <2>2
    <3>2. ls[i] = more[k] /\ vs[i] = added[k] /\ (one \o two)[i] = two[k]
      BY <1>2, <1>3, <1>8, <3>1
    <3> HIDE DEF k
    <3>3. both[i] = [def |-> 0, rep |-> ls[i].rep, val |-> vs[i]]
      BY <1>7
    <3>4. two[k] = [def |-> 0, rep |-> more[k].rep, val |-> added[k]]
      BY <1>5, <3>1
    <3>5. QED
      BY <3>2, <3>3, <3>4
  <2>3. i <= n \/ i > n
    BY <1>1
  <2>4. QED
    BY <2>1, <2>2, <2>3, Zenon
<1>10. both = one \o two
  BY <1>7, <1>8, <1>9, SeqEqual
<1>11. QED
  BY <1>10 DEF both, one, two, ls, vs

-----------------------------------------------------------------------------
(* What the operations of a column writer do to the entries it holds.      *)

Coded(c) ==
    \A k \in 1..Len(c.pages) :
        c.pages[k].values.encoding = "PLAIN" =>
            c.pages[k].values.data \in Seq(Data)

(* The page being made, as a reader would decode it now.                   *)
Unflushed(c) == Entries(c.maxDef, c.levels, Decoded(c.enc))

LEMMA ColumnParts ==
    ASSUME NEW c \in Column, ColumnSound(c)
    PROVE  /\ c.maxDef \in Nat /\ c.maxRep \in Nat
           /\ c.enc \in ValueEncoder /\ EncoderSound(c.enc)
           /\ c.enc.entries \in Seq(Data)
           /\ c.levels \in Seq(Level) /\ c.pages \in Seq(Page)
           /\ Len(c.pages) \in Nat /\ Len(c.levels) \in Nat
           /\ Decoded(c.enc) \in Seq(Data)
           /\ Len(Decoded(c.enc)) = ValueCount(c.maxDef, c.levels)
           /\ Unflushed(c) \in Seq(Entry)
<1>1. /\ c.maxDef \in Nat /\ c.maxRep \in Nat
      /\ c.enc \in ValueEncoder /\ EncoderSound(c.enc)
      /\ c.levels \in Seq(Level) /\ c.pages \in Seq(Page)
  BY DEF Column, ColumnSound
<1>2. c.enc.entries \in Seq(Data)
  BY <1>1 DEF ValueEncoder
<1>3. Len(c.pages) \in Nat /\ Len(c.levels) \in Nat
  BY <1>1, LenProperties
<1>4. /\ Decoded(c.enc) \in Seq(Data)
      /\ Len(Decoded(c.enc)) = Len(Encoded(c.enc).data)
  BY <1>1, DecodedType DEF EncoderSound
<1>5. Len(Decoded(c.enc)) = ValueCount(c.maxDef, c.levels)
  BY <1>4 DEF ColumnSound
<1>6. Unflushed(c) \in Seq(Entry)
  BY <1>1, <1>4, <1>5, EntriesType DEF Unflushed
<1>7. QED
  BY <1>1, <1>2, <1>3, <1>4, <1>5, <1>6

LEMMA PagesAreGood ==
    ASSUME NEW c \in Column, ColumnSound(c), Coded(c)
    PROVE  c.pages \in Seq(Good(c.maxDef, c.enc.entries))
<1> DEFINE n == Len(c.pages)
           G == Good(c.maxDef, c.enc.entries)
<1>1. c.pages \in Seq(Page) /\ n \in Nat
  BY ColumnParts
<1>2. ASSUME NEW k \in 1..n PROVE c.pages[k] \in G
  <2> DEFINE page == c.pages[k]
  <2>1. page \in Page
    BY <1>1, ElementOfSeq
  <2>2. PageSound(c, page)
    BY DEF ColumnSound
  <2>3. page.values.encoding = "PLAIN" => page.values.data \in Seq(Data)
    BY DEF Coded
  <2> HIDE DEF page
  <2>4. page \in G
    BY <2>1, <2>2, <2>3 DEF Good, WellCoded, PageSound
  <2>5. QED
    BY <2>4 DEF page
<1>3. c.pages = [k \in 1..n |-> c.pages[k]]
  BY <1>1
<1> HIDE DEF n, G
<1>4. [k \in 1..n |-> c.pages[k]] \in [1..n -> G]
  BY <1>2
<1>5. c.pages \in Seq(G)
  BY <1>1, <1>3, <1>4
<1>6. QED
  BY <1>5 DEF G

LEMMA PageMadeIsGood ==
    ASSUME NEW c \in Column, ColumnSound(c)
    PROVE  /\ PageMade(c) \in Good(c.maxDef, c.enc.entries)
           /\ PageEntries(c.maxDef, c.enc.entries, PageMade(c)) = Unflushed(c)
<1> DEFINE page == PageMade(c)
           d == FlushPage(c)
<1>1. c.pages \in Seq(Page) /\ c.enc \in ValueEncoder /\ Len(c.pages) \in Nat
      /\ EncoderSound(c.enc)
  BY ColumnParts
<1>2. page \in Page
  BY <1>1, FlushedType DEF PageMade, Page, Column
<1>3. /\ d.pages = Append(c.pages, page) /\ d.enc = Flushed(c.enc)
      /\ d.maxDef = c.maxDef
  BY DEF FlushPage, PageMade, Column
<1>4. ColumnSound(d)
  BY FlushPageSound
<1>5. d.enc.entries = c.enc.entries
  BY <1>1, <1>3, FlushedSound
<1> HIDE DEF page, d
<1>6. /\ Len(d.pages) = Len(c.pages) + 1
      /\ d.pages[Len(c.pages) + 1] = page
  BY <1>1, <1>2, <1>3, AppendProperties
<1>7. PageSound(d, page)
  <2>1. Len(c.pages) + 1 \in 1..Len(d.pages)
    BY <1>1, <1>6
  <2>2. QED
    BY <1>4, <1>6, <2>1 DEF ColumnSound
<1>8. page.values.encoding = "PLAIN" => page.values.data \in Seq(Data)
  BY DEF page, PageMade, Encoded, ValueEncoder, Column
<1>9. page \in Good(c.maxDef, c.enc.entries)
  BY <1>2, <1>3, <1>5, <1>7, <1>8 DEF Good, WellCoded, PageSound
<1>10. PageEntries(c.maxDef, c.enc.entries, page) = Unflushed(c)
  BY DEF page, PageMade, PageEntries, Unflushed, Decoded
<1>11. QED
  BY <1>9, <1>10 DEF page

LEMMA HeldInParts ==
    ASSUME NEW c \in Column, ColumnSound(c), Coded(c)
    PROVE  /\ EntriesOf(c.maxDef, c.enc.entries, c.pages) \in Seq(Entry)
           /\ HeldBy(c) =
                 EntriesOf(c.maxDef, c.enc.entries, c.pages) \o Unflushed(c)
           /\ HeldBy(c) \in Seq(Entry)
<1>1. /\ c.maxDef \in Nat /\ c.enc.entries \in Seq(Data)
      /\ Unflushed(c) \in Seq(Entry)
  BY ColumnParts
<1>2. c.pages \in Seq(Good(c.maxDef, c.enc.entries))
  BY PagesAreGood
<1>3. EntriesOf(c.maxDef, c.enc.entries, c.pages) \in Seq(Entry)
  BY <1>1, <1>2, ReadsType
<1>4. HeldBy(c) = EntriesOf(c.maxDef, c.enc.entries, c.pages) \o Unflushed(c)
  BY <1>1, <1>2, PageMadeIsGood, EntriesAppend DEF HeldBy
<1>5. QED
  BY <1>1, <1>3, <1>4, ConcatProperties

(* What putting values leaves as it is: all but the page being made; the   *)
(* dictionary only grows.                                                  *)
OnlyTail(c, d) ==
    /\ d.maxDef = c.maxDef /\ d.pages = c.pages /\ d.dict = c.dict
    /\ d.used = c.used /\ HasDict(d.enc) = HasDict(c.enc)
    /\ Begins(c.enc.entries, d.enc.entries)

LEMMA TailGrows ==
    ASSUME NEW c \in Column, ColumnSound(c), Coded(c),
           NEW d \in Column, ColumnSound(d), OnlyTail(c, d),
           NEW new \in Seq(Entry), Unflushed(d) = Unflushed(c) \o new
    PROVE  Coded(d) /\ HeldBy(d) = HeldBy(c) \o new
<1>1. Coded(d)
  BY DEF Coded, OnlyTail
<1> DEFINE old == EntriesOf(c.maxDef, c.enc.entries, c.pages)
<1>2. /\ old \in Seq(Entry) /\ HeldBy(c) = old \o Unflushed(c)
      /\ HeldBy(d) = EntriesOf(d.maxDef, d.enc.entries, d.pages) \o Unflushed(d)
  BY <1>1, HeldInParts
<1>3. EntriesOf(d.maxDef, d.enc.entries, d.pages) = old
  <2>1. /\ c.maxDef \in Nat
        /\ c.enc.entries \in Seq(Data) /\ d.enc.entries \in Seq(Data)
    BY ColumnParts
  <2>2. c.pages \in Seq(Good(c.maxDef, c.enc.entries))
    BY PagesAreGood
  <2>3. Begins(c.enc.entries, d.enc.entries)
    BY DEF OnlyTail
  <2>4. EntriesOf(c.maxDef, d.enc.entries, c.pages) = old
    BY <2>1, <2>2, <2>3, EntriesAlike
  <2>5. QED
    BY <2>4 DEF OnlyTail
<1> HIDE DEF old
<1>4. Unflushed(c) \in Seq(Entry)
  BY ColumnParts
<1>5. old \o (Unflushed(c) \o new) = (old \o Unflushed(c)) \o new
  BY <1>2, <1>4, ConcatAssociative, SMTT(30)
<1>6. QED
  BY <1>1, <1>2, <1>3, <1>5

LEMMA PutHolds ==
    ASSUME NEW c \in Column, ColumnSound(c), Coded(c),
           NEW def \in 0..c.maxDef, NEW rep \in 0..c.maxRep, NEW v \in Data
    PROVE  LET d == Put(c, def, rep, v)
               entry == [def |-> def, rep |-> rep,
                         val |-> IF def = c.maxDef THEN v ELSE Null]
           IN  /\ OnlyTail(c, d) /\ Coded(d)
               /\ entry \in Entry
               /\ HeldBy(d) = Append(HeldBy(c), entry)
<1> DEFINE d == Put(c, def, rep, v)
           l == StoredLevel(c, def, rep)
           valued == c.maxDef = 0 \/ def = c.maxDef
           entry == [def |-> def, rep |-> rep,
                     val |-> IF def = c.maxDef THEN v ELSE Null]
<1>1. /\ c.maxDef \in Nat /\ c.maxRep \in Nat
      /\ c.enc \in ValueEncoder /\ EncoderSound(c.enc)
      /\ c.enc.entries \in Seq(Data)
      /\ c.levels \in Seq(Level)
      /\ Decoded(c.enc) \in Seq(Data)
      /\ Len(Decoded(c.enc)) = ValueCount(c.maxDef, c.levels)
  BY ColumnParts
<1>2. /\ l \in Level /\ l.def = def /\ l.rep = rep
      /\ (def = c.maxDef <=> valued)
  BY <1>1 DEF StoredLevel, Level
<1>3. /\ d \in Column /\ d.maxDef = c.maxDef
      /\ d.pages = c.pages /\ d.dict = c.dict
  BY PutType DEF SameLevels, SamePages
<1>4. ColumnSound(d)
  BY PutSound
<1>5. /\ d.levels = Append(c.levels, l) /\ d.used = c.used
      /\ d.enc = IF valued THEN PutValues(c.enc, <<v>>) ELSE c.enc
  BY DEF Put, Column
<1>6. entry \in Entry
  BY <1>1 DEF Entry
<1> HIDE DEF d, l, valued
<1>7. /\ HasDict(d.enc) = HasDict(c.enc)
      /\ Begins(c.enc.entries, d.enc.entries)
      /\ Decoded(d.enc) = IF valued THEN Decoded(c.enc) \o <<v>>
                          ELSE Decoded(c.enc)
  <2>1. <<v>> \in Seq(Data)
    OBVIOUS
  <2>2. CASE valued
    <3>1. d.enc = PutValues(c.enc, <<v>>)
      BY <1>5, <2>2
    <3>2. QED
      BY <1>1, <2>1, <2>2, <3>1, PutValuesSound, PutValuesDecodes
  <2>3. CASE ~valued
    BY <1>1, <1>5, <2>3, BeginsFacts
  <2>4. QED
    BY <2>2, <2>3
<1>8. OnlyTail(c, d)
  BY <1>3, <1>5, <1>7 DEF OnlyTail
<1>9. Unflushed(d) = Append(Unflushed(c), entry)
  <2>1. Decoded(d.enc) \in Seq(Data)
    BY <1>3, <1>4, ColumnParts
  <2>2. Decoded(d.enc) = IF l.def = c.maxDef THEN Decoded(c.enc) \o <<v>>
                         ELSE Decoded(c.enc)
    BY <1>2, <1>7
  <2>3. Entries(c.maxDef, Append(c.levels, l), Decoded(d.enc)) =
           Append(Entries(c.maxDef, c.levels, Decoded(c.enc)),
                  EntryFor(c.maxDef, l, v))
    <3> DEFINE m == c.maxDef
               levels == c.levels
               vals == Decoded(c.enc)
               more == Decoded(d.enc)
    <3>1. /\ m \in Nat /\ levels \in Seq(Level) /\ l \in Level
          /\ vals \in Seq(Data) /\ more \in Seq(Data)
          /\ Len(vals) = ValueCount(m, levels)
          /\ l.def = m => more = vals \o <<v>>
          /\ l.def # m => more = vals
      BY <1>1, <1>2, <2>1, <2>2
    <3> HIDE DEF m, levels, vals, more
    <3>2. Entries(m, Append(levels, l), more) =
             Append(Entries(m, levels, vals), EntryFor(m, l, v))
      BY <3>1, EntryAppended
    <3>3. QED
      BY <3>2 DEF m, levels, vals, more
  <2>4. EntryFor(c.maxDef, l, v) = entry
    BY <1>2 DEF EntryFor
  <2>5. QED
    BY <1>3, <1>5, <2>3, <2>4 DEF Unflushed
<1> HIDE DEF entry
<1>10. /\ Unflushed(c) \in Seq(Entry) /\ <<entry>> \in Seq(Entry)
       /\ Append(Unflushed(c), entry) = Unflushed(c) \o <<entry>>
  BY <1>6, ColumnParts, AppendIsConcat
<1>11. Coded(d) /\ HeldBy(d) = HeldBy(c) \o <<entry>>
  BY <1>3, <1>4, <1>8, <1>9, <1>10, TailGrows, ZenonT(30)
<1>12. HeldBy(c) \o <<entry>> = Append(HeldBy(c), entry)
  BY <1>6, HeldInParts, AppendIsConcat
<1>13. QED
  BY <1>6, <1>8, <1>11, <1>12 DEF d, entry

LEMMA PutBatchHolds ==
    ASSUME NEW c \in Column, c.maxDef = 0, ColumnSound(c), Coded(c),
           NEW levels \in Seq(Level), NEW vals \in Seq(Data),
           Len(vals) = Len(levels),
           \A k \in 1..Len(levels) : /\ levels[k].def <= c.maxDef
                                     /\ levels[k].rep <= c.maxRep
    PROVE  LET d == PutBatch(c, levels, vals)
           IN  /\ OnlyTail(c, d) /\ Coded(d)
               /\ Entries(0, levels, vals) \in Seq(Entry)
               /\ Len(Entries(0, levels, vals)) = Len(levels)
               /\ HeldBy(d) = HeldBy(c) \o Entries(0, levels, vals)
<1> DEFINE d == PutBatch(c, levels, vals)
           n == Len(levels)
           taken == [i \in 1..BatchValueCount(c, levels) |->
                        IF i <= Len(vals) THEN vals[i] ELSE Garbage]
           stored == [i \in 1..n |->
                         StoredLevel(c, levels[i].def, levels[i].rep)]
           new == Entries(0, levels, vals)
<1>1. /\ c.maxRep \in Nat /\ c.enc \in ValueEncoder /\ EncoderSound(c.enc)
      /\ c.levels \in Seq(Level) /\ Decoded(c.enc) \in Seq(Data)
      /\ Len(Decoded(c.enc)) = ValueCount(0, c.levels)
      /\ n \in Nat
  BY ColumnParts, LenProperties
<1>2. taken = vals
  <2>1. BatchValueCount(c, levels) = n /\ n = Len(vals)
    BY DEF BatchValueCount
  <2>2. taken = [i \in 1..n |-> vals[i]]
    BY <2>1
  <2>3. vals = [i \in 1..Len(vals) |-> vals[i]]
    BY LenProperties
  <2> HIDE DEF taken
  <2>4. QED
    BY <2>1, <2>2, <2>3
<1>3. stored = levels /\ AllFlat(levels)
  <2>1. ASSUME NEW i \in 1..n
        PROVE  /\ StoredLevel(c, levels[i].def, levels[i].rep) = levels[i]
               /\ levels[i].def = 0
    <3>1. levels[i] \in Level
      BY ElementOfSeq
    <3>2. levels[i].def = 0 /\ (c.maxRep = 0 => levels[i].rep = 0)
      BY <1>1, <3>1 DEF Level
    <3>3. StoredLevel(c, levels[i].def, levels[i].rep) =
             [def |-> levels[i].def, rep |-> levels[i].rep]
      BY <1>1, <3>2 DEF StoredLevel
    <3>4. QED
      BY <3>1, <3>2, <3>3 DEF Level
  <2>2. stored = [i \in 1..n |-> levels[i]]
    BY <2>1
  <2>3. levels = [i \in 1..n |-> levels[i]]
    BY LenProperties
  <2>4. AllFlat(levels)
    BY <2>1 DEF AllFlat
  <2> HIDE DEF stored
  <2>5. QED
    BY <2>2, <2>3, <2>4
<1>4. /\ d \in Column /\ d.maxDef = 0
      /\ d.pages = c.pages /\ d.dict = c.dict
  BY PutBatchType DEF SameLevels, SamePages
<1>5. ColumnSound(d)
  BY PutBatchSound
<1>6. /\ d.levels = c.levels \o stored /\ d.enc = PutValues(c.enc, taken)
      /\ d.used = c.used
  BY DEF PutBatch, Column
<1> HIDE DEF d, stored, taken
<1>7. /\ HasDict(d.enc) = HasDict(c.enc)
      /\ Begins(c.enc.entries, d.enc.entries)
      /\ Decoded(d.enc) = Decoded(c.enc) \o vals
  BY <1>1, <1>2, <1>6, PutValuesSound, PutValuesDecodes
<1>8. OnlyTail(c, d)
  BY <1>4, <1>6, <1>7 DEF OnlyTail
<1>9. AllFlat(c.levels) /\ Len(Decoded(c.enc)) = Len(c.levels)
  <2>1. \A k \in 1..Len(c.levels) : c.levels[k].def <= 0
    BY DEF ColumnSound
  <2>2. ASSUME NEW k \in 1..Len(c.levels) PROVE c.levels[k].def = 0
    <3>1. c.levels[k] \in Level
      BY <1>1, ElementOfSeq
    <3>2. QED
      BY <2>1, <3>1 DEF Level
  <2>3. QED
    BY <1>1, <2>1, <2>2, CountAll DEF AllFlat
<1>10. Unflushed(d) = Unflushed(c) \o new
  <2>1. Entries(0, c.levels \o levels, Decoded(c.enc) \o vals) =
           Entries(0, c.levels, Decoded(c.enc)) \o Entries(0, levels, vals)
    BY <1>1, <1>3, <1>9, EntriesConcat
  <2>2. QED
    BY <1>3, <1>4, <1>6, <1>7, <2>1 DEF Unflushed
<1>11. new \in Seq(Entry) /\ Len(new) = Len(levels)
  BY <1>3, FlatEntries
<1> HIDE DEF new
<1>12. Coded(d) /\ HeldBy(d) = HeldBy(c) \o new
  BY <1>4, <1>5, <1>8, <1>10, <1>11, TailGrows
<1>13. QED
  BY <1>8, <1>11, <1>12 DEF d, new

(* A page without levels has no entries.                                   *)
LEMMA NothingInTail ==
    ASSUME NEW c, c.levels = <<>>
    PROVE  Unflushed(c) = <<>>
BY DEF Unflushed, Entries

LEMMA FlushPageHolds ==
    ASSUME NEW c \in Column, ColumnSound(c), Coded(c), Listed(c, c.used)
    PROVE  LET d == FlushPage(c)
           IN  /\ Coded(d) /\ Listed(d, d.used) /\ d.levels = <<>>
               /\ d.enc.entries = c.enc.entries
               /\ HasDict(d.enc) = HasDict(c.enc)
               /\ HeldBy(d) = HeldBy(c)
<1> DEFINE d == FlushPage(c)
           page == PageMade(c)
<1>1. /\ c.maxDef \in Nat /\ c.enc.entries \in Seq(Data)
      /\ c.pages \in Seq(Page) /\ Len(c.pages) \in Nat
      /\ c.enc \in ValueEncoder /\ EncoderSound(c.enc)
  BY ColumnParts
<1>2. /\ d.pages = Append(c.pages, page) /\ d.enc = Flushed(c.enc)
      /\ d.levels = <<>> /\ d.used = c.used \cup {page.values.encoding}
      /\ d.maxDef = c.maxDef
  BY DEF FlushPage, PageMade, Column
<1>3. d \in Column /\ ColumnSound(d)
  BY FlushPageType, FlushPageSound
<1>4. d.enc.entries = c.enc.entries /\ HasDict(d.enc) = HasDict(c.enc)
  BY <1>1, <1>2, FlushedSound
<1>5. page \in Good(c.maxDef, c.enc.entries) /\ page \in Page
  BY PageMadeIsGood DEF Good
<1> HIDE DEF d, page
<1>6. /\ Len(d.pages) = Len(c.pages) + 1
      /\ \A k \in 1..Len(c.pages) : d.pages[k] = c.pages[k]
      /\ d.pages[Len(c.pages) + 1] = page
  BY <1>1, <1>2, <1>5, AppendProperties
<1>7. Coded(d) /\ Listed(d, d.used)
  <2>1. ASSUME NEW k \in 1..Len(d.pages)
        PROVE  /\ d.pages[k].values.encoding = "PLAIN" =>
                     d.pages[k].values.data \in Seq(Data)
               /\ d.pages[k].values.encoding \in d.used
    <3>1. CASE k = Len(c.pages) + 1
      BY <1>2, <1>5, <1>6, <3>1 DEF Good, WellCoded
    <3>2. CASE k # Len(c.pages) + 1
      <4>1. k \in 1..Len(c.pages)
        BY <1>1, <1>6, <3>2
      <4>2. QED
        BY <1>2, <1>6, <4>1 DEF Coded, Listed
    <3>3. QED
      BY <3>1, <3>2
  <2>2. QED
    BY <2>1 DEF Coded, Listed
<1>8. HeldBy(d) = HeldBy(c)
  <2>1. Unflushed(d) = <<>>
    BY <1>2, NothingInTail
  <2>2. /\ HeldBy(d) = EntriesOf(d.maxDef, d.enc.entries, d.pages) \o Unflushed(d)
        /\ EntriesOf(d.maxDef, d.enc.entries, d.pages) \in Seq(Entry)
    BY <1>3, <1>7, HeldInParts
  <2>3. HeldBy(d) = EntriesOf(d.maxDef, d.enc.entries, d.pages)
    BY <2>1, <2>2, ConcatEmptySeq
  <2>4. QED
    BY <1>2, <1>4, <2>3 DEF HeldBy, page
<1>9. QED
  BY <1>2, <1>4, <1>7, <1>8 DEF d

LEMMA FlushPendingHolds ==
    ASSUME NEW c \in Column, ColumnSound(c), Coded(c), Listed(c, c.used)
    PROVE  LET d == FlushPending(c)
           IN  /\ Coded(d) /\ Listed(d, d.used) /\ d.levels = <<>>
               /\ d.enc.entries = c.enc.entries
               /\ HasDict(d.enc) = HasDict(c.enc)
               /\ HeldBy(d) = HeldBy(c)
<1>1. CASE Len(c.levels) > 0
  BY <1>1, FlushPageHolds DEF FlushPending
<1>2. CASE ~(Len(c.levels) > 0)
  <2>1. c.levels \in Seq(Level) /\ Len(c.levels) \in Nat
    BY ColumnParts
  <2>2. c.levels = <<>>
    BY <1>2, <2>1, EmptySeq
  <2>3. FlushPending(c) = c
    BY <1>2 DEF FlushPending
  <2>4. QED
    BY <2>2, <2>3
<1>3. QED
  BY <1>1, <1>2

LEMMA FillDictionaryPageHolds ==
    ASSUME NEW c \in Column, Coded(c), Listed(c, c.used)
    PROVE  LET d == FillDictionaryPage(c)
           IN  /\ Coded(d) /\ Listed(d, d.used) /\ d.levels = c.levels
               /\ d.enc = c.enc /\ d.dict = c.enc.entries
               /\ d.pages = c.pages /\ d.used = c.used /\ d.maxDef = c.maxDef
               /\ HeldBy(d) = HeldBy(c)
<1> DEFINE d == FillDictionaryPage(c)
<1>1. /\ d.enc = c.enc /\ d.levels = c.levels /\ d.pages = c.pages
      /\ d.maxDef = c.maxDef /\ d.dict = c.enc.entries /\ d.used = c.used
  BY DEF FillDictionaryPage, Column
<1> HIDE DEF d
<1>2. Coded(d) /\ Listed(d, d.used) /\ HeldBy(d) = HeldBy(c)
  BY <1>1 DEF Coded, Listed, HeldBy, PageMade
<1>3. QED
  BY <1>1, <1>2 DEF d

LEMMA ClearPagesHolds ==
    ASSUME NEW c \in Column, ColumnSound(c), Coded(c)
    PROVE  LET d == ClearPages(c)
           IN  /\ Coded(d) /\ Listed(d, d.used)
               /\ d.levels = c.levels /\ d.pages = <<>> /\ d.enc = c.enc
               /\ HeldBy(d) \in Seq(Entry)
               /\ HeldBy(c) =
                     EntriesOf(c.maxDef, c.enc.entries, c.pages) \o HeldBy(d)
<1> DEFINE d == ClearPages(c)
<1>1. /\ d.enc = c.enc /\ d.levels = c.levels /\ d.pages = <<>>
      /\ d.maxDef = c.maxDef
  BY DEF ClearPages, Column
<1>2. d \in Column /\ ColumnSound(d)
  BY ClearPagesType, ClearPagesSound
<1> HIDE DEF d
<1>3. Coded(d) /\ Listed(d, d.used)
  BY <1>1 DEF Coded, Listed
<1>4. Unflushed(d) = Unflushed(c)
  BY <1>1 DEF Unflushed
<1>5. HeldBy(d) = Unflushed(d)
  <2>1. EntriesOf(d.maxDef, d.enc.entries, d.pages) = <<>>
    BY <1>1, NoEntries, ColumnParts
  <2>2. Unflushed(d) \in Seq(Entry)
    BY <1>2, ColumnParts
  <2>3. QED
    BY <1>2, <1>3, <2>1, <2>2, HeldInParts, ConcatEmptySeq
<1>6. QED
  BY <1>1, <1>2, <1>3, <1>4, <1>5, HeldInParts, ColumnParts DEF d

LEMMA EmptyHoldsNothing ==
    ASSUME NEW c \in Column, ColumnSound(c), Empty(c)
    PROVE  HeldBy(c) = <<>>
<1>1. Coded(c) /\ c.pages = <<>> /\ c.levels = <<>>
  BY DEF Coded, Empty
<1>2. EntriesOf(c.maxDef, c.enc.entries, c.pages) = <<>>
  BY <1>1, NoEntries, ColumnParts
<1>3. Unflushed(c) = <<>>
  BY <1>1, NothingInTail
<1>4. <<>> \o <<>> = <<>>
  OBVIOUS
<1>5. QED
  BY <1>1, <1>2, <1>3, <1>4, HeldInParts

-----------------------------------------------------------------------------
(* Ranges of the sink.                                                     *)

PosBefore(s, at) == Cardinality({k \in 1..Len(s) : s[k].pos < at})

WritesIn(s, meta) ==
    SubSeq(s, PosBefore(s, Start(meta)) + 1, PosBefore(s, End(meta)))

SinceIn(s, at) == SubSeq(s, PosBefore(s, at) + 1, Len(s))

LEMMA PosBeforeBound ==
    ASSUME NEW s \in Seq(Accepted), NEW at
    PROVE  PosBefore(s, at) \in 0..Len(s) /\ Len(s) \in Nat
<1> DEFINE S == {k \in 1..Len(s) : s[k].pos < at}
<1>1. Len(s) \in Nat /\ S \in SUBSET (1..Len(s))
  BY LenProperties
<1>2. Cardinality(S) \in Nat /\ Cardinality(S) <= Len(s)
  BY <1>1, CountType
<1> HIDE DEF S
<1>3. PosBefore(s, at) = Cardinality(S)
  BY DEF PosBefore, S
<1>4. QED
  BY <1>1, <1>2, <1>3

LEMMA AllBefore ==
    ASSUME NEW s \in Seq(Accepted), NEW at,
           \A k \in 1..Len(s) : s[k].pos < at
    PROVE  PosBefore(s, at) = Len(s)
<1>1. {k \in 1..Len(s) : s[k].pos < at} = 1..Len(s)
  OBVIOUS
<1>2. QED
  BY <1>1, CountUpto, LenProperties DEF PosBefore

LEMMA BeforeAppended ==
    ASSUME NEW s \in Seq(Accepted), NEW w \in Accepted, NEW at \in Nat,
           at <= w.pos
    PROVE  PosBefore(Append(s, w), at) = PosBefore(s, at)
<1> DEFINE t == Append(s, w)
           n == Len(s)
<1>1. /\ n \in Nat /\ Len(t) = n + 1 /\ t[n + 1] = w
      /\ \A k \in 1..n : t[k] = s[k]
  BY LenProperties, AppendProperties
<1>2. w.pos \in Nat /\ ~(w.pos < at)
  BY DEF Accepted
<1> HIDE DEF t, n
<1>3. {k \in 1..(n + 1) : t[k].pos < at} = {k \in 1..n : s[k].pos < at}
  <2>1. \A k \in 1..(n + 1) : k \in 1..n \/ k = n + 1
    BY <1>1
  <2>2. \A k \in 1..n : k \in 1..(n + 1)
    BY <1>1
  <2>3. QED
    BY <1>1, <1>2, <2>1, <2>2
<1>4. QED
  BY <1>1, <1>3 DEF PosBefore, n, t

LEMMA SubSeqKept ==
    ASSUME NEW s \in Seq(Accepted), NEW w \in Accepted,
           NEW m \in 0..Len(s), NEW n \in 0..Len(s)
    PROVE  SubSeq(Append(s, w), m + 1, n) = SubSeq(s, m + 1, n)
<1>1. Len(s) \in Nat
  BY LenProperties
<1>2. CASE n < m + 1
  BY <1>1, <1>2, SubSeqEmpty
<1>3. CASE ~(n < m + 1)
  <2>1. m + 1 \in 1..Len(s) /\ n \in 1..Len(s)
    BY <1>1, <1>3
  <2>2. <<w>> \in Seq(Accepted) /\ Append(s, w) = s \o <<w>>
    BY AppendIsConcat
  <2>3. QED
    BY <2>1, <2>2, SubSeqOfConcat1
<1>4. QED
  BY <1>2, <1>3

(* What was written of a chunk that is complete does not change.           *)
LEMMA WritesKept ==
    ASSUME NEW s \in Seq(Accepted), NEW w \in Accepted, NEW meta,
           Start(meta) \in Nat, End(meta) \in Nat,
           Start(meta) <= w.pos, End(meta) <= w.pos
    PROVE  WritesIn(Append(s, w), meta) = WritesIn(s, meta)
<1> DEFINE m == PosBefore(s, Start(meta))
           n == PosBefore(s, End(meta))
<1>1. m \in 0..Len(s) /\ n \in 0..Len(s)
  BY PosBeforeBound
<1>2. /\ PosBefore(Append(s, w), Start(meta)) = m
      /\ PosBefore(Append(s, w), End(meta)) = n
  BY BeforeAppended
<1> HIDE DEF m, n
<1>3. SubSeq(Append(s, w), m + 1, n) = SubSeq(s, m + 1, n)
  BY <1>1, SubSeqKept
<1>4. QED
  BY <1>2, <1>3 DEF WritesIn, m, n

LEMMA SinceNone ==
    ASSUME NEW s \in Seq(Accepted), NEW at,
           \A k \in 1..Len(s) : s[k].pos < at
    PROVE  SinceIn(s, at) = <<>>
<1>1. PosBefore(s, at) = Len(s) /\ Len(s) \in Nat
  BY AllBefore, LenProperties
<1>2. SubSeq(s, Len(s) + 1, Len(s)) = <<>>
  BY <1>1, SubSeqEmpty
<1>3. QED
  BY <1>1, <1>2 DEF SinceIn

LEMMA SinceType ==
    ASSUME NEW s \in Seq(Accepted), NEW at
    PROVE  SinceIn(s, at) \in Seq(Accepted) /\ Len(SinceIn(s, at)) \in Nat
<1> DEFINE m == PosBefore(s, at)
<1>1. m \in 0..Len(s) /\ Len(s) \in Nat
  BY PosBeforeBound
<1> HIDE DEF m
<1>2. \A k \in (m + 1)..Len(s) : s[k] \in Accepted
  BY <1>1, ElementOfSeq
<1>3. m + 1 \in Int /\ Len(s) \in Int
  BY <1>1
<1>4. SubSeq(s, m + 1, Len(s)) \in Seq(Accepted)
  BY <1>2, <1>3, SubSeqProperties
<1>5. QED
  BY <1>4, LenProperties DEF SinceIn, m

LEMMA SinceAppended ==
    ASSUME NEW s \in Seq(Accepted), NEW w \in Accepted, NEW at \in Nat,
           at <= w.pos
    PROVE  SinceIn(Append(s, w), at) = Append(SinceIn(s, at), w)
<1> DEFINE t == Append(s, w)
           m == PosBefore(s, at)
           n == Len(s)
<1>1. m \in 0..n /\ n \in Nat
  BY PosBeforeBound
<1>2. PosBefore(t, at) = m
  BY BeforeAppended
<1>3. t \in Seq(Accepted) /\ Len(t) = n + 1 /\ t[n + 1] = w
  BY AppendProperties
<1> HIDE DEF t, m, n
<1>4. m + 1 \in 1..Len(t) /\ n + 1 \in (m + 1)..Len(t)
  BY <1>1, <1>3
<1>5. SubSeq(t, m + 1, n + 1) = SubSeq(t, m + 1, (n + 1) - 1) \o <<t[n + 1]>>
  BY <1>3, <1>4, SubSeqRecursiveSecond
<1>6. (n + 1) - 1 = n
  BY <1>1
<1>7. SubSeq(t, m + 1, n) = SubSeq(s, m + 1, n)
  <2>1. n \in 0..Len(s) /\ m \in 0..Len(s)
    BY <1>1 DEF n
  <2>2. QED
    BY <2>1, SubSeqKept DEF t
<1>8. SubSeq(s, m + 1, n) = SinceIn(s, at)
  BY DEF SinceIn, m, n
<1>9. SinceIn(s, at) \in Seq(Accepted)
  BY SinceType
<1>10. SinceIn(s, at) \o <<w>> = Append(SinceIn(s, at), w)
  BY <1>9, AppendIsConcat
<1>11. SinceIn(t, at) = SubSeq(t, m + 1, n + 1)
  BY <1>2, <1>3 DEF SinceIn
<1>12. QED
  BY <1>3, <1>5, <1>6, <1>7, <1>8, <1>10, <1>11 DEF t

(* The range of a chunk that was just completed: all since its beginning.  *)
LEMMA SinceIsWrites ==
    ASSUME NEW s \in Seq(Accepted), NEW w \in Accepted, NEW meta,
           Start(meta) \in Nat, End(meta) \in Nat,
           Start(meta) <= w.pos, End(meta) <= w.pos,
           \A k \in 1..Len(s) : s[k].pos < End(meta)
    PROVE  WritesIn(Append(s, w), meta) = SinceIn(s, Start(meta))
<1>1. WritesIn(Append(s, w), meta) = WritesIn(s, meta)
  BY WritesKept
<1>2. PosBefore(s, End(meta)) = Len(s)
  BY AllBefore
<1>3. QED
  BY <1>1, <1>2 DEF WritesIn, SinceIn

-----------------------------------------------------------------------------
(* The writes of a chunk, read.                                            *)

LEMMA LaidAppended ==
    ASSUME NEW ws \in Seq(Accepted), NEW w \in Accepted,
           NEW front, NEW dict, NEW pages,
           Laid(ws, front, dict, pages),
           LaidAt(w, Len(ws) + 1, front, dict, pages)
    PROVE  Laid(Append(ws, w), front, dict, pages)
<1> DEFINE t == Append(ws, w)
           n == Len(ws)
<1>1. /\ n \in Nat /\ Len(t) = n + 1 /\ t[n + 1] = w
      /\ \A k \in 1..n : t[k] = ws[k]
  BY LenProperties, AppendProperties
<1>2. /\ \A k \in 1..n : LaidAt(ws[k], k, front, dict, pages)
      /\ LaidAt(w, n + 1, front, dict, pages)
  BY DEF Laid
<1> HIDE DEF t, n
<1>3. ASSUME NEW k \in 1..(n + 1)
      PROVE  LaidAt(t[k], k, front, dict, pages)
  <2>1. CASE k = n + 1
    BY <1>1, <1>2, <2>1
  <2>2. CASE k # n + 1
    <3>1. k \in 1..n
      BY <1>1, <2>2
    <3>2. QED
      BY <1>1, <1>2, <3>1
  <2>3. QED
    BY <2>1, <2>2
<1>4. QED
  BY <1>1, <1>3 DEF Laid, t

LEMMA LaidRead ==
    ASSUME NEW ws \in Seq(Accepted), NEW front \in {0, 2}, NEW dict,
           NEW pages \in Seq(Page), Laid(ws, front, dict, pages),
           Len(ws) = front + 2 * Len(pages)
    PROVE  /\ HasDictionary(ws) <=> front = 2
           /\ PagesOf(ws) = pages
           /\ Dictionary(ws) = (IF front = 2 THEN dict ELSE <<>>)
           /\ Len(ws) % 2 = 0
           /\ \A k \in 1..Len(ws) :
                 IF k % 2 = 1 THEN ws[k].kind = "header"
                 ELSE ws[k].kind = "page" \/ (k = 2 /\ ws[k].kind = "dict")
<1> DEFINE n == Len(pages)
<1>1. n \in Nat /\ Len(ws) = front + 2 * n
  BY LenProperties
<1> HIDE DEF n
<1>2. ASSUME NEW k \in 1..Len(ws)
      PROVE  /\ k % 2 = 1 => ws[k].kind = "header"
             /\ k % 2 # 1 /\ k <= front =>
                   k = 2 /\ ws[k].kind = "dict" /\ ws[k].body = dict
             /\ k % 2 # 1 /\ ~(k <= front) => ws[k].kind = "page"
  <2>1. LaidAt(ws[k], k, front, dict, pages)
    BY DEF Laid
  <2>2. k \in Nat /\ k >= 1
    BY <1>1
  <2>3. k % 2 # 1 /\ k <= front => k = 2
    BY <2>2
  <2>4. QED
    BY <2>1, <2>3 DEF LaidAt
<1>3. HasDictionary(ws) <=> front = 2
  <2>1. CASE front = 2
    <3>1. 2 \in 1..Len(ws) /\ Len(ws) >= 2 /\ 2 % 2 # 1
      BY <1>1, <2>1
    <3>2. QED
      BY <1>2, <2>1, <3>1 DEF HasDictionary
  <2>2. CASE front = 0
    <3>1. Len(ws) >= 2 => 2 \in 1..Len(ws) /\ 2 % 2 # 1 /\ ~(2 <= front)
      BY <1>1, <2>2
    <3>2. QED
      BY <1>2, <2>2, <3>1 DEF HasDictionary
  <2>3. QED
    BY <2>1, <2>2
<1>4. Leading(ws) = front
  BY <1>3 DEF Leading
<1>5. Dictionary(ws) = (IF front = 2 THEN dict ELSE <<>>)
  <2>1. CASE front = 2
    <3>1. 2 \in 1..Len(ws) /\ 2 % 2 # 1 /\ 2 <= front
      BY <1>1, <2>1
    <3>2. QED
      BY <1>2, <1>3, <2>1, <3>1 DEF Dictionary
  <2>2. CASE front = 0
    BY <1>3, <2>2 DEF Dictionary
  <2>3. QED
    BY <2>1, <2>2
<1>6. PagesOf(ws) = pages
  <2>1. (Len(ws) - front) \div 2 = n
    BY <1>1
  <2>2. ASSUME NEW j \in 1..n PROVE ws[front + 2 * j].body = pages[j]
    <3> DEFINE k == front + 2 * j
    <3>1. /\ k \in 1..Len(ws) /\ k % 2 # 1 /\ ~(k <= front)
          /\ (k - front) \div 2 = j
      BY <1>1
    <3>2. LaidAt(ws[k], k, front, dict, pages)
      BY <3>1 DEF Laid
    <3> HIDE DEF k
    <3>3. QED
      BY <3>1, <3>2 DEF LaidAt, k
  <2>3. PagesOf(ws) = [j \in 1..n |-> ws[front + 2 * j].body]
    BY <1>4, <2>1 DEF PagesOf
  <2>4. PagesOf(ws) = [j \in 1..n |-> pages[j]]
    BY <2>2, <2>3
  <2>5. pages = [j \in 1..n |-> pages[j]]
    BY LenProperties DEF n
  <2>6. QED
    BY <2>4, <2>5
<1>7. Len(ws) % 2 = 0
  BY <1>1
<1>8. QED
  BY <1>2, <1>3, <1>5, <1>6, <1>7

-----------------------------------------------------------------------------
(* The invariant.  Its parts that speak of a chunk or a group do so of the *)
(* values of the variables, to compare them before and after a step.       *)

ReadOf(maxDef, ws) == EntriesOf(maxDef, Dictionary(ws), PagesOf(ws))

(* What ChunkReadable and MetaTrue say of a chunk whose writes are ws.     *)
ReadableAs(maxDef, ws, meta) ==
    /\ IF ws = <<>> THEN meta.compressed = 0
       ELSE /\ ws[1].pos = Start(meta)
            /\ ws[Len(ws)].pos + ws[Len(ws)].size = End(meta)
    /\ Len(ws) % 2 = 0
    /\ \A k \in 1..Len(ws) :
          IF k % 2 = 1 THEN ws[k].kind = "header"
          ELSE ws[k].kind = "page" \/ (k = 2 /\ ws[k].kind = "dict")
    /\ \A k \in 1..Len(PagesOf(ws)) :
          PageReadable(maxDef, Dictionary(ws), PagesOf(ws)[k])

TrueAs(maxDef, ws, meta) ==
    /\ meta.data = Start(meta)
         + (IF HasDictionary(ws)
            THEN HeaderBytes + CompressedSize(Len(Dictionary(ws)))
            ELSE 0)
    /\ meta.values = Len(ReadOf(maxDef, ws))
    /\ \A k \in 1..Len(PagesOf(ws)) :
          PagesOf(ws)[k].values.encoding \in meta.encodings

Fine(maxDef, ws, meta) ==
    /\ ReadableAs(maxDef, ws, meta)
    /\ TrueAs(maxDef, ws, meta)
    /\ ReadOf(maxDef, ws) \in Seq(Entry)

CountOf(gs, i) ==
    Cardinality({k \in 1..Len(gs) : Len(gs[k].columns) >= i})

ChunksIn(s, maxDef, gs, i) ==
    [k \in 1..CountOf(gs, i) |->
        ReadOf(maxDef, WritesIn(s, gs[k].columns[i]))]

SinkEnds ==
    /\ Len(sink) > 0 /\ sink[Len(sink)].pos + sink[Len(sink)].size = written
    /\ \A k \in 1..Len(sink) : sink[k].pos < written

(* The groups before the last one have all their chunks.                   *)
Writing == fiber.phase \in {"chunk", "dict", "header", "body"}

GroupsFilled ==
    \A k \in 1..Len(groups) :
        Len(groups[k].columns) = IF k = Len(groups) /\ Writing
                                 THEN fiber.col - 1 ELSE Len(Schema)

(* The pages of the chunk that are in the sink: those whose header is, to  *)
(* the metadata.                                                           *)
Counted(f) == IF f.phase = "header" THEN f.page - 1 ELSE f.page

(* The chunk of column c as far as it is written: the writes ws since the  *)
(* last chunk was placed, and the metadata filled in so far.               *)
SoFar(c, ws, meta, at, f) ==
    /\ meta.dict = (IF HasDict(c.enc) THEN 0 ELSE NoOffset)
    /\ HasDict(c.enc) => Begins(c.dict, c.enc.entries)
    /\ Listed(c, meta.encodings)
    /\ IF ws = <<>> THEN meta.compressed = 0 ELSE ws[1].pos = at
    /\ Laid(ws, DictWrites(c), c.dict, c.pages)
    /\ f.phase = "dict" => HasDict(c.enc) /\ Len(ws) = 1 /\ meta.values = 0
    /\ f.phase \in {"header", "body"} =>
          /\ f.page <= f.last + 1
          /\ meta.data = (IF HasDict(c.enc)
                          THEN HeaderBytes + CompressedSize(Len(c.dict))
                          ELSE 0)
          /\ meta.values = Len(EntriesOf(c.maxDef, CopyOf(c),
                                         SubSeq(c.pages, 1, Counted(f))))
          /\ Len(ws) = DictWrites(c) + 2 * (f.page - 1)
                         + (IF f.phase = "body" THEN 1 ELSE 0)

UnderWay ==
    fiber.phase \in {"dict", "header", "body"} =>
        SoFar(cols[fiber.col], SinceIn(sink, offset), cmd, offset, fiber)

ColumnsListed ==
    \A i \in Columns : Coded(cols[i]) /\ Listed(cols[i], cols[i].used)

ChunksTrue ==
    \A i \in Columns, k \in 1..Len(groups) :
        Len(groups[k].columns) >= i =>
            Fine(cols[i].maxDef, WritesIn(sink, groups[k].columns[i]),
                 groups[k].columns[i])

Kept ==
    \A i \in Columns :
        FlattenSeq(ChunksIn(sink, cols[i].maxDef, groups, i))
            \o HeldBy(cols[i]) = input[i]

(* Once close() is called, a column whose chunk is written has nothing.    *)
Closing ==
    /\ closed => fiber.phase # "idle"
    /\ fiber.phase \in {"footer", "closed"} =>
          closed /\ \A i \in Columns : Empty(cols[i])
    /\ closed /\ Writing =>
          /\ \A i \in Columns : i < fiber.col => Empty(cols[i])
          /\ fiber.phase # "chunk" => cols[fiber.col].levels = <<>>

ContentsInv ==
    /\ PagesInv /\ SinkEnds /\ GroupsFilled /\ UnderWay
    /\ ColumnsListed /\ ChunksTrue /\ Kept /\ Closing

-----------------------------------------------------------------------------
(* The chunks that are in the metadata.                                    *)

LEMMA PrefixCount ==
    ASSUME NEW gs, Len(gs) \in Nat, NEW i, NEW n \in 0..Len(gs),
           \A k \in 1..Len(gs) : (Len(gs[k].columns) >= i) <=> (k <= n)
    PROVE  CountOf(gs, i) = n
<1>1. {k \in 1..Len(gs) : Len(gs[k].columns) >= i} = 1..n
  <2>1. {k \in 1..Len(gs) : Len(gs[k].columns) >= i} =
           {k \in 1..Len(gs) : k <= n}
    OBVIOUS
  <2>2. {k \in 1..Len(gs) : k <= n} = 1..n
    OBVIOUS
  <2>3. QED
    BY <2>1, <2>2
<1>2. n \in Nat
  OBVIOUS
<1>3. Cardinality(1..n) = n
  BY <1>2, CountUpto
<1>4. QED
  BY <1>1, <1>3 DEF CountOf

LEMMA OffsetBound ==
    ASSUME FInv
    PROVE  offset \in Nat /\ written \in Nat /\ offset <= written
<1>1. /\ offset \in Nat /\ written \in Nat /\ cmd.compressed \in Nat
      /\ fiber.phase \in Phases
  BY DEF FInv, MetadataOK, SinkOK, FiberOK, ChunkMeta
<1>2. Ahead
  BY DEF FInv
<1>3. QED
  BY <1>1, <1>2 DEF Ahead, Phases, HeaderBytes

LEMMA ChunkEnds ==
    ASSUME FInv, NEW i \in Columns, NEW k \in 1..Len(groups),
           Len(groups[k].columns) >= i
    PROVE  LET meta == groups[k].columns[i]
           IN  /\ meta \in ChunkMeta
               /\ Start(meta) \in Nat /\ End(meta) \in Nat
               /\ Start(meta) <= End(meta) /\ End(meta) < offset
<1> DEFINE meta == groups[k].columns[i]
<1>1. groups[k] \in RowGroup
  BY ElementOfSeq DEF FInv, MetadataOK
<1>2. groups[k].columns \in Seq(ChunkMeta) /\ Len(groups[k].columns) \in Nat
  BY <1>1, LenProperties DEF RowGroup
<1>3. i \in 1..Len(groups[k].columns)
  BY <1>2 DEF Columns
<1>4. meta \in ChunkMeta
  BY <1>2, <1>3, ElementOfSeq
<1>5. /\ meta.dict \in Nat \cup {NoOffset} /\ meta.data \in Nat
      /\ meta.compressed \in Nat
  BY <1>4 DEF ChunkMeta
<1>6. End(meta) = meta.file /\ meta.file < offset
  <2>1. <<i, k>> \in AllMetas /\ Meta(<<i, k>>) = meta
    BY DEF AllMetas, Meta
  <2>2. \A p \in AllMetas :
           End(Meta(p)) = Meta(p).file /\ Meta(p).file < offset
    BY DEF FInv, Placed, MetaBehindChunk
  <2> HIDE DEF meta
  <2>3. QED
    BY <2>1, <2>2
<1> HIDE DEF meta
<1>7. Start(meta) \in Nat /\ End(meta) = Start(meta) + meta.compressed
  BY <1>5 DEF Start, End, NoOffset
<1>8. Start(meta) <= End(meta) /\ End(meta) \in Nat
  BY <1>5, <1>7
<1>9. QED
  BY <1>4, <1>6, <1>7, <1>8 DEF meta

(* A step writes nothing, or one thing at the end of the sink.             *)
SinkStep ==
    \/ sink' = sink
    \/ \E w \in Accepted : w.pos = written /\ sink' = Append(sink, w)

LEMMA ChunkStays ==
    ASSUME FInv, FInv', SinkStep,
           NEW i \in Columns, NEW k \in 1..Len(groups),
           Len(groups[k].columns) >= i,
           groups'[k].columns[i] = groups[k].columns[i]
    PROVE  /\ cols'[i].maxDef = cols[i].maxDef
           /\ WritesIn(sink', groups'[k].columns[i]) =
                 WritesIn(sink, groups[k].columns[i])
<1>1. cols'[i].maxDef = cols[i].maxDef
  BY DEF FInv, ColumnsOK, SameLevels, Columns
<1>2. PICK meta : meta = groups[k].columns[i]
  OBVIOUS
<1>3. Start(meta) \in Nat /\ End(meta) \in Nat
      /\ Start(meta) <= written /\ End(meta) <= written
  <2>1. /\ Start(meta) \in Nat /\ End(meta) \in Nat
        /\ Start(meta) <= End(meta) /\ End(meta) < offset
    BY <1>2, ChunkEnds
  <2>2. QED
    BY <2>1, OffsetBound
<1>4. WritesIn(sink', meta) = WritesIn(sink, meta)
  <2>1. CASE sink' = sink
    BY <2>1
  <2>2. CASE \E w \in Accepted : w.pos = written /\ sink' = Append(sink, w)
    <3>1. PICK w \in Accepted : w.pos = written /\ sink' = Append(sink, w)
      BY <2>2
    <3>2. PICK s : s = sink
      OBVIOUS
    <3>3. s \in Seq(Accepted)
      BY <3>2 DEF FInv, SinkOK
    <3>4. WritesIn(Append(s, w), meta) = WritesIn(s, meta)
      BY <1>3, <3>1, <3>3, WritesKept
    <3>5. QED
      BY <3>1, <3>2, <3>4
  <2>3. QED
    BY <2>1, <2>2 DEF SinkStep
<1>5. QED
  BY <1>1, <1>2, <1>4

Whole(i) == IF Writing /\ i >= fiber.col THEN Len(groups) - 1 ELSE Len(groups)

(* The chunks of a column are in the first groups, in all but the one that *)
(* is being written, or in all.                                            *)
LEMMA ChunkCounts ==
    ASSUME FInv, GroupsFilled, NEW i \in Columns
    PROVE  /\ Len(groups) \in Nat /\ CountOf(groups, i) = Whole(i)
           /\ Whole(i) \in 0..Len(groups)
           /\ \A k \in 1..Len(groups) :
                 (Len(groups[k].columns) >= i) <=> (k <= Whole(i))
<1>1. Len(groups) \in Nat /\ (Writing => Len(groups) > 0)
  BY LenProperties DEF FInv, MetadataOK, InChunk, Writing
<1>2. /\ i \in Nat /\ i >= 1 /\ i <= Len(Schema)
      /\ fiber.col \in Nat /\ Len(Schema) \in Nat
  <2>1. Len(Schema) \in Nat
    BY SchemaAssumption, LenProperties
  <2>2. fiber.col \in Columns
    BY DEF FInv, FiberOK
  <2>3. QED
    BY <2>1, <2>2 DEF Columns
<1>3. Whole(i) \in 0..Len(groups)
  BY <1>1 DEF Whole
<1>4. ASSUME NEW k \in 1..Len(groups)
      PROVE  (Len(groups[k].columns) >= i) <=> (k <= Whole(i))
  <2>1. Len(groups[k].columns) = IF k = Len(groups) /\ Writing
                                 THEN fiber.col - 1 ELSE Len(Schema)
    BY DEF GroupsFilled
  <2>2. CASE k = Len(groups) /\ Writing
    BY <1>1, <1>2, <2>1, <2>2 DEF Whole
  <2>3. CASE ~(k = Len(groups) /\ Writing)
    BY <1>1, <1>2, <2>1, <2>3 DEF Whole
  <2>4. QED
    BY <2>2, <2>3
<1>5. CountOf(groups, i) = Whole(i)
  <2> DEFINE n == Whole(i)
  <2>1. n \in 0..Len(groups)
    BY <1>3
  <2>2. \A k \in 1..Len(groups) : (Len(groups[k].columns) >= i) <=> (k <= n)
    BY <1>4
  <2> HIDE DEF n
  <2>3. CountOf(groups, i) = n
    BY <1>1, <2>1, <2>2, PrefixCount
  <2>4. QED
    BY <2>3 DEF n
<1>6. QED
  BY <1>1, <1>3, <1>4, <1>5

LEMMA ChunksType ==
    ASSUME FInv, GroupsFilled, ChunksTrue, NEW i \in Columns
    PROVE  ChunksIn(sink, cols[i].maxDef, groups, i) \in Seq(Seq(Entry))
<1> DEFINE n == Whole(i)
           read(k) == ReadOf(cols[i].maxDef, WritesIn(sink, groups[k].columns[i]))
<1>1. /\ n \in Nat /\ CountOf(groups, i) = n
      /\ \A k \in 1..n : k \in 1..Len(groups) /\ Len(groups[k].columns) >= i
  BY ChunkCounts
<1>2. \A k \in 1..n : read(k) \in Seq(Entry)
  BY <1>1 DEF ChunksTrue, Fine
<1>3. ChunksIn(sink, cols[i].maxDef, groups, i) = [k \in 1..n |-> read(k)]
  BY <1>1 DEF ChunksIn
<1> HIDE DEF n, read
<1>4. [k \in 1..n |-> read(k)] \in [1..n -> Seq(Entry)]
  BY <1>2
<1>5. [k \in 1..n |-> read(k)] \in Seq(Seq(Entry))
  BY <1>1, <1>4
<1>6. QED
  BY <1>3, <1>5

(* A step that places no chunk of a column leaves those it has.            *)
LEMMA ChunksStay ==
    ASSUME FInv, FInv', SinkStep, GroupsFilled,
           NEW i \in Columns, CountOf(groups', i) = Whole(i),
           \A k \in 1..Whole(i) :
              groups'[k].columns[i] = groups[k].columns[i]
    PROVE  ChunksIn(sink', cols'[i].maxDef, groups', i) =
              ChunksIn(sink, cols[i].maxDef, groups, i)
<1> DEFINE n == Whole(i)
           read(k) == ReadOf(cols[i].maxDef, WritesIn(sink, groups[k].columns[i]))
           reread(k) == ReadOf(cols'[i].maxDef,
                               WritesIn(sink', groups'[k].columns[i]))
<1>1. /\ n \in Nat /\ CountOf(groups, i) = n
      /\ \A k \in 1..n : k \in 1..Len(groups) /\ Len(groups[k].columns) >= i
  BY ChunkCounts
<1>2. CountOf(groups', i) = n
  OBVIOUS
<1>3. \A k \in 1..n : reread(k) = read(k)
  BY <1>1, ChunkStays
<1>4. /\ ChunksIn(sink, cols[i].maxDef, groups, i) = [k \in 1..n |-> read(k)]
      /\ ChunksIn(sink', cols'[i].maxDef, groups', i) =
            [k \in 1..n |-> reread(k)]
  BY <1>1, <1>2 DEF ChunksIn
<1> HIDE DEF n, read, reread
<1>5. [k \in 1..n |-> read(k)] = [k \in 1..n |-> reread(k)]
  BY <1>3
<1>6. QED
  BY <1>4, <1>5

LEMMA ChunkStaysFine ==
    ASSUME FInv, FInv', SinkStep, ChunksTrue,
           NEW i \in Columns, NEW k \in 1..Len(groups),
           Len(groups[k].columns) >= i,
           groups'[k].columns[i] = groups[k].columns[i]
    PROVE  Fine(cols'[i].maxDef, WritesIn(sink', groups'[k].columns[i]),
                groups'[k].columns[i])
<1>1. Fine(cols[i].maxDef, WritesIn(sink, groups[k].columns[i]),
           groups[k].columns[i])
  BY DEF ChunksTrue
<1>2. /\ cols'[i].maxDef = cols[i].maxDef
      /\ WritesIn(sink', groups'[k].columns[i]) =
            WritesIn(sink, groups[k].columns[i])
  BY ChunkStays
<1>3. QED
  BY <1>1, <1>2

(* A step of the writer that does not place a chunk.                       *)
LEMMA FinishedStay ==
    ASSUME FInv, FInv', SinkStep, GroupsFilled, ChunksTrue,
           groups' = groups, Writing' = Writing, fiber'.col = fiber.col
    PROVE  /\ GroupsFilled' /\ ChunksTrue'
           /\ \A i \in Columns :
                 ChunksIn(sink', cols'[i].maxDef, groups', i) =
                    ChunksIn(sink, cols[i].maxDef, groups, i)
<1>1. GroupsFilled'
  BY DEF GroupsFilled
<1>2. ChunksTrue'
  BY ChunkStaysFine DEF ChunksTrue
<1>3. ASSUME NEW i \in Columns
      PROVE  ChunksIn(sink', cols'[i].maxDef, groups', i) =
                ChunksIn(sink, cols[i].maxDef, groups, i)
  <2>1. CountOf(groups, i) = Whole(i)
    BY ChunkCounts
  <2>2. CountOf(groups', i) = CountOf(groups, i)
    OBVIOUS
  <2>3. QED
    BY <2>1, <2>2, ChunksStay
<1>4. QED
  BY <1>1, <1>2, <1>3

LEMMA SinkFacts ==
    ASSUME FInv, SinkEnds, NEW kind \in Kinds, NEW n \in Nat, n > 0,
           NEW body \in Seq(Data) \cup Page, Write(kind, n, body)
    PROVE  /\ SinkStep /\ SinkEnds'
           /\ \E w \in Accepted :
                 /\ w.kind = kind /\ w.body = body
                 /\ w.pos = written /\ w.size = n
                 /\ sink' = Append(sink, w)
                 /\ SinceIn(sink', offset) = Append(SinceIn(sink, offset), w)
<1> DEFINE w == [pos |-> written, size |-> n, kind |-> kind, body |-> body]
<1>1. /\ sink \in Seq(Accepted) /\ written \in Nat
      /\ offset \in Nat /\ offset <= written
  BY OffsetBound DEF FInv, SinkOK
<1>2. /\ w \in Accepted /\ w.kind = kind /\ w.body = body
      /\ w.pos = written /\ w.size = n
  BY <1>1 DEF Accepted
<1>3. sink' = Append(sink, w) /\ written' = written + n
  BY DEF Write
<1> HIDE DEF w
<1>4. SinceIn(Append(sink, w), offset) = Append(SinceIn(sink, offset), w)
  BY <1>1, <1>2, SinceAppended
<1>5. SinkEnds'
  <2>1. /\ Len(sink) \in Nat /\ Len(sink') = Len(sink) + 1
        /\ \A k \in 1..Len(sink) : sink'[k] = sink[k]
        /\ sink'[Len(sink) + 1] = w
    BY <1>1, <1>2, <1>3, LenProperties, AppendProperties
  <2>2. ASSUME NEW k \in 1..Len(sink') PROVE sink'[k].pos < written'
    <3>1. CASE k = Len(sink) + 1
      BY <1>1, <1>2, <1>3, <2>1, <3>1
    <3>2. CASE k # Len(sink) + 1
      <4>1. k \in 1..Len(sink)
        BY <2>1, <3>2
      <4>2. sink[k] \in Accepted /\ sink[k].pos < written
        BY <1>1, <4>1, ElementOfSeq DEF SinkEnds
      <4>3. sink[k].pos \in Nat
        BY <4>2 DEF Accepted
      <4>4. sink'[k] = sink[k]
        BY <2>1, <4>1
      <4>5. QED
        BY <1>1, <1>3, <4>2, <4>3, <4>4
    <3>3. QED
      BY <3>1, <3>2
  <2>3. QED
    BY <1>2, <1>3, <2>1, <2>2 DEF SinkEnds
<1>6. SinkStep
  BY <1>2, <1>3 DEF SinkStep
<1>7. QED
  BY <1>2, <1>3, <1>4, <1>5, <1>6

LEMMA InvFacts ==
    ASSUME ContentsInv, NEW i \in Columns
    PROVE  /\ FInv /\ cols[i] \in Column /\ ColumnSound(cols[i])
           /\ Coded(cols[i]) /\ Listed(cols[i], cols[i].used)
           /\ HeldBy(cols[i]) \in Seq(Entry)
           /\ ChunksIn(sink, cols[i].maxDef, groups, i) \in Seq(Seq(Entry))
           /\ FlattenSeq(ChunksIn(sink, cols[i].maxDef, groups, i))
                 \in Seq(Entry)
<1>1. FInv /\ ColumnsSound
  BY DEF ContentsInv, PagesInv
<1>2. /\ cols[i] \in Column /\ ColumnSound(cols[i])
      /\ Coded(cols[i]) /\ Listed(cols[i], cols[i].used)
  BY <1>1, ColumnFacts DEF FInv, ColumnsSound, ContentsInv, ColumnsListed
<1>3. HeldBy(cols[i]) \in Seq(Entry)
  <2>1. PICK c \in Column : c = cols[i]
    BY <1>2
  <2>2. QED
    BY <1>2, <2>1, HeldInParts
<1>4. ChunksIn(sink, cols[i].maxDef, groups, i) \in Seq(Seq(Entry))
  BY <1>1, ChunksType DEF ContentsInv
<1>5. QED
  BY <1>1, <1>2, <1>3, <1>4, FlattenType

-----------------------------------------------------------------------------
(* The program's steps.                                                    *)

LEMMA TailKeepsSoFar ==
    ASSUME NEW c \in Column, NEW d \in Column, OnlyTail(c, d),
           NEW ws, NEW meta, NEW at, NEW f, SoFar(c, ws, meta, at, f)
    PROVE  SoFar(d, ws, meta, at, f)
<1>1. /\ d.maxDef = c.maxDef /\ d.pages = c.pages /\ d.dict = c.dict
      /\ HasDict(d.enc) = HasDict(c.enc)
      /\ Begins(c.enc.entries, d.enc.entries)
  BY DEF OnlyTail
<1>2. /\ c.dict \in Seq(Data) /\ c.enc.entries \in Seq(Data)
      /\ d.enc.entries \in Seq(Data)
  BY DEF Column, ValueEncoder
<1>3. HasDict(d.enc) => Begins(d.dict, d.enc.entries)
  BY <1>1, <1>2, BeginsFacts DEF SoFar
<1>4. CopyOf(d) = CopyOf(c) /\ DictWrites(d) = DictWrites(c)
  BY <1>1 DEF CopyOf, DictWrites
<1>5. Listed(d, meta.encodings)
  BY <1>1 DEF Listed, SoFar
<1>6. QED
  BY <1>1, <1>3, <1>4, <1>5 DEF SoFar

LEMMA ColumnStep ==
    ASSUME ContentsInv, PagesInv', UNCHANGED file, ~closed,
           NEW i \in Columns, NEW new \in Seq(Entry),
           \A j \in Columns : j # i => /\ cols'[j] = cols[j]
                                       /\ input'[j] = input[j],
           Coded(cols'[i]), Listed(cols'[i], cols'[i].used),
           HeldBy(cols'[i]) = HeldBy(cols[i]) \o new,
           input'[i] = input[i] \o new,
           fiber.phase \in {"dict", "header", "body"} /\ fiber.col = i =>
              OnlyTail(cols[i], cols'[i])
    PROVE  ContentsInv'
<1>1. /\ groups' = groups /\ offset' = offset /\ closed' = closed
      /\ sink' = sink /\ written' = written /\ fiber' = fiber /\ cmd' = cmd
  BY DEF file
<1>2. FInv /\ FInv' /\ SinkStep /\ fiber.col \in Columns
  BY <1>1 DEF ContentsInv, PagesInv, SinkStep, FInv, FiberOK
<1>3. /\ GroupsFilled' /\ ChunksTrue'
      /\ \A j \in Columns :
            ChunksIn(sink', cols'[j].maxDef, groups', j) =
               ChunksIn(sink, cols[j].maxDef, groups, j)
  <2>1. Writing' = Writing /\ GroupsFilled /\ ChunksTrue
    BY <1>1 DEF Writing, ContentsInv
  <2>2. QED
    BY <1>1, <1>2, <2>1, FinishedStay
<1>4. SinkEnds'
  BY <1>1 DEF ContentsInv, SinkEnds
<1>5. UnderWay'
  <2> SUFFICES ASSUME fiber.phase \in {"dict", "header", "body"}
               PROVE  SoFar(cols'[fiber.col], SinceIn(sink, offset), cmd,
                            offset, fiber)
    BY <1>1 DEF UnderWay
  <2>1. SoFar(cols[fiber.col], SinceIn(sink, offset), cmd, offset, fiber)
    BY DEF ContentsInv, UnderWay
  <2>2. CASE fiber.col = i
    <3>1. cols[i] \in Column /\ cols'[i] \in Column
      BY <1>2, ElementOfSeq DEF FInv, ColumnsOK, Columns
    <3>2. QED
      BY <2>1, <2>2, <3>1, TailKeepsSoFar
  <2>3. CASE fiber.col # i
    BY <1>2, <2>1, <2>3
  <2>4. QED
    BY <2>2, <2>3
<1>6. ColumnsListed'
  <2>1. ASSUME NEW j \in Columns
        PROVE  Coded(cols'[j]) /\ Listed(cols'[j], cols'[j].used)
    BY InvFacts
  <2>2. QED
    BY <2>1 DEF ColumnsListed
<1>7. Kept'
  <2>1. ASSUME NEW j \in Columns
        PROVE  FlattenSeq(ChunksIn(sink', cols'[j].maxDef, groups', j))
                  \o HeldBy(cols'[j]) = input'[j]
    <3> DEFINE chunks == FlattenSeq(ChunksIn(sink, cols[j].maxDef, groups, j))
    <3>1. FlattenSeq(ChunksIn(sink', cols'[j].maxDef, groups', j)) = chunks
      BY <1>3
    <3>2. chunks \o HeldBy(cols[j]) = input[j]
      BY DEF ContentsInv, Kept
    <3>3. chunks \in Seq(Entry) /\ HeldBy(cols[j]) \in Seq(Entry)
      BY InvFacts
    <3> HIDE DEF chunks
    <3>4. CASE j = i
      <4>1. chunks \o (HeldBy(cols[i]) \o new) =
               (chunks \o HeldBy(cols[i])) \o new
        BY <3>3, <3>4, ConcatAssociative
      <4>2. QED
        BY <3>1, <3>2, <3>4, <4>1
    <3>5. CASE j # i
      BY <3>1, <3>2, <3>5
    <3>6. QED
      BY <3>4, <3>5
  <2>2. QED
    BY <2>1 DEF Kept
<1>8. Closing'
  BY <1>1 DEF ContentsInv, Closing
<1>9. QED
  BY <1>3, <1>4, <1>5, <1>6, <1>7, <1>8 DEF ContentsInv

(* What a step of the program does to column i: entries are added behind   *)
(* those it holds, be it none.                                             *)
Adds(i, new) ==
    /\ \A j \in Columns : j # i => /\ cols'[j] = cols[j]
                                   /\ input'[j] = input[j]
    /\ Coded(cols'[i]) /\ Listed(cols'[i], cols'[i].used)
    /\ HeldBy(cols'[i]) = HeldBy(cols[i]) \o new
    /\ input'[i] = input[i] \o new
    /\ fiber.phase \in {"dict", "header", "body"} /\ fiber.col = i =>
          OnlyTail(cols[i], cols'[i])

LEMMA PutEntryAdds ==
    ASSUME ContentsInv, NEW i \in Columns, PutEntry(i)
    PROVE  \E new \in Seq(Entry) : Adds(i, new)
<1>1. /\ FInv /\ cols[i] \in Column /\ ColumnSound(cols[i])
      /\ Coded(cols[i]) /\ Listed(cols[i], cols[i].used)
  BY InvFacts
<1>2. PICK c \in Column : c = cols[i]
  BY <1>1
<1>3. PICK def \in 0..c.maxDef, rep \in 0..c.maxRep, v \in Data :
         /\ cols' = [cols EXCEPT ![i] = Put(cols[i], def, rep, v)]
         /\ input' = [input EXCEPT ![i] = Append(@,
               [def |-> def, rep |-> rep,
                val |-> IF def = cols[i].maxDef THEN v ELSE Null])]
  BY <1>2 DEF PutEntry
<1> DEFINE d == Put(c, def, rep, v)
           entry == [def |-> def, rep |-> rep,
                     val |-> IF def = c.maxDef THEN v ELSE Null]
<1>4. /\ OnlyTail(c, d) /\ Coded(d) /\ entry \in Entry
      /\ HeldBy(d) = Append(HeldBy(c), entry)
  BY <1>1, <1>2, PutHolds
<1>5. d \in Column /\ SameLevels(c, d)
  BY PutType
<1>6. cols' = [cols EXCEPT ![i] = d]
      /\ input' = [input EXCEPT ![i] = Append(input[i], entry)]
  BY <1>2, <1>3
<1>7. HeldBy(c) \in Seq(Entry) /\ input \in [Columns -> Seq(Entry)]
  BY <1>1, <1>2, InvFacts DEF FInv
<1> HIDE DEF d, entry
<1>8. cols'[i] = d /\ \A j \in Columns : j # i => cols'[j] = cols[j]
  BY <1>1, <1>2, <1>5, <1>6, ColumnReplaced DEF FInv
<1>9. /\ input'[i] = Append(input[i], entry)
      /\ \A j \in Columns : j # i => input'[j] = input[j]
  BY <1>6, <1>7
<1>10. /\ Append(input[i], entry) = input[i] \o <<entry>>
       /\ Append(HeldBy(c), entry) = HeldBy(c) \o <<entry>>
       /\ <<entry>> \in Seq(Entry)
  BY <1>4, <1>7, AppendIsConcat
<1>11. Listed(d, d.used)
  BY <1>1, <1>2, <1>4 DEF OnlyTail, Listed
<1>12. Adds(i, <<entry>>)
  BY <1>2, <1>4, <1>8, <1>9, <1>10, <1>11 DEF Adds
<1>13. QED
  BY <1>10, <1>12

LEMMA PutEntriesAdds ==
    ASSUME ContentsInv, NEW i \in Columns, PutEntries(i)
    PROVE  \E new \in Seq(Entry) : Adds(i, new)
<1>1. /\ FInv /\ cols[i] \in Column /\ ColumnSound(cols[i])
      /\ Coded(cols[i]) /\ Listed(cols[i], cols[i].used)
  BY InvFacts
<1>2. PICK c \in Column : c = cols[i]
  BY <1>1
<1>3. c.maxDef = 0
  <2>1. Schema[i].maxDef = 0
    BY BatchAssumption DEF PutEntries
  <2>2. QED
    BY <1>1, <1>2, <2>1 DEF FInv, ColumnsOK, SameLevels
<1>4. PICK batch \in Batches :
         /\ \A k \in 1..Len(batch.levels) :
               /\ batch.levels[k].def <= c.maxDef
               /\ batch.levels[k].rep <= c.maxRep
         /\ Len(batch.vals) = ValueCount(c.maxDef, batch.levels)
         /\ cols' = [cols EXCEPT ![i] =
                        PutBatch(c, batch.levels, batch.vals)]
         /\ input' = [input EXCEPT ![i] =
               input[i] \o Entries(c.maxDef, batch.levels, batch.vals)]
  BY <1>2 DEF PutEntries
<1>5. PICK levels, vals : levels = batch.levels /\ vals = batch.vals
  OBVIOUS
<1>6. levels \in Seq(Level) /\ vals \in Seq(Data)
  BY <1>5, BatchAssumption
<1> DEFINE d == PutBatch(c, levels, vals)
           new == Entries(0, levels, vals)
<1>7. Len(vals) = Len(levels)
  <2>1. \A k \in 1..Len(levels) : levels[k].def <= c.maxDef
    BY <1>4, <1>5
  <2>2. Len(vals) = ValueCount(c.maxDef, levels)
    BY <1>4, <1>5
  <2>3. QED
    BY <1>3, <1>6, <2>1, <2>2, ValuesOfBatch
<1>8. /\ OnlyTail(c, d) /\ Coded(d) /\ new \in Seq(Entry)
      /\ HeldBy(d) = HeldBy(c) \o new
  <2>1. \A k \in 1..Len(levels) : /\ levels[k].def <= c.maxDef
                                  /\ levels[k].rep <= c.maxRep
    BY <1>4, <1>5
  <2>2. QED
    BY <1>1, <1>2, <1>3, <1>6, <1>7, <2>1, PutBatchHolds
<1>9. d \in Column /\ SameLevels(c, d)
  BY <1>3, <1>6, <1>7, PutBatchType
<1>10. cols' = [cols EXCEPT ![i] = d]
       /\ input' = [input EXCEPT ![i] = input[i] \o new]
  BY <1>3, <1>4, <1>5
<1>11. input \in [Columns -> Seq(Entry)]
  BY <1>1 DEF FInv
<1> HIDE DEF d, new
<1>12. cols'[i] = d /\ \A j \in Columns : j # i => cols'[j] = cols[j]
  BY <1>1, <1>2, <1>9, <1>10, ColumnReplaced DEF FInv
<1>13. /\ input'[i] = input[i] \o new
       /\ \A j \in Columns : j # i => input'[j] = input[j]
  BY <1>10, <1>11
<1>14. Listed(d, d.used)
  BY <1>1, <1>2, <1>8 DEF OnlyTail, Listed
<1>15. Adds(i, new)
  BY <1>2, <1>8, <1>12, <1>13, <1>14 DEF Adds
<1>16. QED
  BY <1>8, <1>15

LEMMA FlushColumnPageAdds ==
    ASSUME ContentsInv, NEW i \in Columns, FlushColumnPage(i)
    PROVE  \E new \in Seq(Entry) : Adds(i, new)
<1>1. /\ FInv /\ cols[i] \in Column /\ ColumnSound(cols[i])
      /\ Coded(cols[i]) /\ Listed(cols[i], cols[i].used)
  BY InvFacts
<1>2. PICK c \in Column : c = cols[i]
  BY <1>1
<1> DEFINE d == FlushPage(c)
<1>3. Coded(d) /\ Listed(d, d.used) /\ HeldBy(d) = HeldBy(c)
  BY <1>1, <1>2, FlushPageHolds
<1>4. d \in Column /\ SameLevels(c, d)
  BY FlushPageType
<1>5. /\ cols' = [cols EXCEPT ![i] = d] /\ input' = input
      /\ fiber.phase # "idle" => fiber.col # i
  BY <1>2 DEF FlushColumnPage
<1> HIDE DEF d
<1>6. cols'[i] = d /\ \A j \in Columns : j # i => cols'[j] = cols[j]
  BY <1>1, <1>2, <1>4, <1>5, ColumnReplaced DEF FInv
<1>7. HeldBy(c) \in Seq(Entry) /\ input[i] \in Seq(Entry)
  BY <1>1, <1>2, InvFacts DEF FInv
<1>8. HeldBy(c) = HeldBy(c) \o <<>> /\ input[i] = input[i] \o <<>>
  BY <1>7, ConcatEmptySeq
<1>9. Adds(i, <<>>)
  BY <1>2, <1>3, <1>5, <1>6, <1>8 DEF Adds
<1>10. <<>> \in Seq(Entry)
  OBVIOUS
<1>11. QED
  BY <1>9, <1>10

Program == \E i \in Columns : PutEntry(i) \/ PutEntries(i) \/ FlushColumnPage(i)

LEMMA ProgramAdds ==
    ASSUME ContentsInv, Program
    PROVE  /\ ~closed /\ UNCHANGED file
           /\ \E i \in Columns : \E new \in Seq(Entry) : Adds(i, new)
<1>1. PICK i \in Columns : PutEntry(i) \/ PutEntries(i) \/ FlushColumnPage(i)
  BY DEF Program
<1>2. \E new \in Seq(Entry) : Adds(i, new)
  BY <1>1, PutEntryAdds, PutEntriesAdds, FlushColumnPageAdds
<1>3. ~closed /\ UNCHANGED file
  BY <1>1 DEF PutEntry, PutEntries, FlushColumnPage
<1>4. QED
  BY <1>2, <1>3

LEMMA ProgramKeepsContents ==
    ASSUME ContentsInv, PagesInv', Program
    PROVE  ContentsInv'
<1>1. PICK i \in Columns, new \in Seq(Entry) : Adds(i, new)
  BY ProgramAdds
<1>2. ~closed /\ UNCHANGED file
  BY ProgramAdds
<1>3. QED
  BY <1>1, <1>2, ColumnStep DEF Adds

-----------------------------------------------------------------------------
(* The chunk being written.                                                *)

Fiber == [phase : Phases, col : Columns, page : Nat, last : Nat]

(* The pages that wait can be decoded with the copy of the dictionary.     *)
LEMMA CopyReads ==
    ASSUME NEW c \in Column, ColumnSound(c), Coded(c),
           HasDict(c.enc) => Begins(c.dict, c.enc.entries),
           \A k \in 1..Len(c.pages) : PageReadable(c.maxDef, c.dict, c.pages[k])
    PROVE  /\ CopyOf(c) \in Seq(Data) /\ Begins(CopyOf(c), c.enc.entries)
           /\ c.pages \in Seq(Good(c.maxDef, CopyOf(c)))
           /\ EntriesOf(c.maxDef, c.enc.entries, c.pages) =
                 EntriesOf(c.maxDef, CopyOf(c), c.pages)
<1> DEFINE copy == CopyOf(c)
           n == Len(c.pages)
           G == Good(c.maxDef, copy)
<1>1. /\ c.maxDef \in Nat /\ c.enc.entries \in Seq(Data)
      /\ c.pages \in Seq(Page) /\ n \in Nat /\ c.dict \in Seq(Data)
  BY ColumnParts DEF Column
<1>2. copy \in Seq(Data) /\ Begins(copy, c.enc.entries)
  BY <1>1, BeginsFacts DEF CopyOf
<1>3. ASSUME NEW k \in 1..n PROVE c.pages[k] \in G
  <2> DEFINE page == c.pages[k]
  <2>1. page \in Page
    BY <1>1, ElementOfSeq
  <2>2. PageReadable(c.maxDef, c.dict, page) /\ PageSound(c, page)
    BY DEF ColumnSound
  <2>3. page.values.encoding = "PLAIN" => page.values.data \in Seq(Data)
    BY DEF Coded
  <2> HIDE DEF page
  <2>4. PageReadable(c.maxDef, copy, page)
    <3>1. CASE HasDict(c.enc)
      BY <2>2, <3>1 DEF CopyOf
    <3>2. CASE ~HasDict(c.enc)
      <4>1. page.values.encoding # "RLE_DICTIONARY"
        BY <2>2, <3>2 DEF PageSound
      <4>2. QED
        BY <2>2, <4>1 DEF PageReadable, Decodable
    <3>3. QED
      BY <3>1, <3>2
  <2> HIDE DEF copy
  <2>5. page \in G
    BY <2>1, <2>2, <2>3, <2>4 DEF Good, WellCoded, PageSound
  <2>6. QED
    BY <2>5 DEF page
<1>4. c.pages = [k \in 1..n |-> c.pages[k]]
  BY <1>1, SMTT(30)
<1> HIDE DEF n, G
<1>5. [k \in 1..n |-> c.pages[k]] \in [1..n -> G]
  BY <1>3
<1>6. c.pages \in Seq(G)
  BY <1>1, <1>4, <1>5
<1> HIDE DEF copy
<1>7. EntriesOf(c.maxDef, c.enc.entries, c.pages) =
         EntriesOf(c.maxDef, copy, c.pages)
  BY <1>1, <1>2, <1>6, EntriesAlike DEF G
<1>8. QED
  BY <1>2, <1>6, <1>7 DEF G, copy

LEMMA FirstStays ==
    ASSUME NEW ws \in Seq(Accepted), NEW w \in Accepted, NEW at,
           IF ws = <<>> THEN w.pos = at ELSE ws[1].pos = at
    PROVE  Append(ws, w) # <<>> /\ Append(ws, w)[1].pos = at
<1>1. /\ Len(ws) \in Nat /\ Len(Append(ws, w)) = Len(ws) + 1
      /\ Append(ws, w)[Len(ws) + 1] = w
      /\ \A k \in 1..Len(ws) : Append(ws, w)[k] = ws[k]
  BY LenProperties, AppendProperties
<1>2. Append(ws, w) # <<>>
  BY <1>1
<1>3. CASE ws = <<>>
  BY <1>1, <1>3
<1>4. CASE ws # <<>>
  <2>1. Len(ws) # 0
    BY <1>4, EmptySeq
  <2>2. 1 \in 1..Len(ws)
    BY <1>1, <2>1
  <2>3. QED
    BY <1>1, <1>4, <2>2
<1>5. QED
  BY <1>2, <1>3, <1>4

LEMMA DictWritten ==
    ASSUME NEW c \in Column, NEW ws \in Seq(Accepted), NEW w \in Accepted,
           NEW meta \in ChunkMeta, NEW at, NEW f \in Fiber,
           SoFar(c, ws, meta, at, f), f.phase = "dict",
           w.kind = "dict", w.body = c.dict,
           meta.compressed = HeaderBytes + CompressedSize(Len(c.dict))
    PROVE  SoFar(c, Append(ws, w), [meta EXCEPT !.data = meta.compressed], at,
                 [f EXCEPT !.phase = "header", !.page = 1,
                           !.last = Len(c.pages)])
<1> DEFINE more == Append(ws, w)
           m == [meta EXCEPT !.data = meta.compressed]
           g == [f EXCEPT !.phase = "header", !.page = 1,
                          !.last = Len(c.pages)]
<1>1. /\ m.dict = meta.dict /\ m.encodings = meta.encodings
      /\ m.values = meta.values /\ m.data = meta.compressed
  BY DEF ChunkMeta
<1>2. g.phase = "header" /\ g.page = 1 /\ g.last = Len(c.pages)
  BY DEF Fiber
<1> HIDE DEF more, m, g
<1>3. /\ HasDict(c.enc) /\ Len(ws) = 1 /\ meta.values = 0
      /\ ws # <<>> /\ ws[1].pos = at
  <2>1. HasDict(c.enc) /\ Len(ws) = 1 /\ meta.values = 0
    BY DEF SoFar
  <2>2. ws # <<>>
    <3>1. Len(<<>>) = 0
      BY EmptySeq
    <3>2. 0 # 1
      OBVIOUS
    <3>3. QED
      BY <2>1, <3>1, <3>2, Zenon
  <2>3. ws[1].pos = at
    BY <2>2 DEF SoFar
  <2>4. QED
    BY <2>1, <2>2, <2>3
<1>4. Len(more) = 2 /\ more # <<>> /\ more[1].pos = at
  <2>1. Len(more) = Len(ws) + 1
    BY AppendProperties DEF more
  <2>2. more # <<>> /\ more[1].pos = at
    BY <1>3, FirstStays DEF more
  <2>3. QED
    BY <1>3, <2>1, <2>2
<1>5. Laid(more, DictWrites(c), c.dict, c.pages)
  <2>1. DictWrites(c) = 2
    BY <1>3 DEF DictWrites
  <2>2. LaidAt(w, Len(ws) + 1, DictWrites(c), c.dict, c.pages)
    BY <1>3, <2>1 DEF LaidAt
  <2>3. QED
    BY <2>2, LaidAppended DEF SoFar, more
<1>6. /\ Len(c.pages) \in Nat /\ c.maxDef \in Nat /\ CopyOf(c) \in Seq(Data)
      /\ c.pages \in Seq(Page)
  BY LenProperties DEF Column, CopyOf
<1>7. Len(EntriesOf(c.maxDef, CopyOf(c), SubSeq(c.pages, 1, Counted(g)))) = 0
  <2>1. Counted(g) = 0
    BY <1>2 DEF Counted
  <2>2. SubSeq(c.pages, 1, 0) = <<>>
    BY <1>6, SubSeqEmpty
  <2>3. EntriesOf(c.maxDef, CopyOf(c), SubSeq(c.pages, 1, Counted(g))) = <<>>
    BY <1>6, <2>1, <2>2, NoEntries
  <2>4. Len(<<>>) = 0
    BY EmptySeq
  <2>5. QED
    BY <2>3, <2>4
<1>8. Listed(c, m.encodings)
  BY <1>1 DEF SoFar
<1>9. /\ m.dict = (IF HasDict(c.enc) THEN 0 ELSE NoOffset)
      /\ HasDict(c.enc) => Begins(c.dict, c.enc.entries)
      /\ m.data = HeaderBytes + CompressedSize(Len(c.dict))
      /\ m.values = 0
  BY <1>1, <1>3 DEF SoFar
<1>10. /\ g.page <= g.last + 1
       /\ Len(more) = DictWrites(c) + 2 * (g.page - 1)
                        + (IF g.phase = "body" THEN 1 ELSE 0)
  BY <1>2, <1>3, <1>4, <1>6 DEF DictWrites
<1>11. SoFar(c, more, m, at, g)
  BY <1>2, <1>3, <1>4, <1>5, <1>7, <1>8, <1>9, <1>10 DEF SoFar
<1>12. QED
  BY <1>11 DEF more, m, g

LEMMA HeaderWritten ==
    ASSUME NEW c \in Column, NEW ws \in Seq(Accepted), NEW w \in Accepted,
           NEW meta \in ChunkMeta, NEW next \in ChunkMeta, NEW at \in Nat,
           NEW f \in Fiber,
           SoFar(c, ws, meta, at, f), f.phase = "header", w.kind = "header",
           w.pos = at + meta.compressed,
           f.page \in 1..Len(c.pages), f.page <= f.last,
           CopyOf(c) \in Seq(Data),
           c.pages \in Seq(Good(c.maxDef, CopyOf(c))),
           next.dict = meta.dict, next.data = meta.data,
           next.encodings = meta.encodings,
           next.values = meta.values + Len(c.pages[f.page].levels)
    PROVE  SoFar(c, Append(ws, w), next, at, [f EXCEPT !.phase = "body"])
<1> DEFINE more == Append(ws, w)
           g == [f EXCEPT !.phase = "body"]
           page == f.page
           read(k) == EntriesOf(c.maxDef, CopyOf(c), SubSeq(c.pages, 1, k))
<1>1. g.phase = "body" /\ g.page = page /\ g.last = f.last /\ page \in Nat
  BY DEF Fiber
<1>2. /\ f.page <= f.last + 1
      /\ meta.data = (IF HasDict(c.enc)
                      THEN HeaderBytes + CompressedSize(Len(c.dict)) ELSE 0)
      /\ meta.values = Len(read(page - 1))
      /\ Len(ws) = DictWrites(c) + 2 * (page - 1)
  <2>1. f.phase \in {"header", "body"} /\ f.phase # "body"
        /\ Counted(f) = page - 1
    BY DEF Counted
  <2>2. Len(ws) = DictWrites(c) + 2 * (page - 1) + 0
    BY <2>1 DEF SoFar
  <2>3. DictWrites(c) \in Nat
    BY DEF DictWrites
  <2>4. QED
    BY <1>1, <2>1, <2>2, <2>3 DEF SoFar
<1> HIDE DEF more, g
<1>3. /\ Len(ws) \in Nat /\ Len(more) = Len(ws) + 1
      /\ more # <<>> /\ more[1].pos = at
  <2>1. IF ws = <<>> THEN w.pos = at ELSE ws[1].pos = at
    <3>1. CASE ws = <<>>
      BY <3>1 DEF SoFar
    <3>2. CASE ws # <<>>
      BY <3>2 DEF SoFar
    <3>3. QED
      BY <3>1, <3>2
  <2>2. QED
    BY <2>1, LenProperties, AppendProperties, FirstStays DEF more
<1>4. Laid(more, DictWrites(c), c.dict, c.pages)
  <2>1. (Len(ws) + 1) % 2 = 1
    BY <1>1, <1>2 DEF DictWrites
  <2>2. LaidAt(w, Len(ws) + 1, DictWrites(c), c.dict, c.pages)
    BY <2>1 DEF LaidAt
  <2>3. QED
    BY <2>2, LaidAppended DEF SoFar, more
<1>5. Len(read(page)) = Len(read(page - 1)) + Len(c.pages[page].levels)
  <2> DEFINE G == Good(c.maxDef, CopyOf(c))
             front == SubSeq(c.pages, 1, page - 1)
  <2>1. front \in Seq(G)
        /\ SubSeq(c.pages, 1, page) = Append(front, c.pages[page])
    BY BeginningGrows
  <2>2. c.pages[page] \in G /\ c.maxDef \in Nat
    BY GoodArePages DEF Column
  <2>3. read(page) = read(page - 1)
                        \o PageEntries(c.maxDef, CopyOf(c), c.pages[page])
    BY <2>1, <2>2, EntriesAppend
  <2>4. /\ PageEntries(c.maxDef, CopyOf(c), c.pages[page]) \in Seq(Entry)
        /\ Len(PageEntries(c.maxDef, CopyOf(c), c.pages[page])) =
              Len(c.pages[page].levels)
    BY <2>2, GoodPageRead
  <2>5. read(page - 1) \in Seq(Entry)
    BY <2>1, <2>2, ReadsType
  <2> HIDE DEF read, G, front
  <2>6. Len(read(page - 1) \o PageEntries(c.maxDef, CopyOf(c), c.pages[page])) =
           Len(read(page - 1))
              + Len(PageEntries(c.maxDef, CopyOf(c), c.pages[page]))
    BY <2>4, <2>5, ConcatProperties
  <2>7. QED
    BY <2>3, <2>4, <2>6
<1>6. Counted(g) = page
  BY <1>1 DEF Counted
<1>7. next.values = Len(EntriesOf(c.maxDef, CopyOf(c),
                                  SubSeq(c.pages, 1, Counted(g))))
  BY <1>2, <1>5, <1>6
<1> HIDE DEF read, page
<1>8. /\ next.dict = (IF HasDict(c.enc) THEN 0 ELSE NoOffset)
      /\ HasDict(c.enc) => Begins(c.dict, c.enc.entries)
      /\ Listed(c, next.encodings)
  BY DEF SoFar
<1>9. Len(more) = DictWrites(c) + 2 * (g.page - 1)
                    + (IF g.phase = "body" THEN 1 ELSE 0)
  BY <1>1, <1>2, <1>3
<1>10. g.page <= g.last + 1
  BY <1>1, <1>2 DEF page
<1>11. SoFar(c, more, next, at, g)
  BY <1>1, <1>2, <1>3, <1>4, <1>7, <1>8, <1>9, <1>10 DEF SoFar
<1>12. QED
  BY <1>11 DEF more, g

LEMMA BodyWritten ==
    ASSUME NEW c \in Column, NEW ws \in Seq(Accepted), NEW w \in Accepted,
           NEW meta \in ChunkMeta, NEW at, NEW f \in Fiber,
           SoFar(c, ws, meta, at, f), f.phase = "body",
           f.page \in 1..Len(c.pages), f.page <= f.last,
           w.kind = "page", w.body = c.pages[f.page]
    PROVE  SoFar(c, Append(ws, w), meta, at,
                 [f EXCEPT !.phase = "header", !.page = @ + 1])
<1> DEFINE more == Append(ws, w)
           g == [f EXCEPT !.phase = "header", !.page = @ + 1]
           page == f.page
<1>1. /\ g.phase = "header" /\ g.page = page + 1 /\ g.last = f.last
      /\ page \in Nat /\ f.last \in Nat /\ Len(c.pages) \in Nat
      /\ page \in 1..Len(c.pages)
  BY LenProperties DEF Fiber, Column
<1>2. Len(ws) = DictWrites(c) + 2 * (page - 1) + 1
  BY DEF SoFar
<1> HIDE DEF more, g, page
<1>3. /\ Len(ws) \in Nat /\ Len(more) = Len(ws) + 1
      /\ more # <<>> /\ more[1].pos = at
  <2>1. ws # <<>>
    BY <1>1, <1>2 DEF DictWrites
  <2>2. ws[1].pos = at
    BY <2>1 DEF SoFar
  <2>3. QED
    BY <2>1, <2>2, LenProperties, AppendProperties, FirstStays DEF more
<1>4. Laid(more, DictWrites(c), c.dict, c.pages)
  <2> DEFINE k == Len(ws) + 1
             front == DictWrites(c)
  <2>1. k % 2 # 1 /\ ~(k <= front) /\ (k - front) \div 2 = page
    BY <1>1, <1>2 DEF DictWrites
  <2> HIDE DEF k
  <2>2. LaidAt(w, k, front, c.dict, c.pages)
    BY <1>1, <2>1 DEF LaidAt, page
  <2>3. QED
    BY <2>2, LaidAppended DEF SoFar, more, k
<1>5. Counted(g) = page /\ Counted(f) = page
  BY <1>1 DEF Counted, page
<1>6. /\ meta.dict = (IF HasDict(c.enc) THEN 0 ELSE NoOffset)
      /\ HasDict(c.enc) => Begins(c.dict, c.enc.entries)
      /\ Listed(c, meta.encodings)
      /\ meta.data = (IF HasDict(c.enc)
                      THEN HeaderBytes + CompressedSize(Len(c.dict)) ELSE 0)
      /\ meta.values = Len(EntriesOf(c.maxDef, CopyOf(c),
                                     SubSeq(c.pages, 1, Counted(g))))
  BY <1>5 DEF SoFar
<1>7. Len(more) = DictWrites(c) + 2 * (g.page - 1)
                    + (IF g.phase = "body" THEN 1 ELSE 0)
  BY <1>1, <1>2, <1>3 DEF DictWrites
<1>8. g.page <= g.last + 1
  BY <1>1 DEF page
<1>9. SoFar(c, more, meta, at, g)
  BY <1>1, <1>3, <1>4, <1>6, <1>7, <1>8 DEF SoFar
<1>10. QED
  BY <1>9 DEF more, g

-----------------------------------------------------------------------------
(* The steps of the writer.                                                *)

(* What a reader would find, and what the columns hold, stays the same.    *)
NothingMoves ==
    \A i \in Columns :
        /\ ChunksIn(sink', cols'[i].maxDef, groups', i) =
              ChunksIn(sink, cols[i].maxDef, groups, i)
        /\ HeldBy(cols'[i]) = HeldBy(cols[i])

LEMMA WriterStep ==
    ASSUME ContentsInv, PagesInv', SinkStep, SinkEnds', GroupsFilled',
           ChunksTrue', NothingMoves, ColumnsListed', UnderWay', Closing',
           input' = input
    PROVE  ContentsInv'
<1>1. Kept'
  BY DEF ContentsInv, Kept, NothingMoves
<1>2. QED
  BY <1>1 DEF ContentsInv

LEMMA WriteStep ==
    ASSUME ContentsInv, PagesInv', SinkStep, SinkEnds',
           groups' = groups, cols' = cols, input' = input,
           Writing' = Writing, fiber'.col = fiber.col,
           UnderWay', Closing'
    PROVE  ContentsInv' /\ NothingMoves
<1>1. FInv /\ FInv' /\ GroupsFilled /\ ChunksTrue
  BY DEF ContentsInv, PagesInv
<1>2. /\ GroupsFilled' /\ ChunksTrue'
      /\ \A i \in Columns :
            ChunksIn(sink', cols'[i].maxDef, groups', i) =
               ChunksIn(sink, cols[i].maxDef, groups, i)
  BY <1>1, FinishedStay
<1>3. NothingMoves
  BY <1>2 DEF NothingMoves
<1>4. ColumnsListed'
  BY DEF ContentsInv, ColumnsListed
<1>5. QED
  BY <1>2, <1>3, <1>4, WriterStep

(* What is known of the chunk being written.                               *)
LEMMA ChunkFacts ==
    ASSUME ContentsInv, fiber.phase \in {"dict", "header", "body"}
    PROVE  /\ FInv /\ fiber \in Fiber /\ fiber.col \in Columns
           /\ cols[fiber.col] \in Column /\ ColumnSound(cols[fiber.col])
           /\ Coded(cols[fiber.col]) /\ cmd \in ChunkMeta
           /\ SinceIn(sink, offset) \in Seq(Accepted)
           /\ SoFar(cols[fiber.col], SinceIn(sink, offset), cmd, offset, fiber)
           /\ CopyOf(cols[fiber.col]) \in Seq(Data)
           /\ cols[fiber.col].pages \in
                 Seq(Good(cols[fiber.col].maxDef, CopyOf(cols[fiber.col])))
           /\ EntriesOf(cols[fiber.col].maxDef, cols[fiber.col].enc.entries,
                        cols[fiber.col].pages) =
                 EntriesOf(cols[fiber.col].maxDef, CopyOf(cols[fiber.col]),
                           cols[fiber.col].pages)
<1>1. FInv /\ fiber \in Fiber /\ fiber.col \in Columns /\ cmd \in ChunkMeta
  BY FiberFacts DEF ContentsInv, PagesInv, FInv, FiberOK, Fiber
<1>2. PICK c : c = cols[fiber.col]
  OBVIOUS
<1>3. c \in Column /\ ColumnSound(c) /\ Coded(c)
  BY <1>1, <1>2, InvFacts
<1>4. SoFar(c, SinceIn(sink, offset), cmd, offset, fiber)
  BY <1>2 DEF ContentsInv, UnderWay
<1>5. PICK s \in Seq(Accepted), at \in Nat : s = sink /\ at = offset
  BY <1>1, OffsetBound DEF FInv, SinkOK
<1>6. SinceIn(s, at) \in Seq(Accepted)
  BY <1>5, SinceType
<1>7. HasDict(c.enc) => Begins(c.dict, c.enc.entries)
  BY <1>4 DEF SoFar
<1>8. \A k \in 1..Len(c.pages) : PageReadable(c.maxDef, c.dict, c.pages[k])
  BY <1>2 DEF ContentsInv, PagesInv, CopyCovers
<1>9. /\ CopyOf(c) \in Seq(Data)
      /\ c.pages \in Seq(Good(c.maxDef, CopyOf(c)))
      /\ EntriesOf(c.maxDef, c.enc.entries, c.pages) =
            EntriesOf(c.maxDef, CopyOf(c), c.pages)
  BY <1>3, <1>7, <1>8, CopyReads
<1>10. QED
  BY <1>1, <1>2, <1>3, <1>4, <1>5, <1>6, <1>9

LEMMA WriteDictContents ==
    ASSUME ContentsInv, PagesInv', WriteDict
    PROVE  ContentsInv' /\ NothingMoves
<1>1. /\ fiber.phase = "dict" /\ offset' = offset /\ closed' = closed
      /\ groups' = groups /\ cols' = cols /\ input' = input
      /\ fiber' = [fiber EXCEPT !.phase = "header", !.page = 1,
                                !.last = Len(cols[fiber.col].pages)]
      /\ cmd' = [cmd EXCEPT !.data = cmd.compressed]
      /\ Write("dict", CompressedSize(Len(cols[fiber.col].dict)),
               cols[fiber.col].dict)
  BY DEF WriteDict
<1>2. PICK c, f, meta, ws, at :
         c = cols[fiber.col] /\ f = fiber /\ meta = cmd
            /\ ws = SinceIn(sink, offset) /\ at = offset
  OBVIOUS
<1>3. /\ FInv /\ f \in Fiber /\ c \in Column /\ meta \in ChunkMeta
      /\ ws \in Seq(Accepted) /\ SoFar(c, ws, meta, at, f)
      /\ c.dict \in Seq(Data)
  <2>1. fiber.phase \in {"dict", "header", "body"}
    BY <1>1
  <2>2. QED
    BY <1>2, <2>1, ChunkFacts DEF Column
<1>4. /\ SinkStep /\ SinkEnds'
      /\ \E w \in Accepted :
            /\ w.kind = "dict" /\ w.body = c.dict
            /\ SinceIn(sink', offset) = Append(ws, w)
  <2>1. CompressedSize(Len(c.dict)) \in Nat /\ CompressedSize(Len(c.dict)) > 0
    BY <1>3, SizeType
  <2>2. c.dict \in Seq(Data) \cup Page /\ "dict" \in Kinds
    BY <1>3 DEF Kinds
  <2>3. SinkEnds /\ Write("dict", CompressedSize(Len(c.dict)), c.dict)
    BY <1>1, <1>2 DEF ContentsInv
  <2>4. QED
    BY <1>2, <1>3, <2>1, <2>2, <2>3, SinkFacts
<1>5. PICK w \in Accepted : /\ w.kind = "dict" /\ w.body = c.dict
                            /\ SinceIn(sink', offset) = Append(ws, w)
  BY <1>4
<1>6. meta.compressed = HeaderBytes + CompressedSize(Len(c.dict))
  BY <1>1, <1>2, <1>3 DEF FInv, Ahead
<1>7. SoFar(c, Append(ws, w), [meta EXCEPT !.data = meta.compressed], at,
            [f EXCEPT !.phase = "header", !.page = 1, !.last = Len(c.pages)])
  BY <1>1, <1>2, <1>3, <1>5, <1>6, DictWritten
<1>8. fiber'.phase = "header" /\ fiber'.col = fiber.col
  BY <1>1, <1>2, <1>3 DEF Fiber
<1>9. UnderWay'
  BY <1>1, <1>2, <1>5, <1>7, <1>8 DEF UnderWay
<1>10. Writing' = Writing /\ Closing'
  BY <1>1, <1>8 DEF Writing, ContentsInv, Closing
<1>11. QED
  BY <1>1, <1>4, <1>8, <1>9, <1>10, WriteStep

LEMMA WriteHeaderContents ==
    ASSUME ContentsInv, PagesInv', WriteHeader
    PROVE  ContentsInv' /\ NothingMoves
<1>1. /\ fiber.phase = "header" /\ fiber.page <= fiber.last
      /\ offset' = offset /\ closed' = closed
      /\ groups' = groups /\ cols' = cols /\ input' = input
      /\ fiber' = [fiber EXCEPT !.phase = "body"]
      /\ Write("header", HeaderBytes, <<>>)
  BY DEF WriteHeader
<1>2. PICK c, f, meta, ws, at :
         c = cols[fiber.col] /\ f = fiber /\ meta = cmd
            /\ ws = SinceIn(sink, offset) /\ at = offset
  OBVIOUS
<1>3. /\ FInv /\ f \in Fiber /\ c \in Column /\ meta \in ChunkMeta
      /\ ws \in Seq(Accepted) /\ SoFar(c, ws, meta, at, f)
      /\ CopyOf(c) \in Seq(Data)
      /\ c.pages \in Seq(Good(c.maxDef, CopyOf(c)))
      /\ at \in Nat /\ fiber.col \in Columns
  <2>1. fiber.phase \in {"dict", "header", "body"}
    BY <1>1
  <2>2. QED
    BY <1>2, <2>1, ChunkFacts, OffsetBound
<1>4. /\ SinkStep /\ SinkEnds'
      /\ \E w \in Accepted :
            /\ w.kind = "header" /\ w.pos = written
            /\ SinceIn(sink', offset) = Append(ws, w)
  <2>1. HeaderBytes \in Nat /\ HeaderBytes > 0 /\ "header" \in Kinds
        /\ <<>> \in Seq(Data) \cup Page
    BY DEF HeaderBytes, Kinds
  <2>2. SinkEnds
    BY DEF ContentsInv
  <2>3. QED
    BY <1>1, <1>2, <1>3, <2>1, <2>2, SinkFacts
<1>5. PICK w \in Accepted : /\ w.kind = "header" /\ w.pos = written
                            /\ SinceIn(sink', offset) = Append(ws, w)
  BY <1>4
<1>6. /\ w.pos = at + meta.compressed
      /\ f.page \in 1..Len(c.pages) /\ f.page <= f.last
  <2>1. written = offset + cmd.compressed
    BY <1>1, <1>3 DEF FInv, Ahead
  <2>2. fiber.page > 0 /\ fiber.last = Len(cols[fiber.col].pages)
    BY <1>1, <1>3 DEF FInv, InChunk
  <2>3. f.page \in Nat /\ f.last \in Nat
    BY <1>3 DEF Fiber
  <2>4. QED
    BY <1>1, <1>2, <1>5, <2>1, <2>2, <2>3
<1>7. PICK next : next = cmd'
  OBVIOUS
<1>8. /\ next \in ChunkMeta /\ next.dict = meta.dict
      /\ next.data = meta.data /\ next.encodings = meta.encodings
      /\ next.values = meta.values + Len(c.pages[f.page].levels)
  <2>1. next = [CountPage(meta, UncompressedSize(c.pages[f.page]),
                          CompressedSize(UncompressedSize(c.pages[f.page])))
                  EXCEPT !.values = @ + Len(c.pages[f.page].levels)]
    BY <1>2, <1>7 DEF WriteHeader, CurrentPage
  <2>2. next \in ChunkMeta
    BY <1>7 DEF PagesInv, FInv, FiberOK, ChunkMeta
  <2>3. QED
    BY <1>3, <2>1, <2>2 DEF CountPage, ChunkMeta
<1>9. SoFar(c, Append(ws, w), next, at, [f EXCEPT !.phase = "body"])
  BY <1>1, <1>2, <1>3, <1>5, <1>6, <1>8, HeaderWritten
<1>10. fiber'.phase = "body" /\ fiber'.col = fiber.col
  BY <1>1, <1>2, <1>3 DEF Fiber
<1>11. UnderWay'
  BY <1>1, <1>2, <1>5, <1>7, <1>9, <1>10 DEF UnderWay
<1>12. Writing' = Writing /\ Closing'
  BY <1>1, <1>10 DEF Writing, ContentsInv, Closing
<1>13. QED
  BY <1>1, <1>4, <1>10, <1>11, <1>12, WriteStep

LEMMA WriteBodyContents ==
    ASSUME ContentsInv, PagesInv', WriteBody
    PROVE  ContentsInv' /\ NothingMoves
<1>1. /\ fiber.phase = "body"
      /\ offset' = offset /\ closed' = closed /\ cmd' = cmd
      /\ groups' = groups /\ cols' = cols /\ input' = input
      /\ fiber' = [fiber EXCEPT !.phase = "header", !.page = @ + 1]
      /\ Write("page", CompressedSize(UncompressedSize(CurrentPage)),
               CurrentPage)
  BY DEF WriteBody
<1>2. PICK c, f, meta, ws, at :
         c = cols[fiber.col] /\ f = fiber /\ meta = cmd
            /\ ws = SinceIn(sink, offset) /\ at = offset
  OBVIOUS
<1>3. /\ FInv /\ f \in Fiber /\ c \in Column /\ meta \in ChunkMeta
      /\ ws \in Seq(Accepted) /\ SoFar(c, ws, meta, at, f)
      /\ c.pages \in Seq(Page)
  <2>1. fiber.phase \in {"dict", "header", "body"}
    BY <1>1
  <2>2. QED
    BY <1>2, <2>1, ChunkFacts DEF Column
<1>4. f.page \in 1..Len(c.pages) /\ f.page <= f.last
  <2>1. /\ fiber.page > 0 /\ fiber.last = Len(cols[fiber.col].pages)
        /\ fiber.page <= fiber.last
    BY <1>1, <1>3 DEF FInv, InChunk
  <2>2. f.page \in Nat /\ f.last \in Nat
    BY <1>3 DEF Fiber
  <2>3. QED
    BY <1>2, <2>1, <2>2
<1>5. PICK page : page = CurrentPage
  OBVIOUS
<1>6. page = c.pages[f.page] /\ page \in Page
  BY <1>2, <1>3, <1>4, <1>5, ElementOfSeq DEF CurrentPage
<1>7. /\ SinkStep /\ SinkEnds'
      /\ \E w \in Accepted :
            /\ w.kind = "page" /\ w.body = page
            /\ SinceIn(sink', offset) = Append(ws, w)
  <2> DEFINE size == CompressedSize(UncompressedSize(page))
  <2>1. size \in Nat /\ size > 0
    BY <1>6, SizeType
  <2>2. page \in Seq(Data) \cup Page /\ "page" \in Kinds
    BY <1>6 DEF Kinds
  <2>3. SinkEnds /\ Write("page", size, page)
    BY <1>1, <1>5 DEF ContentsInv
  <2> HIDE DEF size
  <2>4. QED
    BY <1>2, <1>3, <2>1, <2>2, <2>3, SinkFacts
<1>8. PICK w \in Accepted : /\ w.kind = "page" /\ w.body = page
                            /\ SinceIn(sink', offset) = Append(ws, w)
  BY <1>7
<1>9. SoFar(c, Append(ws, w), meta, at,
            [f EXCEPT !.phase = "header", !.page = @ + 1])
  BY <1>1, <1>2, <1>3, <1>4, <1>6, <1>8, BodyWritten
<1>10. fiber'.phase = "header" /\ fiber'.col = fiber.col
  BY <1>1, <1>2, <1>3 DEF Fiber
<1>11. UnderWay'
  BY <1>1, <1>2, <1>8, <1>9, <1>10 DEF UnderWay
<1>12. Writing' = Writing /\ Closing'
  BY <1>1, <1>10 DEF Writing, ContentsInv, Closing
<1>13. QED
  BY <1>1, <1>7, <1>10, <1>11, <1>12, WriteStep

LEMMA WriteFooterContents ==
    ASSUME ContentsInv, PagesInv', WriteFooter
    PROVE  ContentsInv' /\ NothingMoves
<1>1. /\ fiber.phase = "footer" /\ closed' = closed
      /\ groups' = groups /\ cols' = cols /\ input' = input
      /\ fiber' = [fiber EXCEPT !.phase = "closed"]
      /\ Write("footer", 1, <<>>)
  BY DEF WriteFooter
<1>2. FInv /\ fiber \in Fiber /\ SinkEnds
  BY DEF ContentsInv, PagesInv, FInv, FiberOK, Fiber
<1>3. SinkStep /\ SinkEnds'
  <2>1. "footer" \in Kinds /\ 1 \in Nat /\ 1 > 0 /\ <<>> \in Seq(Data) \cup Page
    BY DEF Kinds
  <2>2. QED
    BY <1>1, <1>2, <2>1, SinkFacts
<1>4. fiber'.phase = "closed" /\ fiber'.col = fiber.col
  BY <1>1, <1>2 DEF Fiber
<1>5. UnderWay' /\ Writing' = Writing /\ Closing'
  BY <1>1, <1>4 DEF UnderWay, Writing, ContentsInv, Closing
<1>6. QED
  BY <1>1, <1>3, <1>4, <1>5, WriteStep

LEMMA StutterContents ==
    ASSUME ContentsInv, UNCHANGED vars
    PROVE  NothingMoves
BY DEF vars, NothingMoves

(* The group that is begun has no chunk yet.                               *)
LEMMA BeginRowGroupContents ==
    ASSUME ContentsInv, PagesInv', fiber.phase = "idle", BeginRowGroup
    PROVE  ContentsInv' /\ NothingMoves
<1>1. /\ sink' = sink /\ written' = written
      /\ cols' = cols /\ input' = input
      /\ groups' = Append(groups, [rows |-> cols[1].rows, bytes |-> 0,
                                   columns |-> <<>>])
      /\ fiber' = [phase |-> "chunk", col |-> 1, page |-> 0, last |-> 0]
  BY DEF BeginRowGroup
<1>2. FInv /\ FInv' /\ GroupsFilled /\ ChunksTrue /\ SinkStep
  BY <1>1 DEF ContentsInv, PagesInv, SinkStep
<1>3. PICK g : /\ g.columns = <<>> /\ groups' = Append(groups, g)
               /\ g \in RowGroup
  <2> DEFINE g == [rows |-> cols[1].rows, bytes |-> 0, columns |-> <<>>]
  <2>1. g.columns = <<>> /\ groups' = Append(groups, g)
    BY <1>1
  <2>2. cols[1].rows \in Nat
    <3>1. 1 \in Columns
      BY SchemaAssumption DEF Columns
    <3>2. cols[1] \in Column
      BY <1>2, <3>1, ColumnFacts DEF FInv
    <3>3. QED
      BY <3>2 DEF Column
  <2>3. g \in RowGroup
    BY <2>2 DEF RowGroup
  <2>4. QED
    BY <2>1, <2>3
<1>4. /\ Len(groups) \in Nat /\ Len(groups') = Len(groups) + 1
      /\ \A k \in 1..Len(groups) : groups'[k] = groups[k]
      /\ groups'[Len(groups) + 1] = g
  BY <1>2, <1>3, LenProperties, AppendProperties DEF FInv, MetadataOK
<1>5. ~Writing /\ Writing' /\ fiber'.col = 1
  BY <1>1 DEF Writing
<1>6. \A k \in 1..Len(groups) : Len(groups[k].columns) = Len(Schema)
  BY <1>5 DEF ContentsInv, GroupsFilled
<1>7. Len(g.columns) = 0
  BY <1>3, EmptySeq
<1>8. GroupsFilled'
  <2>1. ASSUME NEW k \in 1..Len(groups')
        PROVE  Len(groups'[k].columns) =
                  IF k = Len(groups') /\ Writing' THEN fiber'.col - 1
                  ELSE Len(Schema)
    <3>1. CASE k = Len(groups) + 1
      BY <1>4, <1>5, <1>7, <3>1
    <3>2. CASE k # Len(groups) + 1
      <4>1. k \in 1..Len(groups) /\ k # Len(groups')
        BY <1>4, <3>2
      <4>2. QED
        BY <1>4, <1>6, <4>1
    <3>3. QED
      BY <3>1, <3>2
  <2>2. QED
    BY <2>1 DEF GroupsFilled
<1>9. ASSUME NEW i \in Columns
      PROVE  Whole(i) = Len(groups) /\ CountOf(groups', i) = Whole(i)
  <2>1. Whole(i) = Len(groups)
    BY <1>5 DEF Whole
  <2>2. \A k \in 1..Len(groups') :
           (Len(groups'[k].columns) >= i) <=> (k <= Len(groups))
    <3>1. i \in Nat /\ i >= 1 /\ i <= Len(Schema) /\ Len(Schema) \in Nat
      BY SchemaAssumption, LenProperties DEF Columns
    <3>2. ASSUME NEW k \in 1..Len(groups')
          PROVE  (Len(groups'[k].columns) >= i) <=> (k <= Len(groups))
      <4>1. CASE k = Len(groups) + 1
        BY <1>4, <1>7, <3>1, <4>1
      <4>2. CASE k # Len(groups) + 1
        <5>1. k \in 1..Len(groups) /\ groups'[k] = groups[k]
          BY <1>4, <4>2
        <5>2. QED
          BY <1>6, <3>1, <5>1
      <4>3. QED
        BY <4>1, <4>2
    <3>3. QED
      BY <3>2
  <2>3. PICK gs, n : gs = groups' /\ n = Len(groups)
    OBVIOUS
  <2>4. /\ Len(gs) \in Nat /\ n \in 0..Len(gs)
        /\ \A k \in 1..Len(gs) : (Len(gs[k].columns) >= i) <=> (k <= n)
    BY <1>4, <2>2, <2>3
  <2>5. CountOf(gs, i) = n
    BY <2>4, PrefixCount
  <2>6. QED
    BY <2>1, <2>3, <2>5
<1>10. NothingMoves
  <2>1. ASSUME NEW i \in Columns
        PROVE  ChunksIn(sink', cols'[i].maxDef, groups', i) =
                  ChunksIn(sink, cols[i].maxDef, groups, i)
    <3>1. \A k \in 1..Whole(i) :
             groups'[k].columns[i] = groups[k].columns[i]
      BY <1>4, <1>9
    <3>2. CountOf(groups', i) = Whole(i)
      BY <1>9
    <3>3. QED
      BY <1>2, <3>1, <3>2, ChunksStay
  <2>2. QED
    BY <1>1, <2>1 DEF NothingMoves
<1>11. ChunksTrue'
  <2>1. ASSUME NEW i \in Columns, NEW k \in 1..Len(groups'),
               Len(groups'[k].columns) >= i
        PROVE  Fine(cols'[i].maxDef, WritesIn(sink', groups'[k].columns[i]),
                    groups'[k].columns[i])
    <3>1. i \in Nat /\ i >= 1
      BY DEF Columns
    <3>2. k # Len(groups) + 1
      BY <1>4, <1>7, <2>1, <3>1
    <3>3. k \in 1..Len(groups) /\ groups'[k] = groups[k]
      BY <1>4, <3>2
    <3>4. Len(groups[k].columns) >= i
      BY <2>1, <3>3
    <3>5. QED
      BY <1>2, <3>3, <3>4, ChunkStaysFine
  <2>2. QED
    BY <2>1 DEF ChunksTrue
<1>12. SinkEnds' /\ ColumnsListed'
  BY <1>1 DEF ContentsInv, SinkEnds, ColumnsListed
<1>13. UnderWay'
  BY <1>1 DEF UnderWay
<1>14. Closing'
  <2>1. \A i \in Columns : ~(i < 1)
    BY DEF Columns
  <2>2. QED
    BY <1>1, <2>1 DEF Closing
<1>15. QED
  BY <1>1, <1>2, <1>8, <1>10, <1>11, <1>12, <1>13, <1>14, WriterStep

(* What OpenChunk has done to the column, and what it has written.         *)
LEMMA ChunkOpened ==
    ASSUME NEW c \in Column, Listed(c, c.used),
           HasDict(c.enc) => c.dict = c.enc.entries,
           NEW ws \in Seq(Accepted), NEW meta \in ChunkMeta, NEW at,
           NEW f \in Fiber, NEW w \in Accepted,
           meta.encodings = c.used, meta.values = 0,
           IF HasDict(c.enc)
           THEN /\ f.phase = "dict" /\ meta.dict = 0
                /\ ws = Append(<<>>, w) /\ w.kind = "header" /\ w.pos = at
           ELSE /\ f.phase = "header" /\ f.page = 1 /\ f.last = Len(c.pages)
                /\ meta.dict = NoOffset /\ meta.data = 0
                /\ meta.compressed = 0 /\ ws = <<>>
    PROVE  SoFar(c, ws, meta, at, f)
<1>1. /\ c.dict \in Seq(Data) /\ c.enc.entries \in Seq(Data)
      /\ c.maxDef \in Nat /\ c.pages \in Seq(Page) /\ Len(c.pages) \in Nat
  BY LenProperties DEF Column, ValueEncoder
<1>2. HasDict(c.enc) => Begins(c.dict, c.enc.entries)
  BY <1>1, BeginsFacts
<1>3. CASE HasDict(c.enc)
  <2>1. <<>> \in Seq(Accepted) /\ Len(<<>>) = 0
    BY EmptySeq
  <2>2. /\ f.phase = "dict" /\ meta.dict = 0
        /\ ws = Append(<<>>, w) /\ w.kind = "header" /\ w.pos = at
    BY <1>3
  <2>3. /\ Len(ws) = 1
        /\ ws # <<>> /\ ws[1].pos = at
    <3>1. Len(ws) = Len(<<>>) + 1
      BY <2>1, <2>2, AppendProperties
    <3>2. Append(<<>>, w) # <<>> /\ Append(<<>>, w)[1].pos = at
      BY <2>1, <2>2, FirstStays
    <3>3. QED
      BY <2>1, <2>2, <3>1, <3>2
  <2>4. Laid(ws, DictWrites(c), c.dict, c.pages)
    <3>1. Laid(<<>>, DictWrites(c), c.dict, c.pages)
      BY <2>1 DEF Laid
    <3>2. LaidAt(w, Len(<<>>) + 1, DictWrites(c), c.dict, c.pages)
      BY <2>1, <2>2 DEF LaidAt
    <3>3. QED
      BY <2>1, <2>2, <3>1, <3>2, LaidAppended
  <2>5. QED
    BY <1>2, <1>3, <2>2, <2>3, <2>4 DEF SoFar
<1>4. CASE ~HasDict(c.enc)
  <2>1. /\ f.phase = "header" /\ f.page = 1 /\ f.last = Len(c.pages)
        /\ meta.dict = NoOffset /\ meta.data = 0
        /\ meta.compressed = 0 /\ ws = <<>> /\ Len(ws) = 0
    BY <1>4, EmptySeq
  <2>2. Laid(ws, DictWrites(c), c.dict, c.pages)
    BY <2>1 DEF Laid
  <2>3. Len(EntriesOf(c.maxDef, CopyOf(c), SubSeq(c.pages, 1, Counted(f)))) = 0
    <3>1. Counted(f) = 0 /\ CopyOf(c) \in Seq(Data)
      BY <1>1, <2>1 DEF Counted, CopyOf
    <3>2. SubSeq(c.pages, 1, 0) = <<>>
      BY <1>1, SubSeqEmpty
    <3>3. EntriesOf(c.maxDef, CopyOf(c), SubSeq(c.pages, 1, Counted(f))) = <<>>
      BY <1>1, <3>1, <3>2, NoEntries
    <3>4. Len(<<>>) = 0
      BY EmptySeq
    <3>5. QED
      BY <3>3, <3>4
  <2>4. /\ f.page <= f.last + 1
        /\ Len(ws) = DictWrites(c) + 2 * (f.page - 1)
                       + (IF f.phase = "body" THEN 1 ELSE 0)
    BY <1>1, <1>4, <2>1 DEF DictWrites
  <2>5. QED
    BY <1>2, <1>4, <2>1, <2>2, <2>3, <2>4 DEF SoFar
<1>5. QED
  BY <1>3, <1>4

LEMMA OpenChunkColumn ==
    ASSUME NEW c \in Column, ColumnSound(c), Coded(c), Listed(c, c.used)
    PROVE  LET b == FlushPending(c)
               d == IF HasDict(b.enc) THEN FillDictionaryPage(b) ELSE b
           IN  /\ d \in Column /\ SameLevels(c, d) /\ b.enc = d.enc
               /\ Coded(d) /\ Listed(d, d.used) /\ d.used = b.used
               /\ d.levels = <<>> /\ d.pages = b.pages
               /\ HasDict(d.enc) => d.dict = d.enc.entries
               /\ HeldBy(d) = HeldBy(c)
<1> DEFINE b == FlushPending(c)
           d == IF HasDict(b.enc) THEN FillDictionaryPage(b) ELSE b
<1>1. /\ b \in Column /\ SameLevels(c, b)
      /\ Coded(b) /\ Listed(b, b.used) /\ b.levels = <<>>
      /\ HeldBy(b) = HeldBy(c)
  BY FlushPendingType, FlushPendingHolds
<1> HIDE DEF b
<1>2. CASE HasDict(b.enc)
  <2>1. d = FillDictionaryPage(b)
    BY <1>2
  <2> HIDE DEF d
  <2>2. d \in Column /\ SameLevels(b, d)
    BY <1>1, <2>1, FillDictionaryPageType
  <2>3. /\ Coded(d) /\ Listed(d, d.used) /\ d.levels = b.levels
        /\ d.enc = b.enc /\ d.dict = b.enc.entries
        /\ d.pages = b.pages /\ d.used = b.used
        /\ HeldBy(d) = HeldBy(b)
    BY <1>1, <2>1, FillDictionaryPageHolds
  <2>4. QED
    BY <1>1, <2>2, <2>3 DEF SameLevels, d, b
<1>3. CASE ~HasDict(b.enc)
  <2>1. d = b
    BY <1>3
  <2> HIDE DEF d
  <2>2. QED
    BY <1>1, <1>3, <2>1 DEF d, b
<1>4. QED
  BY <1>2, <1>3

LEMMA OpenChunkContents ==
    ASSUME ContentsInv, PagesInv', OpenChunk
    PROVE  ContentsInv' /\ NothingMoves
<1>1. PICK c : c = cols[fiber.col]
  OBVIOUS
<1> DEFINE b == FlushPending(c)
           d == IF HasDict(b.enc) THEN FillDictionaryPage(b) ELSE b
           size == Len(b.enc.entries)
           fresh == [NoChunk EXCEPT !.encodings = b.used]
<1>2. /\ fiber.phase = "chunk" /\ offset' = offset /\ closed' = closed
      /\ groups' = groups /\ input' = input
      /\ cols' = [cols EXCEPT ![fiber.col] = d]
  BY <1>1 DEF OpenChunk
<1>3. IF HasDict(b.enc)
      THEN /\ cmd' = CountPage([fresh EXCEPT !.dict = 0], size,
                               CompressedSize(size))
           /\ Write("header", HeaderBytes, <<>>)
           /\ fiber' = [fiber EXCEPT !.phase = "dict"]
      ELSE /\ cmd' = fresh
           /\ fiber' = [fiber EXCEPT !.phase = "header", !.page = 1,
                                     !.last = Len(b.pages)]
           /\ sink' = sink /\ written' = written
  BY <1>1 DEF OpenChunk
<1>4. /\ FInv /\ FInv' /\ fiber \in Fiber /\ fiber.col \in Columns
      /\ fiber' \in Fiber /\ cmd' \in ChunkMeta
      /\ sink \in Seq(Accepted) /\ SinkEnds /\ sink' \in Seq(Accepted)
  BY FiberFacts
  DEF ContentsInv, PagesInv, FInv, FiberOK, Fiber, SinkOK, ChunkMeta
<1>5. /\ c \in Column /\ ColumnSound(c) /\ Coded(c) /\ Listed(c, c.used)
  BY <1>1, <1>4, InvFacts
<1>6. /\ d \in Column /\ SameLevels(c, d) /\ b.enc = d.enc
      /\ Coded(d) /\ Listed(d, d.used) /\ d.used = b.used
      /\ d.levels = <<>> /\ d.pages = b.pages
      /\ HasDict(d.enc) => d.dict = d.enc.entries
      /\ HeldBy(d) = HeldBy(c)
  BY <1>5, OpenChunkColumn
<1> HIDE DEF b, d
<1>7. /\ cols'[fiber.col] = d
      /\ \A j \in Columns : j # fiber.col => cols'[j] = cols[j]
  BY <1>1, <1>2, <1>4, <1>6, ColumnReplaced DEF FInv
<1>8. PICK meta, f : meta = cmd' /\ f = fiber'
  OBVIOUS
<1>9. /\ meta \in ChunkMeta /\ f \in Fiber /\ f.col = fiber.col
      /\ meta.encodings = d.used /\ meta.values = 0
      /\ IF HasDict(d.enc) THEN f.phase = "dict" /\ meta.dict = 0
         ELSE /\ f.phase = "header" /\ f.page = 1 /\ f.last = Len(d.pages)
              /\ meta.dict = NoOffset /\ meta.data = 0 /\ meta.compressed = 0
  <2>1. meta \in ChunkMeta /\ f \in Fiber
    BY <1>4, <1>8
  <2>2. CASE HasDict(b.enc)
    <3>1. /\ f = [fiber EXCEPT !.phase = "dict"]
          /\ meta = CountPage([fresh EXCEPT !.dict = 0], size,
                              CompressedSize(size))
      BY <1>3, <1>8, <2>2
    <3>2. f.phase = "dict" /\ f.col = fiber.col
      BY <1>4, <3>1 DEF Fiber
    <3> HIDE DEF size
    <3>3. meta.dict = 0 /\ meta.encodings = b.used /\ meta.values = 0
      BY <3>1 DEF CountPage, NoChunk
    <3>4. QED
      BY <1>6, <2>1, <2>2, <3>2, <3>3
  <2>3. CASE ~HasDict(b.enc)
    <3>1. /\ f = [fiber EXCEPT !.phase = "header", !.page = 1,
                               !.last = Len(b.pages)]
          /\ meta = fresh
      BY <1>3, <1>8, <2>3
    <3>2. /\ f.phase = "header" /\ f.col = fiber.col /\ f.page = 1
          /\ f.last = Len(b.pages)
      BY <1>4, <3>1 DEF Fiber
    <3>3. /\ meta.dict = NoOffset /\ meta.encodings = b.used
          /\ meta.values = 0 /\ meta.data = 0 /\ meta.compressed = 0
      BY <3>1 DEF NoChunk
    <3>4. QED
      BY <1>6, <2>1, <2>3, <3>2, <3>3
  <2>4. QED
    BY <2>2, <2>3
<1>10. SinceIn(sink, offset) = <<>> /\ written = offset
  <2>1. written = offset
    BY <1>2, <1>4 DEF FInv, Ahead
  <2>2. PICK s, at : s = sink /\ at = offset
    OBVIOUS
  <2>3. s \in Seq(Accepted) /\ \A k \in 1..Len(s) : s[k].pos < at
    BY <1>4, <2>1, <2>2 DEF SinkEnds
  <2>4. SinceIn(s, at) = <<>>
    BY <2>3, SinceNone
  <2>5. QED
    BY <2>1, <2>2, <2>4
<1>11. /\ SinkStep /\ SinkEnds'
       /\ \E w \in Accepted :
             IF HasDict(d.enc)
             THEN /\ w.kind = "header" /\ w.pos = written
                  /\ SinceIn(sink', offset) = Append(<<>>, w)
             ELSE SinceIn(sink', offset) = <<>>
  <2>1. CASE HasDict(d.enc)
    <3>1. /\ HeaderBytes \in Nat /\ HeaderBytes > 0 /\ "header" \in Kinds
          /\ <<>> \in Seq(Data) \cup Page
      BY DEF HeaderBytes, Kinds
    <3>2. Write("header", HeaderBytes, <<>>)
      BY <1>3, <1>6, <2>1
    <3>3. /\ SinkStep /\ SinkEnds'
          /\ \E w \in Accepted :
                /\ w.kind = "header" /\ w.pos = written
                /\ SinceIn(sink', offset) = Append(SinceIn(sink, offset), w)
      BY <1>4, <3>1, <3>2, SinkFacts
    <3>4. QED
      BY <1>10, <2>1, <3>3, Zenon
  <2>2. CASE ~HasDict(d.enc)
    <3>1. sink' = sink /\ written' = written
      BY <1>3, <1>6, <2>2
    <3>2. SinkStep /\ SinkEnds'
      BY <1>4, <3>1 DEF SinkStep, SinkEnds
    <3>3. \E w : w \in Accepted
      <4>1. Len(sink) \in Nat /\ Len(sink) > 0
        BY <1>4, LenProperties DEF SinkEnds
      <4>2. 1 \in 1..Len(sink)
        BY <4>1
      <4>3. sink[1] \in Accepted
        BY <1>4, <4>2, ElementOfSeq
      <4>4. QED
        BY <4>3
    <3>4. SinceIn(sink', offset) = <<>>
      BY <1>10, <3>1
    <3>5. QED
      BY <2>2, <3>2, <3>3, <3>4
  <2>3. QED
    BY <2>1, <2>2
<1>12. PICK w \in Accepted :
          IF HasDict(d.enc)
          THEN /\ w.kind = "header" /\ w.pos = written
               /\ SinceIn(sink', offset) = Append(<<>>, w)
          ELSE SinceIn(sink', offset) = <<>>
  BY <1>11
<1>13. PICK ws, at : ws = SinceIn(sink', offset) /\ at = offset
  OBVIOUS
<1>14. SoFar(d, ws, meta, at, f)
  <2>1. ws \in Seq(Accepted)
    <3>1. PICK s : s = sink'
      OBVIOUS
    <3>2. SinceIn(s, at) \in Seq(Accepted)
      BY <1>4, <3>1, SinceType
    <3>3. QED
      BY <1>13, <3>1, <3>2
  <2>2. IF HasDict(d.enc)
        THEN ws = Append(<<>>, w) /\ w.kind = "header" /\ w.pos = at
        ELSE ws = <<>>
    BY <1>10, <1>12, <1>13
  <2>3. QED
    BY <1>6, <1>9, <2>1, <2>2, ChunkOpened
<1>15. UnderWay'
  <2>1. SoFar(cols'[fiber'.col], SinceIn(sink', offset'), cmd', offset', fiber')
    BY <1>2, <1>7, <1>8, <1>9, <1>13, <1>14
  <2>2. QED
    BY <2>1 DEF UnderWay
<1>16. Writing /\ Writing' /\ fiber'.col = fiber.col /\ fiber'.phase # "chunk"
       /\ fiber'.phase \notin {"footer", "closed", "idle"}
  BY <1>2, <1>8, <1>9 DEF Writing
<1>17. /\ GroupsFilled' /\ ChunksTrue'
       /\ \A i \in Columns :
             ChunksIn(sink', cols'[i].maxDef, groups', i) =
                ChunksIn(sink, cols[i].maxDef, groups, i)
  <2>1. GroupsFilled /\ ChunksTrue /\ Writing' = Writing
    BY <1>16 DEF ContentsInv
  <2>2. QED
    BY <1>2, <1>4, <1>11, <1>16, <2>1, FinishedStay
<1>18. NothingMoves
  <2>1. ASSUME NEW j \in Columns PROVE HeldBy(cols'[j]) = HeldBy(cols[j])
    BY <1>1, <1>6, <1>7
  <2>2. QED
    BY <1>17, <2>1 DEF NothingMoves
<1>19. ColumnsListed'
  <2>1. ASSUME NEW j \in Columns
        PROVE  Coded(cols'[j]) /\ Listed(cols'[j], cols'[j].used)
    BY <1>6, <1>7, InvFacts
  <2>2. QED
    BY <2>1 DEF ColumnsListed
<1>20. Closing'
  <2>1. ASSUME closed, NEW j \in Columns, j < fiber.col
        PROVE  Empty(cols'[j])
    <3>1. j # fiber.col
      BY <1>4, <2>1 DEF Columns
    <3>2. QED
      BY <1>7, <1>16, <2>1, <3>1 DEF ContentsInv, Closing
  <2>2. cols'[fiber.col].levels = <<>>
    BY <1>6, <1>7
  <2>3. QED
    BY <1>2, <1>16, <2>1, <2>2 DEF Closing
<1>21. QED
  BY <1>2, <1>11, <1>15, <1>17, <1>18, <1>19, <1>20, WriterStep

-----------------------------------------------------------------------------
(* A chunk is placed.                                                      *)

LEMMA SinceLast ==
    ASSUME NEW s \in Seq(Accepted), NEW at, SinceIn(s, at) # <<>>
    PROVE  SinceIn(s, at)[Len(SinceIn(s, at))] = s[Len(s)]
<1> DEFINE m == PosBefore(s, at)
           n == Len(s)
           ws == SubSeq(s, m + 1, n)
<1>1. m \in 0..n /\ n \in Nat
  BY PosBeforeBound
<1>2. SinceIn(s, at) = ws
  BY DEF SinceIn
<1> HIDE DEF m
<1>3. m + 1 \in Int /\ n \in Int /\ \A k \in (m + 1)..n : s[k] \in Accepted
  BY <1>1, ElementOfSeq
<1>4. /\ Len(ws) = IF m + 1 <= n THEN n - (m + 1) + 1 ELSE 0
      /\ \A k \in 1..(n - (m + 1) + 1) : ws[k] = s[(m + 1) + k - 1]
  BY <1>3, SubSeqProperties
<1>5. m + 1 <= n
  <2>1. CASE ~(m + 1 <= n)
    <3>1. n < m + 1
      BY <1>1, <2>1
    <3>2. ws = <<>>
      BY <1>3, <3>1, SubSeqEmpty
    <3>3. QED
      BY <1>2, <3>2
  <2>2. QED
    BY <2>1
<1> HIDE DEF ws, n
<1>6. /\ Len(ws) = n - (m + 1) + 1
      /\ Len(ws) \in 1..(n - (m + 1) + 1)
      /\ (m + 1) + Len(ws) - 1 = n
  BY <1>1, <1>4, <1>5
<1>7. ws[Len(ws)] = s[n]
  BY <1>4, <1>6
<1>8. QED
  BY <1>2, <1>7 DEF n

LEMMA PlacedIsFine ==
    ASSUME NEW c \in Column, NEW ws \in Seq(Accepted), NEW meta \in ChunkMeta,
           NEW at \in Nat, NEW f \in Fiber, SoFar(c, ws, meta, at, f),
           f.phase = "header", f.page = f.last + 1, f.last = Len(c.pages),
           CopyOf(c) \in Seq(Data),
           c.pages \in Seq(Good(c.maxDef, CopyOf(c))),
           ws # <<>> =>
              ws[Len(ws)].pos + ws[Len(ws)].size = at + meta.compressed,
           NEW placed,
           Start(placed) = at, End(placed) = at + meta.compressed,
           placed.data = meta.data + at,
           placed.compressed = meta.compressed,
           placed.values = meta.values, placed.encodings = meta.encodings
    PROVE  /\ Fine(c.maxDef, ws, placed)
           /\ ReadOf(c.maxDef, ws) = EntriesOf(c.maxDef, CopyOf(c), c.pages)
           /\ ReadOf(c.maxDef, ws) \in Seq(Entry)
<1> DEFINE n == Len(c.pages)
           front == DictWrites(c)
           copy == CopyOf(c)
           m == c.maxDef
           pages == c.pages
<1>1. /\ n \in Nat /\ m \in Nat /\ pages \in Seq(Page)
      /\ pages \in Seq(Good(m, copy)) /\ copy \in Seq(Data)
      /\ \A k \in 1..n : pages[k] \in Good(m, copy)
  BY GoodArePages DEF Column
<1>2. f.page = n + 1 /\ Counted(f) = n
  BY <1>1 DEF Counted
<1>3. /\ Laid(ws, front, c.dict, pages) /\ Len(ws) = front + 2 * n
      /\ front \in {0, 2}
      /\ copy = (IF front = 2 THEN c.dict ELSE <<>>)
  <2>1. Len(ws) = front + 2 * ((n + 1) - 1) + 0
    BY <1>2 DEF SoFar
  <2>2. front \in {0, 2} /\ copy = (IF front = 2 THEN c.dict ELSE <<>>)
    BY DEF DictWrites, CopyOf
  <2>3. QED
    BY <1>1, <2>1, <2>2 DEF SoFar
<1>4. /\ HasDictionary(ws) <=> front = 2
      /\ PagesOf(ws) = pages
      /\ Dictionary(ws) = copy
      /\ Len(ws) % 2 = 0
      /\ \A k \in 1..Len(ws) :
            IF k % 2 = 1 THEN ws[k].kind = "header"
            ELSE ws[k].kind = "page" \/ (k = 2 /\ ws[k].kind = "dict")
  <2> HIDE DEF front, copy, pages
  <2>1. Len(ws) = front + 2 * Len(pages)
    BY <1>3 DEF n, pages
  <2>2. QED
    BY <1>1, <1>3, <2>1, LaidRead
<1>5. /\ meta.data = (IF front = 2
                      THEN HeaderBytes + CompressedSize(Len(c.dict)) ELSE 0)
      /\ meta.values = Len(EntriesOf(m, copy, pages))
      /\ Listed(c, meta.encodings)
      /\ IF ws = <<>> THEN meta.compressed = 0 ELSE ws[1].pos = at
  <2>1. SubSeq(pages, 1, n) = pages
    BY <1>1, SubSeqFull
  <2>2. front = 2 <=> HasDict(c.enc)
    BY DEF DictWrites
  <2>3. QED
    BY <1>2, <2>1, <2>2 DEF SoFar
<1>6. ReadOf(m, ws) = EntriesOf(m, copy, pages)
  BY <1>4 DEF ReadOf
<1>7. EntriesOf(m, copy, pages) \in Seq(Entry)
  BY <1>1, ReadsType
<1>8. ReadableAs(m, ws, placed)
  <2>1. IF ws = <<>> THEN placed.compressed = 0
        ELSE /\ ws[1].pos = Start(placed)
             /\ ws[Len(ws)].pos + ws[Len(ws)].size = End(placed)
    BY <1>5
  <2>2. \A k \in 1..n : PageReadable(m, copy, pages[k])
    BY <1>1 DEF Good
  <2> HIDE DEF copy, pages, m
  <2>3. QED
    BY <1>4, <2>1, <2>2 DEF ReadableAs, n, pages
<1>9. TrueAs(m, ws, placed)
  <2>1. placed.data = Start(placed)
          + (IF HasDictionary(ws)
             THEN HeaderBytes + CompressedSize(Len(Dictionary(ws))) ELSE 0)
    <3>1. CASE front = 2
      <4>1. meta.data = HeaderBytes + CompressedSize(Len(Dictionary(ws)))
        BY <1>3, <1>4, <1>5, <3>1
      <4>2. meta.data \in Nat
        BY DEF ChunkMeta
      <4>3. QED
        BY <1>4, <3>1, <4>1, <4>2
    <3>2. CASE front # 2
      BY <1>4, <1>5, <3>2
    <3>3. QED
      BY <3>1, <3>2
  <2>2. \A k \in 1..n : pages[k].values.encoding \in placed.encodings
    BY <1>5 DEF Listed
  <2>3. placed.values = Len(ReadOf(m, ws))
    BY <1>5, <1>6
  <2> HIDE DEF copy, pages, m
  <2>4. QED
    BY <1>4, <2>1, <2>2, <2>3 DEF TrueAs, n, pages
<1>10. QED
  BY <1>6, <1>7, <1>8, <1>9 DEF Fine

(* The metadata of the chunk, and where CloseChunk puts it.                *)
LEMMA ChunkPlaced ==
    ASSUME ContentsInv, CloseChunk
    PROVE  \E placed :
              /\ Start(placed) = offset
              /\ End(placed) = offset + cmd.compressed
              /\ placed.data = cmd.data + offset
              /\ placed.compressed = cmd.compressed
              /\ placed.values = cmd.values
              /\ placed.encodings = cmd.encodings
              /\ Len(groups) \in Nat /\ Len(groups) > 0
              /\ Len(groups') = Len(groups)
              /\ \A k \in 1..Len(groups) :
                    k # Len(groups) => groups'[k] = groups[k]
              /\ Len(groups'[Len(groups)].columns) = fiber.col
              /\ groups'[Len(groups)].columns[fiber.col] = placed
              /\ \A j \in 1..(fiber.col - 1) :
                    groups'[Len(groups)].columns[j] =
                       groups[Len(groups)].columns[j]
<1> DEFINE n == Len(groups)
           group == groups[n]
           placed == [cmd EXCEPT !.file = offset + cmd.compressed,
                                 !.data = @ + offset,
                                 !.dict = IF @ = NoOffset THEN @
                                          ELSE @ + offset]
           columns == Append(group.columns, placed)
           bytes == group.bytes + cmd.compressed + MetaBytes
           longer == [group EXCEPT !.columns = columns, !.bytes = bytes]
<1>1. fiber.phase = "header" /\ groups' = [groups EXCEPT ![n] = longer]
  BY DEF CloseChunk
<1>2. FInv /\ GroupsFilled
  BY DEF ContentsInv, PagesInv
<1>3. /\ n \in Nat /\ n > 0 /\ groups \in Seq(RowGroup) /\ n \in 1..Len(groups)
      /\ group \in RowGroup
      /\ group.columns \in Seq(ChunkMeta) /\ Len(group.columns) \in Nat
      /\ Len(group.columns) = fiber.col - 1 /\ fiber.col \in Nat
  <2>1. n \in Nat /\ n > 0 /\ groups \in Seq(RowGroup)
    BY <1>1, <1>2, LenProperties DEF FInv, InChunk, MetadataOK
  <2>2. n \in 1..Len(groups)
    BY <2>1
  <2>3. group \in RowGroup
    BY <2>1, <2>2, ElementOfSeq
  <2>4. group.columns \in Seq(ChunkMeta) /\ Len(group.columns) \in Nat
    BY <2>3, LenProperties DEF RowGroup
  <2>5. Len(group.columns) = fiber.col - 1
    BY <1>1, <1>2, <2>2 DEF GroupsFilled, Writing
  <2>6. fiber.col \in Nat
    BY <1>2 DEF FInv, FiberOK, Columns
  <2>7. QED
    BY <2>1, <2>2, <2>3, <2>4, <2>5, <2>6
<1>4. /\ placed \in ChunkMeta
      /\ Start(placed) = offset /\ End(placed) = offset + cmd.compressed
      /\ placed.data = cmd.data + offset
      /\ placed.compressed = cmd.compressed
      /\ placed.values = cmd.values /\ placed.encodings = cmd.encodings
  <2> DEFINE end == offset + cmd.compressed
             data == cmd.data + offset
             dict == IF cmd.dict = NoOffset THEN NoOffset
                     ELSE cmd.dict + offset
  <2>1. cmd.dict = 0 \/ (cmd.dict = NoOffset /\ cmd.data = 0)
    BY <1>1, <1>2 DEF FInv, InChunk
  <2>2. /\ end \in Nat /\ data \in Nat
        /\ dict = offset \/ (dict = NoOffset /\ data = offset)
    BY <1>2, <2>1, FiberFacts DEF NoOffset
  <2>3. cmd \in ChunkMeta
    BY <1>2 DEF FInv, FiberOK
  <2>4. placed = [cmd EXCEPT !.file = end, !.data = data, !.dict = dict]
    OBVIOUS
  <2>5. dict \in Nat \cup {NoOffset}
    BY <1>2, <2>2, FiberFacts
  <2> HIDE DEF end, data, dict, placed
  <2>6. /\ placed \in ChunkMeta /\ placed.dict = dict
        /\ placed.data = data /\ placed.compressed = cmd.compressed
        /\ placed.values = cmd.values /\ placed.encodings = cmd.encodings
    BY <2>2, <2>3, <2>4, <2>5 DEF ChunkMeta
  <2>7. Start(placed) = offset
    <3>1. offset # NoOffset
      BY <1>2, FiberFacts DEF NoOffset
    <3>2. QED
      BY <2>2, <2>6, <3>1 DEF Start
  <2>8. QED
    BY <2>6, <2>7 DEF End, data
<1> HIDE DEF placed
<1>5. /\ columns \in Seq(ChunkMeta)
      /\ Len(columns) = fiber.col
      /\ \A k \in 1..(fiber.col - 1) : columns[k] = group.columns[k]
      /\ columns[fiber.col] = placed
  <2>1. /\ columns \in Seq(ChunkMeta)
        /\ Len(columns) = Len(group.columns) + 1
        /\ \A k \in 1..Len(group.columns) : columns[k] = group.columns[k]
        /\ columns[Len(group.columns) + 1] = placed
    BY <1>3, <1>4, AppendProperties
  <2> HIDE DEF columns, group
  <2>2. Len(group.columns) + 1 = fiber.col
    BY <1>3
  <2>3. QED
    BY <1>3, <2>1, <2>2
<1>6. longer \in RowGroup /\ longer.columns = columns
  <2>1. bytes \in Nat
    <3>1. cmd.compressed \in Nat
      BY <1>2, FiberFacts
    <3>2. group.bytes \in Nat
      BY <1>3 DEF RowGroup
    <3> HIDE DEF group
    <3>3. QED
      BY <3>1, <3>2 DEF MetaBytes
  <2> HIDE DEF columns, bytes, group
  <2>2. QED
    BY <1>3, <1>5, <2>1 DEF RowGroup
<1> HIDE DEF longer, columns
<1>7. /\ Len(groups') = n
      /\ \A k \in 1..n : groups'[k] = IF k = n THEN longer ELSE groups[k]
  <2>1. /\ Len([groups EXCEPT ![n] = longer]) = Len(groups)
        /\ \A k \in 1..Len(groups) :
              [groups EXCEPT ![n] = longer][k] =
                 IF k = n THEN longer ELSE groups[k]
    BY <1>3, <1>6, ExceptSeq
  <2>2. QED
    BY <1>1, <2>1
<1>8. groups'[n].columns = columns
  BY <1>3, <1>6, <1>7
<1>9. QED
  BY <1>3, <1>4, <1>5, <1>7, <1>8

(* The oldest entries column i holds become its next chunk.                *)
Cuts(i, x) ==
    /\ \A j \in Columns : j # i =>
          /\ ChunksIn(sink', cols'[j].maxDef, groups', j) =
                ChunksIn(sink, cols[j].maxDef, groups, j)
          /\ HeldBy(cols'[j]) = HeldBy(cols[j])
    /\ ChunksIn(sink', cols'[i].maxDef, groups', i) =
          Append(ChunksIn(sink, cols[i].maxDef, groups, i), x)
    /\ HeldBy(cols[i]) = x \o HeldBy(cols'[i])

LEMMA CloseChunkContents ==
    ASSUME ContentsInv, PagesInv', CloseChunk
    PROVE  /\ ContentsInv'
           /\ \E i \in Columns, x \in Seq(Entry) : Cuts(i, x)
<1>1. PICK i, n, c, ws, meta, at, f :
         /\ i = fiber.col /\ n = Len(groups) /\ c = cols[fiber.col]
         /\ ws = SinceIn(sink, offset)
         /\ meta = cmd /\ at = offset /\ f = fiber
  OBVIOUS
<1> DEFINE d == ClearPages(c)
<1>2. /\ fiber.phase = "header" /\ fiber.page > fiber.last
      /\ cols' = [cols EXCEPT ![i] = d] /\ input' = input /\ closed' = closed
      /\ offset' = offset + cmd.compressed + MetaBytes
      /\ Write("meta", MetaBytes, <<>>)
      /\ fiber' = IF i < Len(Schema)
                  THEN [fiber EXCEPT !.phase = "chunk", !.col = @ + 1]
                  ELSE [fiber EXCEPT !.phase = AfterGroup]
  BY <1>1 DEF CloseChunk, AfterChunk
<1>3. /\ FInv /\ FInv' /\ GroupsFilled /\ ChunksTrue /\ SinkEnds
      /\ f \in Fiber /\ i \in Columns /\ c \in Column /\ ColumnSound(c)
      /\ Coded(c) /\ meta \in ChunkMeta /\ ws \in Seq(Accepted)
      /\ SoFar(c, ws, meta, at, f) /\ CopyOf(c) \in Seq(Data)
      /\ c.pages \in Seq(Good(c.maxDef, CopyOf(c)))
      /\ EntriesOf(c.maxDef, c.enc.entries, c.pages) =
            EntriesOf(c.maxDef, CopyOf(c), c.pages)
      /\ at \in Nat /\ sink \in Seq(Accepted)
  <2>1. fiber.phase \in {"dict", "header", "body"}
    BY <1>2
  <2>2. FInv /\ FInv' /\ GroupsFilled /\ ChunksTrue /\ SinkEnds
    BY DEF ContentsInv, PagesInv
  <2>3. QED
    BY <1>1, <2>1, <2>2, ChunkFacts, OffsetBound DEF FInv, SinkOK
<1>4. /\ i \in Nat /\ i >= 1 /\ i <= Len(Schema) /\ Len(Schema) \in Nat
  BY <1>3, SchemaAssumption, LenProperties DEF Columns
<1>5. PICK placed :
         /\ Start(placed) = at /\ End(placed) = at + meta.compressed
         /\ placed.data = meta.data + at
         /\ placed.compressed = meta.compressed
         /\ placed.values = meta.values
         /\ placed.encodings = meta.encodings
         /\ n \in Nat /\ n > 0 /\ Len(groups') = n
         /\ \A k \in 1..n : k # n => groups'[k] = groups[k]
         /\ Len(groups'[n].columns) = i
         /\ groups'[n].columns[i] = placed
         /\ \A j \in 1..(i - 1) :
               groups'[n].columns[j] = groups[n].columns[j]
  BY <1>1, ChunkPlaced
<1>6. /\ f.phase = "header" /\ f.page = f.last + 1 /\ f.last = Len(c.pages)
  <2>1. fiber.last = Len(cols[fiber.col].pages)
    BY <1>2, <1>3 DEF FInv, InChunk
  <2>2. f.page \in Nat /\ f.last \in Nat
    BY <1>3 DEF Fiber
  <2>3. f.page <= f.last + 1
    BY <1>1, <1>2, <1>3 DEF SoFar
  <2>4. QED
    BY <1>1, <1>2, <2>1, <2>2, <2>3
<1>7. /\ written = at + meta.compressed /\ written \in Nat
      /\ meta.compressed \in Nat
  <2>1. written = offset + cmd.compressed
    BY <1>2, <1>3 DEF FInv, Ahead
  <2>2. meta.compressed \in Nat
    BY <1>3 DEF ChunkMeta
  <2>3. QED
    BY <1>1, <1>3, <2>1, <2>2
<1>8. ws # <<>> => ws[Len(ws)].pos + ws[Len(ws)].size = at + meta.compressed
  <2>1. PICK s : s = sink
    OBVIOUS
  <2>2. s \in Seq(Accepted) /\ s[Len(s)].pos + s[Len(s)].size = written
    BY <1>3, <2>1 DEF SinkEnds
  <2>3. ws = SinceIn(s, at)
    BY <1>1, <2>1
  <2>4. ws # <<>> => ws[Len(ws)] = s[Len(s)]
    BY <2>2, <2>3, SinceLast
  <2>5. QED
    BY <1>7, <2>2, <2>4
<1> DEFINE x == ReadOf(c.maxDef, ws)
<1>9. /\ Fine(c.maxDef, ws, placed) /\ x \in Seq(Entry)
      /\ x = EntriesOf(c.maxDef, c.enc.entries, c.pages)
  BY <1>3, <1>5, <1>6, <1>8, PlacedIsFine
<1>10. /\ Coded(d) /\ Listed(d, d.used)
       /\ d.levels = c.levels /\ d.pages = <<>>
       /\ HeldBy(d) \in Seq(Entry) /\ HeldBy(c) = x \o HeldBy(d)
  BY <1>3, <1>9, ClearPagesHolds
<1>11. d \in Column /\ SameLevels(c, d)
  BY <1>3, ClearPagesType
<1> HIDE DEF d, x
<1>12. /\ cols'[i] = d
       /\ \A j \in Columns : j # i => cols'[j] = cols[j]
  BY <1>1, <1>2, <1>3, <1>11, ColumnReplaced DEF FInv
<1>13. /\ SinkStep /\ SinkEnds'
       /\ \E w \in Accepted : w.pos = written /\ sink' = Append(sink, w)
  <2>1. /\ MetaBytes \in Nat /\ MetaBytes > 0 /\ "meta" \in Kinds
        /\ <<>> \in Seq(Data) \cup Page
    BY DEF MetaBytes, Kinds
  <2>2. QED
    BY <1>2, <1>3, <2>1, SinkFacts
<1>14. WritesIn(sink', placed) = ws
  <2>1. PICK w \in Accepted : w.pos = written /\ sink' = Append(sink, w)
    BY <1>13
  <2>2. PICK s : s = sink
    OBVIOUS
  <2>3. /\ s \in Seq(Accepted) /\ Start(placed) \in Nat /\ End(placed) \in Nat
        /\ Start(placed) <= w.pos /\ End(placed) <= w.pos
        /\ \A k \in 1..Len(s) : s[k].pos < End(placed)
    BY <1>3, <1>5, <1>7, <2>1, <2>2 DEF SinkEnds
  <2>4. WritesIn(Append(s, w), placed) = SinceIn(s, Start(placed))
    BY <2>3, SinceIsWrites
  <2>5. QED
    BY <1>1, <1>5, <2>1, <2>2, <2>4
<1>15. cols'[i].maxDef = c.maxDef
  BY <1>11, <1>12 DEF SameLevels
<1>16. /\ Writing
       /\ fiber'.phase \notin {"dict", "header", "body"}
       /\ IF i < Len(Schema)
          THEN fiber'.phase = "chunk" /\ fiber'.col = i + 1
          ELSE fiber'.phase = AfterGroup
  BY <1>1, <1>2, <1>3 DEF Writing, Fiber, AfterGroup
<1>17. /\ \A k \in 1..n : Len(groups[k].columns) =
                             IF k = n THEN i - 1 ELSE Len(Schema)
       /\ \A k \in 1..n : Len(groups'[k].columns) =
                             IF k = n THEN i ELSE Len(Schema)
  BY <1>1, <1>3, <1>5, <1>16 DEF GroupsFilled
<1>18. GroupsFilled'
  <2>1. Writing' => i < Len(Schema) /\ fiber'.col - 1 = i
    BY <1>4, <1>16 DEF Writing, AfterGroup
  <2>2. ~Writing' => i = Len(Schema)
    BY <1>4, <1>16 DEF Writing
  <2>3. QED
    BY <1>5, <1>17, <2>1, <2>2 DEF GroupsFilled
<1>19. ASSUME NEW j \in Columns
       PROVE  /\ Whole(j) = IF j < i THEN n ELSE n - 1
              /\ CountOf(groups', j) = IF j <= i THEN n ELSE n - 1
  <2> DEFINE m == IF j <= i THEN n ELSE n - 1
  <2>1. j \in Nat /\ j <= Len(Schema)
    BY DEF Columns
  <2>2. Whole(j) = IF j < i THEN n ELSE n - 1
    BY <1>1, <1>4, <1>16, <2>1 DEF Whole
  <2>3. PICK gs : gs = groups'
    OBVIOUS
  <2>4. /\ Len(gs) = n /\ n \in Nat /\ m \in 0..n
    BY <1>4, <1>5, <2>1, <2>3
  <2>5. ASSUME NEW k \in 1..n
        PROVE  (Len(gs[k].columns) >= j) <=> (k <= m)
    <3>1. CASE k = n
      BY <1>4, <1>17, <2>1, <2>3, <2>4, <3>1
    <3>2. CASE k # n
      BY <1>4, <1>17, <2>1, <2>3, <2>4, <3>2
    <3>3. QED
      BY <3>1, <3>2
  <2> HIDE DEF m
  <2>6. CountOf(gs, j) = m
    BY <2>4, <2>5, PrefixCount
  <2>7. QED
    BY <2>2, <2>3, <2>6 DEF m
<1>20. ASSUME NEW j \in Columns, NEW k \in 1..n,
              Len(groups[k].columns) >= j
       PROVE  groups'[k].columns[j] = groups[k].columns[j]
  <2>1. CASE k = n
    <3>1. j \in 1..(i - 1)
      BY <1>4, <1>17, <1>20, <2>1 DEF Columns
    <3>2. QED
      BY <1>5, <2>1, <3>1
  <2>2. CASE k # n
    BY <1>5, <2>2
  <2>3. QED
    BY <2>1, <2>2
<1>21. ChunksTrue'
  <2>1. ASSUME NEW j \in Columns, NEW k \in 1..Len(groups'),
               Len(groups'[k].columns) >= j
        PROVE  Fine(cols'[j].maxDef, WritesIn(sink', groups'[k].columns[j]),
                    groups'[k].columns[j])
    <3>1. k \in 1..n /\ k \in 1..Len(groups) /\ j \in Nat /\ n \in Nat
      BY <1>1, <1>5 DEF Columns
    <3>2. CASE k = n /\ j = i
      BY <1>5, <1>9, <1>14, <1>15, <3>2
    <3>3. CASE ~(k = n /\ j = i)
      <4>1. Len(groups[k].columns) >= j
        BY <1>4, <1>17, <2>1, <3>1, <3>3
      <4>2. QED
        BY <1>3, <1>13, <1>20, <3>1, <4>1, ChunkStaysFine
    <3>4. QED
      BY <3>2, <3>3
  <2>2. QED
    BY <2>1 DEF ChunksTrue
<1>22. ASSUME NEW j \in Columns, j # i
       PROVE  /\ ChunksIn(sink', cols'[j].maxDef, groups', j) =
                    ChunksIn(sink, cols[j].maxDef, groups, j)
              /\ HeldBy(cols'[j]) = HeldBy(cols[j])
  <2>1. CountOf(groups', j) = Whole(j)
    <3>1. (j < i) <=> (j <= i)
      BY <1>4, <1>22 DEF Columns
    <3>2. QED
      BY <1>19, <3>1
  <2>2. \A k \in 1..Whole(j) :
           groups'[k].columns[j] = groups[k].columns[j]
    <3>1. \A k \in 1..Whole(j) :
             k \in 1..n /\ Len(groups[k].columns) >= j
      BY <1>1, <1>3, ChunkCounts
    <3>2. QED
      BY <1>20, <3>1
  <2>3. QED
    BY <1>3, <1>12, <1>13, <1>22, <2>1, <2>2, ChunksStay
<1>23. ChunksIn(sink', cols'[i].maxDef, groups', i) =
          Append(ChunksIn(sink, cols[i].maxDef, groups, i), x)
  <2> DEFINE old(k) == ReadOf(cols[i].maxDef,
                              WritesIn(sink, groups[k].columns[i]))
             new(k) == ReadOf(cols'[i].maxDef,
                              WritesIn(sink', groups'[k].columns[i]))
             olds == [k \in 1..(n - 1) |-> old(k)]
             news == [k \in 1..n |-> new(k)]
  <2>1. /\ CountOf(groups, i) = n - 1 /\ CountOf(groups', i) = n
    <3>1. CountOf(groups, i) = Whole(i)
      BY <1>3, ChunkCounts
    <3>2. ~(i < i) /\ i <= i
      BY <1>4
    <3>3. QED
      BY <1>3, <1>19, <3>1, <3>2
  <2>2. ChunksIn(sink, cols[i].maxDef, groups, i) = olds
    BY <2>1 DEF ChunksIn
  <2>3. ChunksIn(sink', cols'[i].maxDef, groups', i) = news
    BY <2>1 DEF ChunksIn
  <2>4. new(n) = x
    BY <1>5, <1>14, <1>15 DEF x
  <2>5. ASSUME NEW k \in 1..(n - 1) PROVE new(k) = old(k)
    <3>1. k \in 1..n /\ k # n /\ k \in 1..Len(groups)
      BY <1>1, <1>5
    <3>2. Len(groups[k].columns) >= i
      BY <1>4, <1>17, <3>1
    <3>3. /\ cols'[i].maxDef = cols[i].maxDef
          /\ WritesIn(sink', groups'[k].columns[i]) =
                WritesIn(sink, groups[k].columns[i])
      BY <1>3, <1>13, <1>20, <3>1, <3>2, ChunkStays
    <3>4. QED
      BY <3>3
  <2>6. olds \in Seq(Seq(Entry))
    BY <1>3, <2>2, InvFacts
  <2> HIDE DEF old, new
  <2>7. Len(olds) = n - 1 /\ \A k \in 1..(n - 1) : olds[k] = old(k)
    BY <1>5
  <2> HIDE DEF olds
  <2>8. /\ Append(olds, x) \in Seq(Seq(Entry))
        /\ Len(Append(olds, x)) = n
        /\ \A k \in 1..(n - 1) : Append(olds, x)[k] = old(k)
        /\ Append(olds, x)[n] = x
    <3>1. /\ Append(olds, x) \in Seq(Seq(Entry))
          /\ Len(Append(olds, x)) = Len(olds) + 1
          /\ \A k \in 1..Len(olds) : Append(olds, x)[k] = olds[k]
          /\ Append(olds, x)[Len(olds) + 1] = x
      BY <1>9, <2>6, AppendProperties
    <3>2. Len(olds) + 1 = n
      BY <1>5, <2>7
    <3>3. QED
      BY <2>7, <3>1, <3>2
  <2>9. Append(olds, x) = [k \in 1..n |-> Append(olds, x)[k]]
    <3>1. PICK t : t = Append(olds, x)
      OBVIOUS
    <3>2. t \in Seq(Seq(Entry)) /\ Len(t) = n
      BY <2>8, <3>1
    <3>3. t = [k \in 1..Len(t) |-> t[k]]
      BY <3>2, LenProperties
    <3>4. QED
      BY <3>1, <3>2, <3>3
  <2>10. ASSUME NEW k \in 1..n PROVE Append(olds, x)[k] = new(k)
    <3>1. CASE k = n
      BY <2>4, <2>8, <3>1
    <3>2. CASE k # n
      <4>1. k \in 1..(n - 1)
        BY <1>5, <3>2
      <4>2. QED
        BY <2>5, <2>8, <4>1
    <3>3. QED
      BY <3>1, <3>2
  <2>11. QED
    BY <2>2, <2>3, <2>9, <2>10
<1>24. Cuts(i, x)
  BY <1>1, <1>10, <1>12, <1>22, <1>23 DEF Cuts
<1>25. Kept'
  <2>1. ASSUME NEW j \in Columns
        PROVE  FlattenSeq(ChunksIn(sink', cols'[j].maxDef, groups', j))
                  \o HeldBy(cols'[j]) = input'[j]
    <3> DEFINE old == ChunksIn(sink, cols[j].maxDef, groups, j)
    <3>1. old \in Seq(Seq(Entry)) /\ FlattenSeq(old) \in Seq(Entry)
      BY InvFacts
    <3>2. FlattenSeq(old) \o HeldBy(cols[j]) = input[j]
      BY DEF ContentsInv, Kept
    <3> HIDE DEF old
    <3>3. CASE j # i
      BY <1>2, <1>22, <3>2, <3>3 DEF old
    <3>4. CASE j = i
      <4>1. FlattenSeq(Append(old, x)) = FlattenSeq(old) \o x
        BY <1>9, <3>1, FlattenAppend
      <4>2. (FlattenSeq(old) \o x) \o HeldBy(d) =
               FlattenSeq(old) \o (x \o HeldBy(d))
        BY <1>9, <1>10, <3>1, ConcatAssociative
      <4>3. ChunksIn(sink', cols'[j].maxDef, groups', j) = Append(old, x)
        BY <1>23, <3>4 DEF old
      <4>4. HeldBy(cols'[j]) = HeldBy(d) /\ HeldBy(cols[j]) = x \o HeldBy(d)
        BY <1>1, <1>10, <1>12, <3>4
      <4>5. QED
        BY <1>2, <3>2, <4>1, <4>2, <4>3, <4>4
    <3>5. QED
      BY <3>3, <3>4
  <2>2. QED
    BY <2>1 DEF Kept
<1>26. ColumnsListed'
  <2>1. ASSUME NEW j \in Columns
        PROVE  Coded(cols'[j]) /\ Listed(cols'[j], cols'[j].used)
    BY <1>10, <1>12, InvFacts
  <2>2. QED
    BY <2>1 DEF ColumnsListed
<1>27. UnderWay'
  BY <1>16 DEF UnderWay
<1>28. Closing'
  <2>1. ASSUME closed, NEW j \in Columns, j <= i PROVE Empty(cols'[j])
    <3>1. CASE j = i
      <4>1. c.levels = <<>>
        BY <1>1, <1>2, <1>16, <2>1 DEF ContentsInv, Closing
      <4>2. QED
        BY <1>10, <1>12, <3>1, <4>1 DEF Empty
    <3>2. CASE j # i
      <4>1. j < i
        BY <1>4, <2>1, <3>2 DEF Columns
      <4>2. Empty(cols[j])
        BY <1>1, <1>16, <2>1, <4>1 DEF ContentsInv, Closing
      <4>3. QED
        BY <1>12, <3>2, <4>2
    <3>3. QED
      BY <3>1, <3>2
  <2>2. CASE i < Len(Schema)
    <3>1. fiber'.phase = "chunk" /\ fiber'.col = i + 1
      BY <1>16, <2>2
    <3>2. \A j \in Columns : j < i + 1 => j <= i
      BY <1>4 DEF Columns
    <3>3. QED
      BY <1>2, <2>1, <3>1, <3>2 DEF Closing
  <2>3. CASE ~(i < Len(Schema))
    <3>1. fiber'.phase = IF closed THEN "footer" ELSE "idle"
      BY <1>16, <2>3 DEF AfterGroup
    <3>2. \A j \in Columns : j <= i
      BY <1>4, <2>3 DEF Columns
    <3>3. ~Writing'
      BY <3>1 DEF Writing
    <3>4. QED
      BY <1>2, <2>1, <3>1, <3>2, <3>3 DEF Closing
  <2>4. QED
    BY <2>2, <2>3
<1>29. ContentsInv'
  BY <1>13, <1>18, <1>21, <1>25, <1>26, <1>27, <1>28 DEF ContentsInv
<1>30. QED
  BY <1>3, <1>9, <1>24, <1>29

-----------------------------------------------------------------------------
(* The theorems.                                                           *)

LEMMA ContentsStart == Init => ContentsInv
<1> SUFFICES ASSUME Init PROVE ContentsInv
  OBVIOUS
<1>1. PagesInv
  BY PagesStart
<1>2. /\ groups = <<>> /\ closed = FALSE /\ fiber.phase = "idle"
      /\ sink = <<[pos |-> 0, size |-> MagicBytes, kind |-> "magic",
                   body |-> <<>>]>>
      /\ written = MagicBytes
  BY DEF Init
<1>3. Len(groups) = 0
  BY <1>2, EmptySeq
<1>4. ASSUME NEW i \in Columns
      PROVE  /\ cols[i].pages = <<>> /\ cols[i].levels = <<>>
             /\ input[i] = <<>>
  BY DEF Init, NewColumn
<1>5. SinkEnds
  BY <1>2 DEF SinkEnds, MagicBytes
<1>6. GroupsFilled /\ ChunksTrue
  BY <1>3 DEF GroupsFilled, ChunksTrue
<1>7. UnderWay /\ Closing
  BY <1>2 DEF UnderWay, Closing, Writing
<1>8. ColumnsListed
  BY <1>4 DEF ColumnsListed, Coded, Listed
<1>9. Kept
  <2>1. ASSUME NEW i \in Columns
        PROVE  FlattenSeq(ChunksIn(sink, cols[i].maxDef, groups, i))
                  \o HeldBy(cols[i]) = input[i]
    <3>1. PICK c : c = cols[i]
      OBVIOUS
    <3>2. c \in Column /\ ColumnSound(c) /\ Empty(c)
      BY <1>1, <1>4, <3>1, ColumnFacts DEF PagesInv, FInv, ColumnsSound, Empty
    <3>3. HeldBy(c) = <<>>
      BY <3>2, EmptyHoldsNothing
    <3>4. CountOf(groups, i) = 0
      <4>1. PICK gs : gs = groups
        OBVIOUS
      <4>2. /\ Len(gs) \in Nat /\ 0 \in 0..Len(gs)
            /\ \A k \in 1..Len(gs) : (Len(gs[k].columns) >= i) <=> (k <= 0)
        BY <1>3, <4>1
      <4>3. CountOf(gs, i) = 0
        BY <4>2, PrefixCount
      <4>4. QED
        BY <4>1, <4>3
    <3>5. ChunksIn(sink, cols[i].maxDef, groups, i) = <<>>
      BY <3>4 DEF ChunksIn
    <3>6. <<>> \o <<>> = <<>>
      OBVIOUS
    <3>7. QED
      BY <1>4, <3>1, <3>3, <3>5, <3>6, FlattenNone
  <2>2. QED
    BY <2>1 DEF Kept
<1>10. QED
  BY <1>1, <1>5, <1>6, <1>7, <1>8, <1>9 DEF ContentsInv

LEMMA ContentsKeep == ContentsInv /\ [Next]_vars => ContentsInv'
<1> SUFFICES ASSUME ContentsInv, [Next]_vars PROVE ContentsInv'
  OBVIOUS
<1>1. PagesInv'
  BY PagesKeep DEF ContentsInv
<1>2. CASE Program
  BY <1>1, <1>2, ProgramKeepsContents
<1>3. CASE FlushRowGroup \/ Close
  BY <1>1, <1>3, BeginRowGroupContents DEF FlushRowGroup, Close
<1>4. CASE OpenChunk
  BY <1>1, <1>4, OpenChunkContents
<1>5. CASE WriteDict
  BY <1>1, <1>5, WriteDictContents
<1>6. CASE WriteHeader
  BY <1>1, <1>6, WriteHeaderContents
<1>7. CASE WriteBody
  BY <1>1, <1>7, WriteBodyContents
<1>8. CASE CloseChunk
  BY <1>1, <1>8, CloseChunkContents
<1>9. CASE WriteFooter
  BY <1>1, <1>9, WriteFooterContents
<1>10. CASE UNCHANGED vars
  <2>1. /\ cols' = cols /\ groups' = groups /\ offset' = offset
        /\ closed' = closed /\ sink' = sink /\ written' = written
        /\ fiber' = fiber /\ cmd' = cmd /\ input' = input
    BY <1>10 DEF vars
  <2>2. SinkStep /\ SinkEnds' /\ Writing' = Writing
    BY <2>1 DEF ContentsInv, SinkStep, SinkEnds, Writing
  <2>3. UnderWay' /\ Closing'
    BY <2>1 DEF ContentsInv, UnderWay, Closing, Writing
  <2>4. QED
    BY <1>1, <2>1, <2>2, <2>3, WriteStep
<1>11. QED
  BY <1>2, <1>3, <1>4, <1>5, <1>6, <1>7, <1>8, <1>9, <1>10
  DEF Next, Flushing, Done, Program

(* Whatever the program puts and flushes while chunks are being written:   *)
(* the writes of the chunk under way are its pages so far, in the order of *)
(* the column's; a chunk that is placed reads as it did when it was, and   *)
(* with what the columns hold the chunks are what was put.                 *)
THEOREM ContentsInvariance == Spec => []ContentsInv
BY ContentsStart, ContentsKeep, PTL DEF Spec

LEMMA ReadersView ==
    /\ \A i \in Columns :
          /\ Chunks(i) = ChunksIn(sink, cols[i].maxDef, groups, i)
          /\ Held(i) = HeldBy(cols[i])
    /\ \A i, meta :
          /\ ReadChunk(i, meta) = ReadOf(cols[i].maxDef, WritesIn(sink, meta))
          /\ ChunkReadable(i, meta) <=>
                ReadableAs(cols[i].maxDef, WritesIn(sink, meta), meta)
          /\ MetaTrue(i, meta) <=>
                TrueAs(cols[i].maxDef, WritesIn(sink, meta), meta)
<1>1. \A meta : Writes(meta) = WritesIn(sink, meta)
  BY DEF Writes, WritesIn, Before, PosBefore
<1>2. \A i, meta :
         ReadChunk(i, meta) = ReadOf(cols[i].maxDef, WritesIn(sink, meta))
  BY <1>1 DEF ReadChunk, ReadOf
<1>3. \A i, meta :
         ChunkReadable(i, meta) <=>
            ReadableAs(cols[i].maxDef, WritesIn(sink, meta), meta)
  BY <1>1 DEF ChunkReadable, ReadableAs
<1>4. \A i, meta :
         MetaTrue(i, meta) <=>
            TrueAs(cols[i].maxDef, WritesIn(sink, meta), meta)
  BY <1>1, <1>2 DEF MetaTrue, TrueAs
<1>5. \A i \in Columns :
         Chunks(i) = ChunksIn(sink, cols[i].maxDef, groups, i)
  BY <1>2 DEF Chunks, ChunkCount, ChunksIn, CountOf
<1>6. \A i \in Columns : Held(i) = HeldBy(cols[i])
  BY DEF Held, HeldBy, PageMade
<1>7. QED
  BY <1>2, <1>3, <1>4, <1>5, <1>6

LEMMA AllChunksFine ==
    ASSUME ContentsInv, NEW p \in AllMetas
    PROVE  ChunkReadable(p[1], Meta(p)) /\ MetaTrue(p[1], Meta(p))
<1>1. PICK i, k, meta :
         /\ i \in Columns /\ k \in 1..Len(groups)
         /\ i = p[1] /\ k = p[2] /\ Len(groups[k].columns) >= i
         /\ meta = groups[k].columns[i] /\ meta = Meta(p)
  BY DEF AllMetas, Meta
<1>2. Fine(cols[i].maxDef, WritesIn(sink, meta), meta)
  BY <1>1 DEF ContentsInv, ChunksTrue
<1>3. ChunkReadable(i, meta) /\ MetaTrue(i, meta)
  BY <1>2, ReadersView DEF Fine
<1>4. QED
  BY <1>1, <1>3

(* However puts and flushes fall between the writes of a chunk: a reader   *)
(* that follows the metadata finds, column by column, the entries that     *)
(* were put, each once and in order, up to those the column still holds.   *)
THEOREM NothingLostHolds == Spec => []NothingLost
<1>1. ContentsInv => NothingLost
  <2> SUFFICES ASSUME ContentsInv PROVE NothingLost
    OBVIOUS
  <2>1. PagesReadable
    BY DEF ContentsInv, PagesInv, ColumnsSound, ColumnSound, PageSound,
           PagesReadable
  <2>2. ChunksReadable
    BY <2>1, AllChunksFine DEF ChunksReadable
  <2>3. \A i \in Columns : FlattenSeq(Chunks(i)) \o Held(i) = input[i]
    BY ReadersView DEF ContentsInv, Kept
  <2>4. QED
    BY <2>2, <2>3 DEF NothingLost
<1>2. QED
  BY <1>1, ContentsInvariance, PTL

(* What the metadata says of a chunk, its values, its encodings and where  *)
(* its data pages are, is what its pages are, although the counts are      *)
(* made page by page while others put into the column.                     *)
THEOREM ChunkMetaTrueHolds == Spec => []ChunkMetaTrue
<1>1. ContentsInv => ChunkMetaTrue
  BY AllChunksFine DEF ChunkMetaTrue
<1>2. QED
  BY <1>1, ContentsInvariance, PTL

(* A closed file has every entry that was put in one of its chunks.        *)
THEOREM ClosedFileCompleteHolds == Spec => []ClosedFileComplete
<1>1. ContentsInv => ClosedFileComplete
  <2> SUFFICES ASSUME ContentsInv, fiber.phase = "closed", NEW i \in Columns
               PROVE  FlattenSeq(Chunks(i)) = input[i]
    BY DEF ClosedFileComplete
  <2>1. PICK c : c = cols[i]
    OBVIOUS
  <2>2. c \in Column /\ ColumnSound(c) /\ Empty(c)
    BY <2>1, InvFacts DEF ContentsInv, Closing
  <2>3. HeldBy(c) = <<>>
    BY <2>2, EmptyHoldsNothing
  <2> DEFINE all == FlattenSeq(ChunksIn(sink, cols[i].maxDef, groups, i))
  <2>4. all \o HeldBy(cols[i]) = input[i] /\ all \in Seq(Entry)
    BY InvFacts DEF ContentsInv, Kept
  <2>5. FlattenSeq(Chunks(i)) = all
    BY ReadersView
  <2> HIDE DEF all
  <2>6. all \o <<>> = all
    BY <2>4, ConcatEmptySeq
  <2>7. QED
    BY <2>1, <2>3, <2>4, <2>5, <2>6
<1>2. QED
  BY <1>1, ContentsInvariance, PTL

-----------------------------------------------------------------------------
(* The writer implements the table.                                        *)

ChunksOf == [i \in Columns |-> ChunksIn(sink, cols[i].maxDef, groups, i)]
HeldOf   == [i \in Columns |-> HeldBy(cols[i])]

Same ==
    /\ [i \in Columns |-> Chunks(i)] = ChunksOf
    /\ [i \in Columns |-> Held(i)] = HeldOf

LEMMA Mapped == Same
BY ReadersView DEF Same, ChunksOf, HeldOf

LEMMA MappedNext == Same'
BY Mapped, PTL

(* The table's steps, of what a reader finds and of what the columns hold. *)
Adding(open, open2, i) ==
    /\ Len(open2[i]) > Len(open[i])
    /\ open2[i] \in Seq(Entry)
    /\ SubSeq(open2[i], 1, Len(open[i])) = open[i]
    /\ open2 = [open EXCEPT ![i] = open2[i]]

Cutting(chunks, chunks2, open, open2, i) ==
    /\ Len(chunks2[i]) = Len(chunks[i]) + 1
    /\ \E k \in 0..Len(open[i]) :
          /\ chunks2 = [chunks EXCEPT ![i] =
                           Append(@, SubSeq(open[i], 1, k))]
          /\ open2 = [open EXCEPT ![i] = SubSeq(@, k + 1, Len(@))]

LEMMA ProgramMapped ==
    ASSUME ContentsInv, ContentsInv', Program
    PROVE  /\ fiber.phase # "closed" /\ fiber' = fiber
           /\ ChunksOf' = ChunksOf
           /\ HeldOf' = HeldOf \/ \E i \in Columns : Adding(HeldOf, HeldOf', i)
<1>1. PICK i \in Columns, new \in Seq(Entry) : Adds(i, new)
  BY ProgramAdds
<1>2. ~closed /\ UNCHANGED file
  BY ProgramAdds
<1>3. fiber.phase # "closed" /\ fiber' = fiber
  BY <1>2 DEF ContentsInv, Closing, file
<1>4. ChunksOf' = ChunksOf
  <2>1. /\ FInv /\ FInv' /\ GroupsFilled /\ ChunksTrue
        /\ SinkStep /\ groups' = groups /\ Writing' = Writing
        /\ fiber'.col = fiber.col
    BY <1>2 DEF file, ContentsInv, PagesInv, SinkStep, Writing
  <2>2. \A j \in Columns :
           ChunksIn(sink', cols'[j].maxDef, groups', j) =
              ChunksIn(sink, cols[j].maxDef, groups, j)
    BY <2>1, FinishedStay
  <2>3. QED
    BY <2>2 DEF ChunksOf
<1>5. PICK old, more : old = HeldOf[i] /\ more = HeldOf'[i]
  OBVIOUS
<1>6. old \in Seq(Entry) /\ more = old \o new
  <2>1. old = HeldBy(cols[i]) /\ more = HeldBy(cols'[i])
    BY <1>5 DEF HeldOf
  <2>2. HeldBy(cols[i]) \in Seq(Entry)
    BY InvFacts
  <2>3. QED
    BY <1>1, <2>1, <2>2 DEF Adds
<1>7. HeldOf' = [HeldOf EXCEPT ![i] = more]
  BY <1>1, <1>5 DEF HeldOf, Adds
<1>8. /\ more \in Seq(Entry) /\ Len(more) = Len(old) + Len(new)
      /\ Len(old) \in Nat /\ Len(new) \in Nat
      /\ SubSeq(more, 1, Len(old)) = old
  BY <1>6, ConcatParts
<1>9. CASE new = <<>>
  <2>1. more = old
    BY <1>6, <1>9, ConcatEmptySeq
  <2>2. HeldOf' = HeldOf
    BY <1>5, <1>7, <2>1 DEF HeldOf
  <2>3. QED
    BY <1>3, <1>4, <2>2
<1>10. CASE new # <<>>
  <2>1. Len(new) # 0
    BY <1>10, EmptySeq
  <2>2. Len(more) > Len(old)
    BY <1>8, <2>1
  <2>3. Adding(HeldOf, HeldOf', i)
    BY <1>5, <1>7, <1>8, <2>2 DEF Adding
  <2>4. QED
    BY <1>3, <1>4, <2>3
<1>11. QED
  BY <1>9, <1>10

LEMMA CloseChunkMapped ==
    ASSUME ContentsInv, ContentsInv', CloseChunk
    PROVE  /\ fiber.phase # "closed" /\ fiber'.phase # "closed"
           /\ \E i \in Columns :
                 Cutting(ChunksOf, ChunksOf', HeldOf, HeldOf', i)
<1>1. PagesInv'
  BY DEF ContentsInv
<1>2. PICK i \in Columns, x \in Seq(Entry) : Cuts(i, x)
  BY <1>1, CloseChunkContents
<1>3. fiber.phase # "closed" /\ fiber'.phase # "closed"
  BY DEF CloseChunk, AfterGroup, ContentsInv, PagesInv, FInv, FiberOK
<1>4. PICK chunks, held, rest : /\ chunks = ChunksOf[i]
                                /\ held = HeldOf[i] /\ rest = HeldOf'[i]
  OBVIOUS
<1>5. /\ chunks \in Seq(Seq(Entry)) /\ rest \in Seq(Entry)
      /\ held = x \o rest
      /\ ChunksOf'[i] = Append(chunks, x)
  <2>1. /\ chunks = ChunksIn(sink, cols[i].maxDef, groups, i)
        /\ held = HeldBy(cols[i]) /\ rest = HeldBy(cols'[i])
        /\ ChunksOf'[i] = ChunksIn(sink', cols'[i].maxDef, groups', i)
    BY <1>4 DEF ChunksOf, HeldOf
  <2>2. chunks \in Seq(Seq(Entry))
    BY <2>1, InvFacts
  <2>3. HeldBy(cols'[i]) \in Seq(Entry)
    <3>1. PICK d : d = cols'[i]
      OBVIOUS
    <3>2. d \in Column
      BY <3>1, ElementOfSeq DEF ContentsInv, PagesInv, FInv, ColumnsOK, Columns
    <3>3. ColumnSound(d) /\ Coded(d)
      BY <3>1 DEF ContentsInv, PagesInv, ColumnsSound, ColumnsListed
    <3>4. HeldBy(d) \in Seq(Entry)
      BY <3>2, <3>3, HeldInParts
    <3>5. QED
      BY <3>1, <3>4
  <2>4. QED
    BY <1>2, <2>1, <2>2, <2>3 DEF Cuts
<1>6. /\ Len(held) = Len(x) + Len(rest) /\ Len(x) \in Nat /\ Len(rest) \in Nat
      /\ SubSeq(held, 1, Len(x)) = x
      /\ SubSeq(held, Len(x) + 1, Len(held)) = rest
  BY <1>5, ConcatParts
<1>7. Len(x) \in 0..Len(held)
  BY <1>6
<1>8. /\ ChunksOf' = [ChunksOf EXCEPT ![i] = Append(chunks, x)]
      /\ HeldOf' = [HeldOf EXCEPT ![i] = rest]
  BY <1>2, <1>4, <1>5 DEF ChunksOf, HeldOf, Cuts
<1>9. Len(ChunksOf'[i]) = Len(chunks) + 1
  BY <1>5, AppendProperties
<1>10. Cutting(ChunksOf, ChunksOf', HeldOf, HeldOf', i)
  BY <1>4, <1>6, <1>7, <1>8, <1>9 DEF Cutting
<1>11. QED
  BY <1>3, <1>10

LEMMA FooterMapped ==
    ASSUME ContentsInv, ContentsInv', WriteFooter
    PROVE  /\ fiber.phase # "closed" /\ fiber'.phase = "closed"
           /\ ChunksOf' = ChunksOf /\ HeldOf' = HeldOf
           /\ \A i \in Columns : HeldOf[i] = <<>>
<1>1. fiber.phase = "footer" /\ fiber'.phase = "closed"
  BY DEF WriteFooter, ContentsInv, PagesInv, FInv, FiberOK
<1>2. PagesInv'
  BY DEF ContentsInv
<1>3. NothingMoves
  BY <1>2, WriteFooterContents
<1>4. ASSUME NEW i \in Columns PROVE HeldOf[i] = <<>>
  <2>1. PICK c : c = cols[i]
    OBVIOUS
  <2>2. c \in Column /\ ColumnSound(c) /\ Empty(c)
    BY <1>1, <2>1, InvFacts DEF ContentsInv, Closing
  <2>3. QED
    BY <2>1, <2>2, EmptyHoldsNothing DEF HeldOf
<1>5. QED
  BY <1>1, <1>3, <1>4 DEF NothingMoves, ChunksOf, HeldOf

LEMMA WriterMapped ==
    ASSUME ContentsInv, ContentsInv',
           \/ FlushRowGroup \/ Close \/ OpenChunk \/ WriteDict
           \/ WriteHeader \/ WriteBody \/ UNCHANGED vars
    PROVE  /\ fiber'.phase = "closed" <=> fiber.phase = "closed"
           /\ ChunksOf' = ChunksOf /\ HeldOf' = HeldOf
<1>1. PagesInv'
  BY DEF ContentsInv
<1>2. NothingMoves
  BY <1>1, BeginRowGroupContents, OpenChunkContents, WriteDictContents,
     WriteHeaderContents, WriteBodyContents, StutterContents
  DEF FlushRowGroup, Close
<1>3. ChunksOf' = ChunksOf /\ HeldOf' = HeldOf
  BY <1>2 DEF NothingMoves, ChunksOf, HeldOf
<1>4. fiber'.phase = "closed" <=> fiber.phase = "closed"
  <2>1. fiber \in Fiber
    BY DEF ContentsInv, PagesInv, FInv, FiberOK, Fiber
  <2>2. CASE FlushRowGroup \/ Close
    BY <2>2 DEF FlushRowGroup, Close, BeginRowGroup
  <2>3. CASE OpenChunk \/ WriteDict \/ WriteHeader \/ WriteBody
    BY <2>1, <2>3 DEF OpenChunk, WriteDict, WriteHeader, WriteBody, Fiber
  <2>4. CASE UNCHANGED vars
    BY <2>4 DEF vars
  <2>5. QED
    BY <2>2, <2>3, <2>4
<1>5. QED
  BY <1>3, <1>4

(* Column by column the file is a table: every step of the program and the *)
(* writer adds entries, cuts the oldest off as a chunk, finishes with none *)
(* left, or changes nothing a reader would see.                            *)
THEOREM WriterImplementsTable == Spec => TableSpec
<1>1. Init => T!Init
  <2> SUFFICES ASSUME Init PROVE T!Init
    OBVIOUS
  <2>1. ContentsInv /\ groups = <<>> /\ fiber.phase = "idle"
    BY ContentsStart DEF Init
  <2>2. ASSUME NEW i \in Columns
        PROVE  ChunksOf[i] = <<>> /\ HeldOf[i] = <<>>
    <3>1. PICK c : c = cols[i]
      OBVIOUS
    <3>2. Empty(c)
      BY <3>1 DEF Init, NewColumn, Empty
    <3>3. HeldOf[i] = <<>>
      BY <2>1, <3>1, <3>2, InvFacts, EmptyHoldsNothing DEF HeldOf
    <3>4. Whole(i) = 0 /\ CountOf(groups, i) = Whole(i)
      <4>1. Len(groups) = 0 /\ ~Writing
        BY <2>1, EmptySeq DEF Writing
      <4>2. QED
        BY <2>1, <4>1, ChunkCounts DEF Whole, ContentsInv, PagesInv
    <3>5. ChunksOf[i] = <<>>
      BY <3>4 DEF ChunksOf, ChunksIn
    <3>6. QED
      BY <3>3, <3>5
  <2>3. /\ ChunksOf = [i \in Columns |-> <<>>]
        /\ HeldOf = [i \in Columns |-> <<>>]
    BY <2>2 DEF ChunksOf, HeldOf
  <2>4. QED
    BY <2>1, <2>3, Mapped DEF T!Init, Same
<1>2. ContentsInv /\ ContentsInv' /\ [Next]_vars => [T!Next]_(T!vars)
  <2> SUFFICES ASSUME ContentsInv, ContentsInv', [Next]_vars
               PROVE  T!Next \/ UNCHANGED T!vars
    OBVIOUS
  <2>1. Same /\ Same'
    BY Mapped, MappedNext
  <2>2. CASE Program
    <3>1. /\ fiber.phase # "closed" /\ fiber' = fiber
          /\ ChunksOf' = ChunksOf
          /\ HeldOf' = HeldOf \/ \E i \in Columns : Adding(HeldOf, HeldOf', i)
      BY <2>2, ProgramMapped
    <3>2. CASE HeldOf' = HeldOf
      BY <2>1, <3>1, <3>2 DEF T!vars, Same
    <3>3. CASE \E i \in Columns : Adding(HeldOf, HeldOf', i)
      <4>1. PICK i \in Columns : Adding(HeldOf, HeldOf', i)
        BY <3>3
      <4>2. T!AddEntries(i)
        BY <2>1, <3>1, <4>1 DEF T!AddEntries, Adding, Same
      <4>3. QED
        BY <4>2 DEF T!Next
    <3>4. QED
      BY <3>1, <3>2, <3>3
  <2>3. CASE CloseChunk
    <3>1. fiber.phase # "closed" /\ fiber'.phase # "closed"
      BY <2>3, CloseChunkMapped
    <3>2. PICK i \in Columns : Cutting(ChunksOf, ChunksOf', HeldOf, HeldOf', i)
      BY <2>3, CloseChunkMapped
    <3>3. T!CutChunk(i)
      BY <2>1, <3>1, <3>2 DEF T!CutChunk, Cutting, Same
    <3>4. QED
      BY <3>3 DEF T!Next
  <2>4. CASE WriteFooter
    <3>1. /\ fiber.phase # "closed" /\ fiber'.phase = "closed"
          /\ ChunksOf' = ChunksOf /\ HeldOf' = HeldOf
          /\ \A i \in Columns : HeldOf[i] = <<>>
      BY <2>4, FooterMapped
    <3>2. T!Finish
      BY <2>1, <3>1 DEF T!Finish, Same
    <3>3. QED
      BY <3>2 DEF T!Next
  <2>5. CASE \/ FlushRowGroup \/ Close \/ OpenChunk \/ WriteDict
             \/ WriteHeader \/ WriteBody \/ UNCHANGED vars
    <3>1. /\ fiber'.phase = "closed" <=> fiber.phase = "closed"
          /\ ChunksOf' = ChunksOf /\ HeldOf' = HeldOf
      BY <2>5, WriterMapped
    <3>2. UNCHANGED T!vars
      BY <2>1, <3>1 DEF T!vars, Same
    <3>3. QED
      BY <3>2
  <2>6. QED
    BY <2>2, <2>3, <2>4, <2>5 DEF Next, Flushing, Done, Program
<1>3. QED
  BY <1>1, <1>2, ContentsInvariance, PTL DEF Spec, TableSpec, T!Spec

=============================================================================
