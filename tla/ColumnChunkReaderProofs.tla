----------------------- MODULE ColumnChunkReaderProofs -----------------------
(***************************************************************************)
(* column_chunk_reader gives the triplets of a chunk in order, however     *)
(* they are divided into pages and batches, ends when all are given and    *)
(* fails only where something is wrong.                                    *)
(***************************************************************************)
EXTENDS ColumnChunkReader, SequenceLemmas

-----------------------------------------------------------------------------
(* How often x is among the first n of a sequence.                         *)

Tally(s, n, x) == Cardinality({j \in 1..n : s[j] = x})

LEMMA TallyStep ==
    ASSUME NEW s, NEW x, NEW n \in Nat
    PROVE  /\ Tally(s, 0, x) = 0
           /\ Tally(s, n, x) \in 0..n
           /\ Tally(s, n + 1, x) =
                 Tally(s, n, x) + (IF s[n + 1] = x THEN 1 ELSE 0)
<1> DEFINE At(m) == {j \in 1..m : s[j] = x}
<1>1. Tally(s, 0, x) = 0
  <2>1. At(0) = {}
    OBVIOUS
  <2>2. QED
    BY <2>1, FS_EmptySet DEF Tally
<1>2. /\ IsFiniteSet(At(n)) /\ Cardinality(At(n)) \in Nat
      /\ Cardinality(At(n)) <= n
  <2>1. IsFiniteSet(1..n) /\ Cardinality(1..n) = n
    BY FS_Interval
  <2>2. At(n) \in SUBSET (1..n)
    OBVIOUS
  <2> HIDE DEF At
  <2>3. IsFiniteSet(At(n)) /\ Cardinality(At(n)) <= n
    BY <2>1, <2>2, FS_Subset
  <2>4. QED
    BY <2>3, FS_CardinalityType
<1>3. Cardinality(At(n + 1)) =
         Cardinality(At(n)) + (IF s[n + 1] = x THEN 1 ELSE 0)
  <2>1. CASE s[n + 1] = x
    <3>1. At(n + 1) = At(n) \cup {n + 1} /\ n + 1 \notin At(n)
      BY <2>1
    <3> HIDE DEF At
    <3>2. Cardinality(At(n + 1)) = Cardinality(At(n)) + 1
      BY <1>2, <3>1, FS_AddElement
    <3>3. QED
      BY <2>1, <3>2
  <2>2. CASE s[n + 1] # x
    <3>1. At(n + 1) = At(n)
      BY <2>2
    <3> HIDE DEF At
    <3>2. QED
      BY <1>2, <2>2, <3>1
  <2>3. QED
    BY <2>1, <2>2
<1>4. QED
  BY <1>1, <1>2, <1>3 DEF Tally

(* A tally goes on over what follows.                                      *)
LEMMA TallyShift ==
    ASSUME NEW s, NEW t, NEW x, NEW m \in Nat, NEW d \in Nat,
           \A j \in 1..d : t[j] = s[m + j]
    PROVE  Tally(s, m + d, x) = Tally(s, m, x) + Tally(t, d, x)
<1> DEFINE S == {k \in 0..d :
                    Tally(s, m + k, x) = Tally(s, m, x) + Tally(t, k, x)}
<1>1. 0 \in S
  BY TallyStep
<1>2. ASSUME NEW k \in 1..d, k - 1 \in S PROVE k \in S
  <2>1. /\ m + (k - 1) \in Nat /\ k - 1 \in Nat
        /\ (m + (k - 1)) + 1 = m + k /\ (k - 1) + 1 = k
    OBVIOUS
  <2>2. PICK i, j : i = m + (k - 1) /\ j = k - 1
    OBVIOUS
  <2>3. /\ i \in Nat /\ j \in Nat /\ i + 1 = m + k /\ j + 1 = k
    BY <2>1, <2>2
  <2>4. /\ Tally(s, i + 1, x) =
              Tally(s, i, x) + (IF s[i + 1] = x THEN 1 ELSE 0)
        /\ Tally(s, i, x) \in Nat
    BY <2>3, TallyStep
  <2>5. /\ Tally(t, j + 1, x) =
              Tally(t, j, x) + (IF t[j + 1] = x THEN 1 ELSE 0)
        /\ Tally(t, j, x) \in Nat
    BY <2>3, TallyStep
  <2>6. t[j + 1] = s[i + 1]
    BY <2>3
  <2>7. Tally(s, i, x) = Tally(s, m, x) + Tally(t, j, x)
    BY <1>2, <2>2
  <2>8. Tally(s, m, x) \in Nat
    BY TallyStep
  <2>9. Tally(s, i + 1, x) = Tally(s, m, x) + Tally(t, j + 1, x)
    BY <2>4, <2>5, <2>6, <2>7, <2>8
  <2>10. QED
    BY <2>3, <2>9
<1>3. 0..d \subseteq S
  <2> HIDE DEF S
  <2>1. QED
    BY <1>1, <1>2, UpTo, Zenon
<1>4. d \in S
  BY <1>3
<1>5. QED
  BY <1>4

LEMMA TallyAlike ==
    ASSUME NEW s, NEW t, NEW x, NEW n \in Nat, \A j \in 1..n : t[j] = s[j]
    PROVE  Tally(s, n, x) = Tally(t, n, x)
<1>1. {j \in 1..n : s[j] = x} = {j \in 1..n : t[j] = x}
  OBVIOUS
<1>2. QED
  BY <1>1 DEF Tally

(* Tallies grow.                                                           *)
LEMMA TallyGrows ==
    ASSUME NEW s, NEW x, NEW n \in Nat, NEW m \in 0..n
    PROVE  /\ Tally(s, m, x) \in Nat /\ Tally(s, n, x) \in Nat
           /\ Tally(s, m, x) <= Tally(s, n, x)
<1> DEFINE t == [j \in 1..(n - m) |-> s[m + j]]
<1>1. n - m \in Nat /\ m \in Nat /\ m + (n - m) = n
  OBVIOUS
<1>2. \A j \in 1..(n - m) : t[j] = s[m + j]
  OBVIOUS
<1> HIDE DEF t
<1>3. PICK d : d = n - m
  OBVIOUS
<1>4. Tally(s, m + d, x) = Tally(s, m, x) + Tally(t, d, x)
  <2>1. d \in Nat /\ m \in Nat /\ \A j \in 1..d : t[j] = s[m + j]
    BY <1>1, <1>2, <1>3
  <2>2. QED
    BY <2>1, TallyShift
<1>5. Tally(t, d, x) \in Nat /\ Tally(s, m, x) \in Nat
  BY <1>1, <1>3, TallyStep
<1>6. QED
  BY <1>1, <1>3, <1>4, <1>5

(* Up to a tally every number is that of one of them.                      *)
LEMMA TallyReached ==
    ASSUME NEW s, NEW x, NEW n \in Nat, NEW k \in 1..Tally(s, n, x)
    PROVE  \E i \in 1..n : s[i] = x /\ Tally(s, i, x) = k
<1> DEFINE R == {i \in 0..n : Tally(s, i, x) >= k}
<1>1. Tally(s, n, x) \in Nat
  BY TallyStep
<1>2. PICK i \in R : \A j \in R : i <= j
  <2>1. n \in R /\ R \in SUBSET Nat
    BY <1>1
  <2> HIDE DEF R
  <2>2. QED
    BY <2>1, LeastNat
<1>3. i # 0
  BY <1>1, <1>2, TallyStep
<1>4. PICK j : j = i - 1
  OBVIOUS
<1>5. j \in 0..n /\ j \in Nat /\ j + 1 = i /\ i \in 1..n
  BY <1>2, <1>3, <1>4
<1>6. ~(Tally(s, j, x) >= k)
  BY <1>2, <1>5
<1>7. /\ Tally(s, j + 1, x) =
            Tally(s, j, x) + (IF s[j + 1] = x THEN 1 ELSE 0)
      /\ Tally(s, j, x) \in Nat
  BY <1>5, TallyStep
<1>8. Tally(s, i, x) >= k
  BY <1>2
<1>9. k \in Nat
  BY <1>1
<1>10. s[i] = x /\ Tally(s, i, x) = k
  BY <1>5, <1>6, <1>7, <1>8, <1>9
<1>11. QED
  BY <1>5, <1>10

-----------------------------------------------------------------------------
(* The pages of a chunk.                                                   *)

LEMMA PageFacts ==
    ASSUME NEW c \in Chunk, NEW k \in 1..Len(c.pages)
    PROVE  /\ c.top \in Nat /\ c.deepest \in Nat
           /\ Len(c.pages) \in Nat /\ DOMAIN c.pages = 1..Len(c.pages)
           /\ c.pages[k] \in Page
           /\ c.pages[k].defs \in Seq(Nat) /\ Len(c.pages[k].defs) \in Nat
           /\ c.pages[k].reps \in Seq(Nat) /\ Len(c.pages[k].reps) \in Nat
           /\ c.pages[k].vals \in Seq(Nat) /\ Len(c.pages[k].vals) \in Nat
           /\ c.pages[k].num \in Nat
<1>1. c.pages \in Seq(Page)
  BY DEF Chunk
<1>2. c.pages[k] \in Page
  BY <1>1, ElementOfSeq
<1>3. PICK page : page = c.pages[k]
  OBVIOUS
<1>4. /\ page.defs \in Seq(Nat) /\ page.reps \in Seq(Nat)
      /\ page.vals \in Seq(Nat) /\ page.num \in Nat
  BY <1>2, <1>3 DEF Page
<1>5. /\ Len(page.defs) \in Nat /\ Len(page.reps) \in Nat
      /\ Len(page.vals) \in Nat
  BY <1>4, LenProperties
<1>6. Len(c.pages) \in Nat /\ DOMAIN c.pages = 1..Len(c.pages)
  BY <1>1, LenProperties
<1>7. QED
  BY <1>2, <1>3, <1>4, <1>5, <1>6 DEF Chunk

(* The dictionary before page k, as the reader keeps it.                   *)
DictAt(c, k) ==
    IF DictPages(c, k) = {} THEN <<>> ELSE <<Dictionary(c, k)>>

LEMMA DictStart == ASSUME NEW c PROVE DictAt(c, 1) = <<>>
<1>1. DictPages(c, 1) = {}
  BY DEF DictPages
<1>2. QED
  BY <1>1 DEF DictAt

LEMMA DictNext ==
    ASSUME NEW c, NEW k \in Nat \ {0}
    PROVE  /\ c.pages[k].kind # "dictionary" =>
                 /\ DictPages(c, k + 1) = DictPages(c, k)
                 /\ Dictionary(c, k + 1) = Dictionary(c, k)
                 /\ DictAt(c, k + 1) = DictAt(c, k)
           /\ c.pages[k].kind = "dictionary" =>
                 /\ DictPages(c, k + 1) # {}
                 /\ Dictionary(c, k + 1) =
                       SubSeq(c.pages[k].vals, 1, c.pages[k].num)
                 /\ DictAt(c, k + 1) =
                       <<SubSeq(c.pages[k].vals, 1, c.pages[k].num)>>
<1>1. (k + 1) - 1 = k
  OBVIOUS
<1>2. CASE c.pages[k].kind # "dictionary"
  <2>1. DictPages(c, k + 1) = DictPages(c, k)
    BY <1>1, <1>2 DEF DictPages
  <2>2. Dictionary(c, k + 1) = Dictionary(c, k)
    BY <2>1, Zenon DEF Dictionary
  <2>3. QED
    BY <1>2, <2>1, <2>2 DEF DictAt
<1>3. CASE c.pages[k].kind = "dictionary"
  <2> DEFINE j == CHOOSE j \in DictPages(c, k + 1) :
                      \A i \in DictPages(c, k + 1) : i <= j
  <2>1. k \in DictPages(c, k + 1) /\ \A i \in DictPages(c, k + 1) : i <= k
    BY <1>1, <1>3 DEF DictPages
  <2>2. j = k
    <3>1. j \in DictPages(c, k + 1) /\ \A i \in DictPages(c, k + 1) : i <= j
      BY <2>1
    <3>2. j \in Int
      BY <3>1 DEF DictPages
    <3> HIDE DEF j
    <3>3. QED
      BY <2>1, <3>1, <3>2
  <2>3. Dictionary(c, k + 1) = SubSeq(c.pages[j].vals, 1, c.pages[j].num)
    BY DEF Dictionary
  <2> HIDE DEF j
  <2>4. QED
    BY <1>3, <2>1, <2>2, <2>3 DEF DictAt
<1>4. QED
  BY <1>2, <1>3

LEMMA DictionaryType ==
    ASSUME NEW c \in Chunk, NEW k \in 1..(Len(c.pages) + 1),
           \A i \in 1..(k - 1) : PageLoads(c, i), DictPages(c, k) # {}
    PROVE  Dictionary(c, k) \in Seq(Nat)
<1>1. Len(c.pages) \in Nat
  BY LenProperties DEF Chunk
<1>2. DictPages(c, k) \in SUBSET (0..(k - 1)) /\ k - 1 \in Nat
  BY <1>1 DEF DictPages
<1>3. \E j \in DictPages(c, k) : \A i \in DictPages(c, k) : i <= j
  BY <1>2, MostNat
<1> DEFINE j == CHOOSE j \in DictPages(c, k) :
                    \A i \in DictPages(c, k) : i <= j
<1>4. j \in DictPages(c, k)
  BY <1>3
<1>5. Dictionary(c, k) = SubSeq(c.pages[j].vals, 1, c.pages[j].num)
  BY DEF Dictionary
<1> HIDE DEF j
<1>6. /\ j \in 1..(k - 1) /\ j \in 1..Len(c.pages)
      /\ c.pages[j].kind = "dictionary"
  BY <1>1, <1>4 DEF DictPages
<1>7. PICK vals, num : vals = c.pages[j].vals /\ num = c.pages[j].num
  OBVIOUS
<1>8. vals \in Seq(Nat) /\ num \in Nat /\ Len(vals) \in Nat
  BY <1>6, <1>7, PageFacts
<1>9. num <= Len(vals)
  BY <1>6, <1>7 DEF PageLoads
<1>10. \A i \in 1..num : vals[i] \in Nat
  BY <1>8, <1>9, ElementOfSeq
<1>11. SubSeq(vals, 1, num) \in Seq(Nat)
  BY <1>8, <1>10, SubSeqProperties
<1>12. QED
  BY <1>5, <1>7, <1>11

(* What it takes that the first m levels of a page are those of triplets.  *)
Covered(c, k, m) ==
    LET page == c.pages[k]
    IN  /\ m <= Len(page.defs) /\ m <= Len(page.reps)
        /\ \A i \in 1..m : page.defs[i] <= c.top /\ page.reps[i] <= c.deepest
        /\ \A n \in 1..Tally(page.defs, m, c.top) : ValueThere(c, k, n)

LEMMA CoveredByTriplets ==
    ASSUME NEW c \in Chunk, NEW k \in 1..Len(c.pages), NEW m \in Nat
    PROVE  Covered(c, k, m) <=> \A i \in 1..m : TripletThere(c, k, i)
<1>1. PICK page : page = c.pages[k]
  OBVIOUS
<1>2. \A i : Nth(c, k, i) = Tally(page.defs, i, c.top)
  BY <1>1 DEF Nth, Tally
<1>3. Len(page.defs) \in Nat /\ Len(page.reps) \in Nat
  BY <1>1, PageFacts
<1>4. ASSUME Covered(c, k, m), NEW i \in 1..m
      PROVE  TripletThere(c, k, i)
  <2>1. /\ i <= Len(page.defs) /\ i <= Len(page.reps)
        /\ page.defs[i] <= c.top /\ page.reps[i] <= c.deepest
    BY <1>1, <1>3, <1>4 DEF Covered
  <2>2. ASSUME page.defs[i] = c.top
        PROVE  ValueThere(c, k, Nth(c, k, i))
    <3>1. PICK h : h = i - 1
      OBVIOUS
    <3>2. h \in Nat /\ h + 1 = i
      BY <3>1
    <3>3. /\ Tally(page.defs, h, c.top) \in Nat
          /\ Tally(page.defs, h + 1, c.top) =
                Tally(page.defs, h, c.top) +
                  (IF page.defs[h + 1] = c.top THEN 1 ELSE 0)
      <4>1. Tally(page.defs, h, c.top) \in 0..h
        BY <3>2, TallyStep
      <4>2. Tally(page.defs, h + 1, c.top) =
                Tally(page.defs, h, c.top) +
                  (IF page.defs[h + 1] = c.top THEN 1 ELSE 0)
        BY <3>2, TallyStep
      <4>3. QED
        BY <3>2, <4>1, <4>2
    <3>4. /\ Tally(page.defs, i, c.top) <= Tally(page.defs, m, c.top)
          /\ Tally(page.defs, m, c.top) \in Nat
      <4>1. i \in 0..m
        OBVIOUS
      <4>2. QED
        BY <4>1, TallyGrows
    <3>5. Tally(page.defs, i, c.top) \in 1..Tally(page.defs, m, c.top)
      BY <2>2, <3>2, <3>3, <3>4
    <3>6. QED
      BY <1>1, <1>2, <1>4, <3>5 DEF Covered
  <2>3. QED
    BY <1>1, <2>1, <2>2 DEF TripletThere
<1>5. ASSUME \A i \in 1..m : TripletThere(c, k, i)
      PROVE  Covered(c, k, m)
  <2>1. \A i \in 1..m :
           /\ i <= Len(page.defs) /\ i <= Len(page.reps)
           /\ page.defs[i] <= c.top /\ page.reps[i] <= c.deepest
    BY <1>1, <1>5 DEF TripletThere
  <2>2. m <= Len(page.defs) /\ m <= Len(page.reps)
    <3>1. CASE m = 0
      BY <1>3, <3>1
    <3>2. CASE m # 0
      <4>1. m \in 1..m
        BY <3>2
      <4>2. QED
        BY <2>1, <4>1
    <3>3. QED
      BY <3>1, <3>2
  <2>3. ASSUME NEW n \in 1..Tally(page.defs, m, c.top)
        PROVE  ValueThere(c, k, n)
    <3>1. PICK i \in 1..m :
             page.defs[i] = c.top /\ Tally(page.defs, i, c.top) = n
      BY TallyReached
    <3>2. TripletThere(c, k, i)
      BY <1>5
    <3>3. QED
      BY <1>1, <1>2, <3>1, <3>2 DEF TripletThere
  <2>4. QED
    BY <1>1, <2>1, <2>2, <2>3 DEF Covered
<1>6. QED
  BY <1>4, <1>5

(* As many triplets of a data page can be read as are covered.             *)
LEMMA ReadableCovers ==
    ASSUME NEW c \in Chunk, NEW k \in 1..Len(c.pages),
           c.pages[k].kind = "data", PageLoads(c, k)
    PROVE  /\ Readable(c, k) \in 0..Len(c.pages[k].defs)
           /\ Covered(c, k, Readable(c, k))
           /\ \A m \in Nat : Covered(c, k, m) => m <= Readable(c, k)
<1> DEFINE n == Len(c.pages[k].defs)
           whole == {m \in 0..n : \A i \in 1..m : TripletThere(c, k, i)}
           most == CHOOSE m \in whole : \A l \in whole : l <= m
<1>1. n \in Nat
  BY PageFacts
<1>2. 0 \in whole
  BY <1>1
<1>3. \E m \in whole : \A l \in whole : l <= m
  <2>1. whole \in SUBSET (0..n) /\ whole # {}
    BY <1>2
  <2> HIDE DEF whole, n
  <2>2. QED
    BY <1>1, <2>1, MostNat
<1>4. most \in whole /\ \A l \in whole : l <= most
  <2> HIDE DEF whole
  <2>1. QED
    BY <1>3
<1>5. Readable(c, k) = most
  BY DEF Readable
<1> HIDE DEF most
<1>6. most \in 0..n /\ Covered(c, k, most)
  <2>1. most \in Nat
    BY <1>1, <1>4
  <2>2. QED
    BY <1>4, <2>1, CoveredByTriplets
<1>7. ASSUME NEW m \in Nat, Covered(c, k, m)
      PROVE  m <= most
  <2>1. m <= n
    BY <1>7 DEF Covered
  <2>2. \A i \in 1..m : TripletThere(c, k, i)
    BY <1>7, CoveredByTriplets
  <2>3. m \in whole
    BY <1>1, <2>1, <2>2
  <2>4. QED
    BY <1>4, <2>3
<1>8. QED
  BY <1>5, <1>6, <1>7

-----------------------------------------------------------------------------
(* The pages that are reached.                                             *)

LastPage(c) == Cardinality(Reached(c))

LEMMA ReachedFirst ==
    ASSUME NEW c \in Chunk
    PROVE  /\ LastPage(c) \in 0..Len(c.pages)
           /\ Reached(c) = 1..LastPage(c)
<1> DEFINE n == Len(c.pages)
<1>1. n \in Nat /\ DOMAIN c.pages = 1..n
  BY LenProperties DEF Chunk
<1>2. /\ Reached(c) \in SUBSET (0..n)
      /\ \A k \in Reached(c) : k \in 1..n
      /\ \A k \in Reached(c) : \A j \in 1..k : j \in Reached(c)
  BY <1>1 DEF Reached
<1> HIDE DEF n
<1>3. CASE Reached(c) = {}
  <2>1. Cardinality(Reached(c)) = 0
    BY <1>3, FS_EmptySet
  <2>2. Reached(c) = 1..0
    BY <1>3
  <2>3. QED
    BY <1>1, <2>1, <2>2 DEF LastPage, n
<1>4. CASE Reached(c) # {}
  <2>1. PICK m \in Reached(c) : \A k \in Reached(c) : k <= m
    BY <1>1, <1>2, <1>4, MostNat
  <2>2. m \in 1..n /\ m \in Int /\ 1 \in Int /\ m >= 1
    BY <1>1, <1>2, <2>1
  <2>3. Reached(c) = 1..m
    <3>1. ASSUME NEW k \in Reached(c) PROVE k \in 1..m
      <4>1. k \in 1..n /\ k <= m
        BY <1>2, <2>1
      <4>2. QED
        BY <1>1, <2>2, <4>1
    <3>2. ASSUME NEW k \in 1..m PROVE k \in Reached(c)
      BY <1>2, <2>1
    <3>3. QED
      BY <3>1, <3>2
  <2>4. Cardinality(1..m) = m
    BY <2>2, FS_Interval
  <2>5. QED
    BY <1>1, <2>2, <2>3, <2>4 DEF LastPage, n
<1>5. QED
  BY <1>3, <1>4

LEMMA SoundBefore ==
    ASSUME NEW c \in Chunk, NEW k \in 1..LastPage(c), NEW j \in 1..(k - 1)
    PROVE  PageSound(c, j) /\ PageLoads(c, j)
<1>1. k \in Reached(c)
  BY ReachedFirst
<1>2. QED
  BY <1>1 DEF Reached, PageSound

LEMMA ReachedNext ==
    ASSUME NEW c \in Chunk, NEW p \in 0..Len(c.pages),
           \A k \in 1..p : PageSound(c, k)
    PROVE  /\ p \in 0..LastPage(c)
           /\ p < Len(c.pages) => p + 1 \in 1..LastPage(c)
<1>1. Len(c.pages) \in Nat /\ DOMAIN c.pages = 1..Len(c.pages)
  BY LenProperties DEF Chunk
<1>2. LastPage(c) \in Nat
  BY ReachedFirst, <1>1
<1>3. ASSUME NEW k \in 1..Len(c.pages), k <= p + 1
      PROVE  k <= LastPage(c)
  <2>1. \A j \in 1..(k - 1) : PageSound(c, j)
    BY <1>1, <1>3
  <2>2. k \in Reached(c)
    BY <1>1, <2>1 DEF Reached
  <2>3. QED
    BY <2>2, ReachedFirst
<1>4. p < Len(c.pages) => p + 1 \in 1..LastPage(c)
  <2>1. p < Len(c.pages) => p + 1 \in 1..Len(c.pages) /\ p + 1 <= p + 1
    BY <1>1
  <2>2. QED
    BY <1>1, <1>2, <1>3, <2>1
<1>5. p \in 0..LastPage(c)
  <2>1. CASE p = 0
    BY <1>2, <2>1
  <2>2. CASE p # 0
    <3>1. p \in 1..Len(c.pages) /\ p <= p + 1
      BY <1>1, <2>2
    <3>2. QED
      BY <1>1, <1>2, <1>3, <3>1
  <2>3. QED
    BY <2>1, <2>2
<1>6. QED
  BY <1>4, <1>5

LEMMA ReadableType ==
    ASSUME NEW c \in Chunk, NEW k \in 1..Len(c.pages)
    PROVE  /\ Readable(c, k) \in Nat
           /\ Readable(c, k) <= Len(c.pages[k].defs)
           /\ Readable(c, k) <= Len(c.pages[k].reps)
<1>1. Len(c.pages[k].defs) \in Nat /\ Len(c.pages[k].reps) \in Nat
  BY PageFacts
<1>2. CASE c.pages[k].kind = "data" /\ PageLoads(c, k)
  <2>1. /\ Readable(c, k) \in 0..Len(c.pages[k].defs)
        /\ Covered(c, k, Readable(c, k))
    BY <1>2, ReadableCovers
  <2>2. QED
    BY <1>1, <2>1 DEF Covered
<1>3. CASE ~(c.pages[k].kind = "data" /\ PageLoads(c, k))
  <2>1. Readable(c, k) = 0
    BY <1>3 DEF Readable
  <2>2. QED
    BY <1>1, <2>1
<1>4. QED
  BY <1>2, <1>3

LEMMA NthIsTally ==
    ASSUME NEW c, NEW k, NEW i
    PROVE  Nth(c, k, i) = Tally(c.pages[k].defs, i, c.top)
BY DEF Nth, Tally

LEMMA PageValuesType ==
    ASSUME NEW c \in Chunk, NEW k \in 1..LastPage(c)
    PROVE  /\ PageValues(c, k) \in Seq(Nat)
           /\ Len(PageValues(c, k)) = Nth(c, k, Readable(c, k))
           /\ Nth(c, k, Readable(c, k)) \in Nat
<1>1. Len(c.pages) \in Nat /\ LastPage(c) \in 0..Len(c.pages)
  BY ReachedFirst, LenProperties DEF Chunk
<1>2. k \in 1..Len(c.pages) /\ k \in 1..(Len(c.pages) + 1)
  BY <1>1
<1>3. PICK n : n = Nth(c, k, Readable(c, k))
  OBVIOUS
<1>4. n \in Nat
  <2>1. Readable(c, k) \in Nat
    BY <1>2, ReadableType
  <2>2. Tally(c.pages[k].defs, Readable(c, k), c.top) \in 0..Readable(c, k)
    BY <2>1, TallyStep
  <2>3. QED
    BY <1>3, <2>1, <2>2, NthIsTally
<1>5. PICK page : page = c.pages[k]
  OBVIOUS
<1>6. PICK f : f = [i \in 1..n |->
                      IF page.coding = "indices"
                      THEN Dictionary(c, k)[page.vals[i] + 1]
                      ELSE page.vals[i]]
  OBVIOUS
<1>7. PageValues(c, k) = f
  BY <1>3, <1>5, <1>6 DEF PageValues
<1>8. ASSUME NEW i \in 1..n PROVE f[i] \in Nat
  <2>1. page.kind = "data" /\ PageLoads(c, k)
    <3>1. SUFFICES ASSUME ~(page.kind = "data" /\ PageLoads(c, k))
                   PROVE  FALSE
      OBVIOUS
    <3>2. Readable(c, k) = 0
      BY <1>5, <3>1 DEF Readable
    <3>3. n = 0
      BY <1>3, <3>2, NthIsTally, TallyStep
    <3>4. QED
      BY <3>3
  <2>2. ValueThere(c, k, i)
    <3>1. Covered(c, k, Readable(c, k))
      BY <1>2, <1>5, <2>1, ReadableCovers
    <3>2. i \in 1..Tally(page.defs, Readable(c, k), c.top)
      BY <1>3, <1>5, NthIsTally
    <3>3. QED
      BY <1>5, <3>1, <3>2 DEF Covered
  <2>3. page.vals \in Seq(Nat) /\ Len(page.vals) \in Nat
    BY <1>2, <1>5, PageFacts
  <2>4. i \in 1..Len(page.vals)
    BY <1>5, <2>2, <2>3 DEF ValueThere
  <2>5. page.vals[i] \in Nat
    BY <2>3, <2>4, ElementOfSeq
  <2>6. CASE page.coding = "indices"
    <3>1. DictPages(c, k) # {}
      BY <1>5, <2>1, <2>6 DEF PageLoads
    <3>2. \A j \in 1..(k - 1) : PageLoads(c, j)
      BY SoundBefore
    <3>3. PICK dic : dic = Dictionary(c, k)
      OBVIOUS
    <3>4. dic \in Seq(Nat) /\ Len(dic) \in Nat
      BY <1>2, <3>1, <3>2, <3>3, DictionaryType, LenProperties
    <3>5. page.vals[i] < Len(dic)
      BY <1>5, <2>2, <2>6, <3>3 DEF ValueThere
    <3>6. page.vals[i] + 1 \in 1..Len(dic)
      BY <2>5, <3>4, <3>5
    <3>7. dic[page.vals[i] + 1] \in Nat
      BY <3>4, <3>6, ElementOfSeq
    <3>8. QED
      BY <1>6, <2>6, <3>3, <3>7
  <2>7. CASE page.coding # "indices"
    BY <1>6, <2>5, <2>7
  <2>8. QED
    BY <2>6, <2>7
<1>9. f \in Seq(Nat) /\ Len(f) = n
  BY <1>4, <1>6, <1>8
<1>10. QED
  BY <1>3, <1>4, <1>7, <1>9

-----------------------------------------------------------------------------
(* What can be read of the first pages.                                    *)

DefParts(c) ==
    [k \in 1..LastPage(c) |->
               SubSeq(c.pages[k].defs, 1, Readable(c, k))]
RepParts(c) ==
    [k \in 1..LastPage(c) |->
               SubSeq(c.pages[k].reps, 1, Readable(c, k))]
ValParts(c) == [k \in 1..LastPage(c) |-> PageValues(c, k)]

Joined(ss, p) == FlattenSeq([k \in 1..p |-> ss[k]])

LEMMA FrontType ==
    ASSUME NEW s \in Seq(Nat), NEW n \in 0..Len(s)
    PROVE  /\ SubSeq(s, 1, n) \in Seq(Nat) /\ Len(SubSeq(s, 1, n)) = n
           /\ \A i \in 1..n : SubSeq(s, 1, n)[i] = s[i]
<1>1. Len(s) \in Nat /\ \A i \in 1..n : s[i] \in Nat
  BY LenProperties, ElementOfSeq
<1>2. n \in Nat /\ 1 \in Int /\ n \in Int
  BY <1>1
<1>3. /\ SubSeq(s, 1, n) \in Seq(Nat)
      /\ Len(SubSeq(s, 1, n)) = IF 1 <= n THEN n - 1 + 1 ELSE 0
      /\ \A i \in 1..(n - 1 + 1) : SubSeq(s, 1, n)[i] = s[1 + i - 1]
  BY <1>1, <1>2, SubSeqProperties
<1>4. Len(SubSeq(s, 1, n)) = n
  BY <1>2, <1>3
<1>5. ASSUME NEW i \in 1..n PROVE SubSeq(s, 1, n)[i] = s[i]
  <2>1. i \in 1..(n - 1 + 1) /\ 1 + i - 1 = i
    BY <1>2
  <2>2. QED
    BY <1>3, <2>1
<1>6. QED
  BY <1>3, <1>4, <1>5

LEMMA PartsType ==
    ASSUME NEW c \in Chunk
    PROVE  /\ DefParts(c) \in Seq(Seq(Nat)) /\ Len(DefParts(c)) = LastPage(c)
           /\ RepParts(c) \in Seq(Seq(Nat)) /\ Len(RepParts(c)) = LastPage(c)
           /\ ValParts(c) \in Seq(Seq(Nat)) /\ Len(ValParts(c)) = LastPage(c)
           /\ \A k \in 1..LastPage(c) :
                 /\ Len(DefParts(c)[k]) = Readable(c, k)
                 /\ Len(RepParts(c)[k]) = Readable(c, k)
                 /\ Len(ValParts(c)[k]) =
                       Tally(DefParts(c)[k], Readable(c, k), c.top)
<1>1. /\ LastPage(c) \in Nat /\ LastPage(c) <= Len(c.pages)
      /\ Len(c.pages) \in Nat
  BY ReachedFirst, LenProperties DEF Chunk
<1>2. ASSUME NEW k \in 1..LastPage(c)
      PROVE  /\ DefParts(c)[k] \in Seq(Nat) /\ RepParts(c)[k] \in Seq(Nat)
             /\ ValParts(c)[k] \in Seq(Nat)
             /\ Len(DefParts(c)[k]) = Readable(c, k)
             /\ Len(RepParts(c)[k]) = Readable(c, k)
             /\ Len(ValParts(c)[k]) =
                   Tally(DefParts(c)[k], Readable(c, k), c.top)
  <2>1. PICK defs, reps, r : /\ defs = c.pages[k].defs
                             /\ reps = c.pages[k].reps
                             /\ r = Readable(c, k)
    OBVIOUS
  <2>2. k \in 1..Len(c.pages)
    BY <1>1
  <2>3. /\ defs \in Seq(Nat) /\ Len(defs) \in Nat
        /\ reps \in Seq(Nat) /\ Len(reps) \in Nat
        /\ r \in 0..Len(defs) /\ r \in 0..Len(reps) /\ r \in Nat
    <3>1. /\ defs \in Seq(Nat) /\ Len(defs) \in Nat
          /\ reps \in Seq(Nat) /\ Len(reps) \in Nat
      BY <2>1, <2>2, PageFacts
    <3>2. r \in Nat /\ r <= Len(defs) /\ r <= Len(reps)
      BY <2>1, <2>2, ReadableType
    <3>3. QED
      BY <3>1, <3>2
  <2>4. /\ DefParts(c)[k] = SubSeq(defs, 1, r)
        /\ RepParts(c)[k] = SubSeq(reps, 1, r)
        /\ ValParts(c)[k] = PageValues(c, k)
    BY <2>1 DEF DefParts, RepParts, ValParts
  <2>5. /\ SubSeq(defs, 1, r) \in Seq(Nat) /\ Len(SubSeq(defs, 1, r)) = r
        /\ \A i \in 1..r : SubSeq(defs, 1, r)[i] = defs[i]
    BY <2>3, FrontType
  <2>6. SubSeq(reps, 1, r) \in Seq(Nat) /\ Len(SubSeq(reps, 1, r)) = r
    BY <2>3, FrontType
  <2>7. /\ PageValues(c, k) \in Seq(Nat)
        /\ Len(PageValues(c, k)) = Tally(defs, r, c.top)
    BY <2>1, PageValuesType, NthIsTally
  <2>8. Tally(defs, r, c.top) = Tally(SubSeq(defs, 1, r), r, c.top)
    <3>1. PICK front : front = SubSeq(defs, 1, r)
      OBVIOUS
    <3>2. \A i \in 1..r : front[i] = defs[i]
      BY <2>5, <3>1
    <3>3. Tally(defs, r, c.top) = Tally(front, r, c.top)
      BY <2>3, <3>2, TallyAlike
    <3>4. QED
      BY <3>1, <3>3
  <2>9. /\ DefParts(c)[k] \in Seq(Nat) /\ Len(DefParts(c)[k]) = r
        /\ RepParts(c)[k] \in Seq(Nat) /\ Len(RepParts(c)[k]) = r
        /\ ValParts(c)[k] \in Seq(Nat)
    BY <2>4, <2>5, <2>6, <2>7
  <2>10. Len(ValParts(c)[k]) = Tally(DefParts(c)[k], r, c.top)
    BY <2>4, <2>7, <2>8
  <2>11. QED
    BY <2>1, <2>9, <2>10
<1>3. ASSUME NEW f, DOMAIN f = 1..LastPage(c), f = [k \in DOMAIN f |-> f[k]],
             \A k \in 1..LastPage(c) : f[k] \in Seq(Nat)
      PROVE  f \in Seq(Seq(Nat)) /\ Len(f) = LastPage(c)
  BY <1>1, <1>3
<1>4. DefParts(c) \in Seq(Seq(Nat)) /\ Len(DefParts(c)) = LastPage(c)
  <2>1. \A k \in 1..LastPage(c) : DefParts(c)[k] \in Seq(Nat)
    BY <1>2, Zenon
  <2>2. /\ DOMAIN DefParts(c) = 1..LastPage(c)
        /\ DefParts(c) = [k \in DOMAIN DefParts(c) |-> DefParts(c)[k]]
    BY DEF DefParts
  <2>3. QED
    BY <1>3, <2>1, <2>2
<1>5. RepParts(c) \in Seq(Seq(Nat)) /\ Len(RepParts(c)) = LastPage(c)
  <2>1. \A k \in 1..LastPage(c) : RepParts(c)[k] \in Seq(Nat)
    BY <1>2, Zenon
  <2>2. /\ DOMAIN RepParts(c) = 1..LastPage(c)
        /\ RepParts(c) = [k \in DOMAIN RepParts(c) |-> RepParts(c)[k]]
    BY DEF RepParts
  <2>3. QED
    BY <1>3, <2>1, <2>2
<1>6. ValParts(c) \in Seq(Seq(Nat)) /\ Len(ValParts(c)) = LastPage(c)
  <2>1. \A k \in 1..LastPage(c) : ValParts(c)[k] \in Seq(Nat)
    BY <1>2, Zenon
  <2>2. /\ DOMAIN ValParts(c) = 1..LastPage(c)
        /\ ValParts(c) = [k \in DOMAIN ValParts(c) |-> ValParts(c)[k]]
    BY DEF ValParts
  <2>3. QED
    BY <1>3, <2>1, <2>2
<1>7. QED
  BY <1>2, <1>4, <1>5, <1>6, Zenon

LEMMA JoinedFront ==
    ASSUME NEW ss \in Seq(Seq(Nat)), NEW p \in 0..Len(ss)
    PROVE  /\ [k \in 1..p |-> ss[k]] \in Seq(Seq(Nat))
           /\ Len([k \in 1..p |-> ss[k]]) = p
           /\ Joined(ss, p) \in Seq(Nat)
<1>1. Len(ss) \in Nat /\ \A k \in 1..p : ss[k] \in Seq(Nat)
  BY LenProperties, ElementOfSeq
<1>2. p \in Nat
  BY <1>1
<1>3. [k \in 1..p |-> ss[k]] \in Seq(Seq(Nat))
      /\ Len([k \in 1..p |-> ss[k]]) = p
  BY <1>1, <1>2
<1>4. QED
  BY <1>3, FlattenType DEF Joined

LEMMA JoinedNone == ASSUME NEW ss PROVE Joined(ss, 0) = <<>>
<1>1. [k \in 1..0 |-> ss[k]] = <<>>
  OBVIOUS
<1>2. QED
  BY <1>1, FlattenNone DEF Joined

LEMMA JoinedNext ==
    ASSUME NEW ss \in Seq(Seq(Nat)), NEW p \in Nat, p < Len(ss)
    PROVE  Joined(ss, p + 1) = Joined(ss, p) \o ss[p + 1]
<1>1. /\ Len(ss) \in Nat /\ p \in 0..Len(ss)
      /\ \A k \in 1..(p + 1) : ss[k] \in Seq(Nat)
  BY LenProperties, ElementOfSeq
<1>2. PICK front, x : front = [k \in 1..p |-> ss[k]] /\ x = ss[p + 1]
  OBVIOUS
<1>3. front \in Seq(Seq(Nat)) /\ Len(front) = p /\ x \in Seq(Nat)
  BY <1>1, <1>2, JoinedFront
<1>4. [k \in 1..(p + 1) |-> ss[k]] = Append(front, x)
  <2>1. PICK t : t = [k \in 1..(p + 1) |-> ss[k]]
    OBVIOUS
  <2>2. t \in Seq(Seq(Nat)) /\ Len(t) = p + 1
    BY <1>1, <2>1
  <2>3. /\ Append(front, x) \in Seq(Seq(Nat))
        /\ Len(Append(front, x)) = p + 1
        /\ \A k \in 1..p : Append(front, x)[k] = front[k]
        /\ Append(front, x)[p + 1] = x
    BY <1>3, AppendProperties
  <2>4. \A k \in 1..(p + 1) : t[k] = Append(front, x)[k]
    BY <1>2, <2>1, <2>3
  <2>5. QED
    BY <2>1, <2>2, <2>3, <2>4, SeqEqual
<1>5. FlattenSeq(Append(front, x)) = FlattenSeq(front) \o x
  BY <1>3, FlattenAppend
<1>6. QED
  BY <1>2, <1>4, <1>5 DEF Joined

LEMMA JoinedBegins ==
    ASSUME NEW ss \in Seq(Seq(Nat)), NEW q \in 0..Len(ss), NEW p \in 0..q
    PROVE  \E rest \in Seq(Nat) : Joined(ss, q) = Joined(ss, p) \o rest
<1>1. PICK all, front : /\ all = [k \in 1..q |-> ss[k]]
                        /\ front = [k \in 1..p |-> ss[k]]
  OBVIOUS
<1>2. Len(ss) \in Nat /\ q \in Nat /\ p \in Nat /\ p <= q /\ p \in 0..Len(ss)
  BY LenProperties
<1>3. /\ all \in Seq(Seq(Nat)) /\ Len(all) = q
      /\ front \in Seq(Seq(Nat)) /\ Len(front) = p
  BY <1>1, <1>2, JoinedFront
<1>4. \E rest \in Seq(Nat) :
         FlattenSeq(all) = FlattenSeq(SubSeq(all, 1, p)) \o rest
  <2>1. p \in 0..Len(all)
    BY <1>2, <1>3
  <2>2. QED
    BY <1>3, <2>1, FlattenPart
<1>5. SubSeq(all, 1, p) = front
  <2>1. \A i \in 1..p : all[i] \in Seq(Nat)
    BY <1>2, <1>3, ElementOfSeq
  <2>2. /\ SubSeq(all, 1, p) \in Seq(Seq(Nat))
        /\ Len(SubSeq(all, 1, p)) = IF 1 <= p THEN p - 1 + 1 ELSE 0
        /\ \A i \in 1..(p - 1 + 1) : SubSeq(all, 1, p)[i] = all[1 + i - 1]
    BY <1>2, <2>1, SubSeqProperties
  <2>3. Len(SubSeq(all, 1, p)) = p
    BY <1>2, <2>2
  <2>4. ASSUME NEW i \in 1..p PROVE SubSeq(all, 1, p)[i] = front[i]
    <3>1. i \in 1..(p - 1 + 1) /\ 1 + i - 1 = i /\ i \in 1..q
      BY <1>2
    <3>2. QED
      BY <1>1, <2>2, <3>1
  <2>5. QED
    BY <1>3, <2>2, <2>3, <2>4, SeqEqual
<1>6. QED
  BY <1>1, <1>4, <1>5 DEF Joined

LEMMA TallyConcat ==
    ASSUME NEW s \in Seq(Nat), NEW t \in Seq(Nat), NEW x
    PROVE  Tally(s \o t, Len(s) + Len(t), x) =
              Tally(s, Len(s), x) + Tally(t, Len(t), x)
<1>1. PICK u, m, n : u = s \o t /\ m = Len(s) /\ n = Len(t)
  OBVIOUS
<1>2. m \in Nat /\ n \in Nat
  BY <1>1, LenProperties
<1>3. \A i \in 1..(m + n) : u[i] = IF i <= m THEN s[i] ELSE t[i - m]
  BY <1>1, <1>2, ConcatProperties
<1>4. ASSUME NEW i \in 1..n PROVE t[i] = u[m + i]
  <2>1. m + i \in 1..(m + n) /\ ~(m + i <= m) /\ (m + i) - m = i
    BY <1>2
  <2>2. QED
    BY <1>3, <2>1
<1>5. ASSUME NEW i \in 1..m PROVE s[i] = u[i]
  <2>1. i \in 1..(m + n) /\ i <= m
    BY <1>2
  <2>2. u[i] = IF i <= m THEN s[i] ELSE t[i - m]
    BY <1>3, <2>1, Zenon
  <2>3. QED
    BY <2>1, <2>2
<1>6. Tally(u, m + n, x) = Tally(u, m, x) + Tally(t, n, x)
  BY <1>2, <1>4, TallyShift
<1>7. Tally(u, m, x) = Tally(s, m, x)
  BY <1>2, <1>5, TallyAlike
<1>8. QED
  BY <1>1, <1>6, <1>7

LEMMA PartsTally ==
    ASSUME NEW c \in Chunk, NEW p \in 0..LastPage(c)
    PROVE  /\ Len(Joined(RepParts(c), p)) = Len(Joined(DefParts(c), p))
           /\ Len(Joined(ValParts(c), p)) =
                 Tally(Joined(DefParts(c), p),
                       Len(Joined(DefParts(c), p)), c.top)
<1> DEFINE D(k) == Joined(DefParts(c), k)
           R(k) == Joined(RepParts(c), k)
           V(k) == Joined(ValParts(c), k)
           S == {k \in 0..p : /\ Len(R(k)) = Len(D(k))
                              /\ Len(V(k)) = Tally(D(k), Len(D(k)), c.top)}
<1>1. p \in Nat /\ p <= LastPage(c) /\ LastPage(c) \in Nat
  BY ReachedFirst, LenProperties DEF Chunk
<1>2. 0 \in S
  <2>1. D(0) = <<>> /\ R(0) = <<>> /\ V(0) = <<>>
    BY JoinedNone
  <2>2. Len(<<>>) = 0
    BY EmptySeq
  <2>3. Tally(<<>>, 0, c.top) = 0
    BY TallyStep
  <2>4. QED
    BY <1>1, <2>1, <2>2, <2>3
<1>3. ASSUME NEW k \in 1..p, k - 1 \in S PROVE k \in S
  <2>1. PICK j : j = k - 1
    OBVIOUS
  <2>2. /\ j \in Nat /\ j + 1 = k /\ k \in 1..LastPage(c)
        /\ j < LastPage(c) /\ j \in 0..LastPage(c)
    BY <1>1, <2>1
  <2>3. PICK d, r, v, x, y, z :
           /\ d = D(j) /\ r = R(j) /\ v = V(j)
           /\ x = DefParts(c)[k] /\ y = RepParts(c)[k] /\ z = ValParts(c)[k]
    OBVIOUS
  <2>4. D(k) = d \o x /\ d \in Seq(Nat)
    BY <2>2, <2>3, PartsType, JoinedNext, JoinedFront
  <2>5. R(k) = r \o y /\ r \in Seq(Nat)
    BY <2>2, <2>3, PartsType, JoinedNext, JoinedFront
  <2>6. V(k) = v \o z /\ v \in Seq(Nat)
    BY <2>2, <2>3, PartsType, JoinedNext, JoinedFront
  <2>7. x \in Seq(Nat) /\ y \in Seq(Nat) /\ z \in Seq(Nat)
    <3>1. /\ \A i \in 1..LastPage(c) : DefParts(c)[i] \in Seq(Nat)
          /\ \A i \in 1..LastPage(c) : RepParts(c)[i] \in Seq(Nat)
          /\ \A i \in 1..LastPage(c) : ValParts(c)[i] \in Seq(Nat)
      BY PartsType, ElementOfSeq
    <3>2. QED
      BY <2>2, <2>3, <3>1
  <2>8. Len(y) = Len(x) /\ Len(z) = Tally(x, Len(x), c.top)
    BY <2>2, <2>3, PartsType
  <2>9. Len(r) = Len(d) /\ Len(v) = Tally(d, Len(d), c.top)
    BY <1>3, <2>1, <2>3
  <2>10. /\ Len(d \o x) = Len(d) + Len(x) /\ Len(r \o y) = Len(r) + Len(y)
         /\ Len(v \o z) = Len(v) + Len(z)
         /\ Len(d) \in Nat /\ Len(x) \in Nat
    BY <2>4, <2>5, <2>6, <2>7, ConcatProperties, LenProperties
  <2>11. Tally(d \o x, Len(d) + Len(x), c.top) =
            Tally(d, Len(d), c.top) + Tally(x, Len(x), c.top)
    <3>1. QED
      BY <2>4, <2>7, TallyConcat
  <2>12. /\ Len(R(k)) = Len(D(k))
         /\ Len(V(k)) = Tally(D(k), Len(D(k)), c.top)
    <3> HIDE DEF D, R, V
    <3>1. QED
      BY <2>4, <2>5, <2>6, <2>8, <2>9, <2>10, <2>11
  <2>13. k \in 0..p
    OBVIOUS
  <2>14. QED
    BY <2>12, <2>13
<1>4. p \in S
  <2>1. 0..p \subseteq S
    <3> HIDE DEF S
    <3>1. QED
      BY <1>1, <1>2, <1>3, UpTo, Zenon
  <2>2. p \in 0..p
    BY <1>1
  <2> HIDE DEF S
  <2>3. QED
    BY <2>1, <2>2
<1>5. QED
  BY <1>4

(* What is given when p pages are read, and m levels of the next.          *)
GivenAt(c, p, m) ==
    [top  |-> c.top,
     defs |-> Joined(DefParts(c), p) \o SubSeq(c.pages[p + 1].defs, 1, m),
     reps |-> Joined(RepParts(c), p) \o SubSeq(c.pages[p + 1].reps, 1, m),
     vals |-> Joined(ValParts(c), p)
                 \o SubSeq(PageValues(c, p + 1), 1, Nth(c, p + 1, m))]

LEMMA GivenBetween ==
    ASSUME NEW c \in Chunk, NEW p \in 0..LastPage(c)
    PROVE  /\ GivenAt(c, p, 0) =
                 [top  |-> c.top, defs |-> Joined(DefParts(c), p),
                  reps |-> Joined(RepParts(c), p),
                  vals |-> Joined(ValParts(c), p)]
           /\ Joined(DefParts(c), p) \in Seq(Nat)
           /\ Joined(RepParts(c), p) \in Seq(Nat)
           /\ Joined(ValParts(c), p) \in Seq(Nat)
<1>1. PICK d, r, v : /\ d = Joined(DefParts(c), p)
                     /\ r = Joined(RepParts(c), p)
                     /\ v = Joined(ValParts(c), p)
  OBVIOUS
<1>2. d \in Seq(Nat) /\ r \in Seq(Nat) /\ v \in Seq(Nat)
  BY <1>1, PartsType, JoinedFront
<1>3. \A s : SubSeq(s, 1, 0) = <<>>
  BY SubSeqEmpty
<1>4. Nth(c, p + 1, 0) = 0
  BY NthIsTally, TallyStep
<1>5. d \o <<>> = d /\ r \o <<>> = r /\ v \o <<>> = v
  BY <1>2, ConcatEmptySeq
<1>6. QED
  BY <1>1, <1>2, <1>3, <1>4, <1>5 DEF GivenAt

(* A page that is read to its last triplet is behind.                      *)
LEMMA GivenTurns ==
    ASSUME NEW c \in Chunk, NEW p \in Nat, p < LastPage(c)
    PROVE  GivenAt(c, p, Readable(c, p + 1)) = GivenAt(c, p + 1, 0)
<1>1. /\ p + 1 \in 1..LastPage(c) /\ p + 1 \in 0..LastPage(c)
      /\ LastPage(c) \in Nat
  BY ReachedFirst, LenProperties DEF Chunk
<1>2. /\ Joined(DefParts(c), p + 1) =
            Joined(DefParts(c), p) \o DefParts(c)[p + 1]
      /\ Joined(RepParts(c), p + 1) =
            Joined(RepParts(c), p) \o RepParts(c)[p + 1]
      /\ Joined(ValParts(c), p + 1) =
            Joined(ValParts(c), p) \o ValParts(c)[p + 1]
  BY PartsType, JoinedNext
<1>3. /\ DefParts(c)[p + 1] =
            SubSeq(c.pages[p + 1].defs, 1, Readable(c, p + 1))
      /\ RepParts(c)[p + 1] =
            SubSeq(c.pages[p + 1].reps, 1, Readable(c, p + 1))
      /\ ValParts(c)[p + 1] = PageValues(c, p + 1)
  BY <1>1 DEF DefParts, RepParts, ValParts
<1>4. SubSeq(PageValues(c, p + 1), 1, Nth(c, p + 1, Readable(c, p + 1))) =
         PageValues(c, p + 1)
  BY <1>1, PageValuesType, SubSeqFull
<1>5. GivenAt(c, p + 1, 0) =
         [top  |-> c.top, defs |-> Joined(DefParts(c), p + 1),
          reps |-> Joined(RepParts(c), p + 1),
          vals |-> Joined(ValParts(c), p + 1)]
  BY <1>1, GivenBetween
<1>6. QED
  BY <1>2, <1>3, <1>4, <1>5 DEF GivenAt

LEMMA ConcatNext ==
    ASSUME NEW r \in Seq(Nat), NEW s \in Seq(Nat), NEW t \in Seq(Nat)
    PROVE  r \o (s \o t) = (r \o s) \o t
<1>1. (r \o s) \o t = r \o (s \o t)
  BY ConcatAssociative, SMTT(30)
<1>2. QED
  BY <1>1, Zenon

-----------------------------------------------------------------------------
(* What is given so far is the beginning of what can be read.              *)

LEMMA PartBegins ==
    ASSUME NEW ss \in Seq(Seq(Nat)), NEW p \in Nat, p < Len(ss),
           NEW n \in 0..Len(ss[p + 1])
    PROVE  /\ Joined(ss, p) \in Seq(Nat)
           /\ SubSeq(ss[p + 1], 1, n) \in Seq(Nat)
           /\ Len(SubSeq(ss[p + 1], 1, n)) = n
           /\ \E rest \in Seq(Nat) :
                 Joined(ss, Len(ss)) =
                    (Joined(ss, p) \o SubSeq(ss[p + 1], 1, n)) \o rest
<1>1. /\ Len(ss) \in Nat /\ p \in 0..Len(ss) /\ p + 1 \in 0..Len(ss)
      /\ p + 1 \in 1..Len(ss) /\ Len(ss) \in 0..Len(ss)
  BY LenProperties
<1>2. PICK a, b, c, d : /\ a = Joined(ss, p) /\ b = ss[p + 1]
                        /\ c = SubSeq(b, 1, n) /\ d = SubSeq(b, n + 1, Len(b))
  OBVIOUS
<1>3. a \in Seq(Nat) /\ b \in Seq(Nat) /\ Len(b) \in Nat /\ n \in 0..Len(b)
  BY <1>1, <1>2, JoinedFront, ElementOfSeq, LenProperties
<1>4. c \in Seq(Nat) /\ Len(c) = n
  BY <1>2, <1>3, FrontType
<1>5. d \in Seq(Nat)
  <2>1. \A i \in (n + 1)..Len(b) : b[i] \in Nat
    BY <1>3, ElementOfSeq
  <2>2. n + 1 \in Int /\ Len(b) \in Int
    BY <1>3
  <2>3. QED
    BY <1>2, <2>1, <2>2, SubSeqProperties
<1>6. b = c \o d
  <2>1. /\ 1 \in 1..(Len(b) + 1) /\ n \in 0..Len(b) /\ 1 - 1 = 0
        /\ Len(b) \in n..Len(b)
    BY <1>3
  <2>2. c \o d = SubSeq(b, 1, Len(b))
    BY <1>2, <1>3, <2>1, ConcatAdjacentSubSeq
  <2>3. QED
    BY <1>3, <2>2, SubSeqFull
<1>7. PICK e \in Seq(Nat) : Joined(ss, Len(ss)) = Joined(ss, p + 1) \o e
  BY <1>1, JoinedBegins
<1>8. Joined(ss, p + 1) = a \o b
  BY <1>2, JoinedNext
<1>9. (a \o (c \o d)) \o e = (a \o c) \o (d \o e)
  <2>1. a \o (c \o d) = (a \o c) \o d
    <3>1. a \in Seq(Nat) /\ c \in Seq(Nat) /\ d \in Seq(Nat)
      BY <1>3, <1>4, <1>5
    <3>2. QED
      BY <3>1, ConcatNext
  <2>2. PICK ac : ac = a \o c
    OBVIOUS
  <2>3. ac \in Seq(Nat)
    BY <1>3, <1>4, <2>2, ConcatProperties
  <2>4. (ac \o d) \o e = ac \o (d \o e)
    BY <1>5, <2>3, ConcatNext
  <2>5. QED
    BY <2>1, <2>2, <2>4
<1>10. d \o e \in Seq(Nat)
  BY <1>5, ConcatProperties
<1>11. Joined(ss, Len(ss)) = (a \o c) \o (d \o e)
  BY <1>6, <1>7, <1>8, <1>9
<1>12. QED
  BY <1>2, <1>3, <1>4, <1>10, <1>11

Given == [top : Nat, defs : Seq(Nat), reps : Seq(Nat), vals : Seq(Nat)]

(* g is the beginning of content, with as many values as its levels have.  *)
LeadsTo(g, content) ==
    /\ g \in Given /\ content \in Given
    /\ content.top = g.top
    /\ \E x \in Seq(Nat) : content.defs = g.defs \o x
    /\ \E x \in Seq(Nat) : content.reps = g.reps \o x
    /\ \E x \in Seq(Nat) : content.vals = g.vals \o x
    /\ Len(g.reps) = Len(g.defs)
    /\ Len(g.vals) = Tally(g.defs, Len(g.defs), g.top)

LEMMA LeadsToFirst ==
    ASSUME NEW g, NEW content, LeadsTo(g, content)
    PROVE  /\ g = Triplets!First(content, Len(g.defs))
           /\ Len(g.defs) \in Nat /\ Len(content.defs) \in Nat
           /\ Len(g.defs) <= Len(content.defs)
<1>1. PICK defs, reps, vals, n :
         /\ defs = g.defs /\ reps = g.reps /\ vals = g.vals
         /\ n = Len(defs)
  OBVIOUS
<1>2. /\ defs \in Seq(Nat) /\ reps \in Seq(Nat) /\ vals \in Seq(Nat)
      /\ Len(reps) = n
      /\ Len(vals) = Tally(defs, n, g.top) /\ content.top = g.top
      /\ g = [top |-> g.top, defs |-> defs, reps |-> reps, vals |-> vals]
  BY <1>1 DEF LeadsTo, Given
<1>3. PICK x \in Seq(Nat) : content.defs = defs \o x
  BY <1>1 DEF LeadsTo
<1>4. PICK y \in Seq(Nat) : content.reps = reps \o y
  BY <1>1 DEF LeadsTo
<1>5. PICK z \in Seq(Nat) : content.vals = vals \o z
  BY <1>1 DEF LeadsTo
<1>6. /\ Len(defs \o x) = n + Len(x) /\ n \in Nat /\ Len(x) \in Nat
      /\ SubSeq(defs \o x, 1, n) = defs
  BY <1>1, <1>2, ConcatParts
<1>7. SubSeq(reps \o y, 1, n) = reps
  BY <1>2, ConcatParts
<1>8. SubSeq(vals \o z, 1, Len(vals)) = vals
  BY <1>2, ConcatParts
<1>9. Cardinality({i \in 1..n : content.defs[i] = content.top}) = Len(vals)
  <2>1. PICK s, t : s = content.defs /\ t = content.top
    OBVIOUS
  <2>2. \A i \in 1..n : defs[i] = s[i]
    <3>1. ASSUME NEW i \in 1..n PROVE defs[i] = (defs \o x)[i]
      <4>1. i \in 1..(Len(defs) + Len(x)) /\ i <= Len(defs)
        BY <1>1, <1>6
      <4>2. (defs \o x)[i] =
               IF i <= Len(defs) THEN defs[i] ELSE x[i - Len(defs)]
        BY <1>2, <4>1, ConcatProperties
      <4>3. QED
        BY <4>1, <4>2
    <3>2. QED
      BY <1>3, <2>1, <3>1
  <2>3. Tally(s, n, t) = Tally(defs, n, t)
    <3>1. n \in Nat
      BY <1>6
    <3>2. QED
      BY <2>2, <3>1, TallyAlike
  <2>4. Tally(s, n, t) = Len(vals)
    BY <1>2, <2>1, <2>3
  <2>5. QED
    BY <2>1, <2>4 DEF Tally
<1>10. g = Triplets!First(content, n)
  <2>1. \A S : Triplets!Cardinality(S) = Cardinality(S)
    BY DEF Cardinality, Triplets!Cardinality
  <2>2. Triplets!First(content, n) =
           [top  |-> g.top, defs |-> SubSeq(content.defs, 1, n),
            reps |-> SubSeq(content.reps, 1, n),
            vals |-> SubSeq(content.vals, 1, Len(vals))]
    BY <1>2, <1>9, <2>1 DEF Triplets!First
  <2>3. QED
    BY <1>2, <1>3, <1>4, <1>5, <1>6, <1>7, <1>8, <2>2
<1>11. QED
  BY <1>1, <1>3, <1>6, <1>10

LEMMA ContentParts ==
    ASSUME NEW c \in Chunks
    PROVE  ContentOf[c] = GivenAt(c, LastPage(c), 0)
<1>1. c \in Chunk
  BY ChunksAssumption
<1>2. /\ [k \in 1..LastPage(c) |-> DefParts(c)[k]] =
            [k \in 1..LastPage(c) |->
               SubSeq(c.pages[k].defs, 1, Readable(c, k))]
      /\ [k \in 1..LastPage(c) |-> RepParts(c)[k]] =
            [k \in 1..LastPage(c) |->
               SubSeq(c.pages[k].reps, 1, Readable(c, k))]
      /\ [k \in 1..LastPage(c) |-> ValParts(c)[k]] =
            [k \in 1..LastPage(c) |-> PageValues(c, k)]
  BY DEF DefParts, RepParts, ValParts
<1>3. ContentOf[c] =
         [top  |-> c.top,
          defs |-> FlattenSeq([k \in 1..LastPage(c) |->
                                 SubSeq(c.pages[k].defs, 1, Readable(c, k))]),
          reps |-> FlattenSeq([k \in 1..LastPage(c) |->
                                 SubSeq(c.pages[k].reps, 1, Readable(c, k))]),
          vals |-> FlattenSeq([k \in 1..LastPage(c) |-> PageValues(c, k)])]
  BY DEF ContentOf, LastPage
<1>4. LastPage(c) \in 0..LastPage(c)
  BY <1>1, ReachedFirst, LenProperties DEF Chunk
<1>5. GivenAt(c, LastPage(c), 0) =
         [top  |-> c.top, defs |-> Joined(DefParts(c), LastPage(c)),
          reps |-> Joined(RepParts(c), LastPage(c)),
          vals |-> Joined(ValParts(c), LastPage(c))]
  BY <1>1, <1>4, GivenBetween
<1>6. QED
  BY <1>2, <1>3, <1>5 DEF Joined

LEMMA FrontOfFront ==
    ASSUME NEW s \in Seq(Nat), NEW r \in 0..Len(s), NEW m \in 0..r
    PROVE  SubSeq(SubSeq(s, 1, r), 1, m) = SubSeq(s, 1, m)
<1>1. Len(s) \in Nat /\ r \in Nat /\ m \in 0..Len(s)
  BY LenProperties
<1>2. PICK f, g, h : /\ f = SubSeq(s, 1, r) /\ g = SubSeq(f, 1, m)
                     /\ h = SubSeq(s, 1, m)
  OBVIOUS
<1>3. f \in Seq(Nat) /\ Len(f) = r /\ \A i \in 1..r : f[i] = s[i]
  BY <1>2, FrontType
<1>4. g \in Seq(Nat) /\ Len(g) = m /\ \A i \in 1..m : g[i] = f[i]
  <2>1. m \in 0..Len(f)
    BY <1>3
  <2>2. QED
    BY <1>2, <1>3, <2>1, FrontType
<1>5. h \in Seq(Nat) /\ Len(h) = m /\ \A i \in 1..m : h[i] = s[i]
  BY <1>1, <1>2, FrontType
<1>6. \A i \in 1..m : g[i] = h[i]
  BY <1>1, <1>3, <1>4, <1>5
<1>7. g = h
  BY <1>4, <1>5, <1>6, SeqEqual
<1>8. QED
  BY <1>2, <1>7

(* The first p pages and the first m levels of the next, if there is one.  *)
LEMMA GivenLeads ==
    ASSUME NEW c \in Chunks, NEW p \in Nat, NEW m \in Nat, p < LastPage(c),
           m <= Readable(c, p + 1)
    PROVE  LeadsTo(GivenAt(c, p, m), ContentOf[c])
<1>1. /\ c \in Chunk /\ LastPage(c) \in Nat /\ p + 1 \in 1..LastPage(c)
      /\ p \in 0..LastPage(c) /\ LastPage(c) <= Len(c.pages)
      /\ Len(c.pages) \in Nat
      /\ p + 1 \in 1..Len(c.pages)
  <2>1. c \in Chunk
    BY ChunksAssumption
  <2>2. QED
    BY <2>1, ReachedFirst, LenProperties DEF Chunk
<1>2. PICK k, r, n : k = p + 1 /\ r = Readable(c, k) /\ n = Nth(c, k, m)
  OBVIOUS
<1>3. PICK defs, reps, vals : /\ defs = c.pages[k].defs
                              /\ reps = c.pages[k].reps
                              /\ vals = PageValues(c, k)
  OBVIOUS
<1>4. /\ defs \in Seq(Nat) /\ Len(defs) \in Nat
      /\ reps \in Seq(Nat) /\ Len(reps) \in Nat
  BY <1>1, <1>2, <1>3, PageFacts
<1>5. /\ r \in 0..Len(defs) /\ r \in 0..Len(reps) /\ r \in Nat
      /\ m \in 0..r /\ m \in 0..Len(defs)
  <2>1. r \in Nat /\ r <= Len(defs) /\ r <= Len(reps)
    BY <1>1, <1>2, <1>3, ReadableType
  <2>2. m <= r
    BY <1>2
  <2>3. QED
    BY <1>4, <2>1, <2>2
<1>6. vals \in Seq(Nat) /\ n \in 0..Len(vals) /\ n = Tally(defs, m, c.top)
  <2>1. vals \in Seq(Nat) /\ Len(vals) = Tally(defs, r, c.top)
    BY <1>1, <1>2, <1>3, PageValuesType, NthIsTally
  <2>2. n = Tally(defs, m, c.top)
    BY <1>2, <1>3, NthIsTally
  <2>3. /\ Tally(defs, m, c.top) \in Nat /\ Tally(defs, r, c.top) \in Nat
        /\ Tally(defs, m, c.top) <= Tally(defs, r, c.top)
    BY <1>5, TallyGrows
  <2>4. QED
    BY <2>1, <2>2, <2>3
<1>7. PICK D, R, V : /\ D = Joined(DefParts(c), p)
                     /\ R = Joined(RepParts(c), p)
                     /\ V = Joined(ValParts(c), p)
  OBVIOUS
<1>8. PICK d, e, v : /\ d = SubSeq(defs, 1, m) /\ e = SubSeq(reps, 1, m)
                     /\ v = SubSeq(vals, 1, n)
  OBVIOUS
<1>9. PICK all : all = ContentOf[c]
  OBVIOUS
<1>10. all = [top  |-> c.top, defs |-> Joined(DefParts(c), LastPage(c)),
              reps |-> Joined(RepParts(c), LastPage(c)),
              vals |-> Joined(ValParts(c), LastPage(c))]
  <2>1. LastPage(c) \in 0..LastPage(c)
    BY <1>1
  <2>2. QED
    BY <1>1, <1>9, <2>1, ContentParts, GivenBetween
<1>11. /\ D \in Seq(Nat) /\ d \in Seq(Nat) /\ Len(d) = m
       /\ \E rest \in Seq(Nat) : all.defs = (D \o d) \o rest
  <2>1. PICK ss : ss = DefParts(c)
    OBVIOUS
  <2>2. ss \in Seq(Seq(Nat)) /\ Len(ss) = LastPage(c)
    BY <1>1, <2>1, PartsType
  <2>3. ss[p + 1] = SubSeq(defs, 1, r) /\ Len(ss[p + 1]) = r
    <3>1. ss[p + 1] = SubSeq(defs, 1, r)
      BY <1>1, <1>2, <1>3, <2>1 DEF DefParts
    <3>2. QED
      BY <1>4, <1>5, <3>1, FrontType
  <2>4. SubSeq(ss[p + 1], 1, m) = d
    BY <1>4, <1>5, <1>8, <2>3, FrontOfFront
  <2>5. /\ Joined(ss, p) \in Seq(Nat)
        /\ SubSeq(ss[p + 1], 1, m) \in Seq(Nat)
        /\ Len(SubSeq(ss[p + 1], 1, m)) = m
        /\ \E rest \in Seq(Nat) :
              Joined(ss, Len(ss)) =
                 (Joined(ss, p) \o SubSeq(ss[p + 1], 1, m)) \o rest
    <3>1. m \in 0..Len(ss[p + 1]) /\ p < Len(ss)
      BY <1>5, <2>2, <2>3
    <3>2. QED
      BY <2>2, <3>1, PartBegins
  <2>6. QED
    BY <1>7, <1>10, <2>1, <2>2, <2>4, <2>5
<1>12. /\ R \in Seq(Nat) /\ e \in Seq(Nat) /\ Len(e) = m
       /\ \E rest \in Seq(Nat) : all.reps = (R \o e) \o rest
  <2>1. PICK ss : ss = RepParts(c)
    OBVIOUS
  <2>2. ss \in Seq(Seq(Nat)) /\ Len(ss) = LastPage(c)
    BY <1>1, <2>1, PartsType
  <2>3. ss[p + 1] = SubSeq(reps, 1, r) /\ Len(ss[p + 1]) = r
    <3>1. ss[p + 1] = SubSeq(reps, 1, r)
      BY <1>1, <1>2, <1>3, <2>1 DEF RepParts
    <3>2. QED
      BY <1>4, <1>5, <3>1, FrontType
  <2>4. SubSeq(ss[p + 1], 1, m) = e
    BY <1>4, <1>5, <1>8, <2>3, FrontOfFront
  <2>5. /\ Joined(ss, p) \in Seq(Nat)
        /\ SubSeq(ss[p + 1], 1, m) \in Seq(Nat)
        /\ Len(SubSeq(ss[p + 1], 1, m)) = m
        /\ \E rest \in Seq(Nat) :
              Joined(ss, Len(ss)) =
                 (Joined(ss, p) \o SubSeq(ss[p + 1], 1, m)) \o rest
    <3>1. m \in 0..Len(ss[p + 1]) /\ p < Len(ss)
      BY <1>5, <2>2, <2>3
    <3>2. QED
      BY <2>2, <3>1, PartBegins
  <2>6. QED
    BY <1>7, <1>10, <2>1, <2>2, <2>4, <2>5
<1>13. /\ V \in Seq(Nat) /\ v \in Seq(Nat) /\ Len(v) = n
       /\ \E rest \in Seq(Nat) : all.vals = (V \o v) \o rest
  <2>1. PICK ss : ss = ValParts(c)
    OBVIOUS
  <2>2. ss \in Seq(Seq(Nat)) /\ Len(ss) = LastPage(c)
    BY <1>1, <2>1, PartsType
  <2>3. ss[p + 1] = vals
    BY <1>1, <1>2, <1>3, <2>1 DEF ValParts
  <2>4. SubSeq(ss[p + 1], 1, n) = v
    BY <1>8, <2>3
  <2>5. /\ Joined(ss, p) \in Seq(Nat)
        /\ SubSeq(ss[p + 1], 1, n) \in Seq(Nat)
        /\ Len(SubSeq(ss[p + 1], 1, n)) = n
        /\ \E rest \in Seq(Nat) :
              Joined(ss, Len(ss)) =
                 (Joined(ss, p) \o SubSeq(ss[p + 1], 1, n)) \o rest
    <3>1. n \in 0..Len(ss[p + 1]) /\ p < Len(ss)
      BY <1>6, <2>2, <2>3
    <3>2. QED
      BY <2>2, <3>1, PartBegins
  <2>6. QED
    BY <1>7, <1>10, <2>1, <2>2, <2>4, <2>5
<1>14. Len(R) = Len(D) /\ Len(V) = Tally(D, Len(D), c.top)
  BY <1>1, <1>7, PartsTally
<1>15. Len(R \o e) = Len(D \o d)
  <2>1. Len(R \o e) = Len(R) + Len(e)
    BY <1>12, ConcatProperties
  <2>2. Len(D \o d) = Len(D) + Len(d)
    BY <1>11, ConcatProperties
  <2>3. QED
    BY <1>11, <1>12, <1>14, <2>1, <2>2
<1>16. Len(V \o v) = Tally(D \o d, Len(D \o d), c.top)
  <2>1. Tally(d, m, c.top) = n
    <3>1. \A i \in 1..m : d[i] = defs[i]
      BY <1>4, <1>5, <1>8, FrontType
    <3>2. PICK t : t = c.top
      OBVIOUS
    <3>3. Tally(defs, m, t) = Tally(d, m, t)
      BY <3>1, TallyAlike
    <3>4. QED
      BY <1>6, <3>2, <3>3
  <2>2. Tally(D \o d, Len(D) + Len(d), c.top) =
           Tally(D, Len(D), c.top) + Tally(d, Len(d), c.top)
    BY <1>11, TallyConcat
  <2>3. Len(V \o v) = Len(V) + Len(v) /\ Len(D \o d) = Len(D) + Len(d)
    BY <1>11, <1>13, ConcatProperties
  <2>4. QED
    BY <1>11, <1>13, <1>14, <2>1, <2>2, <2>3
<1>17. GivenAt(c, p, m) =
          [top |-> c.top, defs |-> D \o d, reps |-> R \o e, vals |-> V \o v]
  BY <1>2, <1>3, <1>7, <1>8 DEF GivenAt
<1>18. D \o d \in Seq(Nat) /\ R \o e \in Seq(Nat) /\ V \o v \in Seq(Nat)
  BY <1>11, <1>12, <1>13, ConcatProperties
<1>19. all \in Given /\ c.top \in Nat
  <2>1. /\ Joined(DefParts(c), LastPage(c)) \in Seq(Nat)
        /\ Joined(RepParts(c), LastPage(c)) \in Seq(Nat)
        /\ Joined(ValParts(c), LastPage(c)) \in Seq(Nat)
    <3>1. LastPage(c) \in 0..LastPage(c)
      BY <1>1
    <3>2. QED
      BY <1>1, <3>1, GivenBetween
  <2>2. c.top \in Nat
    BY <1>1 DEF Chunk
  <2>3. QED
    BY <1>10, <2>1, <2>2 DEF Given
<1>20. LeadsTo([top |-> c.top, defs |-> D \o d, reps |-> R \o e,
                vals |-> V \o v], all)
  BY <1>10, <1>11, <1>12, <1>13, <1>15, <1>16, <1>18, <1>19
     DEF LeadsTo, Given
<1>21. QED
  BY <1>9, <1>17, <1>20

LEMMA AllLeads ==
    ASSUME NEW c \in Chunks
    PROVE  /\ LeadsTo(ContentOf[c], ContentOf[c])
           /\ ContentOf[c] = GivenAt(c, LastPage(c), 0)
<1>1. c \in Chunk /\ LastPage(c) \in 0..LastPage(c) /\ c.top \in Nat
  <2>1. c \in Chunk
    BY ChunksAssumption
  <2>2. QED
    BY <2>1, ReachedFirst, LenProperties DEF Chunk
<1>2. PICK D, R, V : /\ D = Joined(DefParts(c), LastPage(c))
                     /\ R = Joined(RepParts(c), LastPage(c))
                     /\ V = Joined(ValParts(c), LastPage(c))
  OBVIOUS
<1>3. /\ ContentOf[c] = [top |-> c.top, defs |-> D, reps |-> R, vals |-> V]
      /\ D \in Seq(Nat) /\ R \in Seq(Nat) /\ V \in Seq(Nat)
  BY <1>1, <1>2, ContentParts, GivenBetween
<1>4. Len(R) = Len(D) /\ Len(V) = Tally(D, Len(D), c.top)
  BY <1>1, <1>2, PartsTally
<1>5. <<>> \in Seq(Nat) /\ D = D \o <<>> /\ R = R \o <<>> /\ V = V \o <<>>
  BY <1>3, ConcatEmptySeq
<1>6. PICK all : all = ContentOf[c]
  OBVIOUS
<1>7. LeadsTo(all, all)
  <2>1. /\ all.top = c.top /\ all.defs = D /\ all.reps = R /\ all.vals = V
        /\ all \in Given
    BY <1>1, <1>3, <1>6 DEF Given
  <2>2. /\ \E x \in Seq(Nat) : D = D \o x
        /\ \E x \in Seq(Nat) : R = R \o x
        /\ \E x \in Seq(Nat) : V = V \o x
    BY <1>5, Zenon
  <2>3. QED
    BY <1>4, <2>1, <2>2 DEF LeadsTo
<1>8. QED
  BY <1>6, <1>7, ContentParts

LEMMA GivenIsFirst ==
    ASSUME NEW c \in Chunks, NEW p \in 0..LastPage(c), NEW m \in Nat,
           m = 0 \/ (p < LastPage(c) /\ m <= Readable(c, p + 1))
    PROVE  LeadsTo(GivenAt(c, p, m), ContentOf[c])
<1>1. c \in Chunk /\ LastPage(c) \in Nat /\ LastPage(c) \in 0..Len(c.pages)
      /\ Len(c.pages) \in Nat
  <2>1. c \in Chunk
    BY ChunksAssumption
  <2>2. QED
    BY <2>1, ReachedFirst, LenProperties DEF Chunk
<1>2. CASE p < LastPage(c)
  <2>1. p \in Nat /\ p + 1 \in 1..Len(c.pages)
    BY <1>1, <1>2
  <2>2. Readable(c, p + 1) \in Nat
    BY <1>1, <2>1, ReadableType
  <2>3. m <= Readable(c, p + 1)
    BY <2>2
  <2>4. QED
    BY <1>2, <2>1, <2>3, GivenLeads
<1>3. CASE ~(p < LastPage(c))
  <2>1. p = LastPage(c) /\ m = 0
    BY <1>1, <1>3
  <2>2. QED
    BY <2>1, AllLeads
<1>4. QED
  BY <1>2, <1>3

-----------------------------------------------------------------------------
(* Batches.                                                                *)

LEMMA BatchType ==
    ASSUME NEW s \in Seq(Nat), NEW from \in Nat, NEW n \in Nat
    PROVE  /\ Batch(s, from, n) \in Seq(Nat)
           /\ Len(Batch(s, from, n)) \in 0..n
           /\ DOMAIN Batch(s, from, n) = 1..Len(Batch(s, from, n))
<1>1. PICK to : to = Least(from + n, Len(s))
  OBVIOUS
<1>2. /\ to \in Int /\ to <= Len(s) /\ to <= from + n /\ Len(s) \in Nat
      /\ from + 1 \in Int
  BY <1>1, LenProperties DEF Least
<1>3. \A i \in (from + 1)..to : s[i] \in Nat
  <2>1. ASSUME NEW i \in (from + 1)..to PROVE i \in 1..Len(s)
    BY <1>2
  <2>2. QED
    BY <2>1, ElementOfSeq
<1>4. PICK b : b = SubSeq(s, from + 1, to)
  OBVIOUS
<1>5. /\ b \in Seq(Nat)
      /\ Len(b) = IF from + 1 <= to THEN to - (from + 1) + 1 ELSE 0
  BY <1>2, <1>3, <1>4, SubSeqProperties
<1>6. Len(b) \in 0..n
  BY <1>2, <1>5
<1>7. DOMAIN b = 1..Len(b)
  BY <1>5, LenProperties
<1>8. QED
  BY <1>1, <1>4, <1>5, <1>6, <1>7 DEF Batch

LEMMA BatchFacts ==
    ASSUME NEW s \in Seq(Nat), NEW from \in 0..Len(s), NEW n \in Nat
    PROVE  /\ Len(Batch(s, from, n)) \in 0..n
           /\ from + Len(Batch(s, from, n)) \in 0..Len(s)
           /\ \/ Len(Batch(s, from, n)) = n
              \/ from + Len(Batch(s, from, n)) = Len(s)
           /\ \A i \in 1..Len(Batch(s, from, n)) :
                 Batch(s, from, n)[i] = s[from + i]
           /\ Batch(s, from, n) =
                 SubSeq(s, from + 1, from + Len(Batch(s, from, n)))
<1> DEFINE l == Len(Batch(s, from, n))
<1>1. PICK to : to = Least(from + n, Len(s))
  OBVIOUS
<1>2. Len(s) \in Nat /\ from \in Nat
  BY LenProperties
<1>3. /\ to \in Int /\ to <= Len(s) /\ to <= from + n /\ from <= to
      /\ from + 1 \in Int /\ (to = Len(s) \/ to = from + n)
  BY <1>1, <1>2 DEF Least
<1>4. \A i \in (from + 1)..to : s[i] \in Nat
  <2>1. ASSUME NEW i \in (from + 1)..to PROVE i \in 1..Len(s)
    BY <1>2, <1>3
  <2>2. QED
    BY <2>1, ElementOfSeq
<1>5. PICK b : b = SubSeq(s, from + 1, to)
  OBVIOUS
<1>6. /\ b \in Seq(Nat)
      /\ Len(b) = IF from + 1 <= to THEN to - (from + 1) + 1 ELSE 0
      /\ \A i \in 1..(to - (from + 1) + 1) : b[i] = s[(from + 1) + i - 1]
  BY <1>3, <1>4, <1>5, SubSeqProperties
<1>7. b = Batch(s, from, n)
  BY <1>1, <1>5 DEF Batch
<1>8. l = to - from
  BY <1>2, <1>3, <1>6, <1>7
<1> HIDE DEF l
<1>9. ASSUME NEW i \in 1..l PROVE b[i] = s[from + i]
  <2>1. i \in 1..(to - (from + 1) + 1) /\ (from + 1) + i - 1 = from + i
    BY <1>2, <1>3, <1>8
  <2>2. QED
    BY <1>6, <2>1
<1>10. l \in 0..n /\ from + l = to /\ to \in 0..Len(s)
       /\ (l = n \/ to = Len(s))
  BY <1>2, <1>3, <1>8
<1>11. QED
  BY <1>5, <1>7, <1>9, <1>10 DEF l

LEMMA BatchTally ==
    ASSUME NEW s \in Seq(Nat), NEW from \in 0..Len(s), NEW n \in Nat, NEW x
    PROVE  Tally(s, from + Len(Batch(s, from, n)), x) =
              Tally(s, from, x)
                 + Tally(Batch(s, from, n), Len(Batch(s, from, n)), x)
<1>1. PICK t, d : t = Batch(s, from, n) /\ d = Len(t)
  OBVIOUS
<1>2. /\ d \in 0..n /\ \A i \in 1..d : t[i] = s[from + i]
  BY <1>1, BatchFacts
<1>3. d \in Nat /\ from \in Nat
  BY <1>2, LenProperties
<1>4. Tally(s, from + d, x) = Tally(s, from, x) + Tally(t, d, x)
  BY <1>2, <1>3, TallyShift
<1>5. QED
  BY <1>1, <1>4

-----------------------------------------------------------------------------
(* Type correctness.                                                       *)

TypeInv ==
    /\ TypeOK
    /\ chunk \in Chunks
    /\ given \in Given
    /\ given.top = chunk.top
    /\ failed => want = 0
    /\ loaded => /\ Current.kind = "data"
                 /\ Current.coding = "indices" => dict # <<>>

LEMMA ChunkFacts ==
    ASSUME NEW c \in Chunks
    PROVE  /\ c \in Chunk /\ c.top \in Nat /\ Len(c.pages) \in Nat
           /\ MaxBatch \in Nat
<1>1. c \in Chunk
  BY ChunksAssumption
<1>2. QED
  BY <1>1, ChunksAssumption, LenProperties DEF Chunk

LEMMA TypeInit ==
    ASSUME Init PROVE TypeInv
<1>1. chunk \in Chunks
  BY DEF Init
<1>2. chunk.top \in Nat /\ Len(chunk.pages) \in Nat /\ MaxBatch \in Nat
  BY <1>1, ChunkFacts
<1>3. <<>> \in Seq(Nat) /\ <<>> \in Seq(Seq(Nat)) /\ Len(<<>>) = 0
  BY EmptySeq
<1>4. given \in Given /\ given.top = chunk.top
  BY <1>2, <1>3 DEF Init, Given
<1>5. TypeOK
  <2>1. next \in 1..(Len(chunk.pages) + 1) /\ want \in 0..MaxBatch
    BY <1>2 DEF Init
  <2>2. dict \in Seq(Seq(Nat)) /\ Len(dict) <= 1
    BY <1>3 DEF Init
  <2>3. /\ given.defs \in Seq(Nat) /\ given.reps \in Seq(Nat)
        /\ given.vals \in Seq(Nat)
    BY <1>4 DEF Given
  <2>4. QED
    BY <2>1, <2>2, <2>3 DEF Init, TypeOK
<1>6. QED
  BY <1>1, <1>4, <1>5 DEF TypeInv, Init

(* What a batch hands out.                                                 *)
LEMMA BatchGives ==
    ASSUME TypeInv, ReturnBatch
    PROVE  /\ DefBatch \in Seq(Nat) /\ RepBatch \in Seq(Nat)
           /\ Stored \in Seq(Nat) /\ Decoded \in Seq(Nat)
           /\ read.levels + Len(DefBatch) \in 0..Len(Current.defs)
           /\ read.vals + Len(Stored) \in 0..Len(Current.vals)
<1>1. /\ want \in Nat /\ next - 1 \in 1..Len(chunk.pages)
      /\ chunk \in Chunk
      /\ read.levels \in 0..Len(Current.defs)
      /\ read.vals \in 0..Len(Current.vals)
  <2>1. /\ want \in 0..MaxBatch /\ next \in 1..(Len(chunk.pages) + 1)
        /\ next > 1 /\ chunk \in Chunks
        /\ read.levels \in 0..Len(Current.defs)
        /\ read.vals \in 0..Len(Current.vals)
    BY DEF TypeInv, TypeOK, ReturnBatch, Reading
  <2>2. Len(chunk.pages) \in Nat /\ MaxBatch \in Nat /\ chunk \in Chunk
    BY <2>1, ChunkFacts
  <2>3. QED
    BY <2>1, <2>2
<1>2. PICK page : page = Current
  OBVIOUS
<1>3. /\ page.defs \in Seq(Nat) /\ Len(page.defs) \in Nat
      /\ page.reps \in Seq(Nat) /\ Len(page.reps) \in Nat
      /\ page.vals \in Seq(Nat) /\ Len(page.vals) \in Nat
  <2>1. page = chunk.pages[next - 1]
    BY <1>2 DEF Current
  <2>2. QED
    BY <1>1, <2>1, PageFacts
<1>4. PICK m, v : m = read.levels /\ v = read.vals
  OBVIOUS
<1>5. m \in 0..Len(page.defs) /\ v \in 0..Len(page.vals)
      /\ m \in Nat /\ v \in Nat
  BY <1>1, <1>2, <1>3, <1>4
<1>6. /\ DefBatch = Batch(page.defs, m, want)
      /\ RepBatch = Batch(page.reps, m, want)
      /\ Stored = Batch(page.vals, v, ValuesToRead)
  BY <1>2, <1>4 DEF DefBatch, RepBatch, Stored
<1>7. /\ DefBatch \in Seq(Nat) /\ RepBatch \in Seq(Nat)
      /\ DOMAIN DefBatch = 1..Len(DefBatch)
  BY <1>1, <1>3, <1>5, <1>6, BatchType
<1>8. m + Len(DefBatch) \in 0..Len(page.defs)
  BY <1>1, <1>3, <1>5, <1>6, BatchFacts
<1>9. ValuesToRead \in Nat
  <2>1. ValuesToRead = Tally(DefBatch, Len(DefBatch), chunk.top)
    BY <1>7 DEF ValuesToRead, Tally
  <2>2. Len(DefBatch) \in Nat
    BY <1>7, LenProperties
  <2>3. Tally(DefBatch, Len(DefBatch), chunk.top) \in 0..Len(DefBatch)
    BY <2>2, TallyStep
  <2>4. QED
    BY <2>1, <2>2, <2>3
<1>10. /\ Stored \in Seq(Nat) /\ DOMAIN Stored = 1..Len(Stored)
       /\ Len(Stored) \in Nat
  <2>1. Stored \in Seq(Nat)
    BY <1>3, <1>5, <1>6, <1>9, BatchType
  <2>2. QED
    BY <2>1, LenProperties
<1>11. v + Len(Stored) \in 0..Len(page.vals)
  BY <1>3, <1>5, <1>6, <1>9, BatchFacts
<1>12. Decoded \in Seq(Nat)
  <2>1. PICK f : f = Decoded
    OBVIOUS
  <2>2. \A i \in 1..Len(Stored) : Stored[i] \in Nat
    BY <1>10, ElementOfSeq
  <2>3. /\ DOMAIN f = 1..Len(Stored)
        /\ f = [i \in 1..Len(Stored) |-> f[i]]
        /\ \A i \in 1..Len(Stored) :
              f[i] = IF page.coding = "indices"
                     THEN Append(dict[1], Beyond)[Stored[i] + 1]
                     ELSE Stored[i]
    BY <1>2, <1>10, <2>1 DEF Decoded
  <2>4. ASSUME NEW i \in 1..Len(Stored) PROVE f[i] \in Nat
    <3>1. CASE page.coding = "indices"
      <4>1. Stored[i] <= Len(dict[1])
        BY <1>2, <1>10, <3>1 DEF ReturnBatch, BatchRight, IndicesRight
      <4>2. dict \in Seq(Seq(Nat)) /\ Len(dict) <= 1 /\ dict # <<>>
        BY <1>2, <3>1 DEF TypeInv, TypeOK, ReturnBatch, Reading
      <4>3. dict[1] \in Seq(Nat)
        <5>1. Len(dict) \in Nat /\ Len(dict) # 0
          BY <4>2, EmptySeq, LenProperties
        <5>2. 1 \in 1..Len(dict)
          BY <5>1
        <5>3. QED
          BY <4>2, <5>2, ElementOfSeq
      <4>4. PICK d : d = dict[1]
        OBVIOUS
      <4>5. /\ Append(d, Beyond) \in Seq(Nat) /\ Len(d) \in Nat
            /\ Len(Append(d, Beyond)) = Len(d) + 1
        BY <4>3, <4>4, ChunksAssumption, AppendProperties, LenProperties
      <4>6. Stored[i] + 1 \in 1..Len(Append(d, Beyond))
        BY <2>2, <4>1, <4>4, <4>5
      <4>7. Append(d, Beyond)[Stored[i] + 1] \in Nat
        BY <4>5, <4>6, ElementOfSeq
      <4>8. QED
        BY <2>3, <3>1, <4>4, <4>7
    <3>2. CASE page.coding # "indices"
      BY <2>2, <2>3, <3>2
    <3>3. QED
      BY <3>1, <3>2
  <2>5. f \in Seq(Nat)
    BY <1>10, <2>3, <2>4
  <2>6. QED
    BY <2>1, <2>5
<1>13. QED
  BY <1>2, <1>4, <1>7, <1>8, <1>10, <1>11, <1>12

LEMMA TypeNext ==
    ASSUME TypeInv, Next PROVE TypeInv'
<1>1. /\ chunk \in Chunks /\ Len(chunk.pages) \in Nat /\ MaxBatch \in Nat
      /\ next \in 1..(Len(chunk.pages) + 1) /\ want \in 0..MaxBatch
      /\ chunk \in Chunk
  <2>1. /\ chunk \in Chunks /\ next \in 1..(Len(chunk.pages) + 1)
        /\ want \in 0..MaxBatch
    BY DEF TypeInv, TypeOK
  <2>2. QED
    BY <2>1, ChunkFacts
<1>2. ASSUME NEW n \in 1..MaxBatch, ReadBatch(n)
      PROVE  TypeInv'
  <2>1. n \in 0..MaxBatch
    BY <1>1
  <2>2. QED
    BY <1>2, <2>1 DEF TypeInv, TypeOK, ReadBatch, Current
<1>3. CASE ReturnNothing
  <2>1. 0 \in 0..MaxBatch
    BY <1>1
  <2>2. QED
    BY <1>3, <2>1 DEF TypeInv, TypeOK, ReturnNothing, Current
<1>4. CASE NoNextPage
  BY <1>4 DEF TypeInv, TypeOK, NoNextPage, Loading, Current
<1>5. CASE LoadData \/ LoadDictionary \/ SkipPage
  <2> LoadNext
    BY <1>5 DEF LoadData, LoadDictionary, SkipPage
  <2>1. /\ next \in 1..Len(chunk.pages) /\ next' = next + 1
        /\ next' \in 1..(Len(chunk.pages) + 1) /\ next' > 1
        /\ next' - 1 = next
    BY <1>1 DEF LoadNext
  <2>2. UNCHANGED <<chunk, eof, want, given, ended, failed>>
    BY DEF LoadNext
  <2>3. CASE LoadData
    <3>1. loaded' = TRUE /\ read' = Unread /\ UNCHANGED dict
      BY <2>3 DEF LoadData
    <3>2. Current' = NextPage
      BY <2>1, <2>2 DEF Current, NextPage
    <3>3. /\ NextPage.kind = "data"
          /\ NextPage.coding = "indices" => dict # <<>>
      BY <2>3 DEF LoadData, LoadNext, Goes
    <3>4. Len(NextPage.defs) \in Nat /\ Len(NextPage.vals) \in Nat
      BY <1>1, <2>1, PageFacts DEF NextPage
    <3>5. /\ read'.levels \in 0..Len(Current'.defs)
          /\ read'.vals \in 0..Len(Current'.vals)
      BY <3>1, <3>2, <3>4 DEF Unread
    <3>6. TypeOK'
      BY <2>1, <2>2, <3>1, <3>5 DEF TypeInv, TypeOK
    <3>7. QED
      BY <2>2, <3>1, <3>2, <3>3, <3>6 DEF TypeInv
  <2>4. CASE LoadDictionary
    <3>1. PICK d, vals, num : /\ vals = NextPage.vals /\ num = NextPage.num
                              /\ d = SubSeq(vals, 1, num)
      OBVIOUS
    <3>2. /\ vals \in Seq(Nat) /\ Len(vals) \in Nat /\ num \in Nat
          /\ num <= Len(vals)
      <4>1. vals \in Seq(Nat) /\ Len(vals) \in Nat /\ num \in Nat
        BY <1>1, <2>1, <3>1, PageFacts DEF NextPage
      <4>2. num <= Len(vals)
        BY <2>4, <3>1 DEF LoadDictionary, LoadNext, Goes
      <4>3. QED
        BY <4>1, <4>2
    <3>3. d \in Seq(Nat)
      <4>1. num \in 0..Len(vals)
        BY <3>2
      <4>2. QED
        BY <3>1, <3>2, <4>1, FrontType
    <3>4. dict' = <<d>> /\ UNCHANGED <<loaded, read>> /\ ~loaded
      BY <2>4, <3>1 DEF LoadDictionary, LoadNext, Loading
    <3>5. dict' \in Seq(Seq(Nat)) /\ Len(dict') <= 1
      BY <3>3, <3>4
    <3>6. TypeOK'
      BY <2>1, <2>2, <3>4, <3>5 DEF TypeInv, TypeOK
    <3>7. QED
      BY <2>2, <3>4, <3>6 DEF TypeInv
  <2>5. CASE SkipPage
    <3>1. UNCHANGED <<loaded, read, dict>> /\ ~loaded
      BY <2>5 DEF SkipPage, LoadNext, Loading
    <3>2. TypeOK'
      BY <2>1, <2>2, <3>1 DEF TypeInv, TypeOK
    <3>3. QED
      BY <2>2, <3>1, <3>2 DEF TypeInv
  <2>6. QED
    BY <1>5, <2>3, <2>4, <2>5
<1>6. CASE LoadFails
  <2>1. /\ next' \in 1..(Len(chunk.pages) + 1) /\ ~loaded
        /\ want' = 0 /\ failed' = TRUE
        /\ UNCHANGED <<chunk, eof, loaded, read, dict, given, ended>>
    BY <1>1, <1>6 DEF LoadFails, Loading, Fails
  <2>2. want' \in 0..MaxBatch
    BY <1>1, <2>1
  <2>3. TypeOK'
    BY <2>1, <2>2 DEF TypeInv, TypeOK
  <2>4. QED
    BY <2>1, <2>3 DEF TypeInv
<1>7. CASE PageUsedUp
  <2>1. /\ loaded' = FALSE
        /\ UNCHANGED <<chunk, next, eof, read, dict, want, given, ended,
                       failed>>
    BY <1>7 DEF PageUsedUp
  <2>2. TypeOK'
    BY <2>1 DEF TypeInv, TypeOK
  <2>3. QED
    BY <2>1, <2>2 DEF TypeInv
<1>8. CASE ReturnBatch
  <2>1. /\ DefBatch \in Seq(Nat) /\ RepBatch \in Seq(Nat)
        /\ Decoded \in Seq(Nat)
        /\ read.levels + Len(DefBatch) \in 0..Len(Current.defs)
        /\ read.vals + Len(Stored) \in 0..Len(Current.vals)
    BY <1>8, BatchGives
  <2>2. /\ UNCHANGED <<chunk, next, eof, loaded, dict, ended, failed>>
        /\ want' = 0
    BY <1>8 DEF ReturnBatch
  <2>3. Current' = Current
    BY <2>2 DEF Current
  <2>4. /\ read'.levels \in 0..Len(Current'.defs)
        /\ read'.vals \in 0..Len(Current'.vals)
    BY <1>8, <2>1, <2>3 DEF ReturnBatch
  <2>5. given' \in Given /\ given'.top = given.top
    <3>1. PICK d, r, v : /\ d = given.defs \o DefBatch
                         /\ r = given.reps \o RepBatch
                         /\ v = given.vals \o Decoded
      OBVIOUS
    <3>2. given \in Given
      BY DEF TypeInv
    <3>3. given' = [given EXCEPT !.defs = d, !.reps = r, !.vals = v]
      BY <1>8, <3>1 DEF ReturnBatch
    <3>4. d \in Seq(Nat) /\ r \in Seq(Nat) /\ v \in Seq(Nat)
      BY <2>1, <3>1, <3>2, ConcatProperties DEF Given
    <3>5. QED
      BY <3>2, <3>3, <3>4 DEF Given
  <2>6. want' \in 0..MaxBatch
    BY <1>1, <2>2
  <2>7. TypeOK'
    <3>1. /\ given'.defs \in Seq(Nat) /\ given'.reps \in Seq(Nat)
          /\ given'.vals \in Seq(Nat)
      BY <2>5 DEF Given
    <3>2. QED
      BY <2>2, <2>4, <2>6, <3>1 DEF TypeInv, TypeOK
  <2>8. QED
    BY <2>2, <2>3, <2>5, <2>7 DEF TypeInv
<1>9. CASE BatchFails
  <2>1. /\ UNCHANGED <<chunk, next, eof, loaded, read, dict, given, ended>>
        /\ want' = 0 /\ failed' = TRUE
    BY <1>9 DEF BatchFails, Fails
  <2>2. Current' = Current /\ want' \in 0..MaxBatch
    BY <1>1, <2>1 DEF Current
  <2>3. TypeOK'
    BY <2>1, <2>2 DEF TypeInv, TypeOK
  <2>4. QED
    BY <2>1, <2>2, <2>3 DEF TypeInv
<1>10. QED
  BY <1>2, <1>3, <1>4, <1>5, <1>6, <1>7, <1>8, <1>9
     DEF Next, Proceed, LoadData, LoadDictionary, SkipPage

LEMMA TypeStep == TypeInv /\ [Next]_vars => TypeInv'
<1>1. ASSUME TypeInv, UNCHANGED vars PROVE TypeInv'
  BY <1>1 DEF TypeInv, TypeOK, vars, Current
<1>2. QED
  BY <1>1, TypeNext

(* What the reader keeps of a page is in it, the indices of a page that is *)
(* loaded have a dictionary, and there is one dictionary at most.          *)
THEOREM ReaderTypeCorrect == Spec => []TypeOK
<1>1. TypeInv => TypeOK
  BY DEF TypeInv
<1>2. Init => TypeInv
  BY TypeInit
<1>3. QED
  BY <1>1, <1>2, TypeStep, PTL DEF Spec

-----------------------------------------------------------------------------
(* Where the reader is in its chunk.                                       *)

Whole == IF loaded THEN next - 2 ELSE next - 1

Behind ==
    /\ dict = DictAt(chunk, next)
    /\ \A k \in 1..Whole : PageSound(chunk, k)
    /\ eof => next = Len(chunk.pages) + 1 /\ ~loaded
    /\ loaded => /\ PageLoads(chunk, next - 1)
                 /\ read.levels <= Readable(chunk, next - 1)
                 /\ read.vals = Nth(chunk, next - 1, read.levels)
    /\ given = GivenAt(chunk, Whole, IF loaded THEN read.levels ELSE 0)

ReaderInv ==
    /\ TypeInv
    /\ ~failed => Behind
    /\ ended => eof

LEMMA CoveredLess ==
    ASSUME NEW c \in Chunk, NEW k \in 1..Len(c.pages), NEW n \in Nat,
           NEW m \in 0..n, Covered(c, k, n)
    PROVE  Covered(c, k, m)
<1>1. PICK page, t : page = c.pages[k] /\ t = c.top
  OBVIOUS
<1>2. /\ Tally(page.defs, m, t) \in Nat /\ Tally(page.defs, n, t) \in Nat
      /\ Tally(page.defs, m, t) <= Tally(page.defs, n, t)
  BY TallyGrows
<1>3. /\ n <= Len(page.defs) /\ n <= Len(page.reps)
      /\ \A i \in 1..n : page.defs[i] <= t /\ page.reps[i] <= c.deepest
      /\ \A i \in 1..Tally(page.defs, n, t) : ValueThere(c, k, i)
  BY <1>1 DEF Covered
<1>4. Len(page.defs) \in Nat /\ Len(page.reps) \in Nat
  BY <1>1, PageFacts
<1>5. /\ m <= Len(page.defs) /\ m <= Len(page.reps)
      /\ \A i \in 1..m : i \in 1..n
  BY <1>3, <1>4
<1>6. \A i \in 1..Tally(page.defs, m, t) : i \in 1..Tally(page.defs, n, t)
  BY <1>2
<1>7. /\ \A i \in 1..m : page.defs[i] <= t /\ page.reps[i] <= c.deepest
      /\ \A i \in 1..Tally(page.defs, m, t) : ValueThere(c, k, i)
  BY <1>3, <1>5, <1>6
<1>8. QED
  BY <1>1, <1>5, <1>7 DEF Covered

LEMMA FrontGrows ==
    ASSUME NEW a \in Seq(Nat), NEW s \in Seq(Nat), NEW m \in Nat,
           NEW n \in m..Len(s)
    PROVE  (a \o SubSeq(s, 1, m)) \o SubSeq(s, m + 1, n) =
              a \o SubSeq(s, 1, n)
<1>1. Len(s) \in Nat /\ m \in 0..Len(s) /\ n \in Nat
  BY LenProperties
<1>2. PICK f, g : f = SubSeq(s, 1, m) /\ g = SubSeq(s, m + 1, n)
  OBVIOUS
<1>3. f \in Seq(Nat)
  BY <1>1, <1>2, FrontType
<1>4. g \in Seq(Nat)
  <2>1. ASSUME NEW i \in (m + 1)..n PROVE i \in 1..Len(s)
    BY <1>1
  <2>2. \A i \in (m + 1)..n : s[i] \in Nat
    BY <2>1, ElementOfSeq
  <2>3. m + 1 \in Int /\ n \in Int
    BY <1>1
  <2>4. QED
    BY <1>2, <2>2, <2>3, SubSeqProperties
<1>5. f \o g = SubSeq(s, 1, n)
  <2>1. 1 \in 1..(Len(s) + 1) /\ m \in (1 - 1)..Len(s)
    BY <1>1
  <2>2. QED
    BY <1>1, <1>2, <2>1, ConcatAdjacentSubSeq
<1>6. a \o (f \o g) = (a \o f) \o g
  BY <1>3, <1>4, ConcatNext
<1>7. QED
  BY <1>2, <1>5, <1>6

(* The page that is loaded, and the batch that is read of it.              *)
LEMMA ReadingFacts ==
    ASSUME ReaderInv, Reading,
           NEW m, m = read.levels, NEW v, v = read.vals,
           NEW d, d = Len(DefBatch)
    PROVE  /\ chunk \in Chunk /\ next - 1 \in 1..Len(chunk.pages)
           /\ want \in 1..MaxBatch /\ MaxBatch \in Nat
           /\ ~failed /\ Behind /\ ~ended
           /\ Current = chunk.pages[next - 1] /\ Current.kind = "data"
           /\ m \in 0..Len(Current.defs) /\ m \in 0..Len(Current.reps)
           /\ v \in 0..Len(Current.vals)
           /\ v = Tally(Current.defs, m, chunk.top)
           /\ Covered(chunk, next - 1, m)
           /\ d \in 0..want /\ m + d \in 0..Len(Current.defs)
           /\ DOMAIN DefBatch = 1..d
           /\ \A i \in 1..d : DefBatch[i] = Current.defs[m + i]
           /\ ValuesToRead = Tally(DefBatch, d, chunk.top)
           /\ ValuesToRead \in Nat
           /\ Tally(Current.defs, m + d, chunk.top) = v + ValuesToRead
<1>1. /\ want \in 0..MaxBatch /\ want > 0 /\ chunk \in Chunks
      /\ next \in 1..(Len(chunk.pages) + 1) /\ next > 1
      /\ m \in 0..Len(Current.defs) /\ v \in 0..Len(Current.vals)
      /\ Current.kind = "data" /\ loaded /\ ~eof
  BY DEF ReaderInv, TypeInv, TypeOK, Reading
<1>2. Len(chunk.pages) \in Nat /\ MaxBatch \in Nat /\ chunk \in Chunk
  BY <1>1, ChunkFacts
<1>3. next - 1 \in 1..Len(chunk.pages) /\ want \in 1..MaxBatch
      /\ want \in Nat
  BY <1>1, <1>2
<1>4. ~failed /\ Behind /\ ~ended
  BY <1>1 DEF ReaderInv, TypeInv
<1>5. PICK page, k : k = next - 1 /\ page = chunk.pages[k]
  OBVIOUS
<1>6. page = Current
  BY <1>5 DEF Current
<1>7. /\ page.defs \in Seq(Nat) /\ Len(page.defs) \in Nat
      /\ page.reps \in Seq(Nat) /\ Len(page.reps) \in Nat
      /\ k \in 1..Len(chunk.pages)
  BY <1>2, <1>3, <1>5, PageFacts
<1>8. m <= Readable(chunk, k) /\ v = Nth(chunk, k, m) /\ PageLoads(chunk, k)
  BY <1>1, <1>4, <1>5 DEF Behind
<1>9. /\ Readable(chunk, k) \in 0..Len(page.defs)
      /\ Covered(chunk, k, Readable(chunk, k))
      /\ Readable(chunk, k) <= Len(page.reps)
  BY <1>1, <1>2, <1>5, <1>6, <1>7, <1>8, ReadableCovers, ReadableType
<1>10. m \in Nat /\ m \in 0..Len(page.reps) /\ m \in 0..Readable(chunk, k)
       /\ Readable(chunk, k) \in Nat
  BY <1>1, <1>6, <1>7, <1>8, <1>9
<1>11. Covered(chunk, k, m)
  BY <1>2, <1>7, <1>9, <1>10, CoveredLess
<1>12. DefBatch = Batch(page.defs, m, want)
  BY <1>6 DEF DefBatch
<1>13. /\ d \in 0..want /\ m + d \in 0..Len(page.defs)
       /\ \A i \in 1..d : DefBatch[i] = page.defs[m + i]
  <2>1. /\ page.defs \in Seq(Nat) /\ m \in 0..Len(page.defs)
        /\ want \in Nat
    BY <1>1, <1>3, <1>6, <1>7
  <2>2. PICK b : b = Batch(page.defs, m, want)
    OBVIOUS
  <2>3. /\ Len(b) \in 0..want /\ m + Len(b) \in 0..Len(page.defs)
        /\ \A i \in 1..Len(b) : b[i] = page.defs[m + i]
    BY <2>1, <2>2, BatchFacts
  <2>4. b = DefBatch /\ d = Len(b)
    BY <1>12, <2>2
  <2>5. QED
    BY <2>3, <2>4
<1>14. DOMAIN DefBatch = 1..d
  BY <1>3, <1>7, <1>10, <1>12, BatchType
<1>15. ValuesToRead = Tally(DefBatch, d, chunk.top)
  BY <1>14 DEF ValuesToRead, Tally
<1>16. d \in Nat
  BY <1>3, <1>13
<1>17. Tally(DefBatch, d, chunk.top) \in Nat
  <2>1. Tally(DefBatch, d, chunk.top) \in 0..d
    BY <1>16, TallyStep
  <2>2. QED
    BY <1>16, <2>1
<1>18. v = Tally(page.defs, m, chunk.top)
  BY <1>5, <1>8, NthIsTally
<1>19. Tally(page.defs, m + d, chunk.top) =
          Tally(page.defs, m, chunk.top) + Tally(DefBatch, d, chunk.top)
  <2>1. page.defs \in Seq(Nat) /\ m \in 0..Len(page.defs) /\ want \in Nat
    BY <1>1, <1>3, <1>6, <1>7
  <2>2. PICK b, x : b = Batch(page.defs, m, want) /\ x = chunk.top
    OBVIOUS
  <2>3. Tally(page.defs, m + Len(b), x) =
           Tally(page.defs, m, x) + Tally(b, Len(b), x)
    BY <2>1, <2>2, BatchTally
  <2>4. b = DefBatch /\ d = Len(b)
    BY <1>12, <2>2
  <2>5. QED
    BY <2>2, <2>3, <2>4
<1>20. QED
  BY <1>1, <1>2, <1>3, <1>4, <1>5, <1>6, <1>10, <1>11, <1>13, <1>14,
     <1>15, <1>17, <1>18, <1>19

(* A batch that is right is one of triplets that can be read.              *)
LEMMA BatchReadable ==
    ASSUME IndicesClear, ReaderInv, ReturnBatch
    PROVE  /\ read.levels + Len(DefBatch) <= Readable(chunk, next - 1)
           /\ read.vals + Len(Stored) =
                 Nth(chunk, next - 1, read.levels + Len(DefBatch))
           /\ given' = GivenAt(chunk, next - 2,
                               read.levels + Len(DefBatch))
<1>1. Reading /\ BatchRight
  BY DEF ReturnBatch
<1>2. PICK m, v, d : m = read.levels /\ v = read.vals /\ d = Len(DefBatch)
  OBVIOUS
<1>3. PICK page, k, c : k = next - 1 /\ page = Current /\ c = chunk
  OBVIOUS
<1>4. /\ c \in Chunk /\ k \in 1..Len(c.pages)
      /\ want \in 1..MaxBatch /\ MaxBatch \in Nat
      /\ page = c.pages[k] /\ page.kind = "data"
      /\ m \in 0..Len(page.defs) /\ m \in 0..Len(page.reps)
      /\ v \in 0..Len(page.vals)
      /\ v = Tally(page.defs, m, c.top)
      /\ Covered(c, k, m)
      /\ d \in 0..want /\ m + d \in 0..Len(page.defs)
      /\ DOMAIN DefBatch = 1..d
      /\ \A i \in 1..d : DefBatch[i] = page.defs[m + i]
      /\ ValuesToRead \in Nat
      /\ Tally(page.defs, m + d, c.top) = v + ValuesToRead
  <2>1. /\ chunk \in Chunk /\ next - 1 \in 1..Len(chunk.pages)
        /\ want \in 1..MaxBatch /\ MaxBatch \in Nat
        /\ Current = chunk.pages[next - 1] /\ Current.kind = "data"
        /\ m \in 0..Len(Current.defs) /\ m \in 0..Len(Current.reps)
        /\ v \in 0..Len(Current.vals)
        /\ v = Tally(Current.defs, m, chunk.top)
        /\ Covered(chunk, next - 1, m)
        /\ d \in 0..want /\ m + d \in 0..Len(Current.defs)
        /\ DOMAIN DefBatch = 1..d
        /\ \A i \in 1..d : DefBatch[i] = Current.defs[m + i]
        /\ ValuesToRead \in Nat
        /\ Tally(Current.defs, m + d, chunk.top) = v + ValuesToRead
    BY <1>1, <1>2, ReadingFacts, ZenonT(30)
  <2>2. QED
    BY <1>3, <2>1, Zenon
<1>5. Behind
  BY <1>1, <1>2, ReadingFacts, Zenon
<1>6. /\ page.defs \in Seq(Nat) /\ Len(page.defs) \in Nat
      /\ page.reps \in Seq(Nat) /\ Len(page.reps) \in Nat
      /\ page.vals \in Seq(Nat) /\ Len(page.vals) \in Nat
  BY <1>4, PageFacts
<1>7. /\ m \in Nat /\ v \in Nat /\ d \in Nat /\ m + d \in Nat
      /\ want \in Nat
  BY <1>4, <1>6
<1>8. /\ DefBatch = Batch(page.defs, m, want)
      /\ RepBatch = Batch(page.reps, m, want)
      /\ Stored = Batch(page.vals, v, ValuesToRead)
  BY <1>2, <1>3 DEF DefBatch, RepBatch, Stored
<1>9. /\ d = Len(RepBatch)
      /\ \A i \in 1..d : DefBatch[i] <= c.top /\ RepBatch[i] <= c.deepest
  BY <1>1, <1>2, <1>3, <1>4 DEF BatchRight, LevelsRight
<1>10. DefBatch = SubSeq(page.defs, m + 1, m + d)
  <2>1. m \in 0..Len(page.defs)
    BY <1>4
  <2>2. PICK b : b = Batch(page.defs, m, want)
    OBVIOUS
  <2>3. b = SubSeq(page.defs, m + 1, m + Len(b))
    BY <1>6, <1>7, <2>1, <2>2, BatchFacts
  <2>4. b = DefBatch /\ d = Len(b)
    BY <1>2, <1>8, <2>2
  <2>5. QED
    BY <2>3, <2>4
<1>11. /\ m + d \in 0..Len(page.reps)
       /\ \A i \in 1..d : RepBatch[i] = page.reps[m + i]
       /\ RepBatch = SubSeq(page.reps, m + 1, m + d)
  <2>1. m \in 0..Len(page.reps)
    BY <1>4
  <2>2. PICK b : b = Batch(page.reps, m, want)
    OBVIOUS
  <2>3. /\ m + Len(b) \in 0..Len(page.reps)
        /\ \A i \in 1..Len(b) : b[i] = page.reps[m + i]
        /\ b = SubSeq(page.reps, m + 1, m + Len(b))
    <3>1. page.reps \in Seq(Nat) /\ want \in Nat
      BY <1>6, <1>7
    <3>2. QED
      BY <2>1, <2>2, <3>1, BatchFacts
  <2>4. b = RepBatch /\ d = Len(b)
    BY <1>8, <1>9, <2>2
  <2>5. QED
    BY <2>3, <2>4
<1>12. PICK n : n = ValuesToRead
  OBVIOUS
<1>13. /\ Len(Stored) = n /\ n \in Nat
  BY <1>1, <1>4, <1>12 DEF BatchRight
<1>14. /\ v + n \in 0..Len(page.vals)
       /\ \A i \in 1..n : Stored[i] = page.vals[v + i]
  <2>1. v \in 0..Len(page.vals)
    BY <1>4
  <2>2. PICK b : b = Batch(page.vals, v, n)
    OBVIOUS
  <2>3. /\ v + Len(b) \in 0..Len(page.vals)
        /\ \A i \in 1..Len(b) : b[i] = page.vals[v + i]
    BY <1>6, <1>13, <2>1, <2>2, BatchFacts
  <2>4. b = Stored /\ n = Len(b)
    BY <1>8, <1>12, <1>13, <2>2
  <2>5. QED
    BY <2>3, <2>4
<1>15. DOMAIN Stored = 1..n
  BY <1>6, <1>7, <1>8, <1>12, <1>13, BatchType
<1>16. PICK dic : dic = Dictionary(c, k)
  OBVIOUS
<1>17. ASSUME page.coding = "indices"
       PROVE  /\ dic = dict[1] /\ dic \in Seq(Nat) /\ Len(dic) \in Nat
              /\ \A i \in 1..n : Stored[i] \in Nat /\ Stored[i] < Len(dic)
  <2>1. DictPages(c, k) # {}
    BY <1>1, <1>3, <1>4, <1>5, <1>17 DEF Behind, Reading, PageLoads
  <2>2. dict[1] = dic
    <3>1. DictAt(c, k + 1) = DictAt(c, k)
      <4>1. k \in Nat \ {0} /\ c.pages[k].kind # "dictionary"
        BY <1>4
      <4>2. QED
        BY <4>1, DictNext
    <3>2. k + 1 = next
      BY <1>3, <1>1 DEF ReaderInv, TypeInv, TypeOK
    <3>3. dict = <<dic>>
      BY <1>3, <1>5, <1>16, <2>1, <3>1, <3>2 DEF Behind, DictAt
    <3>4. QED
      BY <3>3
  <2>3. dic \in Seq(Nat)
    <3>1. \A i \in 1..(k - 1) : PageLoads(c, i)
      <4>1. k - 1 = Whole
        BY <1>1, <1>3 DEF Whole, Reading, ReaderInv, TypeInv, TypeOK
      <4>2. QED
        BY <1>3, <1>5, <4>1 DEF Behind, PageSound
    <3>2. k \in 1..(Len(c.pages) + 1)
      BY <1>4
    <3>3. QED
      BY <1>4, <1>16, <2>1, <3>1, <3>2, DictionaryType
  <2>4. Len(dic) \in Nat
    BY <2>3, LenProperties
  <2>5. ASSUME NEW i \in 1..n
        PROVE  Stored[i] \in Nat /\ Stored[i] < Len(dic)
    <3>1. v + i \in 1..Len(page.vals) /\ Stored[i] = page.vals[v + i]
      BY <1>6, <1>7, <1>13, <1>14
    <3>2. page.vals[v + i] \in Nat
      BY <1>6, <3>1, ElementOfSeq
    <3>3. Stored[i] <= Len(dic)
      BY <1>1, <1>3, <1>15, <1>17, <2>2 DEF BatchRight, IndicesRight
    <3>4. page.vals[v + i] # Len(dic)
      <4>1. c \in Chunks
        BY <1>3 DEF ReaderInv, TypeInv
      <4>2. k \in DOMAIN c.pages
        BY <1>4, PageFacts
      <4>3. v + i \in DOMAIN page.vals
        BY <1>6, <3>1, LenProperties
      <4>4. \A j \in DOMAIN page.vals :
               page.vals[j] # Len(Dictionary(c, k))
        BY <1>4, <1>17, <2>1, <4>1, <4>2 DEF IndicesClear
      <4>5. QED
        BY <1>16, <4>3, <4>4
    <3>5. QED
      BY <2>4, <3>1, <3>2, <3>3, <3>4
  <2>6. QED
    BY <2>2, <2>3, <2>4, <2>5
<1>18. Covered(c, k, m + d)
  <2>1. m + d <= Len(page.defs) /\ m + d <= Len(page.reps)
    BY <1>4, <1>6, <1>11
  <2>2. ASSUME NEW i \in 1..(m + d)
        PROVE  page.defs[i] <= c.top /\ page.reps[i] <= c.deepest
    <3>1. CASE i <= m
      <4>1. i \in 1..m
        BY <1>7, <3>1
      <4>2. QED
        BY <1>4, <4>1 DEF Covered
    <3>2. CASE ~(i <= m)
      <4>1. PICK j : j = i - m
        OBVIOUS
      <4>2. j \in 1..d /\ m + j = i
        BY <1>7, <3>2, <4>1
      <4>3. QED
        BY <1>4, <1>9, <1>11, <4>2
    <3>3. QED
      BY <3>1, <3>2
  <2>3. ASSUME NEW i \in 1..Tally(page.defs, m + d, c.top)
        PROVE  ValueThere(c, k, i)
    <3>1. i \in 1..(v + n)
      BY <1>4, <1>12
    <3>2. CASE i <= v
      <4>1. i \in 1..Tally(page.defs, m, c.top)
        BY <1>4, <1>7, <3>1, <3>2
      <4>2. QED
        BY <1>4, <4>1 DEF Covered
    <3>3. CASE ~(i <= v)
      <4>1. PICK j : j = i - v
        OBVIOUS
      <4>2. j \in 1..n /\ v + j = i
        BY <1>7, <1>13, <3>1, <3>3, <4>1
      <4>3. i <= Len(page.vals)
        BY <1>6, <1>7, <1>13, <1>14, <3>1
      <4>4. Stored[j] = page.vals[i]
        BY <1>14, <4>2
      <4>5. page.coding = "indices" => page.vals[i] < Len(dic)
        BY <1>17, <4>2, <4>4
      <4>6. QED
        BY <1>4, <1>16, <4>3, <4>5 DEF ValueThere
    <3>4. QED
      BY <3>2, <3>3
  <2>4. QED
    BY <1>4, <2>1, <2>2, <2>3 DEF Covered
<1>19. PageLoads(c, k)
  BY <1>1, <1>3, <1>5 DEF Behind, Reading
<1>20. PICK r : r = Readable(c, k)
  OBVIOUS
<1>21. r \in Nat /\ m + d <= r /\ r <= Len(page.defs) /\ r <= Len(page.reps)
  BY <1>4, <1>7, <1>18, <1>19, <1>20, ReadableCovers, ReadableType
<1>22. v = Nth(c, k, m) /\ v + n = Nth(c, k, m + d)
  BY <1>4, <1>12, NthIsTally
<1>23. /\ PageValues(c, k) \in Seq(Nat)
       /\ Len(PageValues(c, k)) = Nth(c, k, r) /\ Nth(c, k, r) \in Nat
       /\ Nth(c, k, m + d) <= Nth(c, k, r)
  <2>1. k \in 1..LastPage(c)
    <3>1. k - 1 = Whole /\ k - 1 \in 0..Len(c.pages)
      BY <1>1, <1>3, <1>4 DEF Whole, Reading, ReaderInv, TypeInv, TypeOK
    <3>2. \A i \in 1..(k - 1) : PageSound(c, i)
      BY <1>3, <1>5, <3>1 DEF Behind
    <3>3. k - 1 < Len(c.pages) /\ (k - 1) + 1 = k
      BY <1>4
    <3>4. QED
      BY <1>4, <3>1, <3>2, <3>3, ReachedNext
  <2>2. /\ PageValues(c, k) \in Seq(Nat)
        /\ Len(PageValues(c, k)) = Nth(c, k, r) /\ Nth(c, k, r) \in Nat
    BY <1>4, <1>20, <2>1, PageValuesType
  <2>3. m + d \in 0..r
    BY <1>7, <1>21
  <2>4. Tally(page.defs, m + d, c.top) <= Tally(page.defs, r, c.top)
    BY <1>21, <2>3, TallyGrows
  <2>5. QED
    BY <1>4, <2>2, <2>4, NthIsTally
<1>24. Decoded = SubSeq(PageValues(c, k), v + 1, v + n)
  <2>1. PICK vals, f, g : /\ vals = PageValues(c, k) /\ f = Decoded
                          /\ g = SubSeq(vals, v + 1, v + n)
    OBVIOUS
  <2>2. vals \in Seq(Nat) /\ v + n <= Len(vals) /\ Len(vals) \in Nat
    BY <1>22, <1>23, <2>1
  <2>3. /\ g \in Seq(Nat) /\ Len(g) = n
        /\ \A i \in 1..n : g[i] = vals[v + i]
    <3>1. \A i \in (v + 1)..(v + n) : vals[i] \in Nat
      <4>1. ASSUME NEW i \in (v + 1)..(v + n) PROVE i \in 1..Len(vals)
        BY <1>7, <1>13, <2>2
      <4>2. QED
        BY <2>2, <4>1, ElementOfSeq
    <3>2. /\ g \in Seq(Nat)
          /\ Len(g) = IF v + 1 <= v + n THEN (v + n) - (v + 1) + 1 ELSE 0
          /\ \A i \in 1..((v + n) - (v + 1) + 1) :
                g[i] = vals[(v + 1) + i - 1]
      <4>1. v + 1 \in Int /\ v + n \in Int
        BY <1>7, <1>13
      <4>2. QED
        BY <2>1, <3>1, <4>1, SubSeqProperties
    <3>3. Len(g) = n
      BY <1>7, <1>13, <3>2
    <3>4. ASSUME NEW i \in 1..n PROVE g[i] = vals[v + i]
      <4>1. i \in 1..((v + n) - (v + 1) + 1) /\ (v + 1) + i - 1 = v + i
        BY <1>7, <1>13
      <4>2. QED
        BY <3>2, <4>1
    <3>5. QED
      BY <3>2, <3>3, <3>4
  <2>4. f \in Seq(Nat) /\ Len(f) = n
    <3>1. f \in Seq(Nat)
      BY <2>1, BatchGives DEF ReaderInv
    <3>2. DOMAIN f = 1..n
      BY <1>15, <2>1 DEF Decoded
    <3>3. QED
      BY <1>13, <3>1, <3>2, LenProperties
  <2>5. ASSUME NEW i \in 1..n PROVE f[i] = g[i]
    <3>1. PICK j : j = v + i
      OBVIOUS
    <3>2. j \in 1..Nth(c, k, r)
      BY <1>7, <1>13, <1>22, <1>23, <3>1
    <3>3. Stored[i] = page.vals[j]
      BY <1>14, <3>1
    <3>4. vals[j] = IF page.coding = "indices"
                    THEN dic[page.vals[j] + 1] ELSE page.vals[j]
      BY <1>4, <1>16, <1>20, <2>1, <3>2 DEF PageValues
    <3>5. f[i] = IF page.coding = "indices"
                 THEN Append(dict[1], Beyond)[Stored[i] + 1] ELSE Stored[i]
      BY <1>3, <1>15, <2>1 DEF Decoded
    <3>6. ASSUME page.coding = "indices"
          PROVE  Append(dict[1], Beyond)[Stored[i] + 1] = dic[Stored[i] + 1]
      <4>1. /\ dic = dict[1] /\ dic \in Seq(Nat) /\ Len(dic) \in Nat
            /\ Stored[i] \in Nat /\ Stored[i] < Len(dic)
        BY <1>17, <3>6
      <4>2. Stored[i] + 1 \in 1..Len(dic)
        BY <4>1
      <4>3. Append(dic, Beyond)[Stored[i] + 1] = dic[Stored[i] + 1]
        BY <4>1, <4>2, ChunksAssumption, AppendProperties
      <4>4. QED
        BY <4>1, <4>3
    <3>7. f[i] = vals[j]
      BY <3>3, <3>4, <3>5, <3>6
    <3>8. QED
      BY <2>3, <3>1, <3>7
  <2>6. f = g
    BY <2>3, <2>4, <2>5, SeqEqual
  <2>7. QED
    BY <2>1, <2>6
<1>25. given' = GivenAt(c, k - 1, m + d)
  <2>1. PICK D, R, V : /\ D = Joined(DefParts(c), k - 1)
                       /\ R = Joined(RepParts(c), k - 1)
                       /\ V = Joined(ValParts(c), k - 1)
    OBVIOUS
  <2>2. PICK vals : vals = PageValues(c, k)
    OBVIOUS
  <2>3. (k - 1) + 1 = k
    BY <1>4
  <2>4. given = [top  |-> c.top,
                 defs |-> D \o SubSeq(page.defs, 1, m),
                 reps |-> R \o SubSeq(page.reps, 1, m),
                 vals |-> V \o SubSeq(vals, 1, v)]
    <3>1. Whole = k - 1 /\ loaded
      BY <1>1, <1>3 DEF Whole, Reading, ReaderInv, TypeInv, TypeOK
    <3>2. given = GivenAt(c, k - 1, m)
      BY <1>2, <1>3, <1>5, <3>1 DEF Behind
    <3>3. QED
      BY <1>4, <1>22, <2>1, <2>2, <2>3, <3>2 DEF GivenAt
  <2>5. GivenAt(c, k - 1, m + d) =
           [top  |-> c.top,
            defs |-> D \o SubSeq(page.defs, 1, m + d),
            reps |-> R \o SubSeq(page.reps, 1, m + d),
            vals |-> V \o SubSeq(vals, 1, v + n)]
    BY <1>4, <1>22, <2>1, <2>2, <2>3 DEF GivenAt
  <2>6. D \in Seq(Nat) /\ R \in Seq(Nat) /\ V \in Seq(Nat)
    <3>1. k - 1 \in 0..LastPage(c)
      <4>1. Whole = k - 1 /\ k - 1 \in 0..Len(c.pages)
        <5>1. loaded /\ TypeOK /\ chunk = c /\ next - 1 = k
          BY <1>1, <1>3 DEF Reading, ReaderInv, TypeInv
        <5>2. next \in 1..(Len(c.pages) + 1) /\ next > 1
          BY <5>1 DEF TypeOK
        <5>3. Len(c.pages) \in Nat
          BY <1>4, LenProperties
        <5>4. next - 2 = k - 1 /\ k - 1 \in 0..Len(c.pages)
          BY <5>1, <5>2, <5>3
        <5>5. QED
          BY <5>1, <5>4 DEF Whole
      <4>2. \A i \in 1..(k - 1) : PageSound(c, i)
        BY <1>3, <1>5, <4>1 DEF Behind
      <4>3. QED
        BY <1>4, <4>1, <4>2, ReachedNext
    <3>2. QED
      BY <1>4, <2>1, <3>1, GivenBetween
  <2>7. (D \o SubSeq(page.defs, 1, m)) \o DefBatch =
           D \o SubSeq(page.defs, 1, m + d)
    <3>1. PICK to : to = m + d
      OBVIOUS
    <3>2. to \in m..Len(page.defs)
      BY <1>4, <1>6, <1>7, <3>1
    <3>3. (D \o SubSeq(page.defs, 1, m)) \o SubSeq(page.defs, m + 1, to) =
             D \o SubSeq(page.defs, 1, to)
      <4>1. page.defs \in Seq(Nat) /\ m \in Nat /\ D \in Seq(Nat)
        BY <1>6, <1>7, <2>6
      <4>2. QED
        BY <3>2, <4>1, FrontGrows
    <3>4. QED
      BY <1>10, <3>1, <3>3
  <2>8. (R \o SubSeq(page.reps, 1, m)) \o RepBatch =
           R \o SubSeq(page.reps, 1, m + d)
    <3>1. PICK to : to = m + d
      OBVIOUS
    <3>2. to \in m..Len(page.reps)
      BY <1>6, <1>7, <1>11, <3>1
    <3>3. (R \o SubSeq(page.reps, 1, m)) \o SubSeq(page.reps, m + 1, to) =
             R \o SubSeq(page.reps, 1, to)
      <4>1. page.reps \in Seq(Nat) /\ m \in Nat /\ R \in Seq(Nat)
        BY <1>6, <1>7, <2>6
      <4>2. QED
        BY <3>2, <4>1, FrontGrows
    <3>4. QED
      BY <1>11, <3>1, <3>3
  <2>9. (V \o SubSeq(vals, 1, v)) \o Decoded = V \o SubSeq(vals, 1, v + n)
    <3>1. vals \in Seq(Nat) /\ v + n <= Len(vals) /\ Len(vals) \in Nat
      BY <1>22, <1>23, <2>2
    <3>2. PICK to : to = v + n
      OBVIOUS
    <3>3. to \in v..Len(vals)
      BY <1>7, <1>13, <3>1, <3>2
    <3>4. (V \o SubSeq(vals, 1, v)) \o SubSeq(vals, v + 1, to) =
             V \o SubSeq(vals, 1, to)
      BY <1>7, <2>6, <3>1, <3>3, FrontGrows
    <3>5. QED
      BY <1>24, <2>2, <3>2, <3>4
  <2>10. given' = [given EXCEPT !.defs = @ \o DefBatch,
                                !.reps = @ \o RepBatch,
                                !.vals = @ \o Decoded]
    BY DEF ReturnBatch
  <2>11. given' = [top  |-> c.top,
                   defs |-> (D \o SubSeq(page.defs, 1, m)) \o DefBatch,
                   reps |-> (R \o SubSeq(page.reps, 1, m)) \o RepBatch,
                   vals |-> (V \o SubSeq(vals, 1, v)) \o Decoded]
    BY <2>4, <2>10
  <2>12. QED
    BY <2>5, <2>7, <2>8, <2>9, <2>11
<1>26. k - 1 = next - 2
  BY <1>3 DEF ReaderInv, TypeInv, TypeOK
<1>27. QED
  BY <1>2, <1>3, <1>13, <1>20, <1>21, <1>22, <1>25, <1>26

(* A batch of a page that is sound is right.                               *)
LEMMA SoundBatchRight ==
    ASSUME ReaderInv, Reading, PageSound(chunk, next - 1)
    PROVE  BatchRight
<1>1. PICK m, v, d : m = read.levels /\ v = read.vals /\ d = Len(DefBatch)
  OBVIOUS
<1>2. PICK page, k, c : k = next - 1 /\ page = Current /\ c = chunk
  OBVIOUS
<1>3. /\ c \in Chunk /\ k \in 1..Len(c.pages)
      /\ want \in 1..MaxBatch /\ MaxBatch \in Nat
      /\ page = c.pages[k] /\ page.kind = "data"
      /\ m \in 0..Len(page.defs) /\ m \in 0..Len(page.reps)
      /\ v \in 0..Len(page.vals)
      /\ v = Tally(page.defs, m, c.top)
      /\ d \in 0..want /\ m + d \in 0..Len(page.defs)
      /\ DOMAIN DefBatch = 1..d
      /\ \A i \in 1..d : DefBatch[i] = page.defs[m + i]
      /\ ValuesToRead \in Nat
      /\ Tally(page.defs, m + d, c.top) = v + ValuesToRead
  <2>1. /\ chunk \in Chunk /\ next - 1 \in 1..Len(chunk.pages)
        /\ want \in 1..MaxBatch /\ MaxBatch \in Nat
        /\ Current = chunk.pages[next - 1] /\ Current.kind = "data"
        /\ m \in 0..Len(Current.defs) /\ m \in 0..Len(Current.reps)
        /\ v \in 0..Len(Current.vals)
        /\ v = Tally(Current.defs, m, chunk.top)
        /\ d \in 0..want /\ m + d \in 0..Len(Current.defs)
        /\ DOMAIN DefBatch = 1..d
        /\ \A i \in 1..d : DefBatch[i] = Current.defs[m + i]
        /\ ValuesToRead \in Nat
        /\ Tally(Current.defs, m + d, chunk.top) = v + ValuesToRead
    BY <1>1, ReadingFacts, ZenonT(30)
  <2>2. QED
    BY <1>2, <2>1, Zenon
<1>4. Behind
  BY <1>1, ReadingFacts, Zenon
<1>5. /\ page.defs \in Seq(Nat) /\ Len(page.defs) \in Nat
      /\ page.reps \in Seq(Nat) /\ Len(page.reps) \in Nat
      /\ page.vals \in Seq(Nat) /\ Len(page.vals) \in Nat
  BY <1>3, PageFacts
<1>6. /\ m \in Nat /\ v \in Nat /\ d \in Nat /\ m + d \in Nat
      /\ want \in Nat
  BY <1>3, <1>5
<1>7. PICK r : r = Readable(c, k)
  OBVIOUS
<1>8. /\ r = Len(page.defs) /\ r = Len(page.reps) /\ PageLoads(c, k)
  BY <1>2, <1>3, <1>7 DEF PageSound
<1>9. Covered(c, k, r) /\ r \in Nat
  BY <1>3, <1>5, <1>7, <1>8, ReadableCovers
<1>10. /\ DefBatch = Batch(page.defs, m, want)
       /\ RepBatch = Batch(page.reps, m, want)
       /\ Stored = Batch(page.vals, v, ValuesToRead)
  BY <1>1, <1>2 DEF DefBatch, RepBatch, Stored
<1>11. d = want \/ m + d = r
  <2>1. PICK b : b = Batch(page.defs, m, want)
    OBVIOUS
  <2>2. Len(b) = want \/ m + Len(b) = Len(page.defs)
    <3>1. m \in 0..Len(page.defs)
      BY <1>3
    <3>2. QED
      BY <1>5, <1>6, <2>1, <3>1, BatchFacts
  <2>3. d = Len(b)
    BY <1>1, <1>10, <2>1
  <2>4. QED
    BY <1>8, <2>2, <2>3
<1>12. /\ Len(RepBatch) = d
       /\ \A i \in 1..d : RepBatch[i] = page.reps[m + i]
  <2>1. PICK b : b = Batch(page.reps, m, want)
    OBVIOUS
  <2>2. /\ Len(b) = want \/ m + Len(b) = Len(page.reps)
        /\ Len(b) \in 0..want /\ m + Len(b) \in 0..Len(page.reps)
        /\ \A i \in 1..Len(b) : b[i] = page.reps[m + i]
    <3>1. m \in 0..Len(page.reps)
      BY <1>3
    <3>2. QED
      BY <1>5, <1>6, <2>1, <3>1, BatchFacts
  <2>3. PICK l : l = Len(b)
    OBVIOUS
  <2>4. /\ l = want \/ m + l = r
        /\ l \in 0..want /\ m + l \in 0..r
    BY <1>8, <2>2, <2>3
  <2>5. d \in 0..want /\ m + d \in 0..r
    BY <1>3, <1>8
  <2>6. l = d
    BY <1>6, <1>9, <1>11, <2>4, <2>5
  <2>7. RepBatch = b
    BY <1>10, <2>1
  <2>8. QED
    BY <2>2, <2>3, <2>6, <2>7
<1>13. LevelsRight
  <2>1. ASSUME NEW i \in 1..d
        PROVE  DefBatch[i] <= c.top /\ RepBatch[i] <= c.deepest
    <3>1. PICK j : j = m + i
      OBVIOUS
    <3>2. j \in 1..r
      BY <1>3, <1>6, <1>8, <3>1, SMTT(30)
    <3>3. page.defs[j] <= c.top /\ page.reps[j] <= c.deepest
      BY <1>3, <1>9, <3>2 DEF Covered
    <3>4. DefBatch[i] = page.defs[j] /\ RepBatch[i] = page.reps[j]
      BY <1>3, <1>12, <3>1
    <3>5. QED
      BY <3>3, <3>4
  <2>2. QED
    BY <1>1, <1>2, <1>3, <1>12, <2>1 DEF LevelsRight
<1>14. PICK n, t : n = ValuesToRead /\ t = Tally(page.defs, r, c.top)
  OBVIOUS
<1>15. v + n <= t /\ t \in Nat /\ n \in Nat
  <2>1. m + d \in 0..r
    BY <1>3, <1>8
  <2>2. /\ Tally(page.defs, m + d, c.top) <= Tally(page.defs, r, c.top)
        /\ Tally(page.defs, r, c.top) \in Nat
    BY <1>9, <2>1, TallyGrows
  <2>3. QED
    BY <1>3, <1>14, <2>2
<1>16. \A i \in 1..t : ValueThere(c, k, i)
  BY <1>3, <1>9, <1>14 DEF Covered
<1>17. v + n <= Len(page.vals)
  <2>1. CASE v + n = 0
    BY <1>5, <2>1
  <2>2. CASE v + n # 0
    <3>1. PICK j : j = v + n
      OBVIOUS
    <3>2. j \in 1..t
      BY <1>6, <1>15, <2>2, <3>1
    <3>3. QED
      BY <1>3, <1>16, <3>1, <3>2 DEF ValueThere
  <2>3. QED
    BY <2>1, <2>2
<1>18. /\ Len(Stored) = n /\ DOMAIN Stored = 1..n
       /\ \A i \in 1..n : Stored[i] = page.vals[v + i]
  <2>1. PICK b : b = Batch(page.vals, v, n)
    OBVIOUS
  <2>2. /\ Len(b) = n \/ v + Len(b) = Len(page.vals)
        /\ Len(b) \in 0..n
        /\ \A i \in 1..Len(b) : b[i] = page.vals[v + i]
    <3>1. v \in 0..Len(page.vals)
      BY <1>3
    <3>2. QED
      BY <1>5, <1>15, <2>1, <3>1, BatchFacts
  <2>3. Len(b) = n
    BY <1>5, <1>6, <1>15, <1>17, <2>2
  <2>4. b = Stored
    BY <1>10, <1>14, <2>1
  <2>5. DOMAIN b = 1..Len(b)
    BY <1>5, <1>6, <1>15, <2>1, BatchType
  <2>6. QED
    BY <2>2, <2>3, <2>4, <2>5
<1>19. IndicesRight
  <2>1. ASSUME page.coding = "indices", NEW i \in 1..n
        PROVE  Stored[i] <= Len(dict[1])
    <3>1. PICK j, dic : j = v + i /\ dic = Dictionary(c, k)
      OBVIOUS
    <3>2. j \in 1..t /\ Stored[i] = page.vals[j] /\ j \in 1..Len(page.vals)
      BY <1>5, <1>6, <1>15, <1>17, <1>18, <3>1
    <3>3. page.vals[j] < Len(dic)
      BY <1>3, <1>16, <2>1, <3>1, <3>2 DEF ValueThere
    <3>4. dict[1] = dic
      <4>1. DictPages(c, k) # {}
        BY <1>3, <1>8, <2>1 DEF PageLoads
      <4>2. DictAt(c, k + 1) = DictAt(c, k)
        <5>1. k \in Nat \ {0} /\ c.pages[k].kind # "dictionary"
          BY <1>3
        <5>2. QED
          BY <5>1, DictNext
      <4>3. k + 1 = next
        BY <1>2 DEF ReaderInv, TypeInv, TypeOK
      <4>4. dict = <<dic>>
        BY <1>2, <1>4, <3>1, <4>1, <4>2, <4>3 DEF Behind, DictAt
      <4>5. QED
        BY <4>4
    <3>5. page.vals[j] \in Nat
      BY <1>5, <3>2, ElementOfSeq
    <3>6. Len(dic) \in Nat
      <4>1. \A i1 \in 1..(k - 1) : PageLoads(c, i1)
        <5>1. k - 1 = Whole
          BY <1>2 DEF Whole, Reading, ReaderInv, TypeInv, TypeOK
        <5>2. QED
          BY <1>2, <1>4, <5>1 DEF Behind, PageSound
      <4>2. k \in 1..(Len(c.pages) + 1)
        BY <1>3
      <4>3. DictPages(c, k) # {}
        BY <1>3, <1>8, <2>1 DEF PageLoads
      <4>4. QED
        BY <1>3, <3>1, <4>1, <4>2, <4>3, DictionaryType, LenProperties
    <3>7. QED
      BY <3>2, <3>3, <3>4, <3>5, <3>6
  <2>2. QED
    BY <1>2, <1>18, <2>1 DEF IndicesRight
<1>20. QED
  BY <1>13, <1>14, <1>18, <1>19 DEF BatchRight

(* A page of which nothing is left is sound.                               *)
LEMMA UsedUpSound ==
    ASSUME ReaderInv, Reading, DefBatch = <<>>, RepBatch = <<>>
    PROVE  /\ PageSound(chunk, next - 1)
           /\ read.levels = Readable(chunk, next - 1)
<1>1. PICK m, v, d : m = read.levels /\ v = read.vals /\ d = Len(DefBatch)
  OBVIOUS
<1>2. PICK page, k, c : k = next - 1 /\ page = Current /\ c = chunk
  OBVIOUS
<1>3. /\ c \in Chunk /\ k \in 1..Len(c.pages)
      /\ want \in 1..MaxBatch /\ MaxBatch \in Nat
      /\ page = c.pages[k] /\ page.kind = "data"
      /\ m \in 0..Len(page.defs) /\ m \in 0..Len(page.reps)
  BY <1>1, <1>2, ReadingFacts
<1>4. Behind
  BY <1>1, ReadingFacts
<1>5. /\ page.defs \in Seq(Nat) /\ Len(page.defs) \in Nat
      /\ page.reps \in Seq(Nat) /\ Len(page.reps) \in Nat
  BY <1>3, PageFacts
<1>6. want \in Nat /\ want # 0
  BY <1>3
<1>7. /\ DefBatch = Batch(page.defs, m, want)
      /\ RepBatch = Batch(page.reps, m, want)
  BY <1>1, <1>2 DEF DefBatch, RepBatch
<1>8. Len(<<>>) = 0
  BY EmptySeq
<1>9. m = Len(page.defs)
  <2>1. PICK b : b = Batch(page.defs, m, want)
    OBVIOUS
  <2>2. Len(b) = want \/ m + Len(b) = Len(page.defs)
    <3>1. m \in 0..Len(page.defs)
      BY <1>3
    <3>2. QED
      BY <1>5, <1>6, <2>1, <3>1, BatchFacts
  <2>3. Len(b) = 0
    BY <1>7, <1>8, <2>1
  <2>4. QED
    BY <1>3, <1>5, <1>6, <2>2, <2>3
<1>10. m = Len(page.reps)
  <2>1. PICK b : b = Batch(page.reps, m, want)
    OBVIOUS
  <2>2. Len(b) = want \/ m + Len(b) = Len(page.reps)
    <3>1. m \in 0..Len(page.reps)
      BY <1>3
    <3>2. QED
      BY <1>5, <1>6, <2>1, <3>1, BatchFacts
  <2>3. Len(b) = 0
    BY <1>7, <1>8, <2>1
  <2>4. QED
    BY <1>3, <1>5, <1>6, <2>2, <2>3
<1>11. m <= Readable(c, k) /\ PageLoads(c, k)
  BY <1>1, <1>2, <1>4 DEF Behind, Reading
<1>12. Readable(c, k) \in Nat /\ Readable(c, k) <= Len(page.defs)
  BY <1>3, ReadableType
<1>13. Readable(c, k) = m
  BY <1>5, <1>9, <1>11, <1>12
<1>14. QED
  BY <1>1, <1>2, <1>3, <1>9, <1>10, <1>11, <1>13 DEF PageSound

(* Before a page is loaded, all pages behind are reached, and it is too.   *)
LEMMA LoadingFacts ==
    ASSUME ReaderInv, Loading
    PROVE  /\ chunk \in Chunk /\ Len(chunk.pages) \in Nat
           /\ next \in 1..(Len(chunk.pages) + 1)
           /\ ~loaded /\ ~failed /\ ~ended /\ Behind /\ Whole = next - 1
           /\ next - 1 \in 0..LastPage(chunk)
           /\ next <= Len(chunk.pages) => next \in 1..LastPage(chunk)
<1>1. /\ chunk \in Chunks /\ next \in 1..(Len(chunk.pages) + 1)
      /\ want > 0 /\ ~loaded /\ ~eof
  BY DEF ReaderInv, TypeInv, TypeOK, Loading
<1>2. chunk \in Chunk /\ Len(chunk.pages) \in Nat
  BY <1>1, ChunkFacts
<1>3. ~failed /\ ~ended /\ Behind /\ Whole = next - 1
  BY <1>1 DEF ReaderInv, TypeInv, Whole
<1>4. PICK p : p = next - 1
  OBVIOUS
<1>5. p \in 0..Len(chunk.pages) /\ p + 1 = next
  BY <1>1, <1>2, <1>4
<1>6. \A k \in 1..p : PageSound(chunk, k)
  BY <1>3, <1>4 DEF Behind
<1>7. /\ p \in 0..LastPage(chunk)
      /\ p < Len(chunk.pages) => p + 1 \in 1..LastPage(chunk)
  BY <1>2, <1>5, <1>6, ReachedNext
<1>8. next <= Len(chunk.pages) => next \in 1..LastPage(chunk)
  BY <1>1, <1>2, <1>4, <1>5, <1>7
<1>9. QED
  BY <1>1, <1>2, <1>3, <1>4, <1>7, <1>8

(* A page loads exactly when it is one that can be loaded at its place.    *)
LEMMA GoesIfLoads ==
    ASSUME ReaderInv, Loading, next <= Len(chunk.pages)
    PROVE  Goes(NextPage) <=> PageLoads(chunk, next)
<1>1. dict = DictAt(chunk, next)
  BY LoadingFacts DEF Behind
<1>2. dict # <<>> <=> DictPages(chunk, next) # {}
  BY <1>1 DEF DictAt
<1>3. QED
  BY <1>2 DEF Goes, NextPage, PageLoads

LEMMA ReaderInit ==
    ASSUME Init PROVE ReaderInv
<1>1. TypeInv
  BY TypeInit
<1>2. chunk \in Chunk /\ LastPage(chunk) \in Nat
  <2>1. chunk \in Chunk /\ Len(chunk.pages) \in Nat
    BY ChunkFacts DEF Init
  <2>2. QED
    BY <2>1, ReachedFirst
<1>3. Whole = 0
  BY DEF Whole, Init
<1>4. dict = DictAt(chunk, next)
  BY DictStart DEF Init
<1>5. given = GivenAt(chunk, 0, 0)
  <2>1. 0 \in 0..LastPage(chunk)
    BY <1>2
  <2>2. GivenAt(chunk, 0, 0) =
           [top |-> chunk.top, defs |-> <<>>, reps |-> <<>>, vals |-> <<>>]
    BY <1>2, <2>1, GivenBetween, JoinedNone
  <2>3. QED
    BY <2>2 DEF Init
<1>6. Behind
  BY <1>3, <1>4, <1>5 DEF Behind, Init
<1>7. QED
  BY <1>1, <1>6 DEF ReaderInv, Init

(* A page without triplets is behind as soon as it is loaded.              *)
LEMMA PassBy ==
    ASSUME ReaderInv, Loading, next <= Len(chunk.pages), Goes(NextPage),
           NextPage.kind # "data"
    PROVE  /\ \A k \in 1..next : PageSound(chunk, k)
           /\ given = GivenAt(chunk, next, 0)
<1>1. /\ chunk \in Chunk /\ Len(chunk.pages) \in Nat
      /\ next \in 1..(Len(chunk.pages) + 1)
      /\ Behind /\ Whole = next - 1 /\ ~loaded
      /\ next \in 1..LastPage(chunk)
  BY LoadingFacts
<1>2. PageLoads(chunk, next)
  BY GoesIfLoads
<1>3. PageSound(chunk, next)
  BY <1>2 DEF PageSound, NextPage
<1>4. \A k \in 1..(next - 1) : PageSound(chunk, k)
  BY <1>1 DEF Behind
<1>5. ASSUME NEW k \in 1..next PROVE PageSound(chunk, k)
  <2>1. k \in 1..(next - 1) \/ k = next
    BY <1>1
  <2>2. QED
    BY <1>3, <1>4, <2>1
<1>6. Readable(chunk, next) = 0
  BY DEF Readable, NextPage
<1>7. given = GivenAt(chunk, next - 1, 0)
  BY <1>1 DEF Behind
<1>8. PICK p : p = next - 1
  OBVIOUS
<1>9. p \in Nat /\ p + 1 = next /\ p < LastPage(chunk)
  <2>1. LastPage(chunk) \in Nat
    BY <1>1, ReachedFirst
  <2>2. QED
    BY <1>1, <1>8, <2>1
<1>10. GivenAt(chunk, p, Readable(chunk, p + 1)) = GivenAt(chunk, p + 1, 0)
  BY <1>1, <1>9, GivenTurns
<1>11. QED
  BY <1>5, <1>6, <1>7, <1>8, <1>9, <1>10

LEMMA ReaderNext ==
    ASSUME IndicesClear, ReaderInv, Next PROVE ReaderInv'
<1>1. TypeInv'
  BY TypeNext DEF ReaderInv
<1>2. ASSUME NEW n \in 1..MaxBatch, ReadBatch(n)
      PROVE  ReaderInv'
  BY <1>1, <1>2 DEF ReaderInv, ReadBatch, Behind, Whole
<1>3. CASE ReturnNothing
  BY <1>1, <1>3 DEF ReaderInv, ReturnNothing, Behind, Whole
<1>4. CASE NoNextPage
  <2>1. /\ next = Len(chunk.pages) + 1 /\ ~loaded /\ ~failed /\ Behind
    <3>1. Loading /\ next > Len(chunk.pages)
      BY <1>4 DEF NoNextPage
    <3>2. QED
      BY <3>1, LoadingFacts
  <2>2. /\ eof' = TRUE
        /\ UNCHANGED <<chunk, next, loaded, read, dict, want, given, ended,
                       failed>>
    BY <1>4 DEF NoNextPage
  <2>3. Behind'
    BY <2>1, <2>2 DEF Behind, Whole
  <2>4. QED
    BY <1>1, <2>2, <2>3 DEF ReaderInv
<1>5. CASE LoadData
  <2>1. /\ Loading /\ next <= Len(chunk.pages) /\ Goes(NextPage)
        /\ NextPage.kind = "data" /\ next' = next + 1
        /\ loaded' = TRUE /\ read' = Unread
        /\ UNCHANGED <<chunk, eof, want, given, ended, failed, dict>>
    BY <1>5 DEF LoadData, LoadNext
  <2>2. /\ chunk \in Chunk /\ Len(chunk.pages) \in Nat
        /\ next \in 1..(Len(chunk.pages) + 1) /\ next \in 1..Len(chunk.pages)
        /\ Behind /\ Whole = next - 1 /\ ~loaded /\ ~ended /\ ~eof
    BY <2>1, LoadingFacts DEF Loading
  <2>3. PageLoads(chunk, next)
    BY <2>1, GoesIfLoads
  <2>4. DictAt(chunk, next + 1) = DictAt(chunk, next)
    <3>1. next \in Nat \ {0} /\ chunk.pages[next].kind # "dictionary"
      BY <2>1, <2>2 DEF NextPage
    <3>2. QED
      BY <3>1, DictNext
  <2>5. Readable(chunk, next) \in Nat
    BY <2>2, ReadableType
  <2>6. Nth(chunk, next, 0) = 0
    BY NthIsTally, TallyStep
  <2>7. Whole' = Whole /\ next' - 1 = next
    BY <2>1, <2>2 DEF Whole
  <2>8. read'.levels = 0 /\ read'.vals = 0
    BY <2>1 DEF Unread
  <2>9. Behind'
    BY <2>1, <2>2, <2>3, <2>4, <2>5, <2>6, <2>7, <2>8 DEF Behind
  <2>10. QED
    BY <1>1, <2>1, <2>2, <2>9 DEF ReaderInv
<1>6. CASE LoadDictionary
  <2>1. /\ Loading /\ next <= Len(chunk.pages) /\ Goes(NextPage)
        /\ NextPage.kind = "dictionary" /\ next' = next + 1
        /\ dict' = <<SubSeq(NextPage.vals, 1, NextPage.num)>>
        /\ UNCHANGED <<chunk, eof, want, given, ended, failed, loaded, read>>
    BY <1>6 DEF LoadDictionary, LoadNext
  <2>2. /\ next \in 1..(Len(chunk.pages) + 1) /\ Len(chunk.pages) \in Nat
        /\ ~loaded /\ ~ended /\ ~eof
    BY <2>1, LoadingFacts DEF Loading
  <2>3. /\ \A k \in 1..next : PageSound(chunk, k)
        /\ given = GivenAt(chunk, next, 0)
    BY <2>1, PassBy
  <2>4. DictAt(chunk, next + 1) = dict'
    <3>1. next \in Nat \ {0} /\ chunk.pages[next].kind = "dictionary"
      BY <2>1, <2>2 DEF NextPage
    <3>2. QED
      BY <2>1, <3>1, DictNext DEF NextPage
  <2>5. Whole' = next
    BY <2>1, <2>2 DEF Whole
  <2>6. Behind'
    BY <2>1, <2>2, <2>3, <2>4, <2>5 DEF Behind
  <2>7. QED
    BY <1>1, <2>1, <2>2, <2>6 DEF ReaderInv
<1>7. CASE SkipPage
  <2>1. /\ Loading /\ next <= Len(chunk.pages) /\ Goes(NextPage)
        /\ NextPage.kind = "other" /\ next' = next + 1
        /\ UNCHANGED <<chunk, eof, want, given, ended, failed, loaded, read,
                       dict>>
    BY <1>7 DEF SkipPage, LoadNext
  <2>2. /\ next \in 1..(Len(chunk.pages) + 1) /\ Len(chunk.pages) \in Nat
        /\ ~loaded /\ ~ended /\ ~eof /\ Behind
    BY <2>1, LoadingFacts DEF Loading
  <2>3. /\ \A k \in 1..next : PageSound(chunk, k)
        /\ given = GivenAt(chunk, next, 0)
    BY <2>1, PassBy
  <2>4. DictAt(chunk, next + 1) = DictAt(chunk, next)
    <3>1. next \in Nat \ {0} /\ chunk.pages[next].kind # "dictionary"
      BY <2>1, <2>2 DEF NextPage
    <3>2. QED
      BY <3>1, DictNext
  <2>5. Whole' = next
    BY <2>1, <2>2 DEF Whole
  <2>6. Behind'
    BY <2>1, <2>2, <2>3, <2>4, <2>5 DEF Behind
  <2>7. QED
    BY <1>1, <2>1, <2>2, <2>6 DEF ReaderInv
<1>8. CASE LoadFails
  BY <1>1, <1>8 DEF ReaderInv, LoadFails, Fails
<1>9. CASE PageUsedUp
  <2>1. /\ Reading /\ DefBatch = <<>> /\ RepBatch = <<>>
        /\ loaded' = FALSE /\ loaded /\ ~eof
        /\ UNCHANGED <<chunk, next, eof, read, dict, want, given, ended,
                       failed>>
    BY <1>9 DEF PageUsedUp, Reading
  <2>2. /\ PageSound(chunk, next - 1)
        /\ read.levels = Readable(chunk, next - 1)
    BY <2>1, UsedUpSound
  <2>3. PICK k : k = next - 1
    OBVIOUS
  <2>4. /\ k \in 1..Len(chunk.pages) /\ chunk \in Chunk /\ Behind
        /\ next = k + 1 /\ Whole = k - 1 /\ Whole' = k
    <3>1. k \in 1..Len(chunk.pages) /\ chunk \in Chunk /\ Behind
      BY <2>1, <2>3, ReadingFacts
    <3>2. next \in Int
      BY DEF ReaderInv, TypeInv, TypeOK
    <3>3. QED
      BY <2>1, <2>3, <3>1, <3>2 DEF Whole
  <2>5. \A j \in 1..(k - 1) : PageSound(chunk, j)
    BY <2>4 DEF Behind
  <2>6. ASSUME NEW j \in 1..k PROVE PageSound(chunk, j)
    <3>1. j \in 1..(k - 1) \/ j = k
      BY <2>4
    <3>2. QED
      BY <2>2, <2>3, <2>5, <3>1
  <2>7. given = GivenAt(chunk, k, 0)
    <3>1. PICK p : p = k - 1
      OBVIOUS
    <3>2. p \in 0..Len(chunk.pages) /\ p + 1 = k /\ p < Len(chunk.pages)
          /\ p \in Nat /\ Len(chunk.pages) \in Nat
      <4>1. Len(chunk.pages) \in Nat
        BY <2>4, LenProperties DEF Chunk
      <4>2. QED
        BY <2>4, <3>1, <4>1
    <3>3. p < LastPage(chunk)
      <4>1. p + 1 \in 1..LastPage(chunk)
        BY <2>4, <2>5, <3>1, <3>2, ReachedNext
      <4>2. LastPage(chunk) \in Nat
        BY <2>4, <3>2, ReachedFirst
      <4>3. QED
        BY <3>2, <4>1, <4>2
    <3>4. GivenAt(chunk, p, Readable(chunk, p + 1)) =
             GivenAt(chunk, p + 1, 0)
      BY <2>4, <3>2, <3>3, GivenTurns
    <3>5. given = GivenAt(chunk, p, Readable(chunk, k))
      BY <2>1, <2>2, <2>3, <2>4, <3>1 DEF Behind
    <3>6. QED
      BY <3>2, <3>4, <3>5
  <2>8. Behind'
    BY <2>1, <2>4, <2>6, <2>7 DEF Behind
  <2>9. QED
    BY <1>1, <2>1, <2>8 DEF ReaderInv
<1>10. CASE ReturnBatch
  <2>1. /\ read.levels + Len(DefBatch) <= Readable(chunk, next - 1)
        /\ read.vals + Len(Stored) =
              Nth(chunk, next - 1, read.levels + Len(DefBatch))
        /\ given' = GivenAt(chunk, next - 2, read.levels + Len(DefBatch))
    BY <1>10, BatchReadable
  <2>2. /\ Reading /\ loaded /\ ~eof
        /\ read'.levels = read.levels + Len(DefBatch)
        /\ read'.vals = read.vals + Len(Stored)
        /\ UNCHANGED <<chunk, next, eof, loaded, dict, ended, failed>>
    BY <1>10 DEF ReturnBatch, Reading
  <2>3. Behind
    BY <2>2, ReadingFacts
  <2>4. Whole = next - 2 /\ Whole' = Whole
    BY <2>2 DEF Whole
  <2>5. Behind'
    BY <2>1, <2>2, <2>3, <2>4 DEF Behind
  <2>6. QED
    BY <1>1, <2>2, <2>5 DEF ReaderInv
<1>11. CASE BatchFails
  BY <1>1, <1>11 DEF ReaderInv, BatchFails, Fails
<1>12. QED
  BY <1>2, <1>3, <1>4, <1>5, <1>6, <1>7, <1>8, <1>9, <1>10, <1>11
     DEF Next, Proceed

-----------------------------------------------------------------------------
(* Every step is one of the abstract reader or none.                       *)

LEMMA GivenFirst ==
    ASSUME ReaderInv, ~failed
    PROVE  /\ given = Triplets!First(ContentOf[chunk], Len(given.defs))
           /\ Len(given.defs) \in Nat
           /\ Len(ContentOf[chunk].defs) \in Nat
           /\ Len(given.defs) <= Len(ContentOf[chunk].defs)
<1>1. PICK c, g : c = chunk /\ g = given
  OBVIOUS
<1>2. LeadsTo(g, ContentOf[c])
  <2>1. /\ c \in Chunks /\ next \in 1..(Len(c.pages) + 1) /\ Behind
        /\ loaded => /\ next > 1
                     /\ read.levels \in 0..Len(Current.defs)
    BY <1>1 DEF ReaderInv, TypeInv, TypeOK
  <2>2. c \in Chunk /\ Len(c.pages) \in Nat
    BY <2>1, ChunkFacts
  <2>3. PICK p, m : p = Whole /\ m = IF loaded THEN read.levels ELSE 0
    OBVIOUS
  <2>4. /\ p \in 0..Len(c.pages)
        /\ loaded => p < Len(c.pages) /\ p + 1 = next - 1
    BY <2>1, <2>2, <2>3 DEF Whole
  <2>5. \A k \in 1..p : PageSound(c, k)
    BY <1>1, <2>1, <2>3 DEF Behind
  <2>6. /\ p \in 0..LastPage(c)
        /\ p < Len(c.pages) => p + 1 \in 1..LastPage(c)
    BY <2>2, <2>4, <2>5, ReachedNext
  <2>7. m \in Nat /\ (m = 0 \/ (p < LastPage(c) /\ m <= Readable(c, p + 1)))
    <3>1. CASE loaded
      <4>1. m = read.levels /\ m <= Readable(c, p + 1)
        BY <1>1, <2>1, <2>3, <2>4, <3>1 DEF Behind
      <4>2. Len(Current.defs) \in Nat
        <5>1. p + 1 \in 1..Len(c.pages)
          BY <2>2, <2>4, <3>1
        <5>2. Current = c.pages[p + 1]
          BY <1>1, <2>4, <3>1 DEF Current
        <5>3. QED
          BY <2>2, <5>1, <5>2, PageFacts
      <4>3. p < LastPage(c)
        <5>1. LastPage(c) \in Nat
          BY <2>2, ReachedFirst
        <5>2. QED
          BY <2>4, <2>6, <3>1, <5>1
      <4>4. QED
        BY <2>1, <3>1, <4>1, <4>2, <4>3
    <3>2. CASE ~loaded
      BY <2>3, <3>2
    <3>3. QED
      BY <3>1, <3>2
  <2>8. g = GivenAt(c, p, m)
    BY <1>1, <2>1, <2>3 DEF Behind
  <2>9. LeadsTo(GivenAt(c, p, m), ContentOf[c])
    BY <2>1, <2>6, <2>7, GivenIsFirst
  <2>10. QED
    BY <2>8, <2>9
<1>3. PICK content : content = ContentOf[c]
  OBVIOUS
<1>4. /\ g = Triplets!First(content, Len(g.defs))
      /\ Len(g.defs) \in Nat /\ Len(content.defs) \in Nat
      /\ Len(g.defs) <= Len(content.defs)
  BY <1>2, <1>3, LeadsToFirst
<1>5. QED
  BY <1>1, <1>3, <1>4

(* The same of the state that follows.                                     *)
LEMMA GivenFirstAlways ==
    ReaderInv /\ ~failed =>
        /\ given = Triplets!First(ContentOf[chunk], Len(given.defs))
        /\ Len(given.defs) \in Nat
        /\ Len(ContentOf[chunk].defs) \in Nat
        /\ Len(given.defs) <= Len(ContentOf[chunk].defs)
BY GivenFirst

LEMMA NextGivenFirst ==
    ReaderInv' /\ ~failed' =>
        /\ given' = Triplets!First(ContentOf[chunk'], Len(given'.defs))
        /\ Len(given'.defs) \in Nat
        /\ Len(ContentOf[chunk'].defs) \in Nat
        /\ Len(given'.defs) <= Len(ContentOf[chunk'].defs)
<1>1. (ReaderInv /\ ~failed =>
        /\ given = Triplets!First(ContentOf[chunk], Len(given.defs))
        /\ Len(given.defs) \in Nat
        /\ Len(ContentOf[chunk].defs) \in Nat
        /\ Len(given.defs) <= Len(ContentOf[chunk].defs))'
  BY GivenFirstAlways, PTL
<1>2. QED
  BY <1>1

LEMMA AllSound ==
    ASSUME ReaderInv, chunk \in SoundChunks, NEW k \in 1..Len(chunk.pages)
    PROVE  PageSound(chunk, k)
<1>1. DOMAIN chunk.pages = 1..Len(chunk.pages)
  <2>1. chunk \in Chunk
    BY ChunkFacts DEF ReaderInv, TypeInv
  <2>2. QED
    BY <2>1, LenProperties DEF Chunk
<1>2. QED
  BY <1>1 DEF SoundChunks

LEMMA MapInit == ASSUME Init PROVE Triplets!Init
<1>1. ReaderInv /\ ~failed /\ given.defs = <<>>
  BY ReaderInit DEF Init
<1>2. given = Triplets!First(ContentOf[chunk], Len(given.defs))
  BY <1>1, GivenFirst
<1>3. given = Triplets!First(ContentOf[chunk], 0)
  BY <1>1, <1>2, EmptySeq
<1>4. QED
  BY <1>3 DEF Triplets!Init, Init

LEMMA MapNext ==
    ASSUME IndicesClear, ReaderInv, Next
    PROVE  Triplets!Next \/ UNCHANGED Triplets!vars
<1> DEFINE Still == UNCHANGED <<chunk, given, ended, failed>>
<1>1. ASSUME Still PROVE UNCHANGED Triplets!vars
  BY <1>1 DEF Triplets!vars
<1> HIDE DEF Still
<1>2. ASSUME NEW n \in 1..MaxBatch, ReadBatch(n) PROVE Still
  BY <1>2 DEF ReadBatch, Still
<1>3. CASE ReturnNothing
  <2>1. /\ eof /\ want > 0 /\ ended' = TRUE
        /\ UNCHANGED <<chunk, given, failed>>
    BY <1>3 DEF ReturnNothing
  <2>2. CASE ended
    <3>1. ended = TRUE
      BY <2>2 DEF ReaderInv, TypeInv, TypeOK
    <3>2. Still
      BY <2>1, <3>1 DEF Still
    <3>3. QED
      BY <1>1, <3>2
  <2>3. CASE ~ended
    <3>1. ~failed /\ Behind
      BY <2>1 DEF ReaderInv, TypeInv
    <3>2. /\ next = Len(chunk.pages) + 1 /\ ~loaded
          /\ Len(chunk.pages) \in Nat /\ chunk \in Chunk /\ chunk \in Chunks
      BY <2>1, <3>1, ChunkFacts DEF Behind, ReaderInv, TypeInv
    <3>3. PICK n : n = Len(chunk.pages)
      OBVIOUS
    <3>4. Whole = n /\ n \in Nat /\ n \in 0..Len(chunk.pages)
      BY <3>2, <3>3 DEF Whole
    <3>5. \A k \in 1..n : PageSound(chunk, k)
      BY <3>1, <3>4 DEF Behind
    <3>6. chunk \in SoundChunks
      <4>1. DOMAIN chunk.pages = 1..n
        BY <3>2, <3>3, LenProperties DEF Chunk
      <4>2. QED
        BY <3>2, <3>5, <4>1 DEF SoundChunks
    <3>7. LastPage(chunk) = n
      <4>1. n \in 0..LastPage(chunk) /\ LastPage(chunk) \in 0..Len(chunk.pages)
        BY <3>2, <3>4, <3>5, ReachedNext, ReachedFirst
      <4>2. QED
        BY <3>3, <3>4, <4>1
    <3>8. given = ContentOf[chunk]
      BY <3>1, <3>2, <3>4, <3>7, AllLeads DEF Behind
    <3>9. Triplets!End
      BY <2>1, <2>3, <3>1, <3>6, <3>8
         DEF Triplets!End, Triplets!Open, Triplets!Count
    <3>10. QED
      BY <3>9 DEF Triplets!Next
  <2>4. QED
    BY <2>2, <2>3
<1>4. CASE NoNextPage \/ LoadData \/ LoadDictionary \/ SkipPage \/ PageUsedUp
  <2>1. Still
    BY <1>4 DEF NoNextPage, LoadData, LoadDictionary, SkipPage, LoadNext,
                PageUsedUp, Still
  <2>2. QED
    BY <1>1, <2>1
<1>5. CASE LoadFails
  <2>1. /\ Loading /\ next <= Len(chunk.pages) /\ ~Goes(NextPage)
        /\ failed' = TRUE /\ UNCHANGED <<chunk, given, ended>>
    BY <1>5 DEF LoadFails, Fails
  <2>2. ~PageLoads(chunk, next) /\ ~failed /\ ~ended
        /\ next \in 1..Len(chunk.pages)
    BY <2>1, GoesIfLoads, LoadingFacts
  <2>3. chunk \notin SoundChunks
    BY <2>2, AllSound DEF PageSound
  <2>4. Triplets!Fail
    BY <2>1, <2>2, <2>3 DEF Triplets!Fail, Triplets!Open
  <2>5. QED
    BY <2>4 DEF Triplets!Next
<1>6. CASE BatchFails
  <2>1. /\ Reading /\ ~BatchRight
        /\ failed' = TRUE /\ UNCHANGED <<chunk, given, ended>>
    BY <1>6 DEF BatchFails, Fails
  <2>2. ~failed /\ ~ended /\ next - 1 \in 1..Len(chunk.pages)
    BY <2>1, ReadingFacts
  <2>3. chunk \notin SoundChunks
    BY <2>1, <2>2, AllSound, SoundBatchRight
  <2>4. Triplets!Fail
    BY <2>1, <2>2, <2>3 DEF Triplets!Fail, Triplets!Open
  <2>5. QED
    BY <2>4 DEF Triplets!Next
<1>7. CASE ReturnBatch
  <2>1. /\ Reading /\ DefBatch # <<>>
        /\ given'.defs = given.defs \o DefBatch
        /\ UNCHANGED <<chunk, ended, failed>>
    BY <1>7 DEF ReturnBatch, ReaderInv, TypeInv, Given
  <2>2. PICK d : d = Len(DefBatch)
    OBVIOUS
  <2>3. ~failed /\ ~ended /\ want \in 1..MaxBatch /\ d \in 0..want
        /\ MaxBatch \in Nat
    BY <2>1, <2>2, ReadingFacts
  <2>4. DefBatch \in Seq(Nat)
    BY <1>7, BatchGives DEF ReaderInv
  <2>5. d \in 1..MaxBatch
    <3>1. d # 0
      BY <2>1, <2>2, <2>4, EmptySeq
    <3>2. QED
      BY <2>3, <3>1
  <2>6. Len(given'.defs) = Len(given.defs) + d
    BY <2>1, <2>2, <2>4, ConcatProperties DEF ReaderInv, TypeInv, TypeOK
  <2>7. ReaderInv'
    BY ReaderNext
  <2>8. /\ given' = Triplets!First(ContentOf[chunk], Len(given'.defs))
        /\ Len(given'.defs) <= Len(ContentOf[chunk].defs)
    BY <2>1, <2>3, <2>7, NextGivenFirst
  <2>9. Triplets!Give(d)
    BY <2>1, <2>3, <2>6, <2>8
       DEF Triplets!Give, Triplets!Open, Triplets!Count
  <2>10. QED
    BY <2>5, <2>9 DEF Triplets!Next
<1>8. QED
  BY <1>1, <1>2, <1>3, <1>4, <1>5, <1>6, <1>7 DEF Next, Proceed

(* column_chunk_reader is the reader of triplets of TripletReader, on      *)
(* chunks whose indices dict_decoder is right about.                       *)
THEOREM ReaderImplementsTriplets ==
    ASSUME IndicesClear PROVE Spec => ImplementsTriplets
<1>1. Init => ReaderInv /\ Triplets!Init
  BY ReaderInit, MapInit
<1>2. ReaderInv /\ [Next]_vars => ReaderInv'
  <2>1. ASSUME ReaderInv, UNCHANGED vars PROVE ReaderInv'
    BY <2>1, TypeStep DEF ReaderInv, Behind, Whole, vars
  <2>2. QED
    BY <2>1, ReaderNext
<1>3. ReaderInv /\ [Next]_vars => [Triplets!Next]_(Triplets!vars)
  <2>1. ASSUME UNCHANGED vars PROVE UNCHANGED Triplets!vars
    BY <2>1 DEF vars, Triplets!vars
  <2>2. QED
    BY <2>1, MapNext
<1>4. QED
  BY <1>1, <1>2, <1>3, PTL DEF Spec, ImplementsTriplets, Triplets!Spec

=============================================================================
