-------------------------- MODULE ValueCodingProofs -------------------------
(***************************************************************************)
(* The pages of delta_binary_packed_encoder: for every width of a word,    *)
(* size of a block and sequence of values, the numbers of a page stand for *)
(* the values put, and take no more bytes than max_encoded_size() says.    *)
(* Then the decoders, each from the place where it has given the first     *)
(* values of a page: what one batch gives, and where it leaves the decoder.*)
(***************************************************************************)
EXTENDS ValueCoding, SequenceLemmas

-----------------------------------------------------------------------------
(* Numbers.                                                                *)

LEMMA DeltaConstants ==
    /\ ByteBits \in Nat /\ ByteBits >= 2
    /\ BufferBits \in Nat /\ BufferBits >= 1
    /\ Miniblocks \in Nat /\ Miniblocks >= 1
    /\ PerMiniblock \in Nat /\ PerMiniblock >= 1
    /\ BlockValues \in Nat /\ BlockValues >= 1 /\ Miniblocks <= BlockValues
    /\ BlockValues = Miniblocks * PerMiniblock
<1>1. /\ ByteBits \in Nat /\ ByteBits >= 2
      /\ BufferBits \in Nat /\ BufferBits >= 1
      /\ Miniblocks \in Nat /\ Miniblocks >= 1
  BY DeltaAssumption
<1>2. PICK n \in 1..BlockValues : BlockValues = Miniblocks * n
  BY DeltaAssumption
<1>3. n \in Nat /\ n >= 1
  OBVIOUS
<1>4. Miniblocks * n \in Nat /\ Miniblocks * n >= Miniblocks
  BY <1>1, <1>3
<1>5. (Miniblocks * n) \div Miniblocks = n
  BY <1>1, <1>3
<1>6. QED
  BY <1>1, <1>2, <1>3, <1>4, <1>5 DEF PerMiniblock

(* A loop over the numbers up to n.                                        *)
LEMMA LoopExists ==
    ASSUME NEW n \in Nat, NEW X, NEW base \in X,
           NEW step \in [1..n -> [X -> X]]
    PROVE  \E f : /\ f[0] = base
                  /\ \A k \in 1..n : f[k] = step[k][f[k - 1]]
                  /\ \A k \in 0..n : f[k] \in X
<1> DEFINE Upto(f, k) == /\ f \in [0..k -> X]
                         /\ f[0] = base
                         /\ \A j \in 1..k : f[j] = step[j][f[j - 1]]
           S == {k \in 0..n : \E f : Upto(f, k)}
<1>1. 0 \in S
  <2>1. Upto([j \in 0..0 |-> base], 0)
    OBVIOUS
  <2> HIDE DEF Upto
  <2>2. QED
    BY <2>1
<1>2. ASSUME NEW k \in 1..n, k - 1 \in S PROVE k \in S
  <2>1. PICK f : Upto(f, k - 1)
    BY <1>2
  <2>2. k - 1 \in 0..(k - 1) /\ f[k - 1] \in X
    BY <2>1
  <2>3. PICK x \in X : x = step[k][f[k - 1]]
    BY <2>2
  <2> DEFINE g == [j \in 0..k |-> IF j < k THEN f[j] ELSE x]
  <2>4. \A j \in 0..k : j < k => f[j] \in X /\ g[j] = f[j]
    BY <2>1
  <2>5. g \in [0..k -> X]
    BY <2>4
  <2>6. g[k] = x /\ g[0] = base
    BY <2>1
  <2>7. ASSUME NEW j \in 1..k PROVE g[j] = step[j][g[j - 1]]
    <3>1. j - 1 \in 0..k /\ j - 1 < k
      OBVIOUS
    <3>2. g[j - 1] = f[j - 1]
      BY <2>4, <3>1
    <3>3. CASE j = k
      BY <2>3, <2>6, <3>2, <3>3
    <3>4. CASE j # k
      <4>1. j \in 1..(k - 1) /\ j \in 0..k /\ j < k
        BY <3>4
      <4>2. f[j] = step[j][f[j - 1]]
        BY <2>1, <4>1
      <4>3. g[j] = f[j]
        BY <2>4, <4>1
      <4> HIDE DEF g
      <4>4. QED
        BY <3>2, <4>2, <4>3
    <3>5. QED
      BY <3>3, <3>4
  <2> HIDE DEF g
  <2>8. Upto(g, k)
    BY <2>5, <2>6, <2>7
  <2>9. k \in 0..n
    OBVIOUS
  <2> HIDE DEF Upto
  <2>10. QED
    BY <2>8, <2>9
<1>3. n \in S
  <2>1. 0..n \subseteq S
    <3> HIDE DEF S
    <3>1. QED
      BY <1>1, <1>2, UpTo, Zenon
  <2>2. n \in 0..n
    OBVIOUS
  <2> HIDE DEF S
  <2>3. QED
    BY <2>1, <2>2
<1>4. PICK f : Upto(f, n)
  BY <1>3
<1>5. \A k \in 0..n : f[k] \in X
  BY <1>4
<1>6. QED
  BY <1>4, <1>5

LEMMA Pow2Loop ==
    ASSUME NEW k \in Nat
    PROVE  \E f : /\ f[0] = 1
                  /\ \A j \in 1..k : f[j] = 2 * f[j - 1]
                  /\ \A j \in 0..k : f[j] \in Nat
                  /\ Pow2(k) = f[k]
<1> DEFINE Def(f, j) == IF j = 0 THEN 1 ELSE 2 * f[j - 1]
           Upto(f) == f = [j \in 0..k |-> Def(f, j)]
           Loop == CHOOSE f : Upto(f)
           step == [j \in 1..k |-> [x \in Nat |-> 2 * x]]
<1>1. Pow2(k) = Loop[k]
  BY DEF Pow2
<1>2. PICK f : /\ f[0] = 1
               /\ \A j \in 1..k : f[j] = step[j][f[j - 1]]
               /\ \A j \in 0..k : f[j] \in Nat
  <2>1. PICK X : X = Nat
    OBVIOUS
  <2>2. step \in [1..k -> [X -> X]] /\ 1 \in X
    BY <2>1
  <2> HIDE DEF step
  <2>3. \E f : /\ f[0] = 1
               /\ \A j \in 1..k : f[j] = step[j][f[j - 1]]
               /\ \A j \in 0..k : f[j] \in X
    BY <2>2, LoopExists
  <2>4. QED
    BY <2>1, <2>3
<1>3. ASSUME NEW j \in 1..k PROVE f[j] = 2 * f[j - 1]
  <2>1. j - 1 \in 0..k
    OBVIOUS
  <2>2. f[j - 1] \in Nat
    BY <1>2, <2>1
  <2>3. QED
    BY <1>2, <2>2
<1>4. \E g : Upto(g)
  <2> DEFINE g == [j \in 0..k |-> f[j]]
  <2>1. ASSUME NEW j \in 0..k PROVE g[j] = Def(g, j)
    <3>1. j # 0 => j \in 1..k /\ j - 1 \in 0..k
      OBVIOUS
    <3>2. QED
      BY <1>2, <1>3, <3>1
  <2>2. Upto(g)
    BY <2>1
  <2> HIDE DEF g, Upto
  <2>3. QED
    BY <2>2
<1>5. Upto(Loop)
  BY <1>4
<1> HIDE DEF Loop
<1>6. Loop[0] = 1 /\ \A j \in 1..k : Loop[j] = 2 * Loop[j - 1]
  <2>1. \A j \in 0..k : Loop[j] = Def(Loop, j)
    <3> HIDE DEF Def
    <3>1. QED
      BY <1>5
  <2>2. 0 \in 0..k /\ \A j \in 1..k : j \in 0..k /\ j # 0
    OBVIOUS
  <2>3. QED
    BY <2>1, <2>2
<1>7. Loop[k] = f[k]
  <2> DEFINE S == {j \in 0..k : Loop[j] = f[j]}
  <2>1. 0 \in S
    BY <1>2, <1>6
  <2>2. \A j \in 1..k : j - 1 \in S => j \in S
    BY <1>3, <1>6
  <2>3. 0..k \subseteq S
    <3> HIDE DEF S
    <3>1. QED
      BY <2>1, <2>2, UpTo, Zenon
  <2>4. QED
    BY <2>3
<1>8. QED
  BY <1>1, <1>2, <1>3, <1>7

LEMMA Pow2Facts ==
    /\ Pow2(0) = 1
    /\ \A k \in Nat : Pow2(k + 1) = 2 * Pow2(k) /\ Pow2(k) \in Nat
<1>1. Pow2(0) = 1
  BY Pow2Loop
<1>2. ASSUME NEW k \in Nat PROVE Pow2(k + 1) = 2 * Pow2(k) /\ Pow2(k) \in Nat
  <2>1. PICK f : /\ f[0] = 1
                 /\ \A j \in 1..k : f[j] = 2 * f[j - 1]
                 /\ \A j \in 0..k : f[j] \in Nat
                 /\ Pow2(k) = f[k]
    BY Pow2Loop
  <2>2. PICK g : /\ g[0] = 1
                 /\ \A j \in 1..(k + 1) : g[j] = 2 * g[j - 1]
                 /\ Pow2(k + 1) = g[k + 1]
    <3>1. PICK m \in Nat : m = k + 1
      OBVIOUS
    <3>2. \E g : /\ g[0] = 1
                 /\ \A j \in 1..m : g[j] = 2 * g[j - 1]
                 /\ Pow2(m) = g[m]
      BY Pow2Loop
    <3>3. QED
      BY <3>1, <3>2
  <2> DEFINE S == {j \in 0..k : g[j] = f[j]}
  <2>3. 0 \in S
    BY <2>1, <2>2
  <2>4. \A j \in 1..k : j - 1 \in S => j \in S
    BY <2>1, <2>2
  <2>5. 0..k \subseteq S
    <3> HIDE DEF S
    <3>1. QED
      BY <2>3, <2>4, UpTo, Zenon
  <2>6. g[k] = f[k]
    BY <2>5
  <2>7. g[k + 1] = 2 * g[k] /\ f[k] \in Nat
    BY <2>1, <2>2
  <2>8. QED
    BY <2>1, <2>2, <2>6, <2>7
<1>3. QED
  BY <1>1, <1>2

(* 2^k is more than k, and grows with k.                                   *)
LEMMA Pow2More == \A k \in Nat : Pow2(k) > k /\ Pow2(k) >= 1
<1> SUFFICES ASSUME NEW n \in Nat PROVE Pow2(n) > n /\ Pow2(n) >= 1
  OBVIOUS
<1> DEFINE S == {k \in 0..n : Pow2(k) > k}
<1>1. 0 \in S
  BY Pow2Facts
<1>2. ASSUME NEW k \in 1..n, k - 1 \in S PROVE k \in S
  <2>1. PICK j \in Nat : j = k - 1
    OBVIOUS
  <2>2. Pow2(j) > j /\ Pow2(j + 1) = 2 * Pow2(j) /\ Pow2(j) \in Nat
    BY <1>2, <2>1, Pow2Facts
  <2>3. j + 1 = k
    BY <2>1
  <2>4. QED
    BY <2>1, <2>2, <2>3
<1>3. 0..n \subseteq S
  <2> HIDE DEF S
  <2>1. QED
    BY <1>1, <1>2, UpTo, Zenon
<1>4. Pow2(n) > n /\ Pow2(n) \in Nat
  BY <1>3, Pow2Facts
<1>5. QED
  BY <1>4

LEMMA Pow2Grows ==
    ASSUME NEW j \in Nat, NEW k \in Nat, j <= k
    PROVE  Pow2(j) <= Pow2(k)
<1> DEFINE S == {d \in 0..(k - j) : Pow2(j) <= Pow2(j + d)}
<1>1. k - j \in Nat
  OBVIOUS
<1>2. 0 \in S
  BY <1>1, Pow2Facts
<1>3. ASSUME NEW d \in 1..(k - j), d - 1 \in S PROVE d \in S
  <2>1. PICK i \in Nat : i = j + (d - 1)
    OBVIOUS
  <2>2. Pow2(j) <= Pow2(i) /\ Pow2(i + 1) = 2 * Pow2(i)
        /\ Pow2(i) \in Nat /\ Pow2(j) \in Nat
    BY <1>3, <2>1, Pow2Facts
  <2>3. i + 1 = j + d
    BY <2>1
  <2>4. QED
    BY <2>2, <2>3
<1>4. 0..(k - j) \subseteq S
  <2> HIDE DEF S
  <2>1. QED
    BY <1>1, <1>2, <1>3, UpTo, Zenon
<1>5. k - j \in S /\ j + (k - j) = k
  BY <1>1, <1>4
<1>6. QED
  BY <1>5

(* A word has at least a bit, so that half of its values are negative.     *)
LEMMA HalfWord ==
    ASSUME NEW bits \in Nat, bits >= 1
    PROVE  /\ Pow2(bits) = 2 * Pow2(bits - 1)
           /\ Pow2(bits - 1) \in Nat /\ Pow2(bits - 1) >= 1
           /\ Pow2(bits) \in Nat
<1>1. PICK j \in Nat : j = bits - 1
  OBVIOUS
<1>2. j + 1 = bits
  BY <1>1
<1>3. QED
  BY <1>1, <1>2, Pow2Facts, Pow2More

LEMMA BitWidthFits ==
    ASSUME NEW n \in Nat
    PROVE  /\ BitWidth(n) \in Nat /\ n < Pow2(BitWidth(n))
           /\ \A k \in Nat : n < Pow2(k) => BitWidth(n) <= k
<1> DEFINE S == {w \in Nat : n < Pow2(w)}
           Is(w) == n < Pow2(w) /\ \A v \in 0..(w - 1) : n >= Pow2(v)
<1>1. n \in S
  BY Pow2More
<1>2. PICK w \in S : \A m \in S : w <= m
  <2>1. S \in SUBSET Nat /\ S # {}
    BY <1>1
  <2> HIDE DEF S
  <2>2. QED
    BY <2>1, LeastNat
<1>3. w \in 0..n /\ Is(w)
  <2>1. w <= n
    BY <1>1, <1>2
  <2>2. \A v \in 0..(w - 1) : v \in Nat /\ ~(w <= v) /\ Pow2(v) \in Nat
    BY Pow2Facts
  <2>3. \A v \in 0..(w - 1) : n >= Pow2(v)
    BY <1>2, <2>2
  <2>4. QED
    BY <2>1, <2>3
<1>4. BitWidth(n) = CHOOSE u \in 0..n : Is(u)
  BY DEF BitWidth
<1>5. BitWidth(n) \in 0..n /\ Is(BitWidth(n))
  <2> HIDE DEF Is
  <2>1. QED
    BY <1>3, <1>4
<1>6. PICK u \in 0..n : u = BitWidth(n)
  BY <1>5
<1>7. u \in Nat /\ n < Pow2(u) /\ \A v \in 0..(u - 1) : n >= Pow2(v)
  BY <1>5, <1>6
<1>8. ASSUME NEW k \in Nat, n < Pow2(k) PROVE u <= k
  <2>1. CASE k <= u - 1
    <3>1. k \in 0..(u - 1) /\ Pow2(k) \in Nat
      BY <1>7, <2>1, Pow2Facts
    <3>2. n >= Pow2(k)
      BY <1>7, <3>1
    <3>3. QED
      BY <1>8, <3>1, <3>2
  <2>2. QED
    BY <1>7, <2>1
<1>9. QED
  BY <1>6, <1>7, <1>8

LEMMA CeilDivFacts ==
    ASSUME NEW a \in Nat, NEW b \in Nat, b >= 1
    PROVE  /\ CeilDiv(a, b) \in Nat
           /\ b * CeilDiv(a, b) >= a
           /\ a >= 1 => CeilDiv(a, b) >= 1
           /\ \A m \in Nat : a <= b * m => CeilDiv(a, b) <= m
           /\ \A m \in Nat : b * m < a => m < CeilDiv(a, b)
<1> DEFINE q == (a + b - 1) \div b
           r == (a + b - 1) % b
<1>1. /\ a + b - 1 \in Nat /\ q \in Nat /\ r \in 0..(b - 1)
      /\ a + b - 1 = b * q + r
  OBVIOUS
<1>2. CeilDiv(a, b) = q
  BY DEF CeilDiv
<1> HIDE DEF q, r
<1>3. b * q \in Nat /\ b * q >= a
  BY <1>1
<1>4. ASSUME NEW m \in Nat, a <= b * m PROVE q <= m
  <2>1. CASE q >= m + 1
    <3>1. b * q >= b * (m + 1)
      BY <1>1, <2>1
    <3>2. b * (m + 1) = b * m + b /\ b * m \in Nat
      OBVIOUS
    <3>3. QED
      BY <1>1, <1>3, <1>4, <3>1, <3>2
  <2>2. QED
    BY <1>1, <2>1
<1>5. ASSUME NEW m \in Nat, b * m < a PROVE m < q
  <2>1. CASE q <= m
    <3>1. b * q <= b * m /\ b * m \in Nat
      BY <1>1, <2>1
    <3>2. QED
      BY <1>3, <1>5, <3>1
  <2>2. QED
    BY <1>1, <2>1
<1>6. a >= 1 => q >= 1
  <2>1. b * 0 = 0
    OBVIOUS
  <2>2. QED
    BY <1>1, <1>5, <2>1
<1>7. QED
  BY <1>1, <1>2, <1>3, <1>4, <1>5, <1>6

(* No number of a word takes more than the most bytes of one.              *)
LEMMA VlqFits ==
    ASSUME NEW bits \in Nat, bits >= 1, NEW n \in Nat, n < Pow2(bits)
    PROVE  /\ VlqBytes(n) \in Nat
           /\ VlqBytes(n) <= CeilDiv(bits, ByteBits - 1)
<1> DEFINE b == ByteBits - 1
           c == CeilDiv(bits, b)
           S == {k \in Nat : k >= 1 /\ n < Pow2(b * k)}
           Is(k) == /\ n < Pow2(b * k)
                    /\ \A j \in 1..(k - 1) : n >= Pow2(b * j)
<1>1. b \in Nat /\ b >= 1
  BY DeltaConstants
<1>2. \A k \in Nat : b * k \in Nat /\ b * k >= k
  <2> HIDE DEF b
  <2>1. QED
    BY <1>1
<1>3. c \in S
  <2>1. c \in Nat /\ b * c >= bits /\ c >= 1
    <3> HIDE DEF b
    <3>1. QED
      BY <1>1, CeilDivFacts
  <2> HIDE DEF c, b
  <2>2. b * c \in Nat
    BY <1>2, <2>1
  <2>3. PICK m \in Nat : m = b * c
    BY <2>2
  <2>4. Pow2(bits) <= Pow2(m) /\ Pow2(bits) \in Nat /\ Pow2(m) \in Nat
    BY <2>1, <2>3, Pow2Grows, Pow2Facts
  <2>5. n < Pow2(b * c)
    BY <2>3, <2>4
  <2>6. QED
    BY <2>1, <2>5
<1>4. n + 1 \in S
  <2>1. PICK m \in Nat : m = b * (n + 1) /\ m >= n + 1
    BY <1>2
  <2>2. Pow2(m) > m /\ Pow2(m) \in Nat
    BY Pow2More, Pow2Facts
  <2>3. n < Pow2(b * (n + 1))
    BY <2>1, <2>2
  <2>4. QED
    BY <2>3
<1>5. PICK k \in S : \A m \in S : k <= m
  <2>1. S \in SUBSET Nat /\ S # {}
    BY <1>4
  <2> HIDE DEF S
  <2>2. QED
    BY <2>1, LeastNat
<1> HIDE DEF c
<1>6. \A j \in Nat : Pow2(b * j) \in Nat
  BY <1>2, Pow2Facts
<1>7. k \in 1..(n + 1) /\ Is(k)
  <2>1. k <= n + 1
    BY <1>4, <1>5
  <2>2. \A j \in 1..(k - 1) : j \in Nat /\ j >= 1 /\ ~(k <= j)
    OBVIOUS
  <2>3. \A j \in 1..(k - 1) : n >= Pow2(b * j)
    <3> HIDE DEF b
    <3>1. QED
      BY <1>5, <1>6, <2>2
  <2> HIDE DEF b
  <2>4. QED
    BY <2>1, <2>3
<1>8. VlqBytes(n) = CHOOSE j \in 1..(n + 1) : Is(j)
  BY Zenon DEF VlqBytes
<1>9. VlqBytes(n) \in 1..(n + 1) /\ Is(VlqBytes(n))
  <2> HIDE DEF Is
  <2>1. QED
    BY <1>7, <1>8
<1>10. PICK v \in 1..(n + 1) : v = VlqBytes(n)
  BY <1>9
<1>11. \A j \in 1..(v - 1) : n >= Pow2(b * j)
  BY <1>9, <1>10
<1>12. c \in Nat /\ c >= 1 /\ n < Pow2(b * c)
  BY <1>3
<1>13. v <= c
  <2>1. CASE c <= v - 1
    <3>1. c \in 1..(v - 1)
      BY <1>12, <2>1
    <3>2. n >= Pow2(b * c) /\ Pow2(b * c) \in Nat
      BY <1>6, <1>11, <1>12, <3>1
    <3> HIDE DEF b
    <3>3. QED
      BY <1>12, <3>2
  <2>2. QED
    BY <1>12, <2>1
<1>14. QED
  BY <1>10, <1>13 DEF c

-----------------------------------------------------------------------------
(* Words.                                                                  *)

Words(bits) == 0..(Pow2(bits) - 1)

LEMMA DivideBy ==
    ASSUME NEW m \in Nat, m >= 1, NEW x \in Int
    PROVE  \E q \in Int : \E r \in 0..(m - 1) :
              x = m * q + r /\ r = x % m /\ q = x \div m
<1>1. PICK q, r : q = x \div m /\ r = x % m
  OBVIOUS
<1>2. q \in Int /\ r \in 0..(m - 1) /\ x = m * q + r
  BY <1>1
<1>3. QED
  BY <1>1, <1>2

LEMMA OneRemainder ==
    ASSUME NEW m \in Nat, m >= 1, NEW x \in Int, NEW q \in Int,
           NEW r \in 0..(m - 1), x = m * q + r
    PROVE  x % m = r
<1>1. PICK p, s : p = x \div m /\ s = x % m
  OBVIOUS
<1>2. p \in Int /\ s \in 0..(m - 1) /\ x = m * p + s
  BY <1>1
<1>3. m * p - m * q = r - s /\ m * p \in Int /\ m * q \in Int
  BY <1>2
<1>4. CASE p >= q + 1
  <2>1. m * p >= m * (q + 1) /\ m * (q + 1) = m * q + m
    BY <1>2, <1>4
  <2>2. QED
    BY <1>2, <1>3, <2>1
<1>5. CASE q >= p + 1
  <2>1. m * q >= m * (p + 1) /\ m * (p + 1) = m * p + m
    BY <1>2, <1>5
  <2>2. QED
    BY <1>2, <1>3, <2>1
<1>6. CASE p = q
  BY <1>1, <1>2, <1>3, <1>6
<1>7. QED
  BY <1>2, <1>4, <1>5, <1>6

LEMMA OneQuotient ==
    ASSUME NEW m \in Nat, m >= 1, NEW x \in Int, NEW q \in Int,
           NEW r \in 0..(m - 1), x = m * q + r
    PROVE  x \div m = q
  OBVIOUS

LEMMA WrapFacts ==
    ASSUME NEW bits \in Nat, NEW a \in Int, NEW b \in Int
    PROVE  /\ Wrap(bits, a) \in Words(bits)
           /\ Wrap(bits, a + Wrap(bits, b)) = Wrap(bits, a + b)
           /\ a \in Words(bits) => Wrap(bits, a) = a
<1>1. PICK m \in Nat : m = Pow2(bits) /\ m >= 1
  BY Pow2Facts, Pow2More
<1>2. PICK qb, rb, q, r :
        /\ qb \in Int /\ rb \in 0..(m - 1) /\ b = m * qb + rb /\ rb = b % m
        /\ q \in Int /\ r \in 0..(m - 1)
        /\ a + rb = m * q + r /\ r = (a + rb) % m
  <2>1. PICK qb \in Int, rb \in 0..(m - 1) : b = m * qb + rb /\ rb = b % m
    BY <1>1, DivideBy
  <2>2. PICK c \in Int : c = a + rb
    OBVIOUS
  <2>3. PICK q \in Int, r \in 0..(m - 1) : c = m * q + r /\ r = c % m
    BY <1>1, DivideBy
  <2>4. QED
    BY <2>1, <2>2, <2>3
<1>3. a + b = m * (qb + q) + r
  <2>1. m * (qb + q) = m * qb + m * q /\ m * qb \in Int /\ m * q \in Int
    BY <1>2
  <2>2. QED
    BY <1>2, <2>1
<1>4. (a + b) % m = r
  <2>1. a + b \in Int /\ qb + q \in Int
    BY <1>2
  <2>2. QED
    BY <1>1, <1>2, <1>3, <2>1, OneRemainder
<1>5. a % m \in 0..(m - 1)
  BY <1>1
<1>6. a \in 0..(m - 1) => a % m = a
  BY <1>1
<1>7. QED
  BY <1>1, <1>2, <1>4, <1>5, <1>6 DEF Wrap, Words

LEMMA SignedFacts ==
    ASSUME NEW bits \in Nat, bits >= 1, NEW n \in Words(bits)
    PROVE  /\ n \in Nat /\ Signed(bits, n) \in Int
           /\ Wrap(bits, Signed(bits, n)) = n
           /\ ZigZag(Signed(bits, n)) \in Nat
           /\ ZigZag(Signed(bits, n)) < Pow2(bits)
<1>1. PICK h \in Nat, m \in Nat :
        h = Pow2(bits - 1) /\ m = Pow2(bits) /\ m = 2 * h /\ h >= 1
  BY HalfWord
<1>2. PICK s : s = Signed(bits, n)
  OBVIOUS
<1>3. n \in 0..(m - 1) /\ s = IF n < h THEN n ELSE n - m
  BY <1>1, <1>2 DEF Signed, Words
<1>4. s \in Int /\ s < h /\ s >= -h
  BY <1>1, <1>3
<1>5. s % m = n
  <2>1. CASE n < h
    BY <1>1, <1>3, <2>1
  <2>2. CASE n >= h
    <3>1. s = m * (-1) + n
      BY <1>1, <1>3, <2>2
    <3>2. m >= 1 /\ -1 \in Int /\ n \in 0..(m - 1)
      BY <1>1, <1>3
    <3>3. QED
      BY <1>4, <3>1, <3>2, OneRemainder
  <2>3. QED
    BY <1>1, <1>3, <2>1, <2>2
<1>6. ZigZag(s) \in Nat /\ ZigZag(s) < m
  BY <1>1, <1>4 DEF ZigZag
<1>7. QED
  BY <1>1, <1>2, <1>3, <1>4, <1>5, <1>6 DEF Wrap

LEMMA ZigZagBack ==
    ASSUME NEW s \in Int
    PROVE  ZigZag(s) \in Nat /\ UnZigZag(ZigZag(s)) = s
<1>1. CASE s >= 0
  <2>1. ZigZag(s) = 2 * s
    BY <1>1 DEF ZigZag
  <2>2. (2 * s) % 2 = 0 /\ (2 * s) \div 2 = s
    OBVIOUS
  <2>3. QED
    BY <1>1, <2>1, <2>2 DEF UnZigZag
<1>2. CASE s < 0
  <2>1. PICK t \in Nat : s = -t /\ t >= 1
    <3>1. -s \in Nat /\ s = -(-s)
      BY <1>2
    <3>2. QED
      BY <1>2, <3>1
  <2>2. ZigZag(s) = 2 * t - 1
    BY <2>1 DEF ZigZag
  <2>3. (2 * t - 1) % 2 = 1 /\ ((2 * t - 1) + 1) \div 2 = t
    OBVIOUS
  <2>4. QED
    BY <2>1, <2>2, <2>3 DEF UnZigZag
<1>3. QED
  BY <1>1, <1>2

(* A delta from the value before, above the least, and back.               *)
LEMMA ValueBack ==
    ASSUME NEW bits \in Nat, NEW before \in Words(bits), NEW v \in Words(bits),
           NEW least \in Int
    PROVE  Wrap(bits, before + least
                        + Wrap(bits, Wrap(bits, v - before) - least)) = v
<1>1. before \in Int /\ v \in Int
  BY Pow2Facts DEF Words
<1>2. PICK d, e : d = v - before /\ d \in Int /\ e = Wrap(bits, d)
  BY <1>1
<1>3. e \in Int
  <2>1. e \in Words(bits)
    BY <1>2, WrapFacts
  <2>2. QED
    BY <2>1, Pow2Facts DEF Words
<1>4. Wrap(bits, (before + least) + Wrap(bits, e - least)) =
         Wrap(bits, (before + least) + (e - least))
  <2>1. PICK x \in Int, y \in Int : x = before + least /\ y = e - least
    BY <1>1, <1>3
  <2>2. Wrap(bits, x + Wrap(bits, y)) = Wrap(bits, x + y)
    BY WrapFacts
  <2>3. QED
    BY <2>1, <2>2
<1>5. (before + least) + (e - least) = before + e
  BY <1>1, <1>3
<1>6. Wrap(bits, before + e) = Wrap(bits, before + d)
  BY <1>1, <1>2, WrapFacts
<1>7. before + d = v
  BY <1>1, <1>2
<1>8. Wrap(bits, v) = v
  BY <1>1, WrapFacts
<1>9. QED
  BY <1>2, <1>4, <1>5, <1>6, <1>7, <1>8

-----------------------------------------------------------------------------
(* Miniblocks.                                                             *)

LEMMA WidthsFit ==
    ASSUME NEW bits \in Nat, NEW above \in Seq(Words(bits)),
           NEW b \in 1..Miniblocks
    PROVE  /\ Widths(above)[b] \in 0..bits
           /\ \A i \in Within(b) \cap DOMAIN above :
                 above[i] < Pow2(Widths(above)[b])
           /\ (b - 1) * PerMiniblock >= Len(above) => Widths(above)[b] = 0
<1> DEFINE widths == {BitWidth(above[i]) : i \in Within(b) \cap DOMAIN above}
                         \cup {0}
           Most(w) == \A v \in widths : v <= w
<1>1. PICK w : w = Widths(above)[b] /\ w = CHOOSE u \in widths : Most(u)
  <2>1. Widths(above)[b] = CHOOSE u \in widths : Most(u)
    BY Zenon DEF Widths
  <2>2. QED
    BY <2>1
<1>2. \A i \in DOMAIN above : above[i] \in Nat /\ above[i] < Pow2(bits)
  <2>1. \A i \in DOMAIN above : above[i] \in Words(bits)
    BY ElementOfSeq
  <2>2. QED
    BY <2>1, Pow2Facts DEF Words
<1>3. \A i \in DOMAIN above : /\ BitWidth(above[i]) \in 0..bits
                              /\ above[i] < Pow2(BitWidth(above[i]))
  <2> SUFFICES ASSUME NEW i \in DOMAIN above
               PROVE  /\ BitWidth(above[i]) \in 0..bits
                      /\ above[i] < Pow2(BitWidth(above[i]))
    OBVIOUS
  <2>1. PICK n \in Nat : n = above[i] /\ n < Pow2(bits)
    BY <1>2
  <2>2. /\ BitWidth(n) \in Nat /\ n < Pow2(BitWidth(n))
        /\ BitWidth(n) <= bits
    BY <2>1, BitWidthFits
  <2>3. QED
    BY <2>1, <2>2
<1>4. widths \in SUBSET (0..bits) /\ widths # {}
  BY <1>3
<1>5. w \in widths /\ Most(w)
  <2>1. \E u \in widths : Most(u)
    <3> HIDE DEF widths
    <3>1. QED
      BY <1>4, MostNat
  <2> HIDE DEF widths, Most
  <2>2. QED
    BY <1>1, <2>1
<1>6. w \in 0..bits
  <2> HIDE DEF widths
  <2>1. QED
    BY <1>4, <1>5
<1>7. ASSUME NEW i \in Within(b) \cap DOMAIN above PROVE above[i] < Pow2(w)
  <2>1. PICK n \in Nat, v \in Nat :
          n = above[i] /\ v = BitWidth(n) /\ n < Pow2(v)
    BY <1>2, <1>3
  <2>2. v <= w /\ w \in Nat
    <3>1. v \in widths
      BY <2>1
    <3> HIDE DEF widths
    <3>2. QED
      BY <1>5, <1>6, <3>1
  <2>3. Pow2(v) <= Pow2(w) /\ Pow2(v) \in Nat /\ Pow2(w) \in Nat
    BY <2>2, Pow2Grows, Pow2Facts
  <2>4. QED
    BY <2>1, <2>3
<1>8. ASSUME (b - 1) * PerMiniblock >= Len(above) PROVE w = 0
  <2>1. Within(b) \cap DOMAIN above = {}
    <3> SUFFICES ASSUME NEW i \in Within(b) \cap DOMAIN above PROVE FALSE
      OBVIOUS
    <3>1. i \in 1..Len(above) /\ i - 1 \in Nat /\ Len(above) \in Nat
      BY LenProperties
    <3>2. (i - 1) \div PerMiniblock = b - 1
      BY DEF Within
    <3>3. PICK p \in Nat : p = PerMiniblock /\ p >= 1
      BY DeltaConstants
    <3>4. PICK x \in Nat, c \in Nat : x = i - 1 /\ c = b - 1
      BY <3>1, DeltaConstants
    <3>5. x \div p = c /\ c * p >= Len(above)
      <4>1. c * p = (b - 1) * PerMiniblock
        BY <3>3, <3>4, Zenon
      <4>2. x \div p = c
        BY <3>2, <3>3, <3>4, Zenon
      <4>3. QED
        BY <1>8, <4>1, <4>2, Zenon
    <3>6. PICK q \in Int, r \in 0..(p - 1) : x = p * q + r /\ q = x \div p
      <4>1. x \in Int
        OBVIOUS
      <4>2. QED
        BY <3>3, <4>1, DivideBy
    <3>7. p * q = c * p /\ c * p \in Nat
      BY <3>5, <3>6
    <3>8. QED
      BY <3>1, <3>4, <3>5, <3>6, <3>7
  <2>2. widths = {0}
    BY <2>1
  <2> HIDE DEF widths
  <2>3. QED
    BY <1>5, <2>2
<1>9. QED
  BY <1>1, <1>6, <1>7, <1>8

(* A miniblock that is written has all its deltas.                         *)
HasDeltas(above, width, b, s) ==
    /\ width[b] = 0 => s = <<>>
    /\ s \in Seq(Nat)
    /\ width[b] # 0 =>
          /\ Len(s) = PerMiniblock
          /\ \A j \in 1..PerMiniblock :
                (b - 1) * PerMiniblock + j <= Len(above) =>
                   s[j] = above[(b - 1) * PerMiniblock + j]

LEMMA PackedFacts ==
    ASSUME NEW bits \in Nat, NEW above \in Seq(Words(bits)),
           NEW b \in 1..Miniblocks, NEW unset \in Nat, NEW width,
           width = Widths(above), NEW s, s = Packed(above, width, b, unset)
    PROVE  HasDeltas(above, width, b, s)
<1> DEFINE Item(j) == LET i == (b - 1) * PerMiniblock + j
                      IN  IF i <= Len(above) THEN above[i]
                                             ELSE Wrap(width[b], unset)
<1>1. width[b] \in Nat /\ ((b - 1) * PerMiniblock >= Len(above) => width[b] = 0)
  BY WidthsFit
<1>2. CASE width[b] = 0
  BY <1>2, EmptySeq DEF Packed, HasDeltas
<1>3. CASE width[b] # 0
  <2>1. PICK p \in Nat, c \in Nat, n \in Nat :
          p = PerMiniblock /\ c = (b - 1) * PerMiniblock /\ n = Len(above)
    <3>1. PICK p \in Nat, x \in Nat : p = PerMiniblock /\ x = b - 1
      BY DeltaConstants
    <3>2. x * p \in Nat
      OBVIOUS
    <3>3. QED
      BY <3>1, <3>2, LenProperties
  <2>2. ~(c >= n)
    BY <1>1, <1>3, <2>1
  <2>3. s = [j \in 1..PerMiniblock |-> Item(j)]
    BY <1>3, <2>1, <2>2 DEF Packed
  <2>4. ASSUME NEW j \in 1..PerMiniblock
        PROVE  /\ Item(j) \in Nat
               /\ c + j <= n => Item(j) = above[c + j]
    <3>1. CASE c + j <= n
      <4>1. c + j \in 1..n
        BY <2>1, <3>1
      <4>2. above[c + j] \in Words(bits)
        BY <2>1, <4>1, ElementOfSeq
      <4>3. above[c + j] \in Nat
        BY <4>2, Pow2Facts DEF Words
      <4>4. QED
        BY <2>1, <3>1, <4>3
    <3>2. CASE ~(c + j <= n)
      <4>1. Item(j) = Wrap(width[b], unset)
        BY <2>1, <3>2
      <4>2. Wrap(width[b], unset) \in Words(width[b])
        <5>1. PICK k \in Nat : k = width[b]
          BY <1>1
        <5>2. unset \in Int
          OBVIOUS
        <5>3. Wrap(k, unset) \in Words(k)
          BY <5>2, WrapFacts
        <5>4. QED
          BY <5>1, <5>3
      <4>3. Wrap(width[b], unset) \in Nat
        <5>1. PICK k \in Nat : k = width[b]
          BY <1>1
        <5>2. Pow2(k) \in Nat
          BY Pow2Facts
        <5>3. QED
          BY <4>2, <5>1, <5>2 DEF Words
      <4>4. QED
        BY <3>2, <4>1, <4>3
    <3>3. QED
      BY <3>1, <3>2
  <2> HIDE DEF Item
  <2>5. s \in Seq(Nat) /\ Len(s) = PerMiniblock
    BY <2>1, <2>3, <2>4
  <2>6. \A j \in 1..PerMiniblock : s[j] = Item(j)
    BY <2>3
  <2>7. QED
    BY <1>3, <2>1, <2>4, <2>5, <2>6 DEF HasDeltas
<1>4. QED
  BY <1>2, <1>3

(* How many of `used' are before i.                                        *)
Before(used, i) == Cardinality({c \in 1..(i - 1) : c \in used})

LEMMA BeforeFacts ==
    ASSUME NEW used, NEW i \in Nat, i >= 1
    PROVE  /\ Before(used, 1) = 0
           /\ Before(used, i) \in 0..(i - 1)
           /\ i \in used => Before(used, i + 1) = Before(used, i) + 1
           /\ i \notin used => Before(used, i + 1) = Before(used, i)
<1> DEFINE S == {c \in 1..(i - 1) : c \in used}
           T == {c \in 1..((i + 1) - 1) : c \in used}
<1>1. Before(used, 1) = 0
  <2>1. {c \in 1..(1 - 1) : c \in used} = {}
    OBVIOUS
  <2>2. QED
    BY <2>1, FS_EmptySet DEF Before
<1>2. IsFiniteSet(S) /\ Cardinality(S) \in 0..(i - 1)
  <2>1. IsFiniteSet(1..(i - 1)) /\ Cardinality(1..(i - 1)) = i - 1
    <3>1. 1 \in Int /\ i - 1 \in Int
      OBVIOUS
    <3>2. QED
      BY <3>1, FS_Interval
  <2>2. S \in SUBSET (1..(i - 1))
    OBVIOUS
  <2> HIDE DEF S
  <2>3. IsFiniteSet(S) /\ Cardinality(S) <= i - 1
    BY <2>1, <2>2, FS_Subset
  <2>4. QED
    BY <2>3, FS_CardinalityType
<1>3. ASSUME i \in used PROVE Cardinality(T) = Cardinality(S) + 1
  <2>1. T = S \cup {i} /\ i \notin S
    BY <1>3
  <2> HIDE DEF S, T
  <2>2. QED
    BY <1>2, <2>1, FS_AddElement
<1>4. ASSUME i \notin used PROVE Cardinality(T) = Cardinality(S)
  <2>1. T = S
    BY <1>4
  <2>2. QED
    BY <2>1
<1>5. QED
  BY <1>1, <1>2, <1>3, <1>4 DEF Before

(* Where the parts of a sequence are that are empty or p long.             *)
HasParts(f, ss, p, used) ==
    /\ Len(f) = p * Before(used, Len(ss) + 1)
    /\ \A b \in 1..Len(ss) : b \in used =>
          \A j \in 1..p : /\ p * Before(used, b) + j \in 1..Len(f)
                          /\ f[p * Before(used, b) + j] = ss[b][j]

LEMMA FlattenMinis ==
    ASSUME NEW E, NEW ss \in Seq(Seq(E)), Len(ss) > 0, NEW p \in Nat, NEW used,
           \A b \in 1..Len(ss) : IF b \in used THEN Len(ss[b]) = p
                                               ELSE ss[b] = <<>>
    PROVE  FlattenSeq(ss) \in Seq(E) /\ HasParts(FlattenSeq(ss), ss, p, used)
<1> DEFINE n == Len(ss)
           At(b) == p * Before(used, b)
           Parts(s, k) == /\ s \in Seq(E) /\ Len(s) = At(k + 1)
                          /\ \A b \in 1..k : b \in used =>
                                \A j \in 1..p : /\ At(b) + j \in 1..Len(s)
                                                /\ s[At(b) + j] = ss[b][j]
<1>1. n \in Nat /\ n > 0 /\ \A b \in 1..n : ss[b] \in Seq(E)
  BY LenProperties, ElementOfSeq
<1>2. PICK f : /\ f[1] = ss[1]
               /\ \A k \in 2..n : f[k] = f[k - 1] \o ss[k]
               /\ FlattenSeq(ss) = f[n]
  BY FlattenLoop
<1>3. At(1) = 0
  <2>1. 1 \in Nat /\ 1 >= 1
    OBVIOUS
  <2>2. Before(used, 1) = 0
    BY <2>1, BeforeFacts
  <2>3. QED
    BY <2>2
<1>4. ASSUME NEW b \in 1..n
      PROVE  /\ At(b) \in Nat
             /\ b \in used => At(b + 1) = At(b) + p /\ Len(ss[b]) = p
             /\ b \notin used => At(b + 1) = At(b) /\ ss[b] = <<>>
  <2>1. PICK m \in Nat : m = Before(used, b)
    BY <1>1, BeforeFacts
  <2>2. p * m \in Nat /\ p * (m + 1) = p * m + p
    OBVIOUS
  <2>3. /\ b \in used => Before(used, b + 1) = m + 1
        /\ b \notin used => Before(used, b + 1) = m
    BY <1>1, <2>1, BeforeFacts
  <2>4. QED
    BY <2>1, <2>2, <2>3
<1> DEFINE S == {k \in 0..n : k > 0 => Parts(f[k], k)}
<1> HIDE DEF n, At
<1>5. 0 \in S
  BY <1>1
<1>6. ASSUME NEW k \in 1..n, k - 1 \in S PROVE k \in S
  <2>1. CASE k = 1
    <3>1. f[1] \in Seq(E) /\ ss[1] \in Seq(E) /\ f[1] = ss[1]
      BY <1>1, <1>2
    <3>2. CASE 1 \in used
      <4>1. At(1 + 1) = p /\ Len(ss[1]) = p
        BY <1>1, <1>3, <1>4, <3>2
      <4>2. \A b \in 1..1 : b = 1
        OBVIOUS
      <4>3. Parts(f[1], 1)
        BY <1>3, <3>1, <4>1, <4>2
      <4>4. QED
        BY <2>1, <4>3
    <3>3. CASE 1 \notin used
      <4>1. At(1 + 1) = 0 /\ ss[1] = <<>>
        BY <1>1, <1>3, <1>4, <3>3
      <4>2. \A b \in 1..1 : b = 1
        OBVIOUS
      <4>3. Len(f[1]) = 0
        BY <3>1, <4>1, EmptySeq
      <4>4. Parts(f[1], 1)
        BY <3>1, <3>3, <4>1, <4>2, <4>3
      <4>5. QED
        BY <2>1, <4>4
    <3>4. QED
      BY <3>2, <3>3
  <2>2. CASE k # 1
    <3>1. PICK s, t : s = f[k - 1] /\ t = ss[k]
      OBVIOUS
    <3>2. k \in 2..n /\ k - 1 \in 1..n /\ (k - 1) + 1 = k
      BY <1>1, <2>2
    <3>3. f[k] = s \o t /\ Parts(s, k - 1)
      <4>1. k - 1 > 0
        BY <3>2
      <4> HIDE DEF Parts
      <4>2. Parts(f[k - 1], k - 1)
        BY <1>6, <4>1
      <4>3. QED
        BY <1>2, <3>1, <3>2, <4>2
    <3>4. s \in Seq(E) /\ t \in Seq(E) /\ Len(s) = At(k)
      BY <1>1, <3>1, <3>2, <3>3
    <3>5. /\ s \o t \in Seq(E) /\ Len(s \o t) = Len(s) + Len(t)
          /\ Len(s) \in Nat /\ Len(t) \in Nat
          /\ \A i \in 1..Len(s) : (s \o t)[i] = s[i]
          /\ \A i \in 1..Len(t) : (s \o t)[Len(s) + i] = t[i]
      BY <3>4, ConcatProperties, LenProperties
    <3>6. /\ k \in used => At(k + 1) = At(k) + p /\ Len(t) = p
          /\ k \notin used => At(k + 1) = At(k) /\ Len(t) = 0
      BY <1>4, <3>1, EmptySeq
    <3>7. Len(s \o t) = At(k + 1)
      BY <3>4, <3>5, <3>6
    <3>8. ASSUME NEW b \in 1..k, b \in used, NEW j \in 1..p
          PROVE  /\ At(b) + j \in 1..Len(s \o t)
                 /\ (s \o t)[At(b) + j] = ss[b][j]
      <4>1. CASE b = k
        <5>1. At(b) + j = Len(s) + j /\ j \in 1..Len(t) /\ ss[b] = t
          BY <3>1, <3>4, <3>6, <3>8, <4>1
        <5>2. QED
          BY <3>5, <5>1
      <4>2. CASE b # k
        <5>1. b \in 1..(k - 1)
          BY <4>2
        <5>2. At(b) + j \in 1..Len(s) /\ s[At(b) + j] = ss[b][j]
          BY <3>3, <3>8, <5>1
        <5>3. QED
          BY <3>5, <5>2
      <4>3. QED
        BY <4>1, <4>2
    <3>9. Parts(s \o t, k)
      BY <3>5, <3>7, <3>8
    <3>10. k \in 0..n
      BY <1>1
    <3> HIDE DEF Parts
    <3>11. Parts(f[k], k)
      BY <3>3, <3>9
    <3>12. QED
      BY <3>10, <3>11
  <2>3. QED
    BY <2>1, <2>2
<1>7. n \in S
  <2>1. 0..n \subseteq S
    <3> HIDE DEF S
    <3>1. QED
      BY <1>1, <1>5, <1>6, UpTo, Zenon
  <2>2. n \in 0..n
    BY <1>1
  <2> HIDE DEF S
  <2>3. QED
    BY <2>1, <2>2
<1>8. Parts(FlattenSeq(ss), n)
  <2> HIDE DEF Parts
  <2>1. QED
    BY <1>1, <1>2, <1>7
<1>9. QED
  BY <1>8 DEF n, At, HasParts

-----------------------------------------------------------------------------
(* One block.                                                              *)

Used(width) == {b \in 1..Miniblocks : width[b] # 0}

IsBlock(s, least, above, width) ==
    /\ s \in Seq(Nat)
    /\ Len(s) = 1 + Miniblocks
                  + PerMiniblock * Before(Used(width), Miniblocks + 1)
    /\ s[1] = ZigZag(least)
    /\ \A b \in 1..Miniblocks : s[1 + b] = width[b] /\ width[b] \in Nat
    /\ \A b \in Used(width) : \A j \in 1..PerMiniblock :
          (b - 1) * PerMiniblock + j <= Len(above) =>
             LET at == 1 + Miniblocks
                         + PerMiniblock * Before(Used(width), b) + j
             IN  /\ at \in 1..Len(s)
                 /\ s[at] = above[(b - 1) * PerMiniblock + j]

LEMMA BlockShape ==
    ASSUME NEW bits \in Nat, NEW above \in Seq(Words(bits)), Len(above) >= 1,
           NEW unset \in Nat, NEW width, width = Widths(above),
           NEW least \in Int, NEW e, NEW s,
           s = BlockNumbers(e, least, above, width, unset)
    PROVE  IsBlock(s, least, above, width)
<1> DEFINE packed == [b \in 1..Miniblocks |-> Packed(above, width, b, unset)]
           used == Used(width)
<1>1. PICK n \in Nat, p \in Nat : n = Miniblocks /\ p = PerMiniblock /\ n >= 1
  BY DeltaConstants
<1>2. width \in Seq(Nat) /\ Len(width) = n
      /\ \A b \in 1..n : width[b] \in Nat
  <2>1. \A b \in 1..n : width[b] \in Nat
    BY <1>1, WidthsFit
  <2>2. DOMAIN width = 1..n /\ width = [b \in 1..n |-> width[b]]
    <3> DEFINE Of(b) ==
          LET widths ==
                {BitWidth(above[i]) : i \in Within(b) \cap DOMAIN above}
                    \cup {0}
          IN  CHOOSE w \in widths : \A v \in widths : v <= w
    <3>1. width = [b \in 1..n |-> Of(b)]
      BY <1>1, Zenon DEF Widths
    <3> HIDE DEF Of
    <3>2. QED
      BY <3>1
  <2>3. QED
    BY <1>1, <2>1, <2>2
<1>3. ASSUME NEW b \in 1..n
      PROVE  /\ packed[b] \in Seq(Nat)
             /\ IF b \in used THEN Len(packed[b]) = p ELSE packed[b] = <<>>
             /\ b \in used => \A j \in 1..p :
                   (b - 1) * PerMiniblock + j <= Len(above) =>
                      packed[b][j] = above[(b - 1) * PerMiniblock + j]
  <2>1. packed[b] = Packed(above, width, b, unset) /\ b \in 1..Miniblocks
    BY <1>1
  <2> HIDE DEF packed
  <2>2. PICK t : t = packed[b]
    OBVIOUS
  <2>3. /\ width[b] = 0 => t = <<>>
        /\ t \in Seq(Nat)
        /\ width[b] # 0 =>
              /\ Len(t) = PerMiniblock
              /\ \A j \in 1..PerMiniblock :
                    (b - 1) * PerMiniblock + j <= Len(above) =>
                       t[j] = above[(b - 1) * PerMiniblock + j]
    <3>1. t = Packed(above, width, b, unset)
      BY <2>1, <2>2
    <3>2. PICK c \in 1..Miniblocks : c = b
      BY <2>1
    <3>3. t = Packed(above, width, c, unset)
      BY <3>1, <3>2
    <3>4. HasDeltas(above, width, c, t)
      BY <3>3, PackedFacts
    <3>5. QED
      BY <3>2, <3>4, Zenon DEF HasDeltas
  <2>4. QED
    BY <1>1, <2>1, <2>2, <2>3 DEF Used
<1>4. packed \in Seq(Seq(Nat)) /\ Len(packed) = n
  BY <1>1, <1>3
<1>5. PICK f : f = FlattenSeq(packed)
  OBVIOUS
<1>6. /\ f \in Seq(Nat) /\ Len(f) = p * Before(used, n + 1)
      /\ \A b \in 1..n : b \in used =>
            \A j \in 1..p : /\ p * Before(used, b) + j \in 1..Len(f)
                            /\ f[p * Before(used, b) + j] = packed[b][j]
  <2> HIDE DEF packed, used
  <2>1. Len(packed) > 0
    BY <1>1, <1>4
  <2>2. \A b \in 1..Len(packed) : IF b \in used THEN Len(packed[b]) = p
                                                ELSE packed[b] = <<>>
    BY <1>3, <1>4
  <2>3. /\ FlattenSeq(packed) \in Seq(Nat)
        /\ Len(FlattenSeq(packed)) = p * Before(used, Len(packed) + 1)
        /\ \A b \in 1..Len(packed) : b \in used =>
              \A j \in 1..p :
                 /\ p * Before(used, b) + j \in 1..Len(FlattenSeq(packed))
                 /\ FlattenSeq(packed)[p * Before(used, b) + j] = packed[b][j]
    <3>1. PICK ss, E, u : ss = packed /\ E = Nat /\ u = used
      OBVIOUS
    <3>2. /\ ss \in Seq(Seq(E)) /\ Len(ss) > 0
          /\ \A b \in 1..Len(ss) : IF b \in u THEN Len(ss[b]) = p
                                             ELSE ss[b] = <<>>
      BY <1>4, <2>1, <2>2, <3>1
    <3>3. FlattenSeq(ss) \in Seq(E) /\ HasParts(FlattenSeq(ss), ss, p, u)
      BY <3>2, FlattenMinis
    <3>4. QED
      BY <3>1, <3>3, Zenon DEF HasParts
  <2>4. QED
    BY <1>4, <1>5, <2>3
<1>7. PICK z \in Nat : z = ZigZag(least)
  BY ZigZagBack
<1>8. s = (<<z>> \o width) \o f
  BY <1>5, <1>7 DEF BlockNumbers
<1>9. PICK h : /\ h = <<z>> \o width /\ h \in Seq(Nat) /\ Len(h) = 1 + n
               /\ h[1] = z /\ \A b \in 1..n : h[1 + b] = width[b]
  <2>1. PICK u : u = <<z>> /\ u \in Seq(Nat) /\ Len(u) = 1 /\ u[1] = z
    <3>1. <<z>> \in Seq(Nat) /\ Len(<<z>>) = 1 /\ <<z>>[1] = z
      OBVIOUS
    <3>2. QED
      BY <3>1, Zenon
  <2>2. /\ u \o width \in Seq(Nat) /\ Len(u \o width) = 1 + n
        /\ (u \o width)[1] = z
        /\ \A b \in 1..n : (u \o width)[1 + b] = width[b]
    BY <1>2, <2>1, ConcatProperties
  <2>3. QED
    BY <2>1, <2>2
<1>10. /\ s \in Seq(Nat) /\ Len(s) = (1 + n) + Len(f) /\ Len(f) \in Nat
       /\ \A i \in 1..(1 + n) : s[i] = h[i]
       /\ \A i \in 1..Len(f) : s[(1 + n) + i] = f[i]
  <2>1. s = h \o f
    BY <1>8, <1>9
  <2>2. f \in Seq(Nat) /\ h \in Seq(Nat) /\ Len(h) = 1 + n
    BY <1>6, <1>9
  <2>3. /\ h \o f \in Seq(Nat) /\ Len(h \o f) = Len(h) + Len(f)
        /\ Len(f) \in Nat
        /\ \A i \in 1..Len(h) : (h \o f)[i] = h[i]
        /\ \A i \in 1..Len(f) : (h \o f)[Len(h) + i] = f[i]
    <3>1. PICK E : E = Nat /\ f \in Seq(E) /\ h \in Seq(E)
      BY <2>2
    <3>2. /\ h \o f \in Seq(E) /\ Len(h \o f) = Len(h) + Len(f)
          /\ Len(f) \in Nat /\ Len(h) \in Nat
      BY <3>1, ConcatProperties, LenProperties
    <3>3. \A i \in 1..Len(h) : (h \o f)[i] = h[i]
      BY <3>1, <3>2, ConcatProperties
    <3>4. \A i \in 1..Len(f) : (h \o f)[Len(h) + i] = f[i]
      BY <3>1, <3>2, ConcatProperties
    <3>5. QED
      BY <3>1, <3>2, <3>3, <3>4
  <2>4. QED
    BY <2>1, <2>2, <2>3
<1>11. s[1] = z /\ \A b \in 1..n : s[1 + b] = width[b]
  <2>1. 1 \in 1..(1 + n) /\ \A b \in 1..n : 1 + b \in 1..(1 + n)
    BY <1>1
  <2>2. QED
    BY <1>9, <1>10, <2>1
<1>12. ASSUME NEW b \in used, NEW j \in 1..p,
              (b - 1) * PerMiniblock + j <= Len(above)
       PROVE  LET at == 1 + n + p * Before(used, b) + j
              IN  /\ at \in 1..Len(s)
                  /\ s[at] = above[(b - 1) * PerMiniblock + j]
  <2>1. b \in 1..n
    BY <1>1 DEF Used
  <2>2. PICK i : /\ i = p * Before(used, b) + j /\ i \in 1..Len(f)
                 /\ f[i] = packed[b][j]
    BY <1>6, <2>1
  <2>3. packed[b][j] = above[(b - 1) * PerMiniblock + j]
    <3> HIDE DEF packed
    <3>1. QED
      BY <1>3, <1>12, <2>1
  <2>4. s[(1 + n) + i] = f[i] /\ (1 + n) + i \in 1..Len(s)
    <3>1. i \in 1..Len(f)
      BY <2>2
    <3>2. QED
      BY <1>1, <1>10, <3>1
  <2>5. p * Before(used, b) \in Int
    <3>1. PICK m \in Nat : m = Before(used, b)
      BY <2>1, BeforeFacts
    <3>2. p * m \in Int
      OBVIOUS
    <3>3. QED
      BY <3>1, <3>2
  <2>6. 1 + n + p * Before(used, b) + j = (1 + n) + i
    BY <1>1, <2>2, <2>5
  <2>7. QED
    BY <2>2, <2>3, <2>4, <2>6
<1> HIDE DEF packed
<1>13. QED
  BY <1>1, <1>2, <1>6, <1>7, <1>10, <1>11, <1>12, SMTT(30) DEF IsBlock

(* The delta of value i of a block at `at'.                                *)
DeltaAt(q, at, i) ==
    LET b == (i % BlockValues) \div PerMiniblock + 1
    IN  IF q[at + b] = 0 THEN 0
        ELSE q[BlockOf(q, at, b) + (i % PerMiniblock)]

(* Which is in this miniblock, and there.                                  *)
IsPlace(i, k, n) ==
    /\ i \div BlockValues = k
    /\ i % BlockValues = n
    /\ n \div PerMiniblock + 1 \in 1..Miniblocks
    /\ i % PerMiniblock \in 0..(PerMiniblock - 1)
    /\ n + 1 = (n \div PerMiniblock) * PerMiniblock + ((i % PerMiniblock) + 1)

LEMMA InMiniblock ==
    ASSUME NEW k \in Nat, NEW n \in 0..(BlockValues - 1)
    PROVE  IsPlace(BlockValues * k + n, k, n)
<1>1. PICK v \in Nat, p \in Nat, m \in Nat :
        /\ v = BlockValues /\ p = PerMiniblock /\ m = Miniblocks
        /\ p >= 1 /\ m >= 1 /\ v = m * p /\ v >= 1
  BY DeltaConstants
<1>2. n \in 0..(v - 1) /\ n \in Nat
  BY <1>1
<1>3. PICK x \in Nat : x = v * k + n
  <2>1. v * k \in Nat
    OBVIOUS
  <2>2. QED
    BY <1>2, <2>1
<1>4. x % v = n
  <2>1. v >= 1 /\ x \in Int /\ k \in Int
    BY <1>1
  <2>2. QED
    BY <1>2, <1>3, <2>1, OneRemainder
<1>5. x \div v = k
  <2>1. x \in Int
    OBVIOUS
  <2>2. PICK q \in Int, r \in 0..(v - 1) :
          x = v * q + r /\ r = x % v /\ q = x \div v
    BY <1>1, <2>1, DivideBy
  <2>3. v * q = v * k
    BY <1>3, <1>4, <2>2
  <2>4. q = k
    <3>1. CASE q >= k + 1
      <4>1. v * q >= v * (k + 1) /\ v * (k + 1) = v * k + v /\ v * k \in Int
        BY <1>1, <3>1
      <4>2. QED
        BY <1>1, <2>3, <4>1
    <3>2. CASE k >= q + 1
      <4>1. v * k >= v * (q + 1) /\ v * (q + 1) = v * q + v /\ v * q \in Int
        BY <1>1, <3>2
      <4>2. QED
        BY <1>1, <2>3, <4>1
    <3>3. QED
      BY <3>1, <3>2
  <2>5. QED
    BY <2>2, <2>4
<1>6. PICK q \in Nat, r \in 0..(p - 1) :
        n = p * q + r /\ r = n % p /\ q = n \div p
  <2>1. n \in Int
    BY <1>2
  <2>2. PICK q \in Int, r \in 0..(p - 1) :
          n = p * q + r /\ r = n % p /\ q = n \div p
    BY <1>1, <2>1, DivideBy
  <2>3. q >= 0
    <3>1. CASE q <= -1
      <4>1. p * q <= p * (-1)
        BY <1>1, <3>1
      <4>2. QED
        BY <1>1, <2>2, <4>1
    <3>2. QED
      BY <3>1
  <2>4. q \in Nat
    BY <2>3
  <2>5. QED
    BY <2>2, <2>4
<1>7. q < m
  <2>1. CASE q >= m
    <3>1. p * q >= p * m /\ p * m = m * p
      BY <1>1, <2>1
    <3>2. QED
      BY <1>1, <1>2, <1>6, <3>1
  <2>2. QED
    BY <2>1
<1>8. x % p = r
  <2>1. x = p * (m * k + q) + r
    <3>1. v * k = (m * p) * k /\ (m * p) * k = p * (m * k)
      BY <1>1
    <3>2. PICK y \in Nat : y = m * k
      OBVIOUS
    <3>3. p * (y + q) = p * y + p * q /\ p * y \in Int /\ p * q \in Int
      OBVIOUS
    <3>4. v * k = p * y
      BY <3>1, <3>2, Zenon
    <3>5. x = (p * y + p * q) + r
      BY <1>3, <1>6, <3>3, <3>4
    <3>6. QED
      BY <3>2, <3>3, <3>5
  <2>2. PICK y \in Int : y = m * k + q
    OBVIOUS
  <2>3. QED
    BY <1>1, <2>1, <2>2, OneRemainder
<1>9. n + 1 = q * p + (r + 1)
  BY <1>6
<1>10. q + 1 \in 1..m
  BY <1>7
<1>11. QED
  BY <1>1, <1>3, <1>4, <1>5, <1>6, <1>8, <1>9, <1>10, Zenon DEF IsPlace

-----------------------------------------------------------------------------
(* Blocks in the numbers of a page.                                        *)

UsedIn(q, at) == {b \in 1..Miniblocks : q[at + b] # 0}

LEMMA BeforeMore ==
    ASSUME NEW used, NEW i \in Nat, i >= 1, NEW k \in Nat, i <= k
    PROVE  /\ Before(used, i) <= Before(used, k)
           /\ i < k /\ i \in used => Before(used, i) + 1 <= Before(used, k)
<1>1. ASSUME NEW j \in Nat, j >= 1, j <= k
      PROVE  Before(used, j) <= Before(used, k)
  <2> DEFINE S == {c \in 1..(j - 1) : c \in used}
             T == {c \in 1..(k - 1) : c \in used}
  <2>1. IsFiniteSet(1..(k - 1))
    <3>1. 1 \in Int /\ k - 1 \in Int
      OBVIOUS
    <3>2. QED
      BY <3>1, FS_Interval
  <2>2. T \in SUBSET (1..(k - 1)) /\ S \in SUBSET T
    BY <1>1
  <2> HIDE DEF S, T
  <2>3. IsFiniteSet(T)
    BY <2>1, <2>2, FS_Subset
  <2>4. Cardinality(S) <= Cardinality(T)
    BY <2>2, <2>3, FS_Subset
  <2>5. QED
    BY <2>4 DEF S, T, Before
<1>2. ASSUME i < k, i \in used PROVE Before(used, i) + 1 <= Before(used, k)
  <2>1. Before(used, i + 1) = Before(used, i) + 1
    BY <1>2, BeforeFacts
  <2>2. Before(used, i + 1) <= Before(used, k)
    <3>1. i + 1 \in Nat /\ i + 1 >= 1 /\ i + 1 <= k
      BY <1>2
    <3>2. QED
      BY <1>1, <3>1
  <2>3. QED
    BY <2>1, <2>2
<1>3. QED
  BY <1>1, <1>2

(* A sequence of numbers with the header of this library's pages.          *)
Headed(q) == q[1] = BlockValues /\ q[2] = Miniblocks

BlockEnd(q, at) == BlockOf(q, at, Miniblocks + 1)

LEMMA BlockOfIs ==
    ASSUME NEW q, Headed(q), NEW at \in Nat, NEW i \in 1..(Miniblocks + 1)
    PROVE  /\ BlockOf(q, at, i) =
                 at + Miniblocks + 1 + PerMiniblock * Before(UsedIn(q, at), i)
           /\ BlockOf(q, at, i) \in Nat
           /\ BlockOf(q, at, i) >= at + Miniblocks + 1
           /\ BlockOf(q, at, i) <= BlockEnd(q, at)
           /\ i \in UsedIn(q, at) =>
                 BlockOf(q, at, i) + PerMiniblock <= BlockEnd(q, at)
<1>1. PICK m \in Nat, p \in Nat :
        /\ m = Miniblocks /\ p = PerMiniblock /\ m >= 1
        /\ BlockValues \div m = p
  BY DeltaConstants DEF PerMiniblock
<1>2. PICK used : used = UsedIn(q, at)
  OBVIOUS
<1>3. ASSUME NEW k \in 1..(m + 1)
      PROVE  BlockOf(q, at, k) = at + m + 1 + p * Before(used, k)
  <2>1. {b \in 1..(k - 1) : q[at + b] # 0} = {b \in 1..(k - 1) : b \in used}
    BY <1>1, <1>2 DEF UsedIn
  <2>2. BlockOf(q, at, k) =
           at + q[2] + 1 + (q[1] \div q[2])
              * Cardinality({b \in 1..(k - 1) : q[at + b] # 0})
    BY DEF BlockOf
  <2>3. q[2] = m /\ q[1] \div q[2] = p
    BY <1>1 DEF Headed
  <2>4. QED
    BY <2>1, <2>2, <2>3, Zenon DEF Before
<1>4. PICK x \in Nat, y \in Nat :
        /\ x = Before(used, i) /\ y = Before(used, m + 1)
        /\ x <= y /\ (i \in used => x + 1 <= y)
  <2>1. i \in Nat /\ i >= 1 /\ m + 1 \in Nat /\ i <= m + 1 /\ m + 1 >= 1
    BY <1>1
  <2>2. Before(used, i) \in Nat /\ Before(used, m + 1) \in Nat
    BY <2>1, BeforeFacts
  <2>3. i \in used => i < m + 1
    BY <1>1, <1>2 DEF UsedIn
  <2>4. /\ Before(used, i) <= Before(used, m + 1)
        /\ i \in used => Before(used, i) + 1 <= Before(used, m + 1)
    BY <2>1, <2>3, BeforeMore
  <2>5. QED
    BY <2>2, <2>4
<1>5. p * x \in Nat /\ p * y \in Nat /\ p * x <= p * y
  BY <1>4
<1>6. i \in used => p * x + p <= p * y
  <2>1. p * (x + 1) = p * x + p
    OBVIOUS
  <2>2. i \in used => p * (x + 1) <= p * y
    BY <1>4
  <2>3. QED
    BY <2>1, <2>2
<1>7. BlockOf(q, at, i) = at + m + 1 + p * x
  BY <1>1, <1>3, <1>4
<1>8. BlockEnd(q, at) = at + m + 1 + p * y
  <2>1. m + 1 \in 1..(m + 1)
    BY <1>1
  <2>2. QED
    BY <1>1, <1>3, <1>4, <2>1 DEF BlockEnd
<1>9. /\ BlockOf(q, at, i) \in Nat /\ BlockOf(q, at, i) >= at + m + 1
      /\ BlockOf(q, at, i) <= BlockEnd(q, at)
      /\ i \in used => BlockOf(q, at, i) + p <= BlockEnd(q, at)
  BY <1>1, <1>5, <1>6, <1>7, <1>8
<1>10. QED
  BY <1>1, <1>2, <1>4, <1>7, <1>9, Zenon

(* The value i of a page is in this miniblock of its block.                *)
LEMMA InBlock ==
    ASSUME NEW i \in Nat
    PROVE  /\ (i % BlockValues) \div PerMiniblock + 1 \in 1..Miniblocks
           /\ i % PerMiniblock \in 0..(PerMiniblock - 1)
           /\ i \div BlockValues \in Nat
           /\ i % BlockValues \in 0..(BlockValues - 1)
           /\ i = BlockValues * (i \div BlockValues) + (i % BlockValues)
<1>1. PICK v \in Nat : v = BlockValues /\ v >= 1
  BY DeltaConstants
<1>2. PICK k \in Int, n \in 0..(v - 1) :
        i = v * k + n /\ n = i % v /\ k = i \div v
  <2>1. i \in Int
    OBVIOUS
  <2>2. QED
    BY <1>1, <2>1, DivideBy
<1>3. k >= 0
  <2>1. CASE k <= -1
    <3>1. v * k <= v * (-1)
      BY <2>1
    <3>2. QED
      BY <1>2, <3>1
  <2>2. QED
    BY <2>1
<1>4. k \in Nat /\ n \in 0..(BlockValues - 1) /\ i = BlockValues * k + n
  BY <1>1, <1>2, <1>3
<1>5. IsPlace(i, k, n)
  <2>1. k \in Nat
    BY <1>4
  <2>2. n \in 0..(BlockValues - 1)
    BY <1>4
  <2>3. IsPlace(BlockValues * k + n, k, n)
    BY <2>1, <2>2, InMiniblock
  <2>4. QED
    BY <1>4, <2>3, Zenon
<1>6. /\ i \div BlockValues = k /\ i % BlockValues = n
      /\ n \div PerMiniblock + 1 \in 1..Miniblocks
      /\ i % PerMiniblock \in 0..(PerMiniblock - 1)
  BY <1>5, Zenon DEF IsPlace
<1>7. (i % BlockValues) \div PerMiniblock + 1 \in 1..Miniblocks
  BY <1>6, Zenon
<1>8. i = BlockValues * (i \div BlockValues) + (i % BlockValues)
  BY <1>4, <1>6, Zenon
<1>9. i \div BlockValues \in Nat /\ i % BlockValues \in 0..(BlockValues - 1)
  BY <1>4, <1>6, Zenon
<1>10. QED
  BY <1>6, <1>7, <1>8, <1>9, Zenon

(* What comes behind a block does not change it.                           *)
SameBlock(q, r, at, i) ==
    /\ r[at] = q[at] /\ BlockEnd(r, at) = BlockEnd(q, at)
    /\ DeltaAt(r, at, i) = DeltaAt(q, at, i)

LEMMA BlockStays ==
    ASSUME NEW q, NEW r, Headed(q), Headed(r), NEW at \in Nat, at >= 5,
           NEW n \in Nat, BlockEnd(q, at) <= n + 1,
           \A i \in 5..n : r[i] = q[i], NEW i \in Nat
    PROVE  SameBlock(q, r, at, i)
<1>1. PICK m \in Nat, p \in Nat :
        m = Miniblocks /\ p = PerMiniblock /\ m >= 1 /\ p >= 1
  BY DeltaConstants
<1>2. BlockEnd(q, at) >= at + m + 1 /\ BlockEnd(q, at) \in Nat
  <2>1. Miniblocks + 1 \in 1..(Miniblocks + 1)
    BY <1>1
  <2>2. QED
    BY <1>1, <2>1, BlockOfIs DEF BlockEnd
<1>3. r[at] = q[at] /\ \A b \in 1..m : r[at + b] = q[at + b]
  <2>1. at \in 5..n /\ \A b \in 1..m : at + b \in 5..n
    BY <1>1, <1>2
  <2>2. QED
    BY <2>1
<1>4. UsedIn(r, at) = UsedIn(q, at)
  BY <1>1, <1>3 DEF UsedIn
<1>5. \A k \in 1..(m + 1) : BlockOf(r, at, k) = BlockOf(q, at, k)
  BY <1>1, <1>4, BlockOfIs
<1>6. BlockEnd(r, at) = BlockEnd(q, at)
  BY <1>1, <1>5 DEF BlockEnd
<1>7. PICK b, j : /\ b = (i % BlockValues) \div PerMiniblock + 1
                  /\ j = i % PerMiniblock
                  /\ b \in 1..m /\ j \in 0..(p - 1)
  BY <1>1, InBlock
<1>8. r[at + b] = q[at + b] /\ BlockOf(r, at, b) = BlockOf(q, at, b)
  BY <1>1, <1>3, <1>5, <1>7
<1>9. q[at + b] # 0 => r[BlockOf(q, at, b) + j] = q[BlockOf(q, at, b) + j]
  <2> SUFFICES ASSUME q[at + b] # 0
               PROVE  r[BlockOf(q, at, b) + j] = q[BlockOf(q, at, b) + j]
    OBVIOUS
  <2>1. b \in UsedIn(q, at)
    BY <1>1, <1>7 DEF UsedIn
  <2>2. b \in 1..(Miniblocks + 1)
    BY <1>1, <1>7
  <2>3. PICK x \in Nat : /\ x = BlockOf(q, at, b) /\ x >= at
                         /\ x + p <= BlockEnd(q, at)
    BY <1>1, <2>1, <2>2, BlockOfIs
  <2>4. x + j \in 5..n
    BY <1>2, <1>7, <2>3
  <2>5. QED
    BY <2>3, <2>4
<1>10. /\ DeltaAt(q, at, i) = IF q[at + b] = 0 THEN 0
                              ELSE q[BlockOf(q, at, b) + j]
       /\ DeltaAt(r, at, i) = IF r[at + b] = 0 THEN 0
                              ELSE r[BlockOf(r, at, b) + j]
  BY <1>7, Zenon DEF DeltaAt
<1>11. QED
  BY <1>3, <1>6, <1>8, <1>9, <1>10 DEF SameBlock

IsRead(r, at, least, above, k) ==
    /\ r \in Seq(Nat) /\ Headed(r)
    /\ r[at] = ZigZag(least) /\ BlockEnd(r, at) = Len(r) + 1
    /\ \A j \in 0..(Len(above) - 1) :
          DeltaAt(r, at, BlockValues * k + j) = above[j + 1]

LEMMA BlockRead ==
    ASSUME NEW bits \in Nat, NEW q \in Seq(Nat), Headed(q), Len(q) >= 4,
           NEW above \in Seq(Words(bits)), Len(above) <= BlockValues,
           NEW least, NEW s, IsBlock(s, least, above, Widths(above)),
           NEW k \in Nat
    PROVE  IsRead(q \o s, Len(q) + 1, least, above, k)
<1>1. PICK m \in Nat, p \in Nat, v \in Nat :
        /\ m = Miniblocks /\ p = PerMiniblock /\ v = BlockValues
        /\ m >= 1 /\ p >= 1 /\ v >= 1
  BY DeltaConstants
<1>2. PICK r, width, used, at : /\ r = q \o s /\ width = Widths(above)
                                /\ used = Used(width) /\ at = Len(q) + 1
  OBVIOUS
<1>3. /\ s \in Seq(Nat) /\ s[1] = ZigZag(least)
      /\ Len(s) = 1 + m + p * Before(used, m + 1)
      /\ \A b \in 1..m : s[1 + b] = width[b] /\ width[b] \in Nat
      /\ \A b \in used : \A j \in 1..p :
            (b - 1) * PerMiniblock + j <= Len(above) =>
               /\ 1 + m + p * Before(used, b) + j \in 1..Len(s)
               /\ s[1 + m + p * Before(used, b) + j]
                     = above[(b - 1) * PerMiniblock + j]
  <2>1. IsBlock(s, least, above, width)
    BY <1>2
  <2>2. QED
    BY <1>1, <1>2, <2>1, Zenon DEF IsBlock
<1>4. /\ r \in Seq(Nat) /\ Len(r) = Len(q) + Len(s)
      /\ Len(q) \in Nat /\ Len(s) \in Nat
  BY <1>2, <1>3, ConcatProperties, LenProperties
<1>5. /\ \A i \in 1..Len(q) : r[i] = q[i]
      /\ \A i \in 1..Len(s) : r[Len(q) + i] = s[i]
  <2>1. PICK E : E = Nat /\ q \in Seq(E) /\ s \in Seq(E)
    BY <1>3
  <2>2. \A i \in 1..Len(q) : (q \o s)[i] = q[i]
    BY <1>4, <2>1, ConcatProperties
  <2>3. \A i \in 1..Len(s) : (q \o s)[Len(q) + i] = s[i]
    BY <1>4, <2>1, ConcatProperties
  <2>4. QED
    BY <1>2, <2>2, <2>3
<1>6. Headed(r) /\ at \in Nat /\ at = Len(q) + 1
  <2>1. 1 \in 1..Len(q) /\ 2 \in 1..Len(q)
    BY <1>4
  <2>2. QED
    BY <1>2, <1>4, <1>5, <2>1 DEF Headed
<1>7. PICK z \in Nat : z = Before(used, m + 1) /\ p * z \in Nat
  <2>1. m + 1 \in Nat /\ m + 1 >= 1
    BY <1>1
  <2>2. PICK z \in Nat : z = Before(used, m + 1)
    BY <2>1, BeforeFacts
  <2>3. p * z \in Nat
    OBVIOUS
  <2>4. QED
    BY <2>2, <2>3
<1>8. Len(s) = 1 + m + p * z
  BY <1>3, <1>7
<1>9. r[at] = s[1] /\ \A b \in 1..m : r[at + b] = width[b]
  <2>1. 1 \in 1..Len(s) /\ \A b \in 1..m : 1 + b \in 1..Len(s)
    <3>1. PICK y \in Nat : y = p * z
      BY <1>7
    <3>2. Len(s) = 1 + m + y
      BY <1>8, <3>1, Zenon
    <3>3. QED
      BY <3>2
  <2>2. \A b \in 1..m : at + b = Len(q) + (1 + b)
    BY <1>4, <1>6
  <2>3. QED
    BY <1>3, <1>5, <1>6, <2>1, <2>2
<1>10. UsedIn(r, at) = used
  BY <1>1, <1>2, <1>9 DEF UsedIn, Used
<1>11. BlockEnd(r, at) = Len(r) + 1
  <2>1. m + 1 \in 1..(Miniblocks + 1) /\ m + 1 = Miniblocks + 1
    BY <1>1
  <2>2. BlockOf(r, at, m + 1) =
           at + Miniblocks + 1 + PerMiniblock * Before(UsedIn(r, at), m + 1)
    BY <1>6, <2>1, BlockOfIs
  <2>3. BlockEnd(r, at) = at + m + 1 + p * z
    BY <1>1, <1>7, <1>10, <2>1, <2>2, Zenon DEF BlockEnd
  <2>4. PICK y \in Nat : y = p * z
    BY <1>7
  <2>5. Len(s) = 1 + m + y /\ BlockEnd(r, at) = at + m + 1 + y
    BY <1>8, <2>3, <2>4, Zenon
  <2>6. QED
    BY <1>4, <1>6, <2>5
<1>12. ASSUME NEW j \in 0..(Len(above) - 1)
       PROVE  DeltaAt(r, at, v * k + j) = above[j + 1]
  <2>1. Len(above) \in Nat /\ j + 1 \in 1..Len(above) /\ j \in 0..(v - 1)
    BY <1>1, LenProperties
  <2>2. PICK i \in Nat : i = v * k + j
    <3>1. v * k \in Nat
      OBVIOUS
    <3>2. QED
      BY <2>1, <3>1
  <2>3. IsPlace(i, k, j)
    <3>1. j \in 0..(BlockValues - 1)
      BY <1>1, <2>1
    <3>2. IsPlace(BlockValues * k + j, k, j)
      BY <3>1, InMiniblock
    <3>3. QED
      BY <1>1, <2>2, <3>2, Zenon
  <2>4. PICK b \in 1..m, x \in 0..(p - 1) :
          /\ b = j \div PerMiniblock + 1 /\ x = i % PerMiniblock
          /\ i % BlockValues = j
          /\ j + 1 = (j \div PerMiniblock) * PerMiniblock + (x + 1)
    <3>1. /\ j \div PerMiniblock + 1 \in 1..m
          /\ i % PerMiniblock \in 0..(p - 1)
          /\ i % BlockValues = j
          /\ j + 1 = (j \div PerMiniblock) * PerMiniblock
                        + ((i % PerMiniblock) + 1)
      BY <1>1, <2>3, Zenon DEF IsPlace
    <3>2. QED
      BY <3>1, Zenon
  <2>5. PICK d \in Nat : d = j \div PerMiniblock /\ b = d + 1 /\ b - 1 = d
    <3>1. PICK d : d = j \div PerMiniblock
      OBVIOUS
    <3>2. d \in Int
      <4>1. PICK pp \in Nat : pp = PerMiniblock /\ pp >= 1
        BY <1>1
      <4>2. j \div pp \in Int
        BY <4>1
      <4>3. QED
        BY <3>1, <4>1, <4>2
    <3>3. b = d + 1
      BY <2>4, <3>1
    <3>4. d \in Nat /\ b - 1 = d
      BY <3>2, <3>3
    <3>5. QED
      BY <3>1, <3>3, <3>4
  <2>6. j + 1 = (b - 1) * PerMiniblock + (x + 1)
    BY <2>4, <2>5, Zenon
  <2>7. DeltaAt(r, at, i) = IF r[at + b] = 0 THEN 0
                            ELSE r[BlockOf(r, at, b) + x]
    BY <2>4, Zenon DEF DeltaAt
  <2>8. r[at + b] = width[b] /\ width[b] \in Nat
    BY <1>3, <1>9
  <2>9. CASE width[b] = 0
    <3>1. j + 1 \in Within(b) \cap DOMAIN above
      <4>1. j + 1 \in 1..BlockValues
        BY <1>1, <2>1
      <4>2. (j + 1) - 1 = j
        BY <2>1
      <4>3. ((j + 1) - 1) \div PerMiniblock = b - 1
        BY <2>5, <4>2, Zenon
      <4>4. j + 1 \in DOMAIN above
        BY <2>1
      <4>5. QED
        BY <4>1, <4>3, <4>4 DEF Within
    <3>2. above[j + 1] < Pow2(0)
      <4>1. b \in 1..Miniblocks
        BY <1>1
      <4>2. above[j + 1] < Pow2(Widths(above)[b])
        BY <3>1, <4>1, WidthsFit
      <4>3. QED
        BY <1>2, <2>9, <4>2
    <3>3. above[j + 1] \in Nat
      <4>1. above[j + 1] \in Words(bits)
        BY <2>1, ElementOfSeq
      <4>2. QED
        BY <4>1, Pow2Facts DEF Words
    <3>4. above[j + 1] = 0
      <4>1. PICK n \in Nat : n = above[j + 1] /\ n < Pow2(0)
        BY <3>2, <3>3
      <4>2. Pow2(0) = 1
        BY Pow2Facts
      <4>3. n = 0
        BY <4>1, <4>2
      <4>4. QED
        BY <4>1, <4>3
    <3>5. QED
      BY <2>2, <2>7, <2>8, <2>9, <3>4
  <2>10. CASE width[b] # 0
    <3>1. b \in used
      BY <1>1, <1>2, <2>10 DEF Used
    <3>2. PICK c \in Nat : c = Before(used, b) /\ p * c \in Nat
      <4>1. b \in Nat /\ b >= 1
        OBVIOUS
      <4>2. PICK c \in Nat : c = Before(used, b)
        BY <4>1, BeforeFacts
      <4>3. p * c \in Nat
        OBVIOUS
      <4>4. QED
        BY <4>2, <4>3
    <3>3. x + 1 \in 1..p
      BY <1>1
    <3>4. /\ 1 + m + p * c + (x + 1) \in 1..Len(s)
          /\ s[1 + m + p * c + (x + 1)] = above[j + 1]
      <4>1. (b - 1) * PerMiniblock + (x + 1) <= Len(above)
        BY <2>1, <2>6
      <4>2. /\ 1 + m + p * Before(used, b) + (x + 1) \in 1..Len(s)
            /\ s[1 + m + p * Before(used, b) + (x + 1)]
                  = above[(b - 1) * PerMiniblock + (x + 1)]
        BY <1>3, <3>1, <3>3, <4>1
      <4>3. QED
        BY <2>6, <3>2, <4>2, Zenon
    <3>5. BlockOf(r, at, b) = at + m + 1 + p * c
      <4>1. b \in 1..(Miniblocks + 1)
        BY <1>1
      <4>2. BlockOf(r, at, b) =
               at + Miniblocks + 1 + PerMiniblock * Before(UsedIn(r, at), b)
        BY <1>6, <4>1, BlockOfIs
      <4>3. QED
        BY <1>1, <1>10, <3>2, <4>2, Zenon
    <3>6. BlockOf(r, at, b) + x = Len(q) + (1 + m + p * c + (x + 1))
      <4>1. PICK y \in Nat : y = p * c
        BY <3>2
      <4>2. PICK o : o = BlockOf(r, at, b) /\ o = at + m + 1 + y
        BY <3>5, <4>1
      <4>3. o + x = Len(q) + (1 + m + y + (x + 1))
        BY <1>4, <1>6, <4>2
      <4>4. QED
        BY <4>1, <4>2, <4>3, Zenon
    <3>7. r[BlockOf(r, at, b) + x] = above[j + 1]
      BY <1>5, <3>4, <3>6
    <3>8. QED
      BY <2>2, <2>7, <2>8, <2>10, <3>7
  <2>11. QED
    BY <2>9, <2>10
<1>13. QED
  BY <1>1, <1>2, <1>3, <1>4, <1>6, <1>9, <1>11, <1>12 DEF IsRead

(* The numbers q have k blocks, at[0] to at[k - 1], which stand for vs as  *)
(* far as they go: each value is that before it, the smallest delta of its *)
(* block, and its own.                                                     *)
ValueIs(bits, q, at, vs, i) ==
    vs[i + 2] = Wrap(bits, vs[i + 1] + UnZigZag(q[at]) + DeltaAt(q, at, i))

BlocksStand(bits, q, at, k, vs) ==
    /\ q \in Seq(Nat) /\ Headed(q) /\ Len(q) >= 4
    /\ at[0] = 5 /\ at[k] = Len(q) + 1
    /\ \A c \in 0..k : at[c] \in Nat /\ at[c] >= 5 /\ at[c] <= Len(q) + 1
    /\ \A c \in 1..k : at[c] = BlockEnd(q, at[c - 1])
    /\ \A i \in 0..(BlockValues * k - 1) :
          i + 2 <= Len(vs) => ValueIs(bits, q, at[i \div BlockValues], vs, i)

Stand(bits, q, k, vs) == \E at : BlocksStand(bits, q, at, k, vs)

LEMMA NoBlocksStand ==
    ASSUME NEW bits, NEW q \in Seq(Nat), Headed(q), Len(q) = 4, NEW vs
    PROVE  Stand(bits, q, 0, vs)
<1> DEFINE at == [c \in 0..0 |-> 5]
<1>1. at[0] = 5 /\ at[0] = Len(q) + 1 /\ at[0] \in Nat
  OBVIOUS
<1>2. BlockValues * 0 - 1 = -1
  BY DeltaConstants
<1>3. 0..(BlockValues * 0 - 1) = {} /\ 0..0 = {0} /\ 1..0 = {}
  BY <1>2
<1> HIDE DEF at
<1>4. BlocksStand(bits, q, at, 0, vs)
  BY <1>1, <1>3 DEF BlocksStand
<1>5. QED
  BY <1>4 DEF Stand

(* The block a value is in is one of the k.                                *)
LEMMA BlockIn ==
    ASSUME NEW k \in Nat, NEW i \in 0..(BlockValues * k - 1)
    PROVE  i \in Nat /\ i \div BlockValues \in 0..(k - 1)
<1>1. PICK v \in Nat : v = BlockValues /\ v >= 1
  BY DeltaConstants
<1>2. v * k \in Nat
  OBVIOUS
<1>3. i \in Nat /\ i < v * k
  BY <1>1, <1>2
<1>4. PICK d \in Nat, n \in 0..(v - 1) :
        d = i \div BlockValues /\ i = v * d + n
  <2>1. /\ i \div BlockValues \in Nat /\ i % BlockValues \in 0..(v - 1)
        /\ i = BlockValues * (i \div BlockValues) + (i % BlockValues)
    BY <1>1, <1>3, InBlock
  <2>2. i = v * (i \div BlockValues) + (i % BlockValues)
    BY <1>1, <2>1, Zenon
  <2>3. QED
    BY <2>1, <2>2, Zenon
<1>5. d < k
  <2>1. CASE d >= k
    <3>1. v * d >= v * k /\ v * d \in Nat
      BY <2>1
    <3>2. QED
      BY <1>2, <1>3, <1>4, <3>1
  <2>2. QED
    BY <2>1
<1>6. QED
  BY <1>3, <1>4, <1>5

(* More values, and another number of values in the header.                *)
LEMMA StandWithMore ==
    ASSUME NEW bits, NEW k \in Nat,
           NEW E, NEW vs \in Seq(E), NEW ws \in Seq(E),
           NEW q, Stand(bits, q, k, vs),
           NEW r \in Seq(Nat), Headed(r), Len(r) = Len(q),
           \A i \in 5..Len(q) : r[i] = q[i],
           Len(vs) <= Len(ws), \A i \in 1..Len(vs) : ws[i] = vs[i],
           k = 0 \/ BlockValues * k + 1 <= Len(vs)
    PROVE  Stand(bits, r, k, ws)
<1>1. PICK at : BlocksStand(bits, q, at, k, vs)
  BY DEF Stand
<1>2. /\ q \in Seq(Nat) /\ Headed(q) /\ Len(q) >= 4
      /\ at[0] = 5 /\ at[k] = Len(q) + 1
      /\ \A c \in 0..k : at[c] \in Nat /\ at[c] >= 5 /\ at[c] <= Len(q) + 1
      /\ \A c \in 1..k : at[c] = BlockEnd(q, at[c - 1])
      /\ \A i \in 0..(BlockValues * k - 1) :
            i + 2 <= Len(vs) => ValueIs(bits, q, at[i \div BlockValues], vs, i)
  BY <1>1 DEF BlocksStand
<1>3. Len(q) \in Nat /\ Len(vs) \in Nat
  BY <1>2, LenProperties
<1>4. ASSUME NEW c \in 0..(k - 1), NEW i \in Nat
      PROVE  SameBlock(q, r, at[c], i)
  <2>1. c + 1 \in 1..k /\ c \in 0..k /\ (c + 1) - 1 = c /\ c + 1 \in 0..k
    OBVIOUS
  <2>2. BlockEnd(q, at[c]) <= Len(q) + 1 /\ at[c] \in Nat /\ at[c] >= 5
    BY <1>2, <2>1
  <2>3. PICK a \in Nat :
          a = at[c] /\ a >= 5 /\ BlockEnd(q, a) <= Len(q) + 1
    BY <2>2
  <2>4. SameBlock(q, r, a, i)
    BY <1>2, <1>3, <2>3, BlockStays
  <2>5. QED
    BY <2>3, <2>4
<1>5. \A c \in 1..k : at[c] = BlockEnd(r, at[c - 1])
  <2> SUFFICES ASSUME NEW c \in 1..k PROVE at[c] = BlockEnd(r, at[c - 1])
    OBVIOUS
  <2>1. c - 1 \in 0..(k - 1) /\ 0 \in Nat
    OBVIOUS
  <2>2. BlockEnd(r, at[c - 1]) = BlockEnd(q, at[c - 1])
    BY <1>4, <2>1 DEF SameBlock
  <2>3. QED
    BY <1>2, <2>2
<1>6. ASSUME NEW i \in 0..(BlockValues * k - 1), i + 2 <= Len(ws)
      PROVE  ValueIs(bits, r, at[i \div BlockValues], ws, i)
  <2>1. i \in Nat /\ i \div BlockValues \in 0..(k - 1)
    BY BlockIn
  <2>2. k # 0
    BY <2>1
  <2>3. i + 2 <= Len(vs)
    <3>1. PICK x \in Int : x = BlockValues * k
      BY DeltaConstants
    <3>2. i \in 0..(x - 1) /\ x + 1 <= Len(vs)
      BY <2>2, <3>1
    <3>3. QED
      BY <1>3, <3>2
  <2>4. ws[i + 2] = vs[i + 2] /\ ws[i + 1] = vs[i + 1]
    <3>1. i + 2 \in 1..Len(vs) /\ i + 1 \in 1..Len(vs)
      BY <1>3, <2>1, <2>3
    <3>2. QED
      BY <3>1
  <2>5. ValueIs(bits, q, at[i \div BlockValues], vs, i)
    BY <1>2, <2>3
  <2>6. PICK c \in 0..(k - 1) : c = i \div BlockValues
    BY <2>1
  <2>7. r[at[c]] = q[at[c]] /\ DeltaAt(r, at[c], i) = DeltaAt(q, at[c], i)
    BY <1>4, <2>1 DEF SameBlock
  <2>8. QED
    BY <2>4, <2>5, <2>6, <2>7 DEF ValueIs
<1>7. BlocksStand(bits, r, at, k, ws)
  BY <1>2, <1>5, <1>6 DEF BlocksStand
<1>8. QED
  BY <1>7 DEF Stand

LEMMA OneMore ==
    ASSUME NEW x \in Int, NEW j \in Int
    PROVE  x + 1 + (j + 1) = (x + j) + 2 /\ x + (j + 1) = (x + j) + 1
  OBVIOUS

(* One more block.                                                         *)
LEMMA StandWithBlock ==
    ASSUME NEW bits \in Nat, NEW k \in Nat, NEW vs \in Seq(Words(bits)),
           NEW q, Stand(bits, q, k, vs),
           NEW above \in Seq(Words(bits)), Len(above) <= BlockValues,
           NEW x, x = BlockValues * k, Len(vs) = x + 1 + Len(above),
           NEW least \in Int, NEW s, IsBlock(s, least, above, Widths(above)),
           \A j \in 1..Len(above) : above[j] =
              Wrap(bits, Wrap(bits, vs[x + 1 + j] - vs[x + j]) - least)
    PROVE  Stand(bits, q \o s, k + 1, vs)
<1>1. PICK at : BlocksStand(bits, q, at, k, vs)
  BY DEF Stand
<1>2. /\ q \in Seq(Nat) /\ Headed(q) /\ Len(q) >= 4
      /\ at[0] = 5 /\ at[k] = Len(q) + 1
      /\ \A c \in 0..k : at[c] \in Nat /\ at[c] >= 5 /\ at[c] <= Len(q) + 1
      /\ \A c \in 1..k : at[c] = BlockEnd(q, at[c - 1])
      /\ \A i \in 0..(BlockValues * k - 1) :
            i + 2 <= Len(vs) => ValueIs(bits, q, at[i \div BlockValues], vs, i)
  BY <1>1 DEF BlocksStand
<1>3. /\ Len(q) \in Nat /\ Len(vs) \in Nat /\ Len(above) \in Nat
      /\ Len(s) \in Nat /\ s \in Seq(Nat)
  BY <1>2, LenProperties DEF IsBlock
<1>4. PICK r : r = q \o s
  OBVIOUS
<1>5. /\ r \in Seq(Nat) /\ Len(r) = Len(q) + Len(s)
      /\ \A i \in 5..Len(q) : r[i] = q[i]
  <2>1. r \in Seq(Nat) /\ Len(r) = Len(q) + Len(s)
    BY <1>2, <1>3, <1>4, ConcatProperties
  <2>2. PICK E : E = Nat /\ q \in Seq(E) /\ s \in Seq(E)
    BY <1>2, <1>3
  <2>3. \A i \in 1..Len(q) : r[i] = q[i]
    BY <1>3, <1>4, <2>2, ConcatProperties
  <2>4. \A i \in 5..Len(q) : i \in 1..Len(q)
    BY <1>3
  <2>5. QED
    BY <2>1, <2>3, <2>4
<1>6. IsRead(r, Len(q) + 1, least, above, k)
  BY <1>2, <1>4, BlockRead
<1>7. /\ Headed(r) /\ r[at[k]] = ZigZag(least)
      /\ BlockEnd(r, at[k]) = Len(r) + 1
      /\ \A j \in 0..(Len(above) - 1) :
            DeltaAt(r, at[k], BlockValues * k + j) = above[j + 1]
  BY <1>2, <1>6 DEF IsRead
<1> DEFINE new == [c \in 0..(k + 1) |-> IF c <= k THEN at[c] ELSE Len(r) + 1]
<1>8. /\ \A c \in 0..k : new[c] = at[c]
      /\ new[k + 1] = Len(r) + 1
  OBVIOUS
<1> HIDE DEF new
<1>9. ASSUME NEW c \in 0..(k - 1), NEW i \in Nat
      PROVE  SameBlock(q, r, at[c], i)
  <2>1. c + 1 \in 1..k /\ c \in 0..k /\ (c + 1) - 1 = c /\ c + 1 \in 0..k
    OBVIOUS
  <2>2. BlockEnd(q, at[c]) <= Len(q) + 1 /\ at[c] \in Nat /\ at[c] >= 5
    BY <1>2, <2>1
  <2>3. PICK a \in Nat :
          a = at[c] /\ a >= 5 /\ BlockEnd(q, a) <= Len(q) + 1
    BY <2>2
  <2>4. SameBlock(q, r, a, i)
    BY <1>2, <1>3, <1>5, <1>7, <2>3, BlockStays
  <2>5. QED
    BY <2>3, <2>4
<1>10. ASSUME NEW c \in 1..(k + 1) PROVE new[c] = BlockEnd(r, new[c - 1])
  <2>1. CASE c = k + 1
    <3>1. c - 1 = k /\ k \in 0..k
      BY <2>1
    <3>2. QED
      BY <1>7, <1>8, <2>1, <3>1
  <2>2. CASE c # k + 1
    <3>1. /\ c \in 1..k /\ c - 1 \in 0..(k - 1) /\ 0 \in Nat
          /\ c \in 0..k /\ c - 1 \in 0..k
      BY <2>2
    <3>2. BlockEnd(r, at[c - 1]) = BlockEnd(q, at[c - 1])
      BY <1>9, <3>1 DEF SameBlock
    <3>3. QED
      BY <1>2, <1>8, <3>1, <3>2
  <2>3. QED
    BY <2>1, <2>2
<1>11. ASSUME NEW c \in 0..(k + 1)
       PROVE  new[c] \in Nat /\ new[c] >= 5 /\ new[c] <= Len(r) + 1
  <2>1. CASE c = k + 1
    <3>1. Len(r) \in Nat /\ Len(r) >= 4
      BY <1>2, <1>3, <1>5
    <3>2. QED
      BY <1>8, <2>1, <3>1
  <2>2. CASE c # k + 1
    <3>1. c \in 0..k
      BY <2>2
    <3>2. new[c] \in Nat /\ new[c] >= 5 /\ new[c] <= Len(q) + 1
      BY <1>2, <1>8, <3>1
    <3>3. Len(q) <= Len(r) /\ Len(r) \in Nat
      BY <1>3, <1>5
    <3>4. QED
      BY <1>3, <3>2, <3>3, SMTT(30)
  <2>3. QED
    BY <2>1, <2>2
<1>12. x \in Nat
  <2>1. PICK v \in Nat : v = BlockValues
    BY DeltaConstants
  <2>2. v * k \in Nat
    OBVIOUS
  <2>3. QED
    BY <2>1, <2>2
<1>13. ASSUME NEW i \in 0..(BlockValues * (k + 1) - 1), i + 2 <= Len(vs)
       PROVE  ValueIs(bits, r, new[i \div BlockValues], vs, i)
  <2>1. i \in Nat
    <3>1. k + 1 \in Nat
      OBVIOUS
    <3>2. QED
      BY <3>1, BlockIn
  <2>2. CASE i < x
    <3>1. i \in 0..(BlockValues * k - 1)
      BY <1>12, <2>1, <2>2
    <3>2. PICK c \in 0..(k - 1) : c = i \div BlockValues
      BY <3>1, BlockIn
    <3>3. ValueIs(bits, q, at[c], vs, i)
      BY <1>2, <1>13, <3>1, <3>2
    <3>4. new[c] = at[c]
      BY <1>8, <3>2
    <3>5. r[at[c]] = q[at[c]] /\ DeltaAt(r, at[c], i) = DeltaAt(q, at[c], i)
      BY <1>9, <2>1, <3>2 DEF SameBlock
    <3>6. QED
      BY <3>2, <3>3, <3>4, <3>5 DEF ValueIs
  <2>3. CASE i >= x
    <3>1. PICK j \in 0..(Len(above) - 1) : i = x + j /\ j \in 0..(BlockValues - 1)
      <4>1. i - x \in 0..(Len(above) - 1) /\ i = x + (i - x)
        BY <1>3, <1>12, <1>13, <2>1, <2>3, SMTT(30)
      <4>2. i - x \in 0..(BlockValues - 1)
        BY <1>3, <4>1, DeltaConstants
      <4>3. QED
        BY <4>1, <4>2
    <3>2. IsPlace(BlockValues * k + j, k, j)
      BY <3>1, InMiniblock
    <3>3. i \div BlockValues = k
      BY <3>1, <3>2, Zenon DEF IsPlace
    <3>4. DeltaAt(r, at[k], i) = above[j + 1]
      <4>1. DeltaAt(r, at[k], BlockValues * k + j) = above[j + 1]
        BY <1>7
      <4>2. QED
        BY <3>1, <4>1, Zenon
    <3>5. above[j + 1] =
             Wrap(bits, Wrap(bits, vs[i + 2] - vs[i + 1]) - least)
      <4>1. j + 1 \in 1..Len(above)
        BY <1>3
      <4>2. x + 1 + (j + 1) = i + 2 /\ x + (j + 1) = i + 1
        <5>1. x \in Int /\ j \in Int /\ x + j = i
          BY <1>12, <3>1
        <5>2. x + 1 + (j + 1) = (x + j) + 2 /\ x + (j + 1) = (x + j) + 1
          BY <5>1, OneMore
        <5>3. QED
          BY <5>1, <5>2, Zenon
      <4>3. above[j + 1] = Wrap(bits, Wrap(bits, vs[x + 1 + (j + 1)]
                                                  - vs[x + (j + 1)]) - least)
        BY <4>1
      <4>4. QED
        BY <4>2, <4>3
    <3>6. vs[i + 1] \in Words(bits) /\ vs[i + 2] \in Words(bits)
      <4>1. i + 1 \in 1..Len(vs) /\ i + 2 \in 1..Len(vs)
        BY <1>3, <1>13, <2>1
      <4>2. QED
        BY <4>1, ElementOfSeq
    <3>7. Wrap(bits, vs[i + 1] + least + above[j + 1]) = vs[i + 2]
      BY <3>5, <3>6, ValueBack
    <3>8. UnZigZag(r[at[k]]) = least
      BY <1>7, ZigZagBack
    <3>9. new[k] = at[k]
      BY <1>8
    <3>10. vs[i + 2] =
             Wrap(bits, vs[i + 1] + UnZigZag(r[at[k]]) + DeltaAt(r, at[k], i))
      BY <3>4, <3>7, <3>8, Zenon
    <3>11. QED
      BY <3>3, <3>9, <3>10, Zenon DEF ValueIs
  <2>4. QED
    BY <1>12, <2>1, <2>2, <2>3
<1>14. new[0] = 5
  <2>1. 0 \in 0..k
    OBVIOUS
  <2>2. QED
    BY <1>2, <1>8, <2>1
<1>15. Len(r) >= 4
  BY <1>2, <1>3, <1>5
<1>16. BlocksStand(bits, r, new, k + 1, vs)
  BY <1>5, <1>7, <1>8, <1>10, <1>11, <1>13, <1>14, <1>15 DEF BlocksStand
<1>17. QED
  BY <1>4, <1>16 DEF Stand

-----------------------------------------------------------------------------
(* The encoder.                                                            *)

DeltaEncoders(bits) ==
    [bits : {bits}, total : Nat, first : Words(bits), last : Words(bits),
     pending : Seq(Words(bits)), block : Seq(Nat), bytes : Nat]

WordSizes == {ByteBits * n : n \in Nat \ {0}}

LEMMA WordSizeFacts ==
    ASSUME NEW bits \in WordSizes
    PROVE  bits \in Nat /\ bits >= 1 /\ bits = ByteBits * (bits \div ByteBits)
           /\ bits \div ByteBits \in Nat
<1>1. PICK b \in Nat : b = ByteBits /\ b >= 1
  BY DeltaConstants
<1>2. PICK n \in Nat : bits = b * n /\ n >= 1
  <2>1. PICK n \in Nat \ {0} : bits = ByteBits * n
    BY DEF WordSizes
  <2>2. n \in Nat /\ n >= 1
    OBVIOUS
  <2>3. QED
    BY <1>1, <2>1, <2>2
<1>3. b * n \in Nat /\ b * n >= 1 /\ (b * n) \div b = n
  BY <1>1, <1>2
<1>4. QED
  BY <1>1, <1>2, <1>3

LEMMA WordType == \A bits \in Nat : 0 \in Words(bits) /\ Words(bits) \subseteq Nat
BY Pow2Facts, Pow2More DEF Words

IsLeast(bits, deltas, least) ==
    least \in Int /\ ZigZag(least) \in Nat /\ ZigZag(least) < Pow2(bits)

LEMMA LeastFacts ==
    ASSUME NEW bits \in Nat, bits >= 1, NEW deltas \in Seq(Words(bits)),
           Len(deltas) >= 1
    PROVE  IsLeast(bits, deltas, Least(bits, deltas))
<1> DEFINE S == {Signed(bits, d) : d \in Range(deltas)}
           Is(x) == \A d \in Range(deltas) : x <= Signed(bits, d)
<1>1. PICK h \in Nat : h = Pow2(bits - 1)
  BY HalfWord
<1>2. ASSUME NEW d \in Range(deltas)
      PROVE  /\ d \in Words(bits) /\ Signed(bits, d) \in Int
             /\ Signed(bits, d) + h \in Nat
  <2>1. d \in Words(bits)
    BY ElementOfSeq DEF Range
  <2>2. d \in Nat /\ Signed(bits, d) \in Int
    BY <2>1, SignedFacts
  <2>3. Signed(bits, d) >= -h
    <3>1. Pow2(bits) = 2 * h
      BY <1>1, HalfWord
    <3>2. Signed(bits, d) = IF d < h THEN d ELSE d - 2 * h
      BY <1>1, <3>1, Zenon DEF Signed
    <3>3. QED
      BY <2>2, <3>2
  <2>4. QED
    BY <1>1, <2>1, <2>2, <2>3
<1> DEFINE T == {s + h : s \in S}
<1>3. T \in SUBSET Nat /\ T # {}
  <2>1. 1 \in DOMAIN deltas
    BY LenProperties
  <2>2. deltas[1] \in Range(deltas)
    BY <2>1 DEF Range
  <2>3. QED
    BY <1>2, <2>2
<1>4. PICK t \in T : \A u \in T : t <= u
  <2> HIDE DEF T
  <2>1. QED
    BY <1>3, LeastNat
<1>5. PICK x \in S : t = x + h
  OBVIOUS
<1>6. Is(x)
  <2> SUFFICES ASSUME NEW d \in Range(deltas) PROVE x <= Signed(bits, d)
    OBVIOUS
  <2>1. PICK y \in Int : y = Signed(bits, d) /\ y \in S
    BY <1>2
  <2>2. y + h \in T
    BY <2>1
  <2>3. x + h <= y + h /\ x \in Int
    <3>1. x \in Int
      BY <1>2
    <3> HIDE DEF T
    <3>2. QED
      BY <1>4, <1>5, <2>2, <3>1
  <2>4. QED
    BY <1>1, <2>1, <2>3
<1>7. Least(bits, deltas) = CHOOSE y \in S : Is(y)
  BY Zenon DEF Least
<1>8. Least(bits, deltas) \in S
  <2> HIDE DEF S, Is
  <2>1. QED
    BY <1>6, <1>7
<1>9. PICK d \in Range(deltas) : Least(bits, deltas) = Signed(bits, d)
  BY <1>8
<1>10. d \in Words(bits)
  BY <1>2
<1>11. /\ Signed(bits, d) \in Int /\ ZigZag(Signed(bits, d)) \in Nat
       /\ ZigZag(Signed(bits, d)) < Pow2(bits)
  BY <1>10, SignedFacts
<1>12. QED
  BY <1>9, <1>11 DEF IsLeast

(* Those that are pending are what follows x in vs, and last is before.    *)
IsPending(e, x, vs) ==
    /\ x \in Nat /\ Len(vs) = x + 1 + Len(e.pending)
    /\ e.last = vs[x + 1]
    /\ \A j \in 1..Len(e.pending) : e.pending[j] = vs[x + 1 + j]

AreDeltas(bits, deltas, x, vs) ==
    \A j \in 1..Len(deltas) :
        deltas[j] = Wrap(bits, vs[x + 1 + j] - vs[x + j])

LEMMA DeltasFacts ==
    ASSUME NEW bits \in Nat, NEW e \in DeltaEncoders(bits),
           NEW vs \in Seq(Words(bits)), NEW x, IsPending(e, x, vs)
    PROVE  /\ Deltas(e) \in Seq(Words(bits))
           /\ Len(Deltas(e)) = Len(e.pending)
           /\ AreDeltas(bits, Deltas(e), x, vs)
<1>1. /\ e.bits = bits /\ e.pending \in Seq(Words(bits))
      /\ e.last \in Words(bits)
  BY DEF DeltaEncoders
<1>2. PICK before, n : before = <<e.last>> \o e.pending
                        /\ n \in Nat /\ n = Len(e.pending)
  BY <1>1, LenProperties
<1>3. x \in Nat /\ Len(vs) = x + 1 + n
      /\ \A i \in 1..(n + 1) : before[i] = vs[x + i]
  <2>1. x \in Nat /\ Len(vs) = x + 1 + n /\ e.last = vs[x + 1]
        /\ \A j \in 1..n : e.pending[j] = vs[x + 1 + j]
    BY <1>2 DEF IsPending
  <2>2. PICK u : u = <<e.last>> /\ u \in Seq(Words(bits)) /\ Len(u) = 1
                 /\ u[1] = e.last
    <3>1. <<e.last>> \in Seq(Words(bits)) /\ Len(<<e.last>>) = 1
          /\ <<e.last>>[1] = e.last
      BY <1>1
    <3>2. QED
      BY <3>1, Zenon
  <2>3. before[1] = e.last /\ \A j \in 1..n : before[1 + j] = e.pending[j]
    BY <1>1, <1>2, <2>2, ConcatProperties
  <2>4. ASSUME NEW i \in 1..(n + 1) PROVE before[i] = vs[x + i]
    <3>1. CASE i = 1
      BY <2>1, <2>3, <3>1
    <3>2. CASE i # 1
      <4>1. PICK j \in 1..n : i = 1 + j /\ x + i = x + 1 + j
        <5>1. i - 1 \in 1..n /\ i = 1 + (i - 1) /\ x + i = x + 1 + (i - 1)
          BY <1>2, <2>1, <3>2
        <5>2. QED
          BY <5>1
      <4>2. QED
        BY <2>1, <2>3, <4>1
    <3>3. QED
      BY <3>1, <3>2
  <2>5. QED
    BY <2>1, <2>4
<1>4. PICK deltas : /\ deltas = Deltas(e)
                    /\ deltas = [i \in 1..n |->
                                   Wrap(bits, before[i + 1] - before[i])]
  <2>1. DOMAIN e.pending = 1..n
    BY <1>1, <1>2
  <2>2. Deltas(e) = [i \in DOMAIN e.pending |->
                        Wrap(e.bits, before[i + 1] - before[i])]
    BY <1>2 DEF Deltas
  <2>3. QED
    BY <1>1, <2>1, <2>2
<1>5. ASSUME NEW i \in 1..n
      PROVE  /\ deltas[i] = Wrap(bits, vs[x + 1 + i] - vs[x + i])
             /\ deltas[i] \in Words(bits)
  <2>1. i \in 1..(n + 1) /\ i + 1 \in 1..(n + 1) /\ x + (i + 1) = x + 1 + i
    BY <1>2, <1>3
  <2>2. deltas[i] = Wrap(bits, vs[x + 1 + i] - vs[x + i])
    BY <1>3, <1>4, <2>1
  <2>3. x + 1 + i \in 1..Len(vs) /\ x + i \in 1..Len(vs)
    <3>1. x \in Nat /\ n \in Nat /\ Len(vs) = x + 1 + n
      BY <1>2, <1>3
    <3>2. QED
      BY <3>1
  <2>4. PICK a \in Int, b \in Int : a = vs[x + 1 + i] /\ b = vs[x + i]
    <3>1. vs[x + 1 + i] \in Words(bits) /\ vs[x + i] \in Words(bits)
      BY <2>3, ElementOfSeq
    <3>2. QED
      BY <3>1, WordType
  <2>5. PICK c \in Int : c = a - b
    OBVIOUS
  <2>6. Wrap(bits, c) \in Words(bits)
    BY WrapFacts
  <2>7. QED
    BY <2>2, <2>4, <2>5, <2>6
<1>6. deltas \in Seq(Words(bits)) /\ Len(deltas) = n
  <2>1. deltas = [i \in 1..n |-> deltas[i]]
    BY <1>4
  <2>2. n \in Nat /\ \A i \in 1..n : deltas[i] \in Words(bits)
    BY <1>2, <1>5
  <2>3. QED
    BY <2>1, <2>2
<1>7. AreDeltas(bits, deltas, x, vs)
  BY <1>5, <1>6 DEF AreDeltas
<1>8. QED
  BY <1>2, <1>4, <1>6, <1>7

LEMMA AboveFacts ==
    ASSUME NEW bits \in Nat, NEW deltas \in Seq(Words(bits)), NEW least \in Int
    PROVE  /\ Above(bits, deltas, least) \in Seq(Words(bits))
           /\ Len(Above(bits, deltas, least)) = Len(deltas)
           /\ \A j \in 1..Len(deltas) :
                 Above(bits, deltas, least)[j] = Wrap(bits, deltas[j] - least)
<1>1. PICK above : above = Above(bits, deltas, least)
  OBVIOUS
<1>2. above = [i \in 1..Len(deltas) |-> Wrap(bits, deltas[i] - least)]
  BY <1>1 DEF Above
<1>3. ASSUME NEW j \in 1..Len(deltas)
      PROVE  Wrap(bits, deltas[j] - least) \in Words(bits)
  <2>1. deltas[j] \in Int
    BY ElementOfSeq, WordType
  <2>2. PICK c \in Int : c = deltas[j] - least
    BY <2>1
  <2>3. Wrap(bits, c) \in Words(bits)
    BY WrapFacts
  <2>4. QED
    BY <2>2, <2>3
<1>4. Len(deltas) \in Nat
  BY LenProperties
<1>5. above \in Seq(Words(bits)) /\ Len(above) = Len(deltas)
  BY <1>2, <1>3, <1>4
<1>6. QED
  BY <1>1, <1>2, <1>5

(* The bits of the miniblocks of a block.                                  *)
BitsOf(f, n, width) ==
    /\ f[0] = 0 /\ \A b \in 0..Miniblocks : f[b] \in Nat
    /\ \A b \in 1..Miniblocks :
          f[b] = f[b - 1] + (IF (b - 1) * PerMiniblock < n
                             THEN PerMiniblock * width[b] ELSE 0)

LEMMA BlockBytesLoop ==
    ASSUME NEW above, NEW width,
           \A b \in 1..Miniblocks : width[b] \in Nat, NEW least
    PROVE  \E f : /\ BitsOf(f, Len(above), width)
                  /\ BlockBytes(least, above, width) =
                        VlqBytes(ZigZag(least)) + Miniblocks
                           + CeilDiv(f[Miniblocks], ByteBits)
<1> DEFINE Add(b) == IF (b - 1) * PerMiniblock < Len(above)
                     THEN PerMiniblock * width[b] ELSE 0
           Def(f, b) == IF b = 0 THEN 0 ELSE f[b - 1] + Add(b)
           Upto(f) == f = [b \in 0..Miniblocks |-> Def(f, b)]
           Loop == CHOOSE f : Upto(f)
           step == [b \in 1..Miniblocks |-> [x \in Nat |-> x + Add(b)]]
<1>1. BlockBytes(least, above, width) =
         VlqBytes(ZigZag(least)) + Miniblocks
            + CeilDiv(Loop[Miniblocks], ByteBits)
  BY Zenon DEF BlockBytes
<1>2. PICK m \in Nat, p \in Nat : m = Miniblocks /\ p = PerMiniblock
  BY DeltaConstants
<1>3. \A b \in 1..m : Add(b) \in Nat
  <2> SUFFICES ASSUME NEW b \in 1..m PROVE Add(b) \in Nat
    OBVIOUS
  <2>1. PICK w \in Nat : w = width[b]
    BY <1>2
  <2>2. p * w \in Nat
    OBVIOUS
  <2>3. QED
    BY <1>2, <2>1, <2>2
<1> HIDE DEF Add
<1>4. PICK f : /\ f[0] = 0
               /\ \A j \in 1..m : f[j] = step[j][f[j - 1]]
               /\ \A j \in 0..m : f[j] \in Nat
  <2>1. PICK X, o : X = Nat /\ o = 0
    OBVIOUS
  <2>2. step \in [1..m -> [X -> X]] /\ o \in X
    BY <1>2, <1>3, <2>1
  <2> HIDE DEF step
  <2>3. \E f : /\ f[0] = o
               /\ \A j \in 1..m : f[j] = step[j][f[j - 1]]
               /\ \A j \in 0..m : f[j] \in X
    BY <2>2, LoopExists
  <2>4. QED
    BY <2>1, <2>3
<1>5. ASSUME NEW j \in 1..m PROVE f[j] = f[j - 1] + Add(j)
  <2>1. j - 1 \in 0..m
    OBVIOUS
  <2>2. f[j - 1] \in Nat
    BY <1>4, <2>1
  <2>3. QED
    BY <1>2, <1>4, <2>2
<1>6. \E g : Upto(g)
  <2> DEFINE g == [j \in 0..m |-> f[j]]
  <2>1. ASSUME NEW j \in 0..m PROVE g[j] = Def(g, j)
    <3>1. j # 0 => j \in 1..m /\ j - 1 \in 0..m
      OBVIOUS
    <3>2. QED
      BY <1>4, <1>5, <3>1
  <2>2. Upto(g)
    BY <1>2, <2>1
  <2> HIDE DEF g, Upto
  <2>3. QED
    BY <2>2
<1>7. Upto(Loop)
  BY <1>6
<1> HIDE DEF Loop
<1>8. Loop[0] = 0 /\ \A j \in 1..m : Loop[j] = Loop[j - 1] + Add(j)
  <2>1. \A j \in 0..m : Loop[j] = Def(Loop, j)
    <3> HIDE DEF Def
    <3>1. QED
      BY <1>2, <1>7
  <2>2. 0 \in 0..m /\ \A j \in 1..m : j \in 0..m /\ j # 0
    OBVIOUS
  <2>3. QED
    BY <2>1, <2>2
<1>9. \A j \in 0..m : Loop[j] = f[j]
  <2> DEFINE S == {j \in 0..m : Loop[j] = f[j]}
  <2>1. 0 \in S
    BY <1>4, <1>8
  <2>2. \A j \in 1..m : j - 1 \in S => j \in S
    BY <1>5, <1>8
  <2>3. 0..m \subseteq S
    <3> HIDE DEF S
    <3>1. QED
      BY <2>1, <2>2, UpTo, Zenon
  <2>4. QED
    BY <2>3
<1>10. BitsOf(Loop, Len(above), width)
  <2>1. \A j \in 0..m : Loop[j] \in Nat
    BY <1>4, <1>9
  <2>2. \A j \in 1..m : Add(j) = IF (j - 1) * PerMiniblock < Len(above)
                                 THEN PerMiniblock * width[j] ELSE 0
    BY DEF Add
  <2>3. \A j \in 1..m : Loop[j] = Loop[j - 1] +
                          (IF (j - 1) * PerMiniblock < Len(above)
                           THEN PerMiniblock * width[j] ELSE 0)
    BY <1>8, <2>2, Zenon
  <2>4. QED
    BY <1>2, <1>8, <2>1, <2>3, Zenon DEF BitsOf
<1>11. QED
  BY <1>1, <1>10, Zenon

(* What max_encoded_size() keeps for the deltas of a block is enough.      *)
LEMMA BitsFit ==
    ASSUME NEW bits \in Nat, NEW n \in Nat, NEW width,
           \A b \in 1..Miniblocks : width[b] \in 0..bits,
           NEW f, BitsOf(f, n, width)
    PROVE  f[Miniblocks] <= (PerMiniblock * bits) * CeilDiv(n, PerMiniblock)
<1>1. PICK m \in Nat, p \in Nat :
        m = Miniblocks /\ p = PerMiniblock /\ p >= 1 /\ m >= 1
  BY DeltaConstants
<1>2. PICK c \in Nat : /\ c = CeilDiv(n, PerMiniblock)
                       /\ \A k \in Nat : p * k < n => k < c
  BY <1>1, CeilDivFacts
<1>3. PICK y \in Nat : y = p * bits
  OBVIOUS
<1>4. /\ f[0] = 0 /\ \A b \in 0..m : f[b] \in Nat
      /\ \A b \in 1..m : f[b] = f[b - 1] + (IF (b - 1) * PerMiniblock < n
                                            THEN PerMiniblock * width[b] ELSE 0)
  BY <1>1 DEF BitsOf
<1> DEFINE S == {b \in 0..m : f[b] <= y * b /\ f[b] <= y * c}
<1>5. 0 \in S
  <2>1. y * 0 = 0 /\ y * c >= 0
    OBVIOUS
  <2>2. QED
    BY <1>4, <2>1
<1>6. ASSUME NEW b \in 1..m, b - 1 \in S PROVE b \in S
  <2>1. PICK d \in Nat : d = b - 1 /\ b = d + 1 /\ d \in 0..m
    BY <1>6
  <2>2. y * d \in Nat /\ y * b = y * d + y /\ y * c \in Nat
    BY <2>1
  <2>3. f[d] <= y * d /\ f[d] <= y * c /\ f[d] \in Nat
    BY <1>4, <1>6, <2>1
  <2>4. CASE (b - 1) * PerMiniblock < n
    <3>1. f[b] = f[b - 1] + PerMiniblock * width[b]
      BY <1>4, <2>4, Zenon
    <3>2. PICK w \in Nat : w = width[b] /\ w <= bits
      BY <1>1
    <3>3. p * w <= p * bits /\ p * w \in Nat
      BY <3>2
    <3>4. f[b] = f[d] + p * w
      BY <1>1, <2>1, <3>1, <3>2, Zenon
    <3>5. PICK z \in Nat : z = p * w /\ z <= y
      BY <1>3, <3>3
    <3>6. f[b] = f[d] + z
      BY <3>4, <3>5
    <3>7. y * b <= y * c
      <4>1. p * d < n
        <5>1. d * p < n
          BY <1>1, <2>1, <2>4, Zenon
        <5>2. p * d = d * p
          OBVIOUS
        <5>3. QED
          BY <5>1, <5>2
      <4>2. d < c
        BY <1>2, <4>1
      <4>3. b <= c /\ b \in Nat
        BY <2>1, <4>2
      <4>4. QED
        BY <4>3
    <3>8. f[b] <= y * b /\ f[b] <= y * c
      BY <2>2, <2>3, <3>5, <3>6, <3>7
    <3>9. QED
      BY <3>8
  <2>5. CASE ~((b - 1) * PerMiniblock < n)
    <3>1. f[b] = f[b - 1] + 0
      BY <1>4, <2>5, Zenon
    <3>2. f[b] = f[d]
      BY <2>1, <2>3, <3>1
    <3>3. f[b] <= y * b /\ f[b] <= y * c
      BY <2>2, <2>3, <3>2
    <3>4. QED
      BY <3>3
  <2>6. QED
    BY <2>4, <2>5
<1>7. m \in S
  <2>1. 0..m \subseteq S
    <3> HIDE DEF S
    <3>1. QED
      BY <1>1, <1>5, <1>6, UpTo, Zenon
  <2>2. QED
    BY <1>1, <2>1
<1>8. f[m] <= y * c
  BY <1>7
<1>9. QED
  BY <1>1, <1>2, <1>3, <1>8, Zenon

LEMMA BlockBytesFit ==
    ASSUME NEW bits \in WordSizes, NEW above \in Seq(Words(bits)),
           NEW least, IsLeast(bits, above, least), NEW e, e.bits = bits,
           Len(e.pending) = Len(above)
    PROVE  /\ BlockBytes(least, above, Widths(above)) \in Nat
           /\ MaxBlockBytes(e) \in Nat
           /\ BlockBytes(least, above, Widths(above)) <= MaxBlockBytes(e)
<1>1. /\ bits \in Nat /\ bits >= 1 /\ bits = ByteBits * (bits \div ByteBits)
      /\ bits \div ByteBits \in Nat
  BY WordSizeFacts
<1>2. PICK m \in Nat, p \in Nat, b \in Nat, n \in Nat, w \in Nat :
        /\ m = Miniblocks /\ p = PerMiniblock /\ b = ByteBits /\ n = Len(above)
        /\ w = bits \div ByteBits /\ bits = b * w
        /\ p >= 1 /\ b >= 1
  <2>1. Len(above) \in Nat
    BY LenProperties
  <2>2. PICK b \in Nat, w \in Nat :
          b = ByteBits /\ b >= 1 /\ w = bits \div ByteBits
    BY <1>1, DeltaConstants
  <2>3. bits = b * w
    BY <1>1, <2>2, Zenon
  <2>4. Miniblocks \in Nat /\ PerMiniblock \in Nat /\ PerMiniblock >= 1
    BY DeltaConstants
  <2>5. QED
    BY <2>1, <2>2, <2>3, <2>4, Zenon
<1>3. PICK width : width = Widths(above)
  OBVIOUS
<1>4. \A i \in 1..Miniblocks : width[i] \in 0..bits /\ width[i] \in Nat
  BY <1>1, <1>3, WidthsFit
<1>5. PICK f : /\ BitsOf(f, n, width)
               /\ BlockBytes(least, above, width) =
                     VlqBytes(ZigZag(least)) + Miniblocks
                        + CeilDiv(f[Miniblocks], ByteBits)
  BY <1>2, <1>4, BlockBytesLoop
<1>6. PICK c \in Nat : c = CeilDiv(n, PerMiniblock)
  BY <1>2, CeilDivFacts
<1>7. PICK x \in Nat : x = f[Miniblocks] /\ x <= (p * bits) * c
  <2>1. f[Miniblocks] \in Nat
    <3>1. Miniblocks \in 0..Miniblocks
      BY <1>2
    <3>2. QED
      BY <1>5, <3>1 DEF BitsOf
  <2>2. f[Miniblocks] <= (PerMiniblock * bits) * CeilDiv(n, PerMiniblock)
    BY <1>1, <1>2, <1>4, <1>5, BitsFit
  <2>3. f[Miniblocks] <= (p * bits) * c
    BY <1>2, <1>6, <2>2, Zenon
  <2>4. QED
    BY <2>1, <2>3
<1>8. PICK y \in Nat : y = (w * p) * c
  <2>1. w * p \in Nat
    OBVIOUS
  <2>2. PICK u \in Nat : u = w * p
    BY <2>1
  <2>3. u * c \in Nat
    OBVIOUS
  <2>4. QED
    BY <2>2, <2>3
<1>9. (p * bits) * c = b * y
  <2>1. (p * (b * w)) * c = b * ((w * p) * c)
    OBVIOUS
  <2>2. QED
    BY <1>2, <1>8, <2>1, Zenon
<1>10. PICK z \in Nat : z = CeilDiv(x, ByteBits) /\ z <= y
  <2>1. x <= b * y
    BY <1>7, <1>9
  <2>2. CeilDiv(x, b) \in Nat /\ CeilDiv(x, b) <= y
    BY <1>2, <2>1, CeilDivFacts
  <2>3. QED
    BY <1>2, <2>2
<1>11. PICK v \in Nat, t \in Nat : /\ v = VlqBytes(ZigZag(least))
                                   /\ t = CeilDiv(bits, ByteBits - 1)
                                   /\ v <= t
  <2>1. PICK l \in Nat : l = ZigZag(least) /\ l < Pow2(bits)
    BY DEF IsLeast
  <2>2. /\ VlqBytes(l) \in Nat
        /\ VlqBytes(l) <= CeilDiv(bits, ByteBits - 1)
    BY <1>1, <2>1, VlqFits
  <2>3. CeilDiv(bits, ByteBits - 1) \in Nat
    <3>1. PICK d \in Nat : d = ByteBits - 1 /\ d >= 1
      BY DeltaConstants
    <3>2. QED
      BY <1>1, <3>1, CeilDivFacts
  <2>4. QED
    BY <2>1, <2>2, <2>3
<1>12. BlockBytes(least, above, width) = v + m + z
  BY <1>2, <1>5, <1>7, <1>10, <1>11, Zenon
<1>13. MaxBlockBytes(e) = t + m + y
  BY <1>2, <1>6, <1>8, <1>11, Zenon DEF MaxBlockBytes
<1>14. v + m + z \in Nat /\ t + m + y \in Nat /\ v + m + z <= t + m + y
  BY <1>10, <1>11
<1>15. QED
  BY <1>3, <1>12, <1>13, <1>14

(* What the encoder has written stands for the values put, but for those   *)
(* that are pending.                                                       *)
Numbers(e) == Header(e) \o e.block

HeldBy(bits, e, vs, k) ==
    /\ e \in DeltaEncoders(bits) /\ vs \in Seq(Words(bits)) /\ k \in Nat
    /\ e.total = Len(vs) /\ Len(e.pending) <= BlockValues
    /\ Stand(bits, Numbers(e), k, vs)
    /\ IF vs = <<>> THEN k = 0 /\ e.pending = <<>>
       ELSE e.first = vs[1] /\ IsPending(e, BlockValues * k, vs)

Encodes(bits, e, vs) ==
    \E k : HeldBy(bits, e, vs, k) /\ Len(e.pending) < BlockValues

LEMMA EncoderFieldTypes ==
    ASSUME NEW bits, NEW e \in DeltaEncoders(bits)
    PROVE  /\ e.bits = bits /\ e.total \in Nat /\ e.first \in Words(bits)
           /\ e.last \in Words(bits) /\ e.pending \in Seq(Words(bits))
           /\ e.block \in Seq(Nat) /\ e.bytes \in Nat
BY DEF DeltaEncoders

IsHeaded(q, e) ==
    /\ q \in Seq(Nat) /\ Headed(q) /\ Len(q) = 4 + Len(e.block)
    /\ q[3] = e.total /\ q[4] = ZigZag(Signed(e.bits, e.first))
    /\ \A i \in 1..Len(e.block) : q[4 + i] = e.block[i]

LEMMA HeaderShape ==
    ASSUME NEW bits \in Nat, bits >= 1, NEW e \in DeltaEncoders(bits)
    PROVE  /\ Header(e) \in Seq(Nat) /\ Len(Header(e)) = 4
           /\ IsHeaded(Numbers(e), e)
<1>1. /\ e.bits = bits /\ e.total \in Nat /\ e.first \in Words(bits)
      /\ e.block \in Seq(Nat)
  BY EncoderFieldTypes
<1>2. PICK z \in Nat : z = ZigZag(Signed(e.bits, e.first))
  BY <1>1, SignedFacts
<1>3. PICK h, t : /\ h = Header(e) /\ t = e.total /\ t \in Nat
                  /\ h = <<BlockValues, Miniblocks, t, z>>
  BY <1>1, <1>2 DEF Header
<1>4. PICK v \in Nat, m \in Nat : v = BlockValues /\ m = Miniblocks
  BY DeltaConstants
<1>5. /\ h \in Seq(Nat) /\ Len(h) = 4 /\ h[1] = BlockValues
      /\ h[2] = Miniblocks /\ h[3] = t /\ h[4] = z
  <2>1. h = <<v, m, t, z>>
    BY <1>3, <1>4
  <2>2. QED
    BY <1>3, <1>4, <2>1
<1>6. PICK b, E : b = e.block /\ E = Nat /\ b \in Seq(E) /\ h \in Seq(E)
  BY <1>1, <1>5
<1>7. /\ h \o b \in Seq(E) /\ Len(h \o b) = Len(h) + Len(b)
      /\ Len(b) \in Nat
  BY <1>6, ConcatProperties, LenProperties
<1>8. /\ \A i \in 1..Len(h) : (h \o b)[i] = h[i]
      /\ \A i \in 1..Len(b) : (h \o b)[Len(h) + i] = b[i]
  BY <1>6, <1>7, ConcatProperties
<1>9. /\ (h \o b)[1] = h[1] /\ (h \o b)[2] = h[2]
      /\ (h \o b)[3] = h[3] /\ (h \o b)[4] = h[4]
  <2>1. 1 \in 1..Len(h) /\ 2 \in 1..Len(h) /\ 3 \in 1..Len(h) /\ 4 \in 1..Len(h)
    BY <1>5
  <2>2. QED
    BY <1>8, <2>1
<1>10. PICK q : q = Numbers(e) /\ q = h \o b
  BY <1>3, <1>6 DEF Numbers
<1>11. IsHeaded(q, e)
  BY <1>2, <1>3, <1>5, <1>6, <1>7, <1>8, <1>9, <1>10 DEF IsHeaded, Headed
<1>12. QED
  BY <1>3, <1>5, <1>10, <1>11

IsFlushed(bits, e, f, vs, k) ==
    /\ f \in DeltaEncoders(bits) /\ f.total = e.total /\ f.first = e.first
    /\ f.pending = <<>> /\ f.last = vs[Len(vs)]
    /\ Stand(bits, Numbers(f), k, vs)
    /\ f.bytes <= e.bytes + MaxBlockBytes(e) /\ MaxBlockBytes(e) \in Nat

LEMMA BlockFlushed ==
    ASSUME NEW bits \in WordSizes, NEW e, NEW vs, NEW k,
           HeldBy(bits, e, vs, k), e.pending # <<>>, NEW unset \in Nat
    PROVE  IsFlushed(bits, e, FlushBlock(e, unset), vs, k + 1)
<1>1. bits \in Nat /\ bits >= 1
  BY WordSizeFacts
<1>2. /\ e \in DeltaEncoders(bits) /\ vs \in Seq(Words(bits)) /\ k \in Nat
      /\ Len(e.pending) <= BlockValues /\ Stand(bits, Numbers(e), k, vs)
  BY DEF HeldBy
<1>3. /\ e.bits = bits /\ e.total \in Nat /\ e.first \in Words(bits)
      /\ e.last \in Words(bits) /\ e.pending \in Seq(Words(bits))
      /\ e.block \in Seq(Nat) /\ e.bytes \in Nat
  BY <1>2, EncoderFieldTypes
<1>4. PICK n \in Nat : n = Len(e.pending) /\ n >= 1
  BY <1>3, LenProperties, EmptySeq
<1>5. PICK x : x = BlockValues * k /\ IsPending(e, x, vs)
  BY DEF HeldBy
<1>6. /\ x \in Nat /\ Len(vs) = x + 1 + n
      /\ \A j \in 1..n : e.pending[j] = vs[x + 1 + j]
  BY <1>4, <1>5 DEF IsPending
<1>7. PICK deltas : /\ deltas = Deltas(e) /\ deltas \in Seq(Words(bits))
                    /\ Len(deltas) = n /\ AreDeltas(bits, deltas, x, vs)
  BY <1>1, <1>2, <1>4, <1>5, DeltasFacts
<1>8. PICK least : least = Least(bits, deltas) /\ IsLeast(bits, deltas, least)
  BY <1>1, <1>4, <1>7, LeastFacts
<1>9. least \in Int
  BY <1>8 DEF IsLeast
<1>10. PICK above : /\ above = Above(bits, deltas, least)
                    /\ above \in Seq(Words(bits)) /\ Len(above) = n
                    /\ \A j \in 1..n : above[j] = Wrap(bits, deltas[j] - least)
  BY <1>1, <1>7, <1>9, AboveFacts
<1>11. \A j \in 1..n : above[j] =
          Wrap(bits, Wrap(bits, vs[x + 1 + j] - vs[x + j]) - least)
  BY <1>7, <1>10 DEF AreDeltas
<1>12. PICK s : /\ s = BlockNumbers(e, least, above, Widths(above), unset)
                /\ IsBlock(s, least, above, Widths(above))
  BY <1>1, <1>4, <1>9, <1>10, BlockShape
<1>13. s \in Seq(Nat)
  BY <1>12 DEF IsBlock
<1>14. Stand(bits, Numbers(e) \o s, k + 1, vs)
  <2>1. Len(above) <= BlockValues /\ Len(vs) = x + 1 + Len(above)
    BY <1>2, <1>4, <1>6, <1>10
  <2>2. \A j \in 1..Len(above) : above[j] =
           Wrap(bits, Wrap(bits, vs[x + 1 + j] - vs[x + j]) - least)
    BY <1>10, <1>11
  <2>3. PICK q : q = Numbers(e) /\ Stand(bits, q, k, vs)
    BY <1>2
  <2>4. /\ bits \in Nat /\ k \in Nat /\ vs \in Seq(Words(bits))
        /\ above \in Seq(Words(bits)) /\ x = BlockValues * k
        /\ least \in Int /\ IsBlock(s, least, above, Widths(above))
    BY <1>1, <1>2, <1>5, <1>9, <1>10, <1>12
  <2>5. Stand(bits, q \o s, k + 1, vs)
    BY <2>1, <2>2, <2>3, <2>4, StandWithBlock
  <2>6. QED
    BY <2>3, <2>5
<1>15. PICK z, c : /\ z = BlockBytes(least, above, Widths(above))
                   /\ c = MaxBlockBytes(e)
                   /\ z \in Nat /\ c \in Nat /\ z <= c
  <2>1. IsLeast(bits, above, least)
    BY <1>8 DEF IsLeast
  <2>2. QED
    BY <1>3, <1>4, <1>10, <2>1, BlockBytesFit
<1>16. PICK f : f = FlushBlock(e, unset)
  OBVIOUS
<1>17. f = [e EXCEPT !.last = e.pending[Len(e.pending)], !.pending = <<>>,
                     !.block = e.block \o s, !.bytes = e.bytes + z]
  BY <1>3, <1>7, <1>8, <1>10, <1>12, <1>15, <1>16
     DEF FlushBlock, WriteDeltas, WriteAbove, WriteBlock
<1>18. /\ e.block \o s \in Seq(Nat) /\ <<>> \in Seq(Words(bits))
       /\ e.pending[n] \in Words(bits) /\ e.pending[n] = vs[Len(vs)]
  <2>1. e.block \o s \in Seq(Nat)
    BY <1>3, <1>13, ConcatProperties
  <2>2. n \in 1..n
    BY <1>4
  <2>3. e.pending[n] \in Words(bits)
    BY <1>3, <1>4, <2>2, ElementOfSeq
  <2>4. QED
    BY <1>6, <2>1, <2>2, <2>3
<1>19. f \in DeltaEncoders(bits)
  <2>1. PICK l \in Words(bits), p \in Seq(Words(bits)), b \in Seq(Nat),
             y \in Nat :
          /\ l = e.pending[Len(e.pending)] /\ p = <<>>
          /\ b = e.block \o s /\ y = e.bytes + z
    <3>1. e.pending[Len(e.pending)] \in Words(bits)
      BY <1>4, <1>18, Zenon
    <3>2. e.bytes + z \in Nat
      BY <1>3, <1>15
    <3>3. <<>> \in Seq(Words(bits)) /\ e.block \o s \in Seq(Nat)
      BY <1>18
    <3>4. QED
      BY <3>1, <3>2, <3>3, Zenon
  <2>2. f = [e EXCEPT !.last = l, !.pending = p, !.block = b, !.bytes = y]
    BY <1>17, <2>1
  <2>3. QED
    BY <1>2, <2>2 DEF DeltaEncoders
<1>20. /\ f.bits = e.bits /\ f.total = e.total /\ f.first = e.first
       /\ f.pending = <<>> /\ f.last = vs[Len(vs)]
       /\ f.block = e.block \o s /\ f.bytes = e.bytes + z
  BY <1>2, <1>4, <1>17, <1>18 DEF DeltaEncoders
<1>21. Numbers(f) = Numbers(e) \o s
  <2>1. Header(f) = Header(e)
    BY <1>20 DEF Header
  <2>2. PICK h, b, E : /\ h = Header(e) /\ b = e.block /\ E = Nat
                       /\ h \in Seq(E) /\ b \in Seq(E) /\ s \in Seq(E)
    BY <1>1, <1>2, <1>3, <1>13, HeaderShape
  <2>3. (h \o b) \o s = h \o (b \o s)
    <3>1. h \in Seq(E) /\ b \in Seq(E) /\ s \in Seq(E)
      BY <2>2
    <3>2. QED
      BY <3>1, ConcatAssociative
  <2>4. QED
    BY <1>20, <2>1, <2>2, <2>3, Zenon DEF Numbers
<1>22. f.bytes <= e.bytes + c
  BY <1>3, <1>15, <1>20
<1>23. Stand(bits, Numbers(f), k + 1, vs)
  BY <1>14, <1>21
<1>24. QED
  BY <1>15, <1>16, <1>19, <1>20, <1>22, <1>23 DEF IsFlushed

LEMMA StandInEncoder ==
    ASSUME NEW bits \in Nat, bits >= 1, NEW k \in Nat,
           NEW e \in DeltaEncoders(bits), NEW f \in DeltaEncoders(bits),
           f.block = e.block,
           NEW vs \in Seq(Words(bits)), NEW ws \in Seq(Words(bits)),
           Stand(bits, Numbers(e), k, vs),
           Len(vs) <= Len(ws), \A i \in 1..Len(vs) : ws[i] = vs[i],
           k = 0 \/ BlockValues * k + 1 <= Len(vs)
    PROVE  Stand(bits, Numbers(f), k, ws)
<1>1. PICK q, r, b : /\ q = Numbers(e) /\ r = Numbers(f) /\ b = e.block
                     /\ IsHeaded(q, e) /\ IsHeaded(r, f)
  BY HeaderShape
<1>2. /\ r \in Seq(Nat) /\ Headed(r) /\ Len(r) = Len(q)
      /\ Len(q) = 4 + Len(b) /\ Len(b) \in Nat
      /\ \A i \in 1..Len(b) : r[4 + i] = q[4 + i]
  <2>1. b \in Seq(Nat)
    BY <1>1, EncoderFieldTypes
  <2>2. Len(b) \in Nat
    BY <2>1, LenProperties
  <2>3. QED
    BY <1>1, <2>2 DEF IsHeaded
<1>3. ASSUME NEW i \in 5..Len(q) PROVE r[i] = q[i]
  <2>1. i - 4 \in 1..Len(b) /\ 4 + (i - 4) = i
    BY <1>2
  <2>2. r[4 + (i - 4)] = q[4 + (i - 4)]
    BY <1>2, <2>1
  <2>3. QED
    BY <2>1, <2>2
<1>4. PICK E : E = Words(bits) /\ vs \in Seq(E) /\ ws \in Seq(E)
  OBVIOUS
<1>5. Stand(bits, q, k, vs)
  BY <1>1
<1>6. Stand(bits, r, k, ws)
  BY <1>2, <1>3, <1>4, <1>5, StandWithMore
<1>7. QED
  BY <1>1, <1>6

LEMMA PutEncodes ==
    ASSUME NEW bits \in WordSizes, NEW e, NEW vs, Encodes(bits, e, vs),
           NEW v \in Words(bits)
    PROVE  Encodes(bits, PutDelta(e, v), Append(vs, v))
<1>1. bits \in Nat /\ bits >= 1
  BY WordSizeFacts
<1>2. PICK k : HeldBy(bits, e, vs, k) /\ Len(e.pending) < BlockValues
  BY DEF Encodes
<1>3. /\ e \in DeltaEncoders(bits) /\ vs \in Seq(Words(bits)) /\ k \in Nat
      /\ e.total = Len(vs) /\ Stand(bits, Numbers(e), k, vs)
  BY <1>2 DEF HeldBy
<1>4. /\ e.bits = bits /\ e.total \in Nat /\ e.first \in Words(bits)
      /\ e.last \in Words(bits) /\ e.pending \in Seq(Words(bits))
      /\ e.block \in Seq(Nat) /\ e.bytes \in Nat
  BY <1>3, EncoderFieldTypes
<1>5. PICK ws : /\ ws = Append(vs, v) /\ ws \in Seq(Words(bits))
                /\ Len(ws) = Len(vs) + 1 /\ ws[Len(vs) + 1] = v
                /\ \A i \in 1..Len(vs) : ws[i] = vs[i]
                /\ Len(vs) \in Nat
  BY <1>3, AppendProperties, LenProperties
<1>6. /\ Len(ws) = Len(vs) + 1 /\ ws[Len(vs) + 1] = v
      /\ Len(vs) \in Nat /\ ws \in Seq(Words(bits))
  BY <1>5
<1>7. ws # <<>>
  BY <1>5, EmptySeq
<1>8. PICK bv \in Nat : bv = BlockValues /\ bv >= 1
  BY DeltaConstants
<1>9. CASE e.total = 0
  <2>1. vs = <<>> /\ Len(vs) = 0
    BY <1>3, <1>9, EmptySeq
  <2>2. k = 0 /\ e.pending = <<>>
    BY <1>2, <2>1 DEF HeldBy
  <2>3. PICK one \in Nat : one = 1
    OBVIOUS
  <2>4. PICK f : f = [e EXCEPT !.total = one, !.first = v, !.last = v]
    OBVIOUS
  <2>5. /\ f \in DeltaEncoders(bits) /\ f.total = 1 /\ f.first = v /\ f.last = v
        /\ f.block = e.block /\ f.pending = e.pending
    BY <1>3, <2>3, <2>4 DEF DeltaEncoders
  <2>6. f = PutDelta(e, v)
    BY <1>9, <2>3, <2>4 DEF PutDelta
  <2>7. Stand(bits, Numbers(f), k, ws)
    <3>1. Len(vs) <= Len(ws)
      BY <1>5
    <3>2. QED
      BY <1>1, <1>3, <1>5, <2>2, <2>5, <3>1, StandInEncoder
  <2>8. IsPending(f, BlockValues * k, ws)
    <3>1. BlockValues * k = 0
      BY <2>2, DeltaConstants
    <3>2. Len(f.pending) = 0
      BY <2>2, <2>5, EmptySeq
    <3>3. Len(ws) = 1 /\ ws[1] = v
      BY <1>5, <2>1
    <3>4. IsPending(f, 0, ws)
      BY <2>5, <3>2, <3>3 DEF IsPending
    <3>5. QED
      BY <3>1, <3>4
  <2>9. Len(f.pending) = 0
    BY <2>2, <2>5, EmptySeq
  <2>10. f.total = Len(ws) /\ f.first = ws[1]
    BY <1>5, <2>1, <2>5
  <2>11. HeldBy(bits, f, ws, k)
    BY <1>3, <1>5, <1>7, <1>8, <2>5, <2>7, <2>8, <2>9, <2>10 DEF HeldBy
  <2>12. Len(f.pending) < BlockValues
    BY <1>8, <2>9
  <2>13. QED
    BY <1>5, <2>6, <2>11, <2>12 DEF Encodes
<1>10. CASE e.total # 0
  <2>1. vs # <<>>
    BY <1>3, <1>10, EmptySeq
  <2>2. PICK x : /\ x = BlockValues * k /\ e.first = vs[1]
                 /\ IsPending(e, x, vs)
    BY <1>2, <2>1 DEF HeldBy
  <2>3. PICK n \in Nat : n = Len(e.pending) /\ n < bv
    BY <1>2, <1>4, <1>8, LenProperties
  <2>4. /\ x \in Nat /\ Len(vs) = x + 1 + n /\ e.last = vs[x + 1]
        /\ \A j \in 1..n : e.pending[j] = vs[x + 1 + j]
    BY <2>2, <2>3 DEF IsPending
  <2>5. /\ n = Len(e.pending) /\ x \in Nat
    BY <2>3, <2>4
  <2>6. PICK a \in Nat, b \in Nat : a = Len(vs) /\ b = Len(ws)
    <3>1. Len(vs) + 1 \in Nat
      BY <1>6
    <3>2. QED
      BY <1>6, <3>1
  <2>7. a = x + 1 + n
    BY <2>4, <2>6
  <2>8. b = a + 1
    BY <1>6, <2>6
  <2>9. a = Len(vs) /\ b = Len(ws) /\ a = x + 1 + n /\ b = a + 1 /\ x \in Nat
    BY <2>5, <2>6, <2>7, <2>8
  <2>10. PICK p : /\ p = Append(e.pending, v) /\ p \in Seq(Words(bits))
                  /\ Len(p) = n + 1 /\ p[n + 1] = v
                  /\ \A j \in 1..n : p[j] = e.pending[j]
    <3>1. PICK u, E : u = e.pending /\ E = Words(bits) /\ u \in Seq(E) /\ v \in E
      BY <1>4
    <3>2. /\ Append(u, v) \in Seq(E) /\ Len(Append(u, v)) = Len(u) + 1
          /\ Append(u, v)[Len(u) + 1] = v
          /\ \A j \in 1..Len(u) : Append(u, v)[j] = u[j]
      BY <3>1, AppendProperties
    <3>3. QED
      BY <2>5, <3>1, <3>2
  <2>11. PICK t : t = e.total + 1 /\ t \in Nat
    BY <1>4
  <2>12. PICK g : g = [e EXCEPT !.total = t, !.pending = p]
    OBVIOUS
  <2>13. /\ g \in DeltaEncoders(bits) /\ g.total = t /\ g.pending = p
         /\ g.first = e.first /\ g.last = e.last /\ g.block = e.block
    BY <1>3, <2>10, <2>11, <2>12 DEF DeltaEncoders
  <2>14. PutDelta(e, v) = FlushFull(g)
    BY <1>10, <2>10, <2>11, <2>12 DEF PutDelta
  <2>15. Stand(bits, Numbers(g), k, ws)
    <3>1. Len(vs) <= Len(ws) /\ BlockValues * k + 1 <= Len(vs)
      BY <1>5, <2>2, <2>3, <2>4
    <3>2. QED
      BY <1>1, <1>3, <1>5, <2>13, <3>1, StandInEncoder
  <2>16. IsPending(g, x, ws)
    <3>1. Len(ws) = x + 1 + (n + 1)
      BY <2>9
    <3>2. x + 1 \in 1..Len(vs)
      BY <2>9
    <3>3. ws[x + 1] = vs[x + 1]
      BY <1>5, <3>2
    <3>4. ASSUME NEW j \in 1..(n + 1) PROVE p[j] = ws[x + 1 + j]
      <4>1. CASE j = n + 1
        <5>1. x + 1 + j = Len(vs) + 1
          BY <2>9, <4>1
        <5>2. QED
          BY <1>5, <2>10, <4>1, <5>1
      <4>2. CASE j # n + 1
        <5>1. j \in 1..n /\ x + 1 + j \in 1..Len(vs)
          BY <2>9, <4>2
        <5>2. QED
          BY <1>5, <2>4, <2>10, <5>1
      <4>3. QED
        BY <4>1, <4>2
    <3>5. QED
      BY <2>4, <2>10, <2>13, <3>1, <3>3, <3>4 DEF IsPending
  <2>17. g.total = Len(ws) /\ g.first = ws[1]
    <3>1. 1 \in 1..Len(vs)
      BY <2>9
    <3>2. ws[1] = vs[1]
      BY <1>5, <3>1
    <3>3. QED
      BY <1>3, <1>6, <2>2, <2>11, <2>13, <3>2
  <2>18. Len(g.pending) <= BlockValues
    BY <1>8, <2>3, <2>10, <2>13
  <2>19. HeldBy(bits, g, ws, k)
    BY <1>3, <1>5, <1>7, <2>2, <2>13, <2>15, <2>16, <2>17, <2>18 DEF HeldBy
  <2>20. CASE Len(g.pending) = BlockValues
    <3>1. PICK f : f = FlushBlock(g, 0)
      OBVIOUS
    <3>2. PutDelta(e, v) = f
      BY <2>14, <2>20, <3>1 DEF FlushFull
    <3>3. g.pending # <<>>
      BY <2>3, <2>10, <2>13, EmptySeq
    <3>4. 0 \in Nat
      OBVIOUS
    <3>5. IsFlushed(bits, g, f, ws, k + 1)
      BY <2>19, <3>1, <3>3, <3>4, BlockFlushed
    <3>6. /\ f \in DeltaEncoders(bits) /\ f.total = g.total
          /\ f.first = g.first /\ f.pending = <<>> /\ f.last = ws[Len(ws)]
          /\ Stand(bits, Numbers(f), k + 1, ws)
      BY <3>5 DEF IsFlushed
    <3>7. PICK y : y = BlockValues * (k + 1) /\ y = x + bv /\ y \in Nat
      <4>1. bv * (k + 1) = bv * k + bv
        BY <1>3
      <4>2. bv * (k + 1) = x + bv
        BY <1>8, <2>2, <4>1, Zenon
      <4>3. x + bv \in Nat
        BY <2>4
      <4>4. QED
        BY <1>8, <4>2, <4>3, Zenon
    <3>8. Len(f.pending) = 0
      BY <3>6, EmptySeq
    <3>9. Len(ws) = y + 1 + 0 /\ Len(ws) = y + 1
      <4>1. n + 1 = bv
        BY <1>8, <2>10, <2>13, <2>20
      <4>2. QED
        BY <2>9, <3>7, <4>1
    <3>10. f.last = ws[y + 1]
      BY <3>6, <3>9
    <3>11. IsPending(f, y, ws)
      <4>1. \A j \in 1..Len(f.pending) : f.pending[j] = ws[y + 1 + j]
        BY <3>8
      <4>2. QED
        BY <3>7, <3>8, <3>9, <3>10, <4>1 DEF IsPending
    <3>12. k + 1 \in Nat /\ Len(f.pending) <= BlockValues
           /\ Len(f.pending) < BlockValues
      BY <1>3, <1>8, <3>8
    <3>13. HeldBy(bits, f, ws, k + 1)
      <4>1. f.total = Len(ws) /\ f.first = ws[1]
        BY <2>17, <3>6
      <4>2. IsPending(f, BlockValues * (k + 1), ws)
        BY <3>7, <3>11, Zenon
      <4>3. QED
        BY <1>5, <1>7, <3>6, <3>12, <4>1, <4>2, Zenon DEF HeldBy
    <3>14. QED
      BY <1>5, <3>2, <3>12, <3>13 DEF Encodes
  <2>21. CASE Len(g.pending) # BlockValues
    <3>1. PutDelta(e, v) = g
      BY <2>14, <2>21 DEF FlushFull
    <3>2. Len(g.pending) < BlockValues
      BY <1>8, <2>3, <2>10, <2>13, <2>21
    <3>3. QED
      BY <1>5, <2>19, <3>1, <3>2 DEF Encodes
  <2>22. QED
    BY <2>20, <2>21
<1>11. QED
  BY <1>9, <1>10

LEMMA NewEncodes ==
    ASSUME NEW bits \in WordSizes
    PROVE  Encodes(bits, NewDeltaEncoder(bits), <<>>)
<1>1. bits \in Nat /\ bits >= 1
  BY WordSizeFacts
<1>2. PICK e : e = NewDeltaEncoder(bits)
  OBVIOUS
<1>3. PICK zero \in Words(bits), no \in Seq(Words(bits)), block \in Seq(Nat) :
        zero = 0 /\ no = <<>> /\ block = <<>>
  <2>1. 0 \in Words(bits)
    BY <1>1, WordType
  <2>2. <<>> \in Seq(Words(bits)) /\ <<>> \in Seq(Nat)
    OBVIOUS
  <2>3. QED
    BY <2>1, <2>2, Zenon
<1>4. e = [bits |-> bits, total |-> 0, first |-> zero, last |-> zero,
           pending |-> no, block |-> block, bytes |-> 0]
  BY <1>2, <1>3 DEF NewDeltaEncoder
<1>5. /\ e \in DeltaEncoders(bits) /\ e.total = 0 /\ e.pending = <<>>
      /\ e.block = <<>>
  BY <1>3, <1>4 DEF DeltaEncoders
<1>6. Stand(bits, Numbers(e), 0, <<>>)
  <2>1. IsHeaded(Numbers(e), e)
    BY <1>1, <1>5, HeaderShape
  <2>2. PICK q : q = Numbers(e) /\ IsHeaded(q, e)
    BY <2>1
  <2>3. Len(e.block) = 0
    BY <1>5, EmptySeq
  <2>4. q \in Seq(Nat) /\ Headed(q) /\ Len(q) = 4
    BY <2>2, <2>3 DEF IsHeaded
  <2>5. QED
    BY <2>2, <2>4, NoBlocksStand
<1>7. PICK bv \in Nat : bv = BlockValues /\ bv >= 1
  BY DeltaConstants
<1>8. /\ <<>> \in Seq(Words(bits)) /\ Len(<<>>) = 0 /\ Len(e.pending) = 0
      /\ 0 \in Nat /\ Len(e.pending) <= BlockValues
      /\ Len(e.pending) < BlockValues
  BY <1>3, <1>5, <1>7, EmptySeq
<1>9. HeldBy(bits, e, <<>>, 0)
  BY <1>5, <1>6, <1>8 DEF HeldBy
<1>10. QED
  BY <1>2, <1>8, <1>9 DEF Encodes

LoopThrough(n, X, base, step) ==
    \E f : /\ f[0] = base
           /\ \A k \in 1..n : f[k] = step[k][f[k - 1]]
           /\ \A k \in 0..n : f[k] \in X

LEMMA LoopIsThere ==
    ASSUME NEW n \in Nat, NEW X, NEW base \in X,
           NEW step \in [1..n -> [X -> X]]
    PROVE  LoopThrough(n, X, base, step)
BY LoopExists DEF LoopThrough

(* A batch.                                                                *)
LEMMA PutsEncode ==
    ASSUME NEW bits \in WordSizes, NEW e, NEW vs, Encodes(bits, e, vs),
           NEW us \in Seq(Words(bits)), NEW data, Len(data) = Len(us),
           \A k \in 1..Len(us) : data[k][1] = us[k]
    PROVE  Encodes(bits, PutDeltas(e, data), vs \o us)
<1>1. PICK X : X = DeltaEncoders(bits)
  OBVIOUS
<1>2. e \in X /\ vs \in Seq(Words(bits))
  BY <1>1 DEF Encodes, HeldBy
<1>3. PICK n \in Nat : n = Len(us) /\ n = Len(data)
  BY LenProperties
<1> DEFINE Def(f, k) == IF k = 0 THEN e ELSE PutDelta(f[k - 1], data[k][1])
           Upto(f) == f = [k \in 0..n |-> Def(f, k)]
           Loop == CHOOSE f : Upto(f)
           Put(x, k) == PutDelta(x, data[k][1])
           step == [k \in 1..n |->
                       [x \in X |-> IF Put(x, k) \in X THEN Put(x, k) ELSE x]]
           Lead(k) == vs \o SubSeq(us, 1, k)
<1>4. PutDeltas(e, data) = Loop[n]
  BY <1>3, Zenon DEF PutDeltas
<1>5. ASSUME NEW x, NEW k \in 1..n, Encodes(bits, x, Lead(k - 1))
      PROVE  Encodes(bits, Put(x, k), Lead(k)) /\ Put(x, k) \in X
  <2>1. k \in 1..Len(us) /\ us[k] \in Words(bits) /\ data[k][1] = us[k]
    BY <1>3, ElementOfSeq
  <2>2. Encodes(bits, PutDelta(x, us[k]), Append(Lead(k - 1), us[k]))
    <3> HIDE DEF Lead
    <3>1. QED
      BY <1>5, <2>1, PutEncodes
  <2>3. Append(Lead(k - 1), us[k]) = Lead(k)
    <3>1. PICK E, front : /\ E = Words(bits) /\ front = SubSeq(us, 1, k - 1)
                          /\ us \in Seq(E) /\ vs \in Seq(E) /\ us[k] \in E
      BY <1>2, <2>1
    <3>2. 1 \in 1..(Len(us) + 1) /\ k - 1 \in 0..Len(us) /\ k \in 1..Len(us)
      BY <1>3
    <3>3. front \in Seq(E)
      <4>1. \A i \in 1..(k - 1) : us[i] \in E
        BY <1>3, <3>1, ElementOfSeq
      <4>2. QED
        BY <1>3, <3>1, <4>1, SubSeqProperties
    <3>4. SubSeq(us, 1, k) = Append(front, us[k])
      BY <1>3, <3>1, SubSeqRecursiveSecond
    <3>5. vs \o Append(front, us[k]) = Append(vs \o front, us[k])
      BY <3>1, <3>3, AppendBehind
    <3>6. QED
      BY <3>1, <3>4, <3>5
  <2>4. Encodes(bits, Put(x, k), Lead(k))
    <3> HIDE DEF Lead
    <3>1. QED
      BY <2>1, <2>2, <2>3
  <2>5. QED
    <3> HIDE DEF Lead, Put
    <3>1. QED
      BY <1>1, <2>4 DEF Encodes, HeldBy
<1>6. Lead(0) = vs /\ Lead(n) = vs \o us
  <2>1. SubSeq(us, 1, 0) = <<>> /\ SubSeq(us, 1, n) = us
    BY <1>3, SubSeqEmpty, SubSeqFull
  <2>2. vs \o <<>> = vs
    BY <1>2, ConcatEmptySeq
  <2>3. QED
    BY <2>1, <2>2
<1> HIDE DEF Lead
<1>7. PICK f : /\ f[0] = e
               /\ \A k \in 1..n : f[k] = step[k][f[k - 1]]
               /\ \A k \in 0..n : f[k] \in X
  <2>1. \A k \in 1..n : [x \in X |-> IF Put(x, k) \in X THEN Put(x, k) ELSE x]
                           \in [X -> X]
    <3> HIDE DEF Put
    <3>1. QED
      OBVIOUS
  <2>2. step \in [1..n -> [X -> X]]
    <3> HIDE DEF Put
    <3>1. QED
      BY <2>1
  <2> HIDE DEF step
  <2>3. \E f : /\ f[0] = e
               /\ \A k \in 1..n : f[k] = step[k][f[k - 1]]
               /\ \A k \in 0..n : f[k] \in X
    <3>1. e \in X
      BY <1>2
    <3>2. PICK t : t = step /\ t \in [1..n -> [X -> X]]
      BY <2>2
    <3>3. LoopThrough(n, X, e, t)
      BY <3>1, <3>2, LoopIsThere
    <3>4. QED
      BY <3>2, <3>3, Zenon DEF LoopThrough
  <2>4. QED
    BY <2>3
<1>8. ASSUME NEW k \in 1..n
      PROVE f[k] = IF Put(f[k - 1], k) \in X THEN Put(f[k - 1], k) ELSE f[k - 1]
  <2>1. k - 1 \in 0..n
    OBVIOUS
  <2>2. f[k - 1] \in X
    BY <1>7, <2>1
  <2> HIDE DEF Put
  <2>3. QED
    BY <1>7, <2>2
<1> HIDE DEF step, Put
<1>9. \A k \in 0..n : Encodes(bits, f[k], Lead(k))
  <2> DEFINE S == {k \in 0..n : Encodes(bits, f[k], Lead(k))}
  <2>1. 0 \in S
    BY <1>6, <1>7
  <2>2. ASSUME NEW k \in 1..n, k - 1 \in S PROVE k \in S
    <3>1. Encodes(bits, f[k - 1], Lead(k - 1))
      BY <2>2
    <3>2. Encodes(bits, Put(f[k - 1], k), Lead(k)) /\ Put(f[k - 1], k) \in X
      BY <1>5, <3>1
    <3>3. Encodes(bits, f[k], Lead(k))
      BY <1>8, <3>2
    <3>4. QED
      BY <3>3
  <2>3. 0..n \subseteq S
    <3> HIDE DEF S
    <3>1. QED
      BY <2>1, <2>2, UpTo, Zenon
  <2>4. QED
    BY <2>3
<1>10. ASSUME NEW k \in 1..n PROVE f[k] = Put(f[k - 1], k)
  <2>1. k - 1 \in 0..n
    OBVIOUS
  <2>2. Put(f[k - 1], k) \in X
    BY <1>5, <1>9, <2>1
  <2>3. QED
    BY <1>8, <2>2
<1>11. \E g : Upto(g)
  <2> DEFINE g == [k \in 0..n |-> f[k]]
  <2>1. ASSUME NEW k \in 0..n PROVE g[k] = Def(g, k)
    <3>1. k # 0 => k \in 1..n /\ k - 1 \in 0..n
      OBVIOUS
    <3>2. CASE k = 0
      BY <1>7, <3>2
    <3>3. CASE k # 0
      <4>1. g[k] = f[k] /\ g[k - 1] = f[k - 1]
        BY <3>1, <3>3
      <4> HIDE DEF g
      <4>2. QED
        BY <1>10, <3>1, <3>3, <4>1 DEF Put
    <3>4. QED
      BY <3>2, <3>3
  <2>2. Upto(g)
    <3> HIDE DEF Def
    <3>1. QED
      BY <2>1
  <2> HIDE DEF g, Upto
  <2>3. QED
    BY <2>2
<1>12. Upto(Loop)
  <2> HIDE DEF Upto
  <2>1. QED
    BY <1>11
<1> HIDE DEF Loop
<1>13. Loop[0] = e /\ \A k \in 1..n : Loop[k] = Put(Loop[k - 1], k)
  <2>1. \A k \in 0..n : Loop[k] = Def(Loop, k)
    <3> HIDE DEF Def
    <3>1. QED
      BY <1>12
  <2>2. 0 \in 0..n /\ \A k \in 1..n : k \in 0..n /\ k # 0
    OBVIOUS
  <2>3. QED
    BY <2>1, <2>2 DEF Put
<1>14. Loop[n] = f[n]
  <2> DEFINE S == {k \in 0..n : Loop[k] = f[k]}
  <2>1. 0 \in S
    BY <1>7, <1>13
  <2>2. \A k \in 1..n : k - 1 \in S => k \in S
    BY <1>10, <1>13
  <2>3. 0..n \subseteq S
    <3> HIDE DEF S
    <3>1. QED
      BY <2>1, <2>2, UpTo, Zenon
  <2>4. QED
    BY <2>3
<1>15. QED
  <2>1. Encodes(bits, f[n], Lead(n))
    BY <1>9
  <2>2. QED
    BY <1>4, <1>6, <1>14, <2>1

-----------------------------------------------------------------------------
(* A page.                                                                 *)

(* The numbers q have as many blocks as the values vs need.                *)
StandFor(bits, q, vs) ==
    /\ vs \in Seq(Words(bits)) /\ q \in Seq(Nat) /\ Headed(q)
    /\ q[3] = Len(vs)
    /\ vs # <<>> => Wrap(bits, UnZigZag(q[4])) = vs[1]
    /\ \E k \in Nat : Stand(bits, q, k, vs) /\ Len(vs) <= BlockValues * k + 1

IsLast(bits, e, f, vs) ==
    /\ f \in DeltaEncoders(bits) /\ StandFor(bits, Numbers(f), vs)
    /\ f.total = Len(vs)
    /\ f.bytes <= e.bytes + MaxBlockBytes(e) /\ MaxBlockBytes(e) \in Nat

LEMMA FirstBack ==
    ASSUME NEW bits \in WordSizes, NEW f \in DeltaEncoders(bits), NEW v,
           f.first = v
    PROVE  Wrap(bits, UnZigZag(Numbers(f)[4])) = v
<1>1. bits \in Nat /\ bits >= 1
  BY WordSizeFacts
<1>2. f.bits = bits /\ f.first \in Words(bits)
  BY EncoderFieldTypes
<1>3. PICK s \in Int : s = Signed(bits, v) /\ Wrap(bits, s) = v
  BY <1>1, <1>2, SignedFacts
<1>4. Numbers(f)[4] = ZigZag(s)
  BY <1>1, <1>2, <1>3, HeaderShape DEF IsHeaded
<1>5. UnZigZag(ZigZag(s)) = s
  BY <1>3, ZigZagBack
<1>6. QED
  BY <1>3, <1>4, <1>5, Zenon

LEMMA LastFlushed ==
    ASSUME NEW bits \in WordSizes, NEW e, NEW vs, Encodes(bits, e, vs),
           NEW unset \in Nat
    PROVE  IsLast(bits, e, FlushBlock(e, unset), vs)
<1>1. bits \in Nat /\ bits >= 1
  BY WordSizeFacts
<1>2. PICK k : HeldBy(bits, e, vs, k)
  BY DEF Encodes
<1>3. /\ e \in DeltaEncoders(bits) /\ vs \in Seq(Words(bits)) /\ k \in Nat
      /\ e.total = Len(vs) /\ Stand(bits, Numbers(e), k, vs)
      /\ Len(e.pending) <= BlockValues
  BY <1>2 DEF HeldBy
<1>4. PICK f : f = FlushBlock(e, unset)
  OBVIOUS
<1>5. PICK bv \in Nat : bv = BlockValues /\ bv >= 1
  BY DeltaConstants
<1>6. e.pending \in Seq(Words(bits)) /\ e.bytes \in Nat /\ e.bits = bits
  BY <1>3, EncoderFieldTypes
<1>7. PICK x \in Nat, n \in Nat : x = bv * k /\ n = Len(e.pending)
  <2>1. bv * k \in Nat
    BY <1>3
  <2>2. Len(e.pending) \in Nat
    BY <1>6, LenProperties
  <2>3. QED
    BY <2>1, <2>2
<1>8. vs # <<>> => e.first = vs[1] /\ Len(vs) = x + 1 + n
  BY <1>2, <1>5, <1>7, Zenon DEF HeldBy, IsPending
<1>9. PICK l \in Nat : l = Len(vs)
  BY <1>3, LenProperties
<1>10. ASSUME NEW g \in DeltaEncoders(bits), NEW c \in Nat,
              g.total = Len(vs), g.first = e.first,
              Stand(bits, Numbers(g), c, vs), Len(vs) <= BlockValues * c + 1
       PROVE  StandFor(bits, Numbers(g), vs)
  <2>1. PICK q : q = Numbers(g) /\ IsHeaded(q, g)
    BY <1>1, <1>10, HeaderShape
  <2>2. q \in Seq(Nat) /\ Headed(q) /\ q[3] = Len(vs)
    BY <1>10, <2>1 DEF IsHeaded
  <2>3. ASSUME vs # <<>> PROVE Wrap(bits, UnZigZag(q[4])) = vs[1]
    BY <1>8, <1>10, <2>1, <2>3, FirstBack
  <2>4. \E i \in Nat : Stand(bits, q, i, vs) /\ Len(vs) <= BlockValues * i + 1
    BY <1>10, <2>1
  <2>5. QED
    BY <1>3, <2>1, <2>2, <2>3, <2>4 DEF StandFor
<1>11. CASE e.pending = <<>>
  <2>1. f = e
    BY <1>4, <1>11 DEF FlushBlock
  <2>2. MaxBlockBytes(e) \in Nat
    <3>1. <<>> \in Seq(Words(bits))
      OBVIOUS
    <3>2. PICK above \in Seq(Words(bits)) : above = <<>>
      BY <3>1, Zenon
    <3>3. IsLeast(bits, above, 0)
      <4>1. ZigZag(0) = 0 /\ Pow2(bits) >= 1 /\ Pow2(bits) \in Nat
        BY <1>1, Pow2Facts, Pow2More DEF ZigZag
      <4>2. QED
        BY <4>1 DEF IsLeast
    <3>4. Len(e.pending) = Len(above)
      BY <1>11, <3>2
    <3>5. QED
      BY <1>6, <3>3, <3>4, BlockBytesFit
  <2>3. e.bytes <= e.bytes + MaxBlockBytes(e)
    BY <1>6, <2>2
  <2>4. Len(vs) <= BlockValues * k + 1
    <3>1. n = 0
      BY <1>7, <1>11, EmptySeq
    <3>2. CASE vs = <<>>
      <4>1. l = 0
        BY <1>9, <3>2, EmptySeq
      <4>2. l <= x + 1
        BY <4>1
      <4>3. QED
        BY <1>5, <1>7, <1>9, <4>2, Zenon
    <3>3. CASE vs # <<>>
      <4>1. l = x + 1 + n
        BY <1>8, <1>9, <3>3
      <4>2. l <= x + 1
        BY <3>1, <4>1
      <4>3. QED
        BY <1>5, <1>7, <1>9, <4>2, Zenon
    <3>4. QED
      BY <3>2, <3>3
  <2>5. StandFor(bits, Numbers(e), vs)
    BY <1>3, <1>10, <2>4
  <2>6. QED
    BY <1>3, <1>4, <2>1, <2>2, <2>3, <2>5 DEF IsLast
<1>12. CASE e.pending # <<>>
  <2>1. IsFlushed(bits, e, f, vs, k + 1)
    BY <1>2, <1>4, <1>12, BlockFlushed
  <2>2. /\ f \in DeltaEncoders(bits) /\ f.total = Len(vs)
        /\ f.first = e.first /\ Stand(bits, Numbers(f), k + 1, vs)
        /\ f.bytes <= e.bytes + MaxBlockBytes(e) /\ MaxBlockBytes(e) \in Nat
    BY <1>3, <2>1 DEF IsFlushed
  <2>3. k + 1 \in Nat /\ Len(vs) <= BlockValues * (k + 1) + 1
    <3>1. vs # <<>>
      BY <1>2, <1>12 DEF HeldBy
    <3>2. l = x + 1 + n /\ n <= bv
      BY <1>3, <1>5, <1>7, <1>8, <1>9, <3>1
    <3>3. bv * (k + 1) = bv * k + bv /\ bv * k \in Nat
      BY <1>3
    <3>4. bv * (k + 1) = x + bv
      BY <1>7, <3>3
    <3>5. l <= bv * (k + 1) + 1
      BY <3>2, <3>4
    <3>6. QED
      BY <1>3, <1>5, <1>9, <3>5
  <2>4. StandFor(bits, Numbers(f), vs)
    BY <1>10, <2>2, <2>3
  <2>5. QED
    BY <1>4, <2>2, <2>4 DEF IsLast
<1>13. QED
  BY <1>11, <1>12

LEMMA HeaderBytesFit ==
    ASSUME NEW bits \in WordSizes, BufferBits <= bits,
           BlockValues < Pow2(BufferBits),
           NEW f \in DeltaEncoders(bits), f.total \in Words(bits)
    PROVE  /\ HeaderBytes(f) \in Nat
           /\ HeaderBytes(f) <= 4 * CeilDiv(bits, ByteBits - 1)
           /\ CeilDiv(bits, ByteBits - 1) \in Nat
<1>1. bits \in Nat /\ bits >= 1
  BY WordSizeFacts
<1>2. f.bits = bits /\ f.first \in Words(bits)
  BY EncoderFieldTypes
<1>3. PICK v \in Nat, m \in Nat, b \in Nat, u \in Nat :
        /\ v = BlockValues /\ m = Miniblocks /\ b = ByteBits
        /\ u = BufferBits /\ m <= v /\ b >= 2
  BY DeltaConstants
<1>4. PICK t \in Nat, z \in Nat, w \in Nat :
        /\ t = f.total /\ z = ZigZag(Signed(bits, f.first))
        /\ w = Pow2(bits) /\ t < w /\ z < w
  <2>1. Pow2(bits) \in Nat
    BY <1>1, Pow2Facts
  <2>2. f.total \in Nat /\ f.total < Pow2(bits)
    BY <2>1 DEF Words
  <2>3. /\ ZigZag(Signed(bits, f.first)) \in Nat
        /\ ZigZag(Signed(bits, f.first)) < Pow2(bits)
    BY <1>1, <1>2, SignedFacts
  <2>4. QED
    BY <2>1, <2>2, <2>3
<1>5. v < w /\ m < w
  <2>1. Pow2(u) <= w /\ Pow2(u) \in Nat
    BY <1>1, <1>3, <1>4, Pow2Grows, Pow2Facts
  <2>2. v < Pow2(u)
    BY <1>3
  <2>3. QED
    BY <1>3, <2>1, <2>2
<1>6. PICK c \in Nat : c = CeilDiv(bits, ByteBits - 1)
  BY <1>1, <1>3, CeilDivFacts
<1>7. ASSUME NEW n \in Nat, n < w PROVE VlqBytes(n) \in Nat /\ VlqBytes(n) <= c
  BY <1>1, <1>4, <1>6, <1>7, VlqFits
<1>8. HeaderBytes(f) = VlqBytes(v) + VlqBytes(m) + VlqBytes(t) + VlqBytes(z)
  <2>1. Header(f) = <<v, m, t, z>>
    BY <1>2, <1>3, <1>4 DEF Header
  <2>2. /\ Header(f)[1] = v /\ Header(f)[2] = m
        /\ Header(f)[3] = t /\ Header(f)[4] = z
    BY <2>1
  <2>3. QED
    BY <2>2, Zenon DEF HeaderBytes
<1>9. PICK vv \in Nat, mm \in Nat, tt \in Nat, zz \in Nat :
        /\ vv = VlqBytes(v) /\ mm = VlqBytes(m) /\ tt = VlqBytes(t)
        /\ zz = VlqBytes(z) /\ vv <= c /\ mm <= c /\ tt <= c /\ zz <= c
  BY <1>4, <1>5, <1>7
<1>10. vv + mm + tt + zz \in Nat /\ vv + mm + tt + zz <= 4 * c
  BY <1>9
<1>11. QED
  BY <1>6, <1>8, <1>9, <1>10

IsDeltaPage(bits, p, vs, most) ==
    /\ StandFor(bits, p.numbers, vs) /\ p.bytes <= most
    /\ p.bytes \in Nat /\ most \in Nat

LEMMA PageRight ==
    ASSUME NEW bits \in WordSizes, BufferBits <= bits,
           BlockValues < Pow2(BufferBits),
           NEW e, NEW vs, Encodes(bits, e, vs), Len(vs) \in Words(bits),
           NEW unset \in Nat
    PROVE  IsDeltaPage(bits, DeltaPage(e, unset), vs, MaxDeltaBytes(e))
<1>1. PICK f : f = FlushBlock(e, unset)
  OBVIOUS
<1>2. /\ f \in DeltaEncoders(bits) /\ StandFor(bits, Numbers(f), vs)
      /\ f.total = Len(vs)
      /\ f.bytes <= e.bytes + MaxBlockBytes(e) /\ MaxBlockBytes(e) \in Nat
  BY <1>1, LastFlushed DEF IsLast
<1>3. e.bits = bits /\ e.bytes \in Nat
  BY EncoderFieldTypes DEF Encodes, HeldBy
<1>4. f.bytes \in Nat
  BY <1>2, EncoderFieldTypes
<1>5. PICK h \in Nat, c \in Nat : /\ h = HeaderBytes(f) /\ h <= 4 * c
                                  /\ c = CeilDiv(bits, ByteBits - 1)
  BY <1>2, HeaderBytesFit
<1>6. DeltaPage(e, unset) = [numbers |-> Numbers(f), bytes |-> h + f.bytes]
  <2>1. {[numbers |-> Header(last) \o last.block,
          bytes   |-> HeaderBytes(last) + last.bytes] :
            last \in {FlushBlock(e, unset)}}
           = {[numbers |-> Numbers(f), bytes |-> h + f.bytes]}
    BY <1>1, <1>5, Zenon DEF Numbers
  <2>2. QED
    BY <2>1 DEF DeltaPage
<1>7. /\ h + f.bytes <= MaxDeltaBytes(e)
      /\ h + f.bytes \in Nat /\ MaxDeltaBytes(e) \in Nat
  <2>1. MaxDeltaBytes(e) = 4 * c + e.bytes + MaxBlockBytes(e)
    BY <1>3, <1>5 DEF MaxDeltaBytes
  <2>2. PICK a \in Nat, d \in Nat, g \in Nat :
          a = e.bytes /\ d = MaxBlockBytes(e) /\ g = f.bytes /\ g <= a + d
    BY <1>2, <1>3, <1>4
  <2>3. h <= 4 * c /\ g <= a + d
    BY <1>5, <2>2
  <2>4. h + g <= 4 * c + a + d /\ h + g \in Nat /\ 4 * c + a + d \in Nat
    BY <2>3
  <2>5. QED
    BY <2>1, <2>2, <2>4
<1>8. QED
  BY <1>2, <1>6, <1>7 DEF IsDeltaPage

(* Numbers that stand for values are decoded to them.                      *)
PlaceOf(at, i) == IF i = 0 THEN 5 ELSE at[(i - 1) \div BlockValues]

UptoIs(at, vs, i) == [at |-> PlaceOf(at, i), values |-> SubSeq(vs, 1, i + 1)]

LEMMA PlaceMoves ==
    ASSUME NEW bits, NEW q, NEW at, NEW k \in Nat, NEW vs,
           BlocksStand(bits, q, at, k, vs),
           NEW i \in 0..(BlockValues * k - 1)
    PROVE  at[i \div BlockValues] =
              IF i = 0 THEN 5
              ELSE IF i % q[1] # 0 THEN PlaceOf(at, i)
              ELSE BlockOf(q, PlaceOf(at, i), q[2] + 1)
<1>1. i \in Nat /\ i \div BlockValues \in 0..(k - 1)
  BY BlockIn
<1>2. /\ q[1] = BlockValues /\ q[2] = Miniblocks /\ at[0] = 5
      /\ \A c \in 1..k : at[c] = BlockEnd(q, at[c - 1])
  BY DEF BlocksStand, Headed
<1>3. PICK v \in Nat, d \in Nat, n \in Nat :
        /\ v = BlockValues /\ d = i \div v /\ n = i % v /\ n < v
        /\ i = v * d + n /\ d \in 0..(k - 1)
  <2>1. BlockValues \in Nat /\ BlockValues >= 1
    BY DeltaConstants
  <2>2. /\ i \div BlockValues \in Nat
        /\ i % BlockValues \in 0..(BlockValues - 1)
        /\ i = BlockValues * (i \div BlockValues) + (i % BlockValues)
    BY <1>1, InBlock
  <2>3. i % BlockValues \in Nat /\ i % BlockValues < BlockValues
    BY <2>1, <2>2
  <2>4. QED
    BY <1>1, <2>1, <2>2, <2>3, Zenon
<1>4. CASE i = 0
  <2>1. d = 0
    BY <1>3, <1>4
  <2>2. QED
    BY <1>2, <1>3, <1>4, <2>1
<1>5. CASE i # 0 /\ n # 0
  <2>1. i - 1 = v * d + (n - 1) /\ n - 1 \in 0..(v - 1) /\ v >= 1
    BY <1>1, <1>3, <1>5
  <2>2. (i - 1) \div v = d
    <3>1. PICK j \in Nat, m \in 0..(v - 1), y \in Nat :
            j = i - 1 /\ m = n - 1 /\ y = v * d /\ j = y + m
      <4>1. v * d \in Nat /\ i - 1 \in Nat
        BY <1>1, <1>3, <1>5
      <4>2. QED
        BY <2>1, <4>1
    <3>2. QED
      BY <2>1, <3>1, OneQuotient
  <2>3. PlaceOf(at, i) = at[d]
    BY <1>3, <1>5, <2>2 DEF PlaceOf
  <2>4. QED
    BY <1>2, <1>3, <1>5, <2>3
<1>6. CASE i # 0 /\ n = 0
  <2>1. d \in 1..k /\ d # 0 /\ d - 1 \in Nat
    BY <1>3, <1>6
  <2>2. (i - 1) \div v = d - 1
    <3>1. PICK e \in Nat : e = d - 1 /\ d = e + 1
      BY <2>1
    <3>2. v * (e + 1) = v * e + v
      BY <1>3
    <3>3. v * e \in Nat
      BY <1>3, <3>1
    <3>4. PICK y \in Nat : y = v * e
      BY <3>3
    <3>5. i = v * d
      BY <1>3, <1>6
    <3>6. i - 1 = y + (v - 1) /\ v - 1 \in 0..(v - 1) /\ v >= 1
      BY <1>3, <3>1, <3>2, <3>4, <3>5
    <3>7. PICK j \in Nat, m \in 0..(v - 1) : j = i - 1 /\ m = v - 1
      BY <1>1, <1>6, <3>6
    <3>8. j = v * e + m
      BY <3>4, <3>6, <3>7
    <3>9. j \div v = e
      BY <3>6, <3>8, OneQuotient
    <3>10. QED
      BY <3>1, <3>7, <3>9
  <2>3. PlaceOf(at, i) = at[d - 1]
    BY <1>3, <1>6, <2>2 DEF PlaceOf
  <2>4. at[d] = BlockOf(q, at[d - 1], Miniblocks + 1)
    BY <1>2, <2>1 DEF BlockEnd
  <2>5. i % q[1] = 0
    BY <1>2, <1>3, <1>6
  <2>6. QED
    BY <1>2, <1>3, <1>6, <2>3, <2>4, <2>5
<1>7. QED
  BY <1>4, <1>5, <1>6

LEMMA NextDecoded ==
    ASSUME NEW bits, NEW q, NEW at, NEW k \in Nat,
           NEW E, NEW vs \in Seq(E), BlocksStand(bits, q, at, k, vs),
           Len(vs) <= BlockValues * k + 1,
           NEW i \in Nat, i + 2 <= Len(vs), NEW place,
           place = at[i \div BlockValues]
    PROVE  ValueAt(bits, q, UptoIs(at, vs, i), place, i)
              = [at |-> place, values |-> SubSeq(vs, 1, i + 2)]
<1>1. PICK l \in Nat : l = Len(vs) /\ i + 2 <= l
  BY LenProperties
<1>2. PICK x \in Nat : x = BlockValues * k
  <2>1. PICK v \in Nat : v = BlockValues
    BY DeltaConstants
  <2>2. v * k \in Nat
    OBVIOUS
  <2>3. QED
    BY <2>1, <2>2
<1>3. i \in 0..(x - 1)
  BY <1>1, <1>2
<1>4. ValueIs(bits, q, at[i \div BlockValues], vs, i)
  <2>1. i \in 0..(BlockValues * k - 1)
    BY <1>2, <1>3
  <2>2. \A j \in 0..(BlockValues * k - 1) :
           j + 2 <= Len(vs) => ValueIs(bits, q, at[j \div BlockValues], vs, j)
    BY DEF BlocksStand
  <2>3. QED
    BY <2>1, <2>2
<1>5. vs[i + 2] = Wrap(bits, vs[i + 1] + UnZigZag(q[place]) + DeltaAt(q, place, i))
  BY <1>4 DEF ValueIs
<1>6. PICK front : front = SubSeq(vs, 1, i + 1) /\ front[i + 1] = vs[i + 1]
  <2>1. SubSeq(vs, 1, i + 1)[i + 1] = vs[i + 1]
    <3>1. PICK n \in Nat : n = i + 1 /\ n \in 1..l
      BY <1>1
    <3>2. \A j \in 1..n : vs[j] \in E
      BY <1>1, <3>1, ElementOfSeq
    <3>3. SubSeq(vs, 1, n)[n] = vs[n]
      <4>1. \A j \in 1..(n - 1 + 1) : SubSeq(vs, 1, n)[j] = vs[1 + j - 1]
        BY <3>1, <3>2, SubSeqProperties
      <4>2. n \in 1..(n - 1 + 1) /\ 1 + n - 1 = n
        BY <3>1
      <4>3. QED
        BY <4>1, <4>2
    <3>4. QED
      BY <3>1, <3>3
  <2>2. QED
    BY <2>1
<1>7. SubSeq(vs, 1, i + 2) = Append(front, vs[i + 2])
  <2>1. PICK n \in Nat : n = i + 2 /\ n - 1 = i + 1 /\ n \in 1..Len(vs)
    BY <1>1
  <2>2. SubSeq(vs, 1, n) = Append(SubSeq(vs, 1, n - 1), vs[n])
    BY <2>1, SubSeqRecursiveSecond
  <2>3. QED
    BY <1>6, <2>1, <2>2, Zenon
<1>8. ValueAt(bits, q, UptoIs(at, vs, i), place, i)
        = [at |-> place,
           values |-> Append(front, Wrap(bits, front[i + 1]
                         + UnZigZag(q[place]) + DeltaAt(q, place, i)))]
  <2>1. q[1] = BlockValues /\ q[2] = Miniblocks
    BY DEF BlocksStand, Headed
  <2>2. q[1] \div q[2] = PerMiniblock
    BY <2>1 DEF PerMiniblock
  <2>3. UptoIs(at, vs, i).values = front
    BY <1>6 DEF UptoIs
  <2>4. QED
    BY <2>1, <2>2, <2>3, Zenon DEF ValueAt, DeltaAt
<1>9. QED
  BY <1>5, <1>6, <1>7, <1>8, Zenon

LEMMA Decoded ==
    ASSUME NEW bits \in Nat, NEW q, NEW vs, StandFor(bits, q, vs)
    PROVE  DeltaStandsFor(bits, q) = vs
<1>1. /\ vs \in Seq(Words(bits)) /\ q \in Seq(Nat) /\ q[3] = Len(vs)
      /\ vs # <<>> => Wrap(bits, UnZigZag(q[4])) = vs[1]
  BY DEF StandFor
<1>2. PICK k \in Nat : /\ Stand(bits, q, k, vs)
                       /\ Len(vs) <= BlockValues * k + 1
  BY DEF StandFor
<1>3. PICK at : BlocksStand(bits, q, at, k, vs)
  BY <1>2 DEF Stand
<1>4. CASE vs = <<>>
  <2>1. q[3] = 0
    BY <1>1, <1>4, EmptySeq
  <2>2. QED
    BY <1>4, <2>1 DEF DeltaStandsFor
<1>5. CASE vs # <<>>
  <2>1. PICK n \in Nat : n + 1 = Len(vs) /\ n = q[3] - 1 /\ q[3] # 0
    <3>1. Len(vs) \in Nat /\ Len(vs) # 0
      BY <1>1, <1>5, LenProperties, EmptySeq
    <3>2. Len(vs) - 1 \in Nat /\ (Len(vs) - 1) + 1 = Len(vs)
      BY <3>1
    <3>3. QED
      BY <1>1, <3>1, <3>2
  <2> DEFINE More(acc, i) ==
                ValueAt(bits, q, acc,
                        IF i = 0 THEN 5
                        ELSE IF i % q[1] # 0 THEN acc.at
                        ELSE BlockOf(q, acc.at, q[2] + 1), i)
             Start == [at     |-> 5,
                       values |-> <<Wrap(bits, UnZigZag(q[4]))>>]
             Def(f, i) == IF i = 0 THEN Start ELSE More(f[i - 1], i - 1)
             Is(f) == f = [i \in 0..n |-> Def(f, i)]
             Loop == CHOOSE f : Is(f)
  <2>2. DeltaStandsFor(bits, q) = Loop[n].values
    BY <2>1, Zenon DEF DeltaStandsFor
  <2>3. Start = UptoIs(at, vs, 0)
    <3>1. SubSeq(vs, 1, 1) = <<vs[1]>>
      <4>1. PICK E : E = Words(bits) /\ vs \in Seq(E)
        BY <1>1
      <4>2. 1 \in 1..Len(vs) /\ 0 \in Nat /\ 0 + 1 = 1
        BY <2>1
      <4>3. SubSeq(vs, 1, 1) = Append(SubSeq(vs, 1, 0), vs[1])
        BY <4>1, <4>2, SubSeqRecursiveSecond
      <4>4. SubSeq(vs, 1, 0) = <<>>
        BY <4>1, SubSeqEmpty
      <4>5. Append(<<>>, vs[1]) = <<vs[1]>>
        OBVIOUS
      <4>6. QED
        BY <4>3, <4>4, <4>5, Zenon
    <3>2. PlaceOf(at, 0) = 5
      BY DEF PlaceOf
    <3>3. UptoIs(at, vs, 0) = [at |-> 5, values |-> SubSeq(vs, 1, 1)]
      BY <3>2 DEF UptoIs
    <3>4. QED
      BY <1>1, <1>5, <3>1, <3>3
  <2>4. ASSUME NEW i \in 1..n
        PROVE  More(UptoIs(at, vs, i - 1), i - 1) = UptoIs(at, vs, i)
    <3>1. PICK j \in Nat : j = i - 1 /\ i = j + 1 /\ j + 2 <= Len(vs) /\ j < n
      BY <2>1
    <3>2. j \in 0..(BlockValues * k - 1)
      <4>1. PICK x \in Nat : x = BlockValues * k
        <5>1. PICK v \in Nat : v = BlockValues
          BY DeltaConstants
        <5>2. v * k \in Nat
          OBVIOUS
        <5>3. QED
          BY <5>1, <5>2
      <4>2. n + 1 <= x + 1
        BY <1>2, <2>1, <4>1
      <4>3. j \in 0..(x - 1)
        BY <3>1, <4>2
      <4>4. QED
        BY <4>1, <4>3
    <3>3. PICK place : /\ place = at[j \div BlockValues]
                       /\ place = IF j = 0 THEN 5
                                  ELSE IF j % q[1] # 0 THEN PlaceOf(at, j)
                                  ELSE BlockOf(q, PlaceOf(at, j), q[2] + 1)
      <4>1. BlocksStand(bits, q, at, k, vs)
        BY <1>3
      <4>2. at[j \div BlockValues] =
               IF j = 0 THEN 5
               ELSE IF j % q[1] # 0 THEN PlaceOf(at, j)
               ELSE BlockOf(q, PlaceOf(at, j), q[2] + 1)
        BY <3>2, <4>1, PlaceMoves
      <4>3. QED
        BY <4>2, Zenon
    <3>4. UptoIs(at, vs, j).at = PlaceOf(at, j)
      BY DEF UptoIs
    <3>5. More(UptoIs(at, vs, j), j)
             = ValueAt(bits, q, UptoIs(at, vs, j), place, j)
      BY <3>3, <3>4, Zenon
    <3>6. ValueAt(bits, q, UptoIs(at, vs, j), place, j)
             = [at |-> place, values |-> SubSeq(vs, 1, j + 2)]
      <4>1. PICK E : E = Words(bits) /\ vs \in Seq(E)
        BY <1>1
      <4>2. QED
        BY <1>2, <1>3, <3>1, <3>3, <4>1, NextDecoded
    <3>7. UptoIs(at, vs, i) = [at |-> place, values |-> SubSeq(vs, 1, j + 2)]
      <4>1. PlaceOf(at, i) = place
        BY <3>1, <3>3 DEF PlaceOf
      <4>2. i + 1 = j + 2
        BY <3>1
      <4>3. QED
        BY <4>1, <4>2, Zenon DEF UptoIs
    <3> HIDE DEF More
    <3>8. QED
      BY <3>1, <3>5, <3>6, <3>7
  <2>5. \E g : Is(g)
    <3> DEFINE g == [i \in 0..n |-> UptoIs(at, vs, i)]
    <3>1. ASSUME NEW i \in 0..n PROVE g[i] = Def(g, i)
      <4>1. CASE i = 0
        BY <2>3, <4>1
      <4>2. CASE i # 0
        <5>1. i \in 1..n /\ i - 1 \in 0..n
          BY <4>2
        <5>2. g[i] = UptoIs(at, vs, i) /\ g[i - 1] = UptoIs(at, vs, i - 1)
          BY <5>1
        <5> HIDE DEF g, More
        <5>3. QED
          BY <2>4, <4>2, <5>1, <5>2
      <4>3. QED
        BY <4>1, <4>2
    <3>2. Is(g)
      <4> HIDE DEF Def
      <4>1. QED
        BY <3>1
    <3> HIDE DEF g, Is
    <3>3. QED
      BY <3>2
  <2>6. Is(Loop)
    <3> HIDE DEF Is
    <3>1. QED
      BY <2>5
  <2> HIDE DEF Loop, More, Start
  <2>7. \A i \in 0..n : Loop[i] = Def(Loop, i)
    <3> HIDE DEF Def
    <3>1. QED
      BY <2>6
  <2>8. Loop[n] = UptoIs(at, vs, n)
    <3> DEFINE S == {i \in 0..n : Loop[i] = UptoIs(at, vs, i)}
    <3>1. 0 \in S
      BY <2>3, <2>7
    <3>2. ASSUME NEW i \in 1..n, i - 1 \in S PROVE i \in S
      <4>1. Loop[i] = More(Loop[i - 1], i - 1)
        BY <2>7
      <4>2. Loop[i - 1] = UptoIs(at, vs, i - 1)
        BY <3>2
      <4>3. QED
        BY <2>4, <4>1, <4>2
    <3>3. 0..n \subseteq S
      <4> HIDE DEF S
      <4>1. QED
        BY <3>1, <3>2, UpTo, Zenon
    <3>4. QED
      BY <3>3
  <2>9. UptoIs(at, vs, n).values = vs
    <3>1. SubSeq(vs, 1, Len(vs)) = vs
      BY <1>1, SubSeqFull
    <3>2. SubSeq(vs, 1, n + 1) = vs
      BY <2>1, <3>1
    <3>3. QED
      BY <3>2 DEF UptoIs
  <2>10. QED
    BY <2>2, <2>8, <2>9
<1>6. QED
  BY <1>4, <1>5

-----------------------------------------------------------------------------
(* The specification.                                                      *)

Singles(vs) == [i \in DOMAIN vs |-> <<vs[i]>>]

LEMMA SinglesFacts ==
    ASSUME NEW E, NEW vs \in Seq(E)
    PROVE  /\ Len(Singles(vs)) = Len(vs)
           /\ \A i \in 1..Len(vs) : Singles(vs)[i] = <<vs[i]>>
           /\ Singles(vs) \in Seq({<<v>> : v \in E})
<1>1. PICK n \in Nat : n = Len(vs) /\ DOMAIN vs = 1..n
  BY LenProperties
<1>2. PICK s : s = Singles(vs) /\ s = [i \in 1..n |-> <<vs[i]>>]
  BY <1>1 DEF Singles
<1>3. \A i \in 1..n : <<vs[i]>> \in {<<v>> : v \in E}
  BY <1>1, ElementOfSeq
<1>4. s \in Seq({<<v>> : v \in E}) /\ Len(s) = n
  BY <1>2, <1>3
<1>5. QED
  BY <1>1, <1>2, <1>4

LEMMA SinglesJoined ==
    ASSUME NEW E, NEW vs \in Seq(E), NEW us \in Seq(E)
    PROVE  Singles(vs) \o Singles(us) = Singles(vs \o us)
<1>1. PICK P : P = {<<v>> : v \in E}
  OBVIOUS
<1>2. PICK s \in Seq(P), t \in Seq(P) : /\ s = Singles(vs) /\ t = Singles(us)
                                        /\ Len(s) = Len(vs) /\ Len(t) = Len(us)
  BY <1>1, SinglesFacts
<1>3. /\ \A i \in 1..Len(vs) : s[i] = <<vs[i]>>
      /\ \A i \in 1..Len(us) : t[i] = <<us[i]>>
  BY <1>2, SinglesFacts
<1>4. PICK a \in Nat, b \in Nat : a = Len(vs) /\ b = Len(us)
  BY LenProperties
<1>5. PICK w \in Seq(E) : w = vs \o us /\ Len(w) = a + b
  BY <1>4, ConcatProperties
<1>6. /\ \A i \in 1..a : w[i] = vs[i]
      /\ \A i \in 1..b : w[a + i] = us[i]
  <2>1. /\ \A i \in 1..Len(vs) : (vs \o us)[i] = vs[i]
        /\ \A i \in 1..Len(us) : (vs \o us)[Len(vs) + i] = us[i]
    BY ConcatProperties
  <2>2. QED
    BY <1>4, <1>5, <2>1, Zenon
<1>7. PICK j \in Seq(P) : j = s \o t /\ Len(j) = a + b
  <2>1. s \o t \in Seq(P) /\ Len(s \o t) = Len(s) + Len(t)
    BY ConcatProperties
  <2>2. Len(s) = a /\ Len(t) = b
    BY <1>2, <1>4
  <2>3. QED
    BY <2>1, <2>2, Zenon
<1>8. /\ \A i \in 1..a : j[i] = s[i]
      /\ \A i \in 1..b : j[a + i] = t[i]
  <2>1. /\ \A i \in 1..Len(s) : (s \o t)[i] = s[i]
        /\ \A i \in 1..Len(t) : (s \o t)[Len(s) + i] = t[i]
    BY ConcatProperties
  <2>2. Len(s) = a /\ Len(t) = b
    BY <1>2, <1>4
  <2>3. QED
    BY <1>7, <2>1, <2>2, Zenon
<1>9. PICK z \in Seq(P) : /\ z = Singles(w) /\ Len(z) = a + b
                          /\ \A i \in 1..(a + b) : z[i] = <<w[i]>>
  <2>1. Singles(w) \in Seq(P)
    BY <1>1, <1>5, SinglesFacts
  <2>2. /\ Len(Singles(w)) = Len(w)
        /\ \A i \in 1..Len(w) : Singles(w)[i] = <<w[i]>>
    BY <1>5, SinglesFacts
  <2>3. QED
    BY <1>5, <2>1, <2>2, Zenon
<1>10. ASSUME NEW i \in 1..(a + b) PROVE j[i] = z[i]
  <2>1. CASE i <= a
    <3>1. i \in 1..a
      BY <2>1
    <3>2. j[i] = <<vs[i]>>
      BY <1>3, <1>4, <1>8, <3>1
    <3>3. w[i] = vs[i]
      BY <1>6, <3>1
    <3>4. QED
      BY <1>9, <3>2, <3>3
  <2>2. CASE i > a
    <3>1. PICK k \in 1..b : i = a + k
      <4>1. i - a \in 1..b /\ i = a + (i - a)
        BY <2>2
      <4>2. QED
        BY <4>1
    <3>2. j[i] = <<us[k]>>
      BY <1>3, <1>4, <1>8, <3>1
    <3>3. w[i] = us[k]
      BY <1>6, <3>1
    <3>4. QED
      BY <1>9, <3>2, <3>3
  <2>3. QED
    BY <2>1, <2>2
<1>11. j = z
  BY <1>7, <1>9, <1>10, SeqEqual
<1>12. QED
  BY <1>2, <1>5, <1>7, <1>9, <1>11

LEMMA DeltaWords ==
    ASSUME NEW type \in DeltaTypes
    PROVE  /\ WordBits(type) \in WordSizes /\ WordBits(type) \in Nat
           /\ BufferBits <= WordBits(type) /\ BlockValues < Pow2(BufferBits)
           /\ Inputs[type] \subseteq {<<v>> : v \in Words(WordBits(type))}
           /\ MaxValues[type] \in Words(WordBits(type))
<1>1. PICK n \in Nat : BufferBits = ByteBits * n /\ n >= 1
  BY CodingAssumption, DeltaConstants
<1>2. PICK b \in Nat, u \in Nat : /\ b = ByteBits /\ u = BufferBits
                                  /\ u = b * n /\ u >= 1
  BY <1>1, DeltaConstants
<1>3. n + n \in Nat \ {0} /\ n \in Nat \ {0} /\ b * (n + n) = u + u
  BY <1>1, <1>2
<1>4. u \in WordSizes /\ 2 * u \in WordSizes
  BY <1>2, <1>3 DEF WordSizes
<1>5. WordBits(type) = u \/ WordBits(type) = 2 * u
  BY <1>2 DEF WordBits
<1>6. /\ WordBits(type) \in WordSizes /\ WordBits(type) \in Nat
      /\ BufferBits <= WordBits(type)
  BY <1>2, <1>4, <1>5
<1>7. QED
  BY <1>6, CodingAssumption DEF Words

(* What the encoder of the column holds, and how the page was written.     *)
Holds(e, values, type) ==
    \E vs : /\ Encodes(WordBits(type), e, vs) /\ values = Singles(vs)
            /\ Len(vs) <= MaxValues[type]

PagesRight == WithinMaxEncodedSize /\ EncodedRight

CodingInv ==
    /\ Kind = "delta" => column.type \in DeltaTypes
                         /\ Holds(encoder, put, column.type)
    /\ PagesRight

LEMMA HoldsNothing ==
    ASSUME NEW type \in DeltaTypes
    PROVE  Holds(NewDeltaEncoder(WordBits(type)), <<>>, type)
<1>1. PICK bits : bits = WordBits(type) /\ bits \in WordSizes
  BY DeltaWords
<1>2. Encodes(bits, NewDeltaEncoder(bits), <<>>)
  BY <1>1, NewEncodes
<1>3. <<>> = Singles(<<>>)
  <2>1. PICK E : E = Words(bits)
    OBVIOUS
  <2>2. <<>> \in Seq(E) /\ Len(<<>>) = 0
    BY EmptySeq
  <2>3. Len(Singles(<<>>)) = 0 /\ Singles(<<>>) \in Seq({<<v>> : v \in E})
    BY <2>2, SinglesFacts
  <2>4. QED
    BY <2>3, EmptySeq
<1>4. Len(<<>>) <= MaxValues[type]
  <2>1. MaxValues[type] \in Nat
    BY <1>1, DeltaWords, WordType
  <2>2. Len(<<>>) = 0
    BY EmptySeq
  <2>3. QED
    BY <2>1, <2>2
<1>5. QED
  BY <1>1, <1>2, <1>3, <1>4 DEF Holds

LEMMA HoldsBatch ==
    ASSUME NEW type \in DeltaTypes, NEW e, NEW values, Holds(e, values, type),
           NEW n \in Nat, NEW data \in [1..n -> Inputs[type]],
           Len(values) + Len(data) <= MaxValues[type]
    PROVE  Holds(PutDeltas(e, data), values \o data, type)
<1>1. PICK bits, W : /\ bits = WordBits(type) /\ bits \in WordSizes
                     /\ W = Words(bits) /\ Inputs[type] \subseteq {<<v>> : v \in W}
  BY DeltaWords
<1>2. PICK vs : /\ Encodes(bits, e, vs) /\ values = Singles(vs)
                /\ Len(vs) <= MaxValues[type]
  BY <1>1 DEF Holds
<1>3. vs \in Seq(W)
  BY <1>1, <1>2 DEF Encodes, HeldBy
<1>4. ASSUME NEW i \in 1..n PROVE data[i][1] \in W /\ data[i] = <<data[i][1]>>
  <2>1. data[i] \in {<<v>> : v \in W}
    BY <1>1
  <2>2. PICK v \in W : data[i] = <<v>>
    BY <2>1
  <2>3. QED
    BY <2>2
<1>5. PICK us \in Seq(W) : /\ us = [i \in 1..n |-> data[i][1]] /\ Len(us) = n
                           /\ DOMAIN us = 1..n
  <2>1. [i \in 1..n |-> data[i][1]] \in Seq(W)
    BY <1>4
  <2>2. QED
    BY <2>1
<1>6. \A i \in 1..n : us[i] = data[i][1]
  BY <1>5
<1>7. data = Singles(us)
  <2>1. Singles(us) = [i \in 1..n |-> <<us[i]>>]
    BY <1>5 DEF Singles
  <2>2. data = [i \in 1..n |-> data[i]]
    OBVIOUS
  <2>3. \A i \in 1..n : <<us[i]>> = data[i]
    BY <1>4, <1>6
  <2>4. QED
    BY <2>1, <2>2, <2>3
<1>8. Len(data) = n /\ Len(data) = Len(us)
  BY <1>5, <1>7, SinglesFacts
<1>9. Encodes(bits, PutDeltas(e, data), vs \o us)
  <2>1. \A k \in 1..Len(us) : data[k][1] = us[k]
    BY <1>5, <1>6
  <2>2. us \in Seq(Words(bits)) /\ Len(data) = Len(us)
    BY <1>1, <1>8
  <2>3. QED
    BY <1>1, <1>2, <2>1, <2>2, PutsEncode
<1>10. values \o data = Singles(vs \o us)
  BY <1>2, <1>3, <1>7, SinglesJoined
<1>11. Len(vs \o us) <= MaxValues[type]
  <2>1. Len(vs \o us) = Len(vs) + Len(us)
    BY <1>3, ConcatProperties
  <2>2. Len(values) = Len(vs)
    BY <1>2, <1>3, SinglesFacts
  <2>3. QED
    BY <1>8, <2>1, <2>2
<1>12. QED
  BY <1>1, <1>9, <1>10, <1>11 DEF Holds

LEMMA HeldPage ==
    ASSUME NEW type \in DeltaTypes, NEW e, NEW values, Holds(e, values, type),
           NEW unset \in Nat
    PROVE  /\ e.bits = WordBits(type)
           /\ DeltaPage(e, unset).bytes <= MaxDeltaBytes(e)
           /\ values = Singles(DeltaStandsFor(WordBits(type),
                                              DeltaPage(e, unset).numbers))
<1>1. PICK bits : /\ bits = WordBits(type) /\ bits \in WordSizes /\ bits \in Nat
                  /\ BufferBits <= bits /\ BlockValues < Pow2(BufferBits)
                  /\ MaxValues[type] \in Words(bits)
  BY DeltaWords
<1>2. PICK vs : /\ Encodes(bits, e, vs) /\ values = Singles(vs)
                /\ Len(vs) <= MaxValues[type]
  BY <1>1 DEF Holds
<1>3. e \in DeltaEncoders(bits) /\ vs \in Seq(Words(bits))
  BY <1>2 DEF Encodes, HeldBy
<1>4. Len(vs) \in Words(bits)
  <2>1. PICK l \in Nat, w \in Nat, most \in Nat :
          /\ l = Len(vs) /\ w = Pow2(bits) /\ most = MaxValues[type]
          /\ l <= most /\ most \in 0..(w - 1)
    <3>1. Len(vs) \in Nat
      BY <1>3, LenProperties
    <3>2. Pow2(bits) \in Nat
      BY <1>1, Pow2Facts
    <3>3. MaxValues[type] \in 0..(Pow2(bits) - 1)
      BY <1>1 DEF Words
    <3>4. QED
      BY <1>2, <3>1, <3>2, <3>3
  <2>2. l \in 0..(w - 1)
    BY <2>1
  <2>3. QED
    BY <2>1, <2>2 DEF Words
<1>5. IsDeltaPage(bits, DeltaPage(e, unset), vs, MaxDeltaBytes(e))
  BY <1>1, <1>2, <1>4, PageRight
<1>6. PICK p : p = DeltaPage(e, unset)
  OBVIOUS
<1>7. StandFor(bits, p.numbers, vs) /\ p.bytes <= MaxDeltaBytes(e)
  BY <1>5, <1>6 DEF IsDeltaPage
<1>8. DeltaStandsFor(bits, p.numbers) = vs
  BY <1>1, <1>7, Decoded
<1>9. e.bits = bits
  BY <1>3, EncoderFieldTypes
<1>10. QED
  BY <1>1, <1>2, <1>6, <1>7, <1>8, <1>9

LEMMA InitCoding == Init => CodingInv
<1> SUFFICES ASSUME Init PROVE CodingInv
  OBVIOUS
<1>1. PagesRight
  BY DEF Init, NoPage, PagesRight, WithinMaxEncodedSize, EncodedRight
<1>2. ASSUME Kind = "delta"
      PROVE  column.type \in DeltaTypes /\ Holds(encoder, put, column.type)
  <2>1. column.type \in DeltaTypes
    BY <1>2 DEF Kind, EncoderFor
  <2>2. encoder = NewDeltaEncoder(WordBits(column.type)) /\ put = <<>>
    BY <1>2 DEF Init, NewEncoder, Kind
  <2>3. QED
    BY <2>1, <2>2, HoldsNothing
<1>3. QED
  BY <1>1, <1>2 DEF CodingInv

LEMMA CodingPutBatch ==
    ASSUME CodingInv, NEW n \in 1..MaxPut,
           NEW data \in [1..n -> Inputs[column.type]], PutBatch(data)
    PROVE  CodingInv'
<1>1. page' = page /\ column' = column /\ put' = put \o data
  BY DEF PutBatch
<1>2. PagesRight'
  BY <1>1 DEF CodingInv, PagesRight, WithinMaxEncodedSize, EncodedRight
<1>3. ASSUME Kind = "delta"
      PROVE  column.type \in DeltaTypes /\ Holds(encoder', put', column.type)
  <2>1. column.type \in DeltaTypes /\ Holds(encoder, put, column.type)
    BY <1>3 DEF CodingInv
  <2>2. encoder' = PutDeltas(encoder, data)
    BY <1>3 DEF PutBatch
  <2>3. n \in Nat /\ Len(put) + Len(data) <= MaxValues[column.type]
    BY CodingAssumption DEF PutBatch
  <2>4. QED
    BY <1>1, <2>1, <2>2, <2>3, HoldsBatch
<1>4. Kind' = Kind
  BY <1>1 DEF Kind
<1>5. QED
  BY <1>1, <1>2, <1>3, <1>4 DEF CodingInv

LEMMA CodingFlushPage ==
    ASSUME CodingInv, FlushPage
    PROVE  CodingInv'
<1>1. PICK unset \in Unset : \E stream \in StreamsOf(encoder) :
         page' = [Written(unset, stream) EXCEPT
                    !.type = column.type, !.own = TRUE, !.content = put]
  BY DEF FlushPage, Open
<1>2. /\ column' = column /\ put' = <<>> /\ Kind' = Kind /\ unset \in Nat
      /\ encoder' = IF Kind = "delta" THEN FlushedDelta(encoder)
                                      ELSE Flushed(encoder)
  BY CodingAssumption DEF FlushPage, Kind
<1>3. CASE Kind = "delta"
  <2>1. column.type \in DeltaTypes /\ Holds(encoder, put, column.type)
    BY <1>3 DEF CodingInv
  <2>2. PICK bits, p : bits = WordBits(column.type) /\ p = DeltaPage(encoder, unset)
    OBVIOUS
  <2>3. /\ encoder.bits = bits /\ p.bytes <= MaxDeltaBytes(encoder)
        /\ put = Singles(DeltaStandsFor(bits, p.numbers))
    BY <1>2, <2>1, <2>2, HeldPage
  <2>4. /\ page'.type = column.type /\ page'.content = put
        /\ page'.numbers = p.numbers /\ page'.bytes = p.bytes
        /\ page'.reserved = MaxDeltaBytes(encoder)
    BY <1>1, <1>3, <2>2 DEF Written, NoPage
  <2>5. PagesRight'
    <3>1. WithinMaxEncodedSize'
      BY <2>3, <2>4 DEF WithinMaxEncodedSize
    <3>2. PICK values : /\ values = DeltaStandsFor(bits, p.numbers)
                        /\ put = [i \in DOMAIN values |-> <<values[i]>>]
      BY <2>3 DEF Singles
    <3>3. DeltaStandsFor(WordBits(page'.type), page'.numbers) = values
      BY <2>2, <2>4, <3>2
    <3>4. EncodedRight'
      BY <2>4, <3>2, <3>3, Zenon DEF EncodedRight
    <3>5. QED
      BY <3>1, <3>4 DEF PagesRight
  <2>6. encoder' = NewDeltaEncoder(bits)
    BY <1>2, <1>3, <2>3 DEF FlushedDelta
  <2>7. Holds(encoder', put', column.type)
    BY <1>2, <2>1, <2>2, <2>6, HoldsNothing
  <2>8. QED
    BY <1>2, <2>1, <2>5, <2>7 DEF CodingInv
<1>4. CASE Kind # "delta"
  <2>1. /\ page'.encoding \in {"RLE_DICTIONARY", "PLAIN"}
        /\ page'.bytes = 0 /\ page'.reserved = 0
    BY <1>1, <1>4 DEF Written, NoPage
  <2>2. page'.encoding # "DELTA_BINARY_PACKED"
    BY <2>1
  <2>3. PagesRight'
    BY <2>1, <2>2 DEF PagesRight, WithinMaxEncodedSize, EncodedRight
  <2>4. QED
    BY <1>2, <1>4, <2>3 DEF CodingInv
<1>5. QED
  BY <1>3, <1>4

(* A page of another program is none of this library's.                    *)
LEMMA CodingNext ==
    ASSUME CodingInv, [Next]_vars
    PROVE  CodingInv'
<1>1. ASSUME NEW n \in 1..MaxPut,
             NEW data \in [1..n -> Inputs[column.type]], PutBatch(data)
      PROVE  CodingInv'
  BY <1>1, CodingPutBatch
<1>2. CASE FlushPage
  BY <1>2, CodingFlushPage
<1>3. ASSUME UNCHANGED <<column, encoder, put>>, ~page'.own \/ page' = page
      PROVE  CodingInv'
  <2>1. Kind' = Kind
    BY <1>3 DEF Kind
  <2>2. PagesRight'
    BY <1>3 DEF CodingInv, PagesRight, WithinMaxEncodedSize, EncodedRight
  <2>3. QED
    BY <1>3, <2>1, <2>2 DEF CodingInv
<1>4. CASE ForeignPage
  <2>1. UNCHANGED <<column, encoder, put>> /\ page' \in Foreign
    BY <1>4 DEF ForeignPage, Open
  <2>2. ~page'.own
    BY <2>1, ForeignAssumption
  <2>3. QED
    BY <1>3, <2>1, <2>2
<1>5. ASSUME NEW n \in 1..MaxBatch, Read(n) PROVE CodingInv'
  BY <1>3, <1>5 DEF Read
<1>6. CASE ClosePage
  BY <1>3, <1>6 DEF ClosePage, NoPage
<1>7. CASE UNCHANGED vars
  BY <1>3, <1>7 DEF vars
<1>8. QED
  BY <1>1, <1>2, <1>4, <1>5, <1>6, <1>7 DEF Next

(* Whatever is put and flushed, and whatever is read in between, the       *)
(* encoder of a column of deltas holds the values put since the last page. *)
THEOREM CodingInvariance == Spec => []CodingInv
<1>1. CodingInv /\ [Next]_vars => CodingInv'
  BY CodingNext
<1>2. QED
  BY InitCoding, <1>1, PTL DEF Spec

(* A page of this library's is no longer than what max_encoded_size() kept *)
(* for it, for every width of a word and size of a block: the smallest     *)
(* delta of each block, the bit widths and the header are counted.         *)
THEOREM WithinMaxEncodedSizeHolds == Spec => []WithinMaxEncodedSize
<1>1. CodingInv => WithinMaxEncodedSize
  BY DEF CodingInv, PagesRight
<1>2. QED
  BY CodingInvariance, <1>1, PTL

(* The numbers of a delta page stand for the values that were put into it, *)
(* in batches of any size, whatever was in memory behind the last of them. *)
THEOREM EncodedRightHolds == Spec => []EncodedRight
<1>1. CodingInv => EncodedRight
  BY DEF CodingInv, PagesRight
<1>2. QED
  BY CodingInvariance, <1>1, PTL

(* A loop over the numbers up to n, as a function on them.                 *)
Runs(n, X, base, step) ==
    \E g \in [0..n -> X] :
        g[0] = base /\ \A k \in 1..n : g[k] = step[k][g[k - 1]]

LEMMA LoopRuns ==
    ASSUME NEW n \in Nat, NEW X, NEW base \in X,
           NEW step \in [1..n -> [X -> X]]
    PROVE  Runs(n, X, base, step)
<1>1. PICK f : /\ f[0] = base
               /\ \A k \in 1..n : f[k] = step[k][f[k - 1]]
               /\ \A k \in 0..n : f[k] \in X
  BY LoopExists
<1>2. PICK g : g = [k \in 0..n |-> f[k]]
  OBVIOUS
<1>3. g \in [0..n -> X] /\ 0 \in 0..n /\ \A k \in 1..n : k \in 0..n /\ k - 1 \in 0..n
  BY <1>1, <1>2
<1>4. g[0] = base /\ \A k \in 1..n : g[k] = step[k][g[k - 1]]
  BY <1>1, <1>2, <1>3
<1>5. QED
  BY <1>3, <1>4 DEF Runs

(* A batch of the decoders that copy one value at a time.                  *)
Batches(D) == [decoder : D, values : Seq(Seq(Nat)), threw : BOOLEAN]

TimesIs(D, d, n, f) ==
    /\ f \in [0..n -> Batches(D)] /\ f[0] = Batch(d, <<>>)
    /\ \A k \in 1..n : f[k] = Take(f[k - 1])
    /\ Times(d, n) = f[n]

LEMMA TimesRuns ==
    ASSUME NEW D, NEW d \in D, NEW n \in Nat,
           \A batch \in Batches(D) : Take(batch) \in Batches(D)
    PROVE  \E f : TimesIs(D, d, n, f)
<1>1. PICK X, base : X = Batches(D) /\ base = Batch(d, <<>>)
  OBVIOUS
<1>2. base \in X
  <2>1. <<>> \in Seq(Seq(Nat))
    OBVIOUS
  <2>2. QED
    BY <1>1, <2>1 DEF Batch, Batches
<1> DEFINE Def(f, k) == IF k = 0 THEN base ELSE Take(f[k - 1])
           Upto(f) == f = [k \in 0..n |-> Def(f, k)]
           Loop == CHOOSE f : Upto(f)
<1>3. Times(d, n) = Loop[n]
  BY <1>1, Zenon DEF Times
<1>4. PICK step : step = [k \in 1..n |-> [x \in X |-> Take(x)]]
  OBVIOUS
<1>5. step \in [1..n -> [X -> X]]
  BY <1>1, <1>4
<1>6. PICK g \in [0..n -> X] :
        g[0] = base /\ \A k \in 1..n : g[k] = step[k][g[k - 1]]
  <2>1. Runs(n, X, base, step)
    BY <1>2, <1>5, LoopRuns
  <2>2. QED
    BY <2>1, Zenon DEF Runs
<1>7. ASSUME NEW k \in 1..n PROVE g[k] = Take(g[k - 1])
  <2>1. k - 1 \in 0..n
    OBVIOUS
  <2>2. g[k - 1] \in X
    BY <1>6, <2>1
  <2>3. QED
    BY <1>4, <1>6, <2>2
<1>8. Upto(g)
  <2>1. ASSUME NEW k \in 0..n PROVE g[k] = Def(g, k)
    <3>1. k # 0 => k \in 1..n
      OBVIOUS
    <3>2. QED
      BY <1>6, <1>7, <3>1
  <2> HIDE DEF Def
  <2>2. QED
    BY <1>6, <2>1
<1>9. Upto(Loop)
  <2> HIDE DEF Upto
  <2>1. QED
    BY <1>8
<1> HIDE DEF Loop
<1>10. \A k \in 0..n : Loop[k] = Def(Loop, k)
  <2> HIDE DEF Def
  <2>1. QED
    BY <1>9
<1>11. Loop[0] = base /\ \A k \in 1..n : Loop[k] = Take(Loop[k - 1])
  <2>1. 0 \in 0..n /\ \A k \in 1..n : k \in 0..n /\ k # 0
    OBVIOUS
  <2>2. QED
    BY <1>10, <2>1
<1>12. Loop[n] = g[n]
  <2> DEFINE S == {k \in 0..n : Loop[k] = g[k]}
  <2>1. 0 \in S
    BY <1>6, <1>11
  <2>2. \A k \in 1..n : k - 1 \in S => k \in S
    BY <1>7, <1>11
  <2>3. 0..n \subseteq S
    <3> HIDE DEF S
    <3>1. QED
      BY <2>1, <2>2, UpTo, Zenon
  <2>4. QED
    BY <2>3
<1>13. QED
  BY <1>1, <1>3, <1>6, <1>7, <1>12 DEF TimesIs

-----------------------------------------------------------------------------
(* What is ahead in a sequence, and what one has the beginning of.         *)

LEMMA ConcatFacts ==
    ASSUME NEW E, NEW s \in Seq(E), NEW t \in Seq(E)
    PROVE  /\ s \o t \in Seq(E) /\ Len(s \o t) = Len(s) + Len(t)
           /\ Len(s) \in Nat /\ Len(t) \in Nat
           /\ \A i \in 1..Len(s) : (s \o t)[i] = s[i]
           /\ \A i \in 1..Len(t) : (s \o t)[Len(s) + i] = t[i]
<1>1. /\ s \o t \in Seq(E) /\ Len(s \o t) = Len(s) + Len(t)
      /\ Len(s) \in Nat /\ Len(t) \in Nat
  BY ConcatProperties, LenProperties
<1>2. \A i \in 1..Len(s) : (s \o t)[i] = s[i]
  BY <1>1, ConcatProperties
<1>3. \A i \in 1..Len(t) : (s \o t)[Len(s) + i] = t[i]
  BY <1>1, ConcatProperties
<1>4. QED
  BY <1>1, <1>2, <1>3

LEMMA SkipFacts ==
    ASSUME NEW E, NEW s \in Seq(E), NEW n \in 0..Len(s)
    PROVE  /\ Skipped(s, n) \in Seq(E) /\ Len(Skipped(s, n)) = Len(s) - n
           /\ Len(s) \in Nat
           /\ \A i \in 1..(Len(s) - n) : Skipped(s, n)[i] = s[n + i]
<1>1. PICK l \in Nat : l = Len(s)
  BY LenProperties
<1>2. n + 1 \in 1..(l + 1) /\ n \in Nat /\ l - n \in Nat
  BY <1>1
<1>3. \A i \in (n + 1)..l : s[i] \in E
  BY <1>1, <1>2, ElementOfSeq
<1>4. PICK a \in Nat : a = n + 1
  BY <1>2
<1>5. PICK t : a = n + 1 /\ t = SubSeq(s, a, l)
  BY <1>4
<1>6. IF a <= l + 1 THEN Len(t) = l - a + 1 ELSE Len(t) = 0
  BY <1>1, <1>3, <1>5, SubSeqProperties
<1>7. t \in Seq(E) /\ \A i \in 1..(l - a + 1) : t[i] = s[a + i - 1]
  BY <1>1, <1>2, <1>3, <1>5, SubSeqProperties
<1>8. t = Skipped(s, n)
  BY <1>1, <1>5 DEF Skipped
<1>9. Len(t) = l - n
  BY <1>2, <1>5, <1>6
<1>10. \A i \in 1..(l - n) : t[i] = s[n + i]
  <2>1. ASSUME NEW i \in 1..(l - n) PROVE t[i] = s[n + i]
    <3>1. i \in 1..(l - a + 1) /\ a + i - 1 = n + i
      BY <1>2, <1>5
    <3>2. QED
      BY <1>7, <3>1
  <2>2. QED
    BY <2>1
<1>11. QED
  BY <1>1, <1>7, <1>8, <1>9, <1>10

(* The front of a sequence.                                                *)
LEMMA FrontFacts ==
    ASSUME NEW E, NEW s \in Seq(E), NEW n \in 0..Len(s)
    PROVE  /\ SubSeq(s, 1, n) \in Seq(E) /\ Len(SubSeq(s, 1, n)) = n
           /\ \A i \in 1..n : SubSeq(s, 1, n)[i] = s[i]
<1>1. PICK l \in Nat : l = Len(s)
  BY LenProperties
<1>2. n \in 0..l /\ n \in Nat /\ 1 \in 1..(l + 1)
  BY <1>1
<1>3. \A i \in 1..n : s[i] \in E
  BY <1>1, <1>2, ElementOfSeq
<1>4. PICK t : t = SubSeq(s, 1, n)
  OBVIOUS
<1>5. /\ t \in Seq(E) /\ (IF 1 <= n + 1 THEN Len(t) = n - 1 + 1 ELSE Len(t) = 0)
      /\ \A i \in 1..(n - 1 + 1) : t[i] = s[1 + i - 1]
  BY <1>1, <1>2, <1>3, <1>4, SubSeqProperties
<1>6. Len(t) = n /\ \A i \in 1..n : t[i] = s[i]
  BY <1>2, <1>5
<1>7. QED
  BY <1>4, <1>5, <1>6

LEMMA SkipNone ==
    ASSUME NEW E, NEW s \in Seq(E)
    PROVE  Skipped(s, 0) = s /\ Skipped(s, Len(s)) = <<>>
<1>1. PICK l \in Nat : l = Len(s)
  BY LenProperties
<1>2. Skipped(s, 0) = s
  BY <1>1, SubSeqFull DEF Skipped
<1>3. l \in 0..Len(s)
  BY <1>1
<1>4. Skipped(s, l) \in Seq(E) /\ Len(Skipped(s, l)) = l - l
  BY <1>1, <1>3, SkipFacts
<1>5. Len(Skipped(s, l)) = 0
  BY <1>4
<1>6. Skipped(s, l) = <<>>
  BY <1>4, <1>5, EmptySeq
<1>7. QED
  BY <1>1, <1>2, <1>6

LEMMA SkipSkip ==
    ASSUME NEW E, NEW s \in Seq(E), NEW a \in Nat, NEW b \in Nat,
           a + b <= Len(s)
    PROVE  Skipped(Skipped(s, a), b) = Skipped(s, a + b)
<1>1. PICK l \in Nat : l = Len(s)
  BY LenProperties
<1>2. a \in 0..l /\ a + b \in 0..l /\ l - a \in Nat /\ b \in 0..(l - a)
  BY <1>1
<1>3. PICK t : t = Skipped(s, a)
  OBVIOUS
<1>4. t \in Seq(E) /\ Len(t) = l - a /\ \A i \in 1..(l - a) : t[i] = s[a + i]
  BY <1>1, <1>2, <1>3, SkipFacts
<1>5. PICK u : u = Skipped(t, b)
  OBVIOUS
<1>6. /\ u \in Seq(E) /\ Len(u) = (l - a) - b
      /\ \A i \in 1..((l - a) - b) : u[i] = t[b + i]
  <2>1. b \in 0..Len(t)
    BY <1>2, <1>4
  <2>2. /\ u \in Seq(E) /\ Len(u) = Len(t) - b
        /\ \A i \in 1..(Len(t) - b) : u[i] = t[b + i]
    BY <1>4, <1>5, <2>1, SkipFacts, ZenonT(30)
  <2>3. QED
    BY <1>4, <2>2
<1>7. PICK w, c : w = Skipped(s, c) /\ c = a + b /\ c \in Nat
  OBVIOUS
<1>8. /\ w \in Seq(E) /\ Len(w) = l - c
      /\ \A i \in 1..(l - c) : w[i] = s[c + i]
  BY <1>1, <1>2, <1>7, SkipFacts
<1>9. Len(u) = Len(w) /\ \A i \in 1..Len(u) : u[i] = w[i]
  <2>1. Len(u) = l - c /\ Len(w) = l - c
    BY <1>2, <1>6, <1>7, <1>8
  <2>2. ASSUME NEW i \in 1..(l - c) PROVE u[i] = w[i]
    <3>1. /\ i \in 1..((l - a) - b) /\ b + i \in 1..(l - a)
          /\ a + (b + i) = c + i
      BY <1>2, <1>7
    <3>2. u[i] = t[b + i] /\ t[b + i] = s[a + (b + i)] /\ w[i] = s[c + i]
      BY <1>4, <1>6, <1>8, <2>2, <3>1
    <3>3. QED
      BY <3>1, <3>2
  <2>3. QED
    BY <2>1, <2>2
<1>10. u = w
  BY <1>6, <1>8, <1>9, SeqEqual
<1>11. QED
  BY <1>3, <1>5, <1>7, <1>10

(* One value and those behind it.                                          *)
LEMMA SkipOne ==
    ASSUME NEW E, NEW s \in Seq(E), NEW k \in 0..(Len(s) - 1)
    PROVE  /\ Skipped(s, k) = <<s[k + 1]>> \o Skipped(s, k + 1)
           /\ s[k + 1] \in E
<1>1. PICK l \in Nat : l = Len(s)
  BY LenProperties
<1>2. /\ k \in 0..l /\ k + 1 \in 0..l /\ k + 1 \in 1..l /\ k \in Nat
      /\ l - k \in Nat /\ l - k >= 1 /\ l - (k + 1) = (l - k) - 1
  BY <1>1
<1>3. s[k + 1] \in E
  BY <1>1, <1>2, ElementOfSeq
<1>4. PICK t, u, h : /\ t = Skipped(s, k) /\ u = Skipped(s, k + 1)
                     /\ h = <<s[k + 1]>>
  OBVIOUS
<1>5. /\ t \in Seq(E) /\ Len(t) = l - k
      /\ \A i \in 1..(l - k) : t[i] = s[k + i]
  BY <1>1, <1>2, <1>4, SkipFacts
<1>6. /\ u \in Seq(E) /\ Len(u) = l - (k + 1)
      /\ \A i \in 1..(l - (k + 1)) : u[i] = s[(k + 1) + i]
  BY <1>1, <1>2, <1>4, SkipFacts
<1>7. h \in Seq(E) /\ Len(h) = 1 /\ h[1] = s[k + 1]
  BY <1>3, <1>4
<1>8. /\ h \o u \in Seq(E) /\ Len(h \o u) = Len(h) + Len(u)
      /\ \A i \in 1..Len(h) : (h \o u)[i] = h[i]
      /\ \A i \in 1..Len(u) : (h \o u)[Len(h) + i] = u[i]
  <2>1. h \in Seq(E) /\ u \in Seq(E)
    BY <1>6, <1>7
  <2>2. QED
    BY <2>1, ConcatFacts
<1>9. Len(h \o u) = Len(t)
  BY <1>2, <1>5, <1>6, <1>7, <1>8
<1>10. ASSUME NEW i \in 1..(l - k) PROVE t[i] = (h \o u)[i]
  <2>1. CASE i = 1
    BY <1>2, <1>5, <1>7, <1>8, <2>1
  <2>2. CASE i # 1
    <3>1. PICK j \in Nat : j = i - 1
      BY <2>2
    <3>2. j \in 1..(l - (k + 1)) /\ i = 1 + j /\ (k + 1) + j = k + i
      BY <1>2, <2>2, <3>1
    <3>3. (h \o u)[1 + j] = u[j] /\ u[j] = s[(k + 1) + j] /\ t[i] = s[k + i]
      BY <1>5, <1>6, <1>7, <1>8, <3>2
    <3>4. QED
      BY <3>2, <3>3
  <2>3. QED
    BY <2>1, <2>2
<1>11. t = h \o u
  <2>1. \A i \in 1..Len(t) : t[i] = (h \o u)[i]
    BY <1>5, <1>10
  <2>2. QED
    BY <1>5, <1>8, <1>9, <2>1, SeqEqual
<1>12. QED
  BY <1>3, <1>4, <1>11

LEMMA FlattenOne ==
    ASSUME NEW E, NEW s \in Seq(E)
    PROVE  FlattenSeq(<<s>>) = s
<1>1. <<>> \in Seq(Seq(E)) /\ Append(<<>>, s) = <<s>>
  OBVIOUS
<1>2. FlattenSeq(Append(<<>>, s)) = FlattenSeq(<<>>) \o s
  BY <1>1, FlattenAppend
<1>3. <<>> \o s = s
  BY ConcatEmptySeq
<1>4. QED
  BY <1>1, <1>2, <1>3, FlattenNone

LEMMA FlattenSkip ==
    ASSUME NEW E, NEW ss \in Seq(Seq(E)), NEW k \in 0..(Len(ss) - 1)
    PROVE  /\ FlattenSeq(Skipped(ss, k)) =
                 ss[k + 1] \o FlattenSeq(Skipped(ss, k + 1))
           /\ ss[k + 1] \in Seq(E)
           /\ FlattenSeq(Skipped(ss, k + 1)) \in Seq(E)
<1>1. PICK T : T = Seq(E)
  OBVIOUS
<1>2. Skipped(ss, k) = <<ss[k + 1]>> \o Skipped(ss, k + 1) /\ ss[k + 1] \in T
  BY <1>1, SkipOne
<1>3. Skipped(ss, k + 1) \in Seq(T)
  <2>1. k + 1 \in 0..Len(ss)
    BY LenProperties
  <2>2. QED
    BY <1>1, <2>1, SkipFacts
<1>4. <<ss[k + 1]>> \in Seq(Seq(E)) /\ Skipped(ss, k + 1) \in Seq(Seq(E))
  BY <1>1, <1>2, <1>3
<1>5. FlattenSeq(<<ss[k + 1]>> \o Skipped(ss, k + 1)) =
         FlattenSeq(<<ss[k + 1]>>) \o FlattenSeq(Skipped(ss, k + 1))
  BY <1>4, FlattenConcat
<1>6. FlattenSeq(<<ss[k + 1]>>) = ss[k + 1]
  BY <1>1, <1>2, FlattenOne
<1>7. FlattenSeq(Skipped(ss, k + 1)) \in Seq(E)
  BY <1>4, FlattenType
<1>8. QED
  BY <1>1, <1>2, <1>5, <1>6, <1>7

-----------------------------------------------------------------------------
(* The numbers r of a page have the beginning of all, or all of it.        *)
Part(whole, r, all) == IsPrefixOf(r, all) /\ (whole => r = all)

PartIs(whole, r, all) ==
    /\ Len(r) <= Len(all) /\ \A i \in 1..Len(r) : r[i] = all[i]
    /\ whole => Len(r) = Len(all)

LEMMA PartMeans ==
    ASSUME NEW E, NEW r \in Seq(E), NEW all \in Seq(E), NEW whole
    PROVE  Part(whole, r, all) <=> PartIs(whole, r, all)
<1>1. PICK n \in Nat, l \in Nat : n = Len(r) /\ l = Len(all)
  BY LenProperties
<1>2. ASSUME Part(whole, r, all) PROVE PartIs(whole, r, all)
  <2>1. n <= l /\ r = SubSeq(all, 1, n) /\ (whole => n = l)
    BY <1>1, <1>2 DEF Part, IsPrefixOf
  <2>2. n \in 0..Len(all)
    BY <1>1, <2>1
  <2>3. \A i \in 1..n : SubSeq(all, 1, n)[i] = all[i]
    BY <2>2, FrontFacts
  <2>4. \A i \in 1..n : r[i] = all[i]
    BY <2>1, <2>3
  <2>5. QED
    BY <1>1, <2>1, <2>4 DEF PartIs
<1>3. ASSUME PartIs(whole, r, all) PROVE Part(whole, r, all)
  <2>1. n <= l /\ (\A i \in 1..n : r[i] = all[i]) /\ (whole => n = l)
    BY <1>1, <1>3 DEF PartIs
  <2>2. n \in 0..Len(all)
    BY <1>1, <2>1
  <2>3. PICK t : t = SubSeq(all, 1, n)
    OBVIOUS
  <2>4. t \in Seq(E) /\ Len(t) = n /\ \A i \in 1..n : t[i] = all[i]
    BY <2>2, <2>3, FrontFacts
  <2>5. Len(r) = Len(t) /\ \A i \in 1..Len(r) : r[i] = t[i]
    BY <1>1, <2>1, <2>4
  <2>6. r = t
    BY <2>4, <2>5, SeqEqual
  <2>7. ASSUME whole PROVE r = all
    <3>1. Len(r) = Len(all) /\ \A i \in 1..Len(r) : r[i] = all[i]
      BY <1>1, <2>1, <2>7
    <3>2. QED
      BY <3>1, SeqEqual
  <2>8. QED
    BY <1>1, <2>1, <2>3, <2>6, <2>7 DEF Part, IsPrefixOf
<1>4. QED
  BY <1>2, <1>3

(* What is taken of it, when it is long enough.                            *)
TakesPart(whole, r, c, m) ==
    IF Len(r) >= Len(c)
    THEN SubSeq(r, 1, Len(c)) = c /\ Part(whole, Skipped(r, Len(c)), m)
         /\ Skipped(r, Len(c)) \in Seq(Nat)
    ELSE ~whole

LEMMA PartTaken ==
    ASSUME NEW r \in Seq(Nat), NEW c \in Seq(Nat), NEW m \in Seq(Nat),
           NEW whole, Part(whole, r, c \o m)
    PROVE  TakesPart(whole, r, c, m)
<1>1. PICK n \in Nat, k \in Nat, l \in Nat :
        n = Len(r) /\ k = Len(c) /\ l = Len(m)
  BY LenProperties
<1>2. PICK all : all = c \o m
  OBVIOUS
<1>3. /\ all \in Seq(Nat) /\ Len(all) = k + l
      /\ \A i \in 1..k : all[i] = c[i]
      /\ \A i \in 1..l : all[k + i] = m[i]
  BY <1>1, <1>2, ConcatFacts
<1>4. PartIs(whole, r, all)
  BY <1>2, <1>3, PartMeans
<1>5. n <= k + l /\ (\A i \in 1..n : r[i] = all[i]) /\ (whole => n = k + l)
  BY <1>1, <1>3, <1>4 DEF PartIs
<1>6. CASE n >= k
  <2>1. k \in 0..Len(r) /\ k \in 0..n
    BY <1>1, <1>6
  <2>2. PICK t, u : t = SubSeq(r, 1, k) /\ u = Skipped(r, k)
    OBVIOUS
  <2>3. t \in Seq(Nat) /\ Len(t) = k /\ \A i \in 1..k : t[i] = r[i]
    BY <2>1, <2>2, FrontFacts
  <2>4. /\ u \in Seq(Nat) /\ Len(u) = n - k
        /\ \A i \in 1..(n - k) : u[i] = r[k + i]
    BY <1>1, <2>1, <2>2, SkipFacts
  <2>5. \A i \in 1..k : t[i] = c[i]
    <3>1. \A i \in 1..k : i \in 1..n
      BY <1>6
    <3>2. QED
      BY <1>3, <1>5, <2>3, <3>1
  <2>6. t = c
    BY <1>1, <2>3, <2>5, SeqEqual
  <2>7. \A i \in 1..(n - k) : u[i] = m[i]
    <3>1. ASSUME NEW i \in 1..(n - k) PROVE u[i] = m[i]
      <4>1. k + i \in 1..n /\ i \in 1..l
        BY <1>5, <1>6
      <4>2. QED
        BY <1>3, <1>5, <2>4, <4>1
    <3>2. QED
      BY <3>1
  <2>8. PartIs(whole, u, m)
    <3>1. n - k <= l /\ (whole => n - k = l)
      BY <1>5
    <3>2. QED
      BY <1>1, <2>4, <2>7, <3>1 DEF PartIs
  <2>9. Part(whole, u, m)
    BY <2>4, <2>8, PartMeans
  <2>10. QED
    BY <1>1, <1>6, <2>2, <2>4, <2>6, <2>9 DEF TakesPart
<1>7. CASE n < k
  BY <1>1, <1>5, <1>7 DEF TakesPart
<1>8. QED
  BY <1>6, <1>7

(* All but the first of what is there.                                     *)
LEMMA PartEmpty ==
    ASSUME NEW r \in Seq(Nat), NEW whole, Part(whole, r, <<>>)
    PROVE  r = <<>>
<1>1. PICK n \in Nat : n = Len(r)
  BY LenProperties
<1>2. Len(<<>>) = 0
  BY EmptySeq
<1>3. n <= 0
  BY <1>1, <1>2 DEF Part, IsPrefixOf
<1>4. QED
  BY <1>1, <1>3, EmptySeq

-----------------------------------------------------------------------------
(* Batches.  at[k] are the decoders that have given the first k values of  *)
(* a page, which is `whole' when all of it is there.                       *)
MoreGiven(r, at, content, whole, k, n, m) ==
    /\ k + m <= Len(content) /\ r.threw = FALSE
    /\ r.values = SubSeq(content, k + 1, k + m)
    /\ r.decoder \in at[k + m]
    /\ whole => m = n \/ k + m = Len(content)

Gives(r, at, content, whole, k, n) ==
    \/ ~whole /\ r.threw = TRUE /\ r.values = <<>>
    \/ \E m \in 0..n : MoreGiven(r, at, content, whole, k, n, m)

(* What one round of a decoder does that copies one value at a time.       *)
OneTaken(b, d, values, at, content, whole, k) ==
    \/ ~whole /\ b = Threw(d)
    \/ (whole => k = Len(content)) /\ b = Batch(d, values)
    \/ /\ k < Len(content)
       /\ \E e \in at[k + 1] : b = Batch(e, Append(values, content[k + 1]))

TakesOne(at, content, whole) ==
    \A k \in 0..Len(content) : \A d \in at[k] : \A values \in Seq(Seq(Nat)) :
        OneTaken(Take(Batch(d, values)), d, values, at, content, whole, k)

Copied == {"lengths and bytes", "fixed", "DELTA_LENGTH_BYTE_ARRAY",
           "DELTA_BYTE_ARRAY"}

Copies(D) ==
    /\ \A d \in D : d.coding \in Copied
    /\ \A batch \in Batches(D) : Take(batch) \in Batches(D)

LEMMA ThrewStays ==
    ASSUME NEW batch, batch.threw = TRUE, batch.decoder.coding \in Copied
    PROVE  Take(batch) = batch
BY DEF Copied, Take, TakeByteArray, TakeFixed, TakeLength, TakePrefix

(* The value behind a part of a sequence.                                  *)
LEMMA PartAppend ==
    ASSUME NEW E, NEW s \in Seq(E), NEW k \in Nat, NEW m \in Nat,
           k + m < Len(s)
    PROVE  /\ Append(SubSeq(s, k + 1, k + m), s[k + m + 1]) =
                 SubSeq(s, k + 1, k + (m + 1))
           /\ SubSeq(s, k + 1, k + m) \in Seq(E)
<1>1. PICK l \in Nat : l = Len(s)
  BY LenProperties
<1>2. \A i \in 1..l : s[i] \in E
  BY <1>1, ElementOfSeq
<1>3. PICK a \in Nat, b \in Nat, c \in Nat :
        a = k + 1 /\ b = k + m /\ c = k + (m + 1) /\ c = b + 1
  OBVIOUS
<1>4. PICK t, u : t = SubSeq(s, a, b) /\ u = SubSeq(s, a, c)
  OBVIOUS
<1>5. /\ t \in Seq(E) /\ (IF a <= b + 1 THEN Len(t) = b - a + 1 ELSE Len(t) = 0)
      /\ \A i \in 1..(b - a + 1) : t[i] = s[a + i - 1]
  <2>1. \A i \in a..b : s[i] \in E
    BY <1>1, <1>2, <1>3
  <2>2. QED
    BY <1>4, <2>1, SubSeqProperties
<1>6. /\ u \in Seq(E) /\ (IF a <= c + 1 THEN Len(u) = c - a + 1 ELSE Len(u) = 0)
      /\ \A i \in 1..(c - a + 1) : u[i] = s[a + i - 1]
  <2>1. \A i \in a..c : s[i] \in E
    BY <1>1, <1>2, <1>3
  <2>2. QED
    BY <1>4, <2>1, SubSeqProperties
<1>7. Len(t) = m /\ Len(u) = m + 1
  BY <1>3, <1>5, <1>6
<1>8. PICK x \in E : x = s[k + m + 1]
  BY <1>1, <1>2
<1>9. PICK w : w = Append(t, x)
  OBVIOUS
<1>10. /\ w \in Seq(E) /\ Len(w) = m + 1 /\ w[m + 1] = x
       /\ \A i \in 1..m : w[i] = t[i]
  BY <1>5, <1>7, <1>9, AppendProperties
<1>11. ASSUME NEW i \in 1..(m + 1) PROVE w[i] = u[i]
  <2>1. i \in 1..(c - a + 1) /\ u[i] = s[a + i - 1]
    BY <1>3, <1>6
  <2>2. CASE i = m + 1
    <3>1. a + i - 1 = k + m + 1
      BY <1>3, <2>2
    <3>2. QED
      BY <1>8, <1>10, <2>1, <2>2, <3>1
  <2>3. CASE i # m + 1
    <3>1. i \in 1..m /\ i \in 1..(b - a + 1)
      BY <1>3, <2>3
    <3>2. QED
      BY <1>5, <1>10, <2>1, <3>1
  <2>4. QED
    BY <2>2, <2>3
<1>12. w = u
  BY <1>6, <1>7, <1>10, <1>11, SeqEqual
<1>13. QED
  BY <1>3, <1>4, <1>5, <1>8, <1>9, <1>12

LEMMA TimesGive ==
    ASSUME NEW D, Copies(D), NEW content \in Seq(Seq(Nat)),
           NEW at \in [0..Len(content) -> SUBSET D], NEW whole,
           TakesOne(at, content, whole),
           NEW k \in 0..Len(content), NEW d \in at[k], NEW n \in Nat
    PROVE  Gives(Times(d, n), at, content, whole, k, n)
<1>1. PICK l \in Nat : l = Len(content)
  BY LenProperties
<1>2. k \in Nat /\ k <= l /\ d \in D
  <2>1. at[k] \in SUBSET D
    OBVIOUS
  <2>2. d \in D
    BY <2>1
  <2>3. QED
    BY <1>1, <2>2
<1>3. PICK f : TimesIs(D, d, n, f)
  <2>1. \A batch \in Batches(D) : Take(batch) \in Batches(D)
    BY DEF Copies
  <2>2. QED
    BY <1>2, <2>1, TimesRuns
<1>4. /\ f \in [0..n -> Batches(D)] /\ f[0] = Batch(d, <<>>)
      /\ \A j \in 1..n : f[j] = Take(f[j - 1])
      /\ Times(d, n) = f[n]
  BY <1>3 DEF TimesIs
<1> DEFINE S == {j \in 0..n : Gives(f[j], at, content, whole, k, j)}
<1>5. 0 \in S
  <2>1. SubSeq(content, k + 1, k + 0) = <<>>
    BY <1>2, SubSeqEmpty
  <2>2. MoreGiven(f[0], at, content, whole, k, 0, 0)
    BY <1>1, <1>2, <1>4, <2>1 DEF MoreGiven, Batch
  <2>3. 0 \in 0..0 /\ 0 \in 0..n
    OBVIOUS
  <2>4. QED
    BY <2>2, <2>3 DEF Gives
<1>6. ASSUME NEW j \in 1..n, j - 1 \in S PROVE j \in S
  <2>1. /\ Gives(f[j - 1], at, content, whole, k, j - 1)
        /\ f[j] = Take(f[j - 1]) /\ f[j - 1] \in Batches(D) /\ j \in 0..n
    BY <1>4, <1>6
  <2>2. PICK b \in Batches(D) : b = f[j - 1] /\ f[j] = Take(b)
    BY <2>1
  <2>3. b.decoder \in D /\ b.values \in Seq(Seq(Nat)) /\ b.threw \in BOOLEAN
        /\ b = [decoder |-> b.decoder, values |-> b.values, threw |-> b.threw]
    BY DEF Batches
  <2>4. CASE ~whole /\ b.threw = TRUE /\ b.values = <<>>
    <3>1. Take(b) = b
      BY <2>3, <2>4, ThrewStays DEF Copies
    <3>2. QED
      BY <2>1, <2>2, <2>4, <3>1 DEF Gives
  <2>5. CASE \E m \in 0..(j - 1) : MoreGiven(b, at, content, whole, k, j - 1, m)
    <3>1. PICK m \in 0..(j - 1) : MoreGiven(b, at, content, whole, k, j - 1, m)
      BY <2>5
    <3>2. /\ m \in Nat /\ k + m \in 0..l /\ k + m \in Nat /\ k + m <= l
          /\ b.threw = FALSE
          /\ b.values = SubSeq(content, k + 1, k + m)
          /\ b.decoder \in at[k + m]
          /\ whole => m = j - 1 \/ k + m = l
      BY <1>1, <1>2, <3>1 DEF MoreGiven
    <3>3. PICK e, vs : e = b.decoder /\ vs = b.values /\ b = Batch(e, vs)
      BY <2>3, <3>2 DEF Batch
    <3>4. OneTaken(f[j], e, vs, at, content, whole, k + m)
      <4>1. k + m \in 0..Len(content) /\ e \in at[k + m] /\ vs \in Seq(Seq(Nat))
        BY <1>1, <2>3, <3>2, <3>3
      <4>2. OneTaken(Take(Batch(e, vs)), e, vs, at, content, whole, k + m)
        BY <4>1, Zenon DEF TakesOne
      <4>3. QED
        BY <2>2, <3>3, <4>2, Zenon
    <3>5. CASE ~whole /\ f[j] = Threw(e)
      BY <2>1, <3>5 DEF Gives, Threw
    <3>6. CASE (whole => k + m = Len(content)) /\ f[j] = Batch(e, vs)
      <4>1. MoreGiven(f[j], at, content, whole, k, j, m)
        BY <1>1, <3>2, <3>3, <3>6 DEF MoreGiven, Batch
      <4>2. m \in 0..j
        OBVIOUS
      <4>3. QED
        BY <2>1, <4>1, <4>2 DEF Gives
    <3>7. CASE /\ k + m < Len(content)
               /\ \E x \in at[k + m + 1] :
                     f[j] = Batch(x, Append(vs, content[k + m + 1]))
      <4>1. PICK x \in at[k + m + 1] :
                 f[j] = Batch(x, Append(vs, content[k + m + 1]))
        BY <3>7
      <4>2. Append(vs, content[k + m + 1]) = SubSeq(content, k + 1, k + (m + 1))
        <5>1. PICK T : T = Seq(Nat) /\ content \in Seq(T)
          OBVIOUS
        <5>2. k \in Nat /\ m \in Nat /\ k + m < Len(content)
          BY <1>2, <3>2, <3>7
        <5>3. Append(SubSeq(content, k + 1, k + m), content[k + m + 1]) =
                 SubSeq(content, k + 1, k + (m + 1))
          BY <5>1, <5>2, PartAppend
        <5>4. QED
          BY <3>2, <3>3, <5>3, Zenon
      <4>3. k + m + 1 = k + (m + 1) /\ m + 1 \in 0..j /\ k + (m + 1) <= l
        BY <1>1, <1>2, <3>2, <3>7
      <4>4. MoreGiven(f[j], at, content, whole, k, j, m + 1)
        <5>1. f[j].threw = FALSE /\ f[j].decoder \in at[k + (m + 1)]
              /\ f[j].values = SubSeq(content, k + 1, k + (m + 1))
          BY <4>1, <4>2, <4>3 DEF Batch
        <5>2. whole => m + 1 = j \/ k + (m + 1) = Len(content)
          BY <1>1, <1>2, <3>2, <3>7
        <5>3. QED
          BY <1>1, <4>3, <5>1, <5>2 DEF MoreGiven
      <4>5. QED
        BY <2>1, <4>3, <4>4 DEF Gives
    <3>8. QED
      BY <3>4, <3>5, <3>6, <3>7 DEF OneTaken
  <2>6. QED
    BY <2>1, <2>2, <2>4, <2>5, Zenon DEF Gives
<1>7. 0..n \subseteq S
  <2> HIDE DEF S
  <2>1. QED
    BY <1>5, <1>6, UpTo, Zenon
<1>8. n \in S
  <2>1. n \in 0..n
    OBVIOUS
  <2>2. QED
    BY <1>7, <2>1
<1>9. QED
  BY <1>4, <1>8

-----------------------------------------------------------------------------
(* The length before a byte array.                                         *)
LEMMA Pow2Sum ==
    ASSUME NEW a \in Nat, NEW b \in Nat
    PROVE  Pow2(a + b) = Pow2(a) * Pow2(b)
<1> DEFINE S == {k \in 0..b : Pow2(a + k) = Pow2(a) * Pow2(k)}
<1>1. PICK x \in Nat : x = Pow2(a)
  BY Pow2Facts
<1>2. 0 \in S
  BY <1>1, Pow2Facts
<1>3. ASSUME NEW k \in 1..b, k - 1 \in S PROVE k \in S
  <2>1. PICK j \in Nat, c \in Nat : j = k - 1 /\ c = a + j
    OBVIOUS
  <2>2. PICK y \in Nat, z \in Nat : y = Pow2(j) /\ z = Pow2(c)
    BY Pow2Facts
  <2>3. Pow2(j + 1) = 2 * y /\ Pow2(c + 1) = 2 * z
    BY <2>2, Pow2Facts
  <2>4. z = x * y
    BY <1>1, <1>3, <2>1, <2>2
  <2>5. x * (2 * y) = 2 * (x * y)
    OBVIOUS
  <2>6. j + 1 = k /\ c + 1 = a + k
    BY <2>1
  <2>7. Pow2(a + k) = Pow2(a) * Pow2(k)
    BY <1>1, <2>3, <2>4, <2>5, <2>6
  <2>8. QED
    BY <2>7
<1>4. 0..b \subseteq S
  <2> HIDE DEF S
  <2>1. QED
    BY <1>2, <1>3, UpTo, Zenon
<1>5. QED
  BY <1>4

LEMMA OneDigit ==
    ASSUME NEW a \in Nat, a >= 1, NEW b \in Nat, b >= 1, NEW n \in Nat
    PROVE  n % (a * b) = (n % a) + ((n \div a) % b) * a
<1>1. PICK q \in Int, r \in 0..(a - 1) :
        n = a * q + r /\ r = n % a /\ q = n \div a
  <2>1. n \in Int
    OBVIOUS
  <2>2. QED
    BY <2>1, DivideBy
<1>2. PICK p \in Int, s \in 0..(b - 1) : q = b * p + s /\ s = q % b
  BY DivideBy
<1>3. PICK m \in Nat : m = a * b /\ m >= 1
  <2>1. a * b \in Nat /\ a * b >= 1
    OBVIOUS
  <2>2. QED
    BY <2>1
<1>4. PICK t \in Int : t = s * a + r
  OBVIOUS
<1>5. n = m * p + t
  <2>1. a * (b * p + s) = (a * b) * p + s * a
    BY <1>1, <1>2
  <2>2. a * q = a * (b * p + s) /\ (a * b) * p = m * p
    BY <1>2, <1>3
  <2>3. n = a * q + r
    BY <1>1
  <2>4. PICK x \in Int, y \in Int, z \in Int : x = a * q /\ y = m * p /\ z = s * a
    OBVIOUS
  <2>5. x = y + z /\ n = x + r /\ t = z + r /\ y \in Int
    BY <1>4, <2>1, <2>2, <2>3, <2>4
  <2>6. n = y + t
    BY <2>5
  <2>7. QED
    BY <2>4, <2>6
<1>6. t \in 0..(m - 1)
  <2>1. s * a >= 0 /\ s * a <= (b - 1) * a /\ (b - 1) * a = a * b - a
        /\ s * a \in Int
    <3>1. s \in Nat /\ s <= b - 1
      OBVIOUS
    <3>2. s * a >= 0 /\ s * a <= (b - 1) * a /\ s * a \in Int
      BY <3>1
    <3>3. (b - 1) * a = a * b - a
      OBVIOUS
    <3>4. QED
      BY <3>2, <3>3
  <2>2. QED
    BY <1>3, <1>4, <2>1
<1>7. n % m = t
  <2>1. n \in Int /\ p \in Int /\ m \in Nat /\ m >= 1
    BY <1>3
  <2>2. QED
    BY <1>5, <1>6, <2>1, OneRemainder, Zenon
<1>8. (n % a) + ((n \div a) % b) * a = t
  <2>1. n % a = r /\ (n \div a) % b = s
    BY <1>1, <1>2
  <2>2. QED
    BY <1>4, <2>1
<1>9. QED
  BY <1>3, <1>7, <1>8, Zenon

LengthOf(n) == [i \in 1..LengthBytes |->
                   (n \div Pow2(ByteBits * (i - 1))) % Pow2(ByteBits)]

LEMMA LengthOfType ==
    ASSUME NEW n \in Nat
    PROVE  LengthOf(n) \in Seq(Nat) /\ Len(LengthOf(n)) = LengthBytes
<1>1. PICK l \in Nat : l = LengthBytes
  BY CodingAssumption
<1>2. PICK b \in Nat, m \in Nat : b = ByteBits /\ m = Pow2(b) /\ m >= 1
  BY DeltaConstants, Pow2Facts, Pow2More
<1>3. ASSUME NEW i \in 1..l
      PROVE  (n \div Pow2(b * (i - 1))) % m \in Nat
  <2>1. PICK k \in Nat : k = b * (i - 1)
    <3>1. i - 1 \in Nat
      OBVIOUS
    <3>2. b * (i - 1) \in Nat
      BY <3>1
    <3>3. QED
      BY <3>2
  <2>2. PICK a \in Nat : a = Pow2(k) /\ a >= 1
    BY Pow2Facts, Pow2More
  <2>3. (n \div a) % m \in Nat
    BY <1>2, <2>2
  <2>4. QED
    BY <2>1, <2>2, <2>3
<1>4. LengthOf(n) = [i \in 1..l |-> (n \div Pow2(b * (i - 1))) % m]
  BY <1>1, <1>2 DEF LengthOf
<1>5. [i \in 1..l |-> (n \div Pow2(b * (i - 1))) % m] \in Seq(Nat)
  BY <1>3
<1>6. QED
  BY <1>1, <1>4, <1>5

LEMMA LengthBack ==
    ASSUME NEW bytes, NEW n \in 0..(Pow2(ByteBits * LengthBytes) - 1),
           \A i \in 1..LengthBytes : bytes[i] = LengthOf(n)[i]
    PROVE  LengthAt(bytes) = n
<1>1. PICK l \in Nat, b \in Nat, m \in Nat :
        l = LengthBytes /\ b = ByteBits /\ m = Pow2(b) /\ m >= 1
  BY CodingAssumption, DeltaConstants, Pow2Facts, Pow2More
<1>2. PICK P : P = [i \in 0..l |-> Pow2(b * i)]
  OBVIOUS
<1>3. \A i \in 0..l : P[i] = Pow2(b * i) /\ P[i] \in Nat /\ P[i] >= 1
  <2>1. ASSUME NEW i \in 0..l PROVE P[i] = Pow2(b * i) /\ P[i] \in Nat /\ P[i] >= 1
    <3>1. PICK k \in Nat : k = b * i
      OBVIOUS
    <3>2. Pow2(k) \in Nat /\ Pow2(k) >= 1
      BY Pow2Facts, Pow2More
    <3>3. QED
      BY <1>2, <3>1, <3>2
  <2>2. QED
    BY <2>1
<1>4. P[0] = 1
  <2>1. b * 0 = 0 /\ 0 \in 0..l
    OBVIOUS
  <2>2. QED
    BY <1>3, <2>1, Pow2Facts
<1>5. ASSUME NEW i \in 1..l PROVE P[i] = P[i - 1] * m
  <2>1. i - 1 \in 0..l /\ i \in 0..l
    OBVIOUS
  <2>2. PICK k \in Nat : k = b * (i - 1) /\ b * i = k + b
    <3>1. i - 1 \in Nat
      OBVIOUS
    <3>2. b * (i - 1) \in Nat /\ b * i = b * (i - 1) + b
      BY <3>1
    <3>3. QED
      BY <3>2
  <2>3. Pow2(k + b) = Pow2(k) * Pow2(b)
    BY Pow2Sum
  <2>4. QED
    BY <1>1, <1>3, <2>1, <2>2, <2>3
<1>6. n \in Nat /\ n < P[l]
  <2>1. l \in 0..l
    OBVIOUS
  <2>2. PICK y \in Nat : y = P[l] /\ y = Pow2(ByteBits * LengthBytes)
    BY <1>1, <1>3, <2>1
  <2>3. n \in 0..(y - 1)
    BY <2>2
  <2>4. QED
    BY <2>2, <2>3
<1>7. ASSUME NEW i \in 1..l PROVE bytes[i] = (n \div P[i - 1]) % m
  <2>1. i - 1 \in 0..l
    OBVIOUS
  <2>2. LengthOf(n) = [j \in 1..l |-> (n \div Pow2(b * (j - 1))) % m]
    BY <1>1 DEF LengthOf
  <2>3. QED
    BY <1>1, <1>3, <2>1, <2>2
<1> DEFINE Def(f, i) == IF i = 0 THEN 0
                        ELSE f[i - 1] + bytes[i] * Pow2(b * (i - 1))
           Upto(f) == f = [i \in 0..l |-> Def(f, i)]
           Loop == CHOOSE f : Upto(f)
           g == [i \in 0..l |-> n % P[i]]
<1>8. LengthAt(bytes) = Loop[l]
  BY <1>1, Zenon DEF LengthAt
<1>9. ASSUME NEW i \in 0..l PROVE g[i] = Def(g, i)
  <2>1. CASE i = 0
    <3>1. n % 1 = 0
      BY <1>6
    <3>2. QED
      BY <1>4, <2>1, <3>1
  <2>2. CASE i # 0
    <3>1. i \in 1..l /\ i - 1 \in 0..l
      BY <2>2
    <3>2. PICK a \in Nat : a = P[i - 1] /\ a >= 1 /\ a = Pow2(b * (i - 1))
      BY <1>3, <3>1
    <3>3. P[i] = a * m
      BY <1>5, <3>1, <3>2
    <3>4. n % (a * m) = (n % a) + ((n \div a) % m) * a
      BY <1>1, <1>6, <3>2, OneDigit
    <3>5. bytes[i] = (n \div a) % m
      BY <1>7, <3>1, <3>2
    <3>6. g[i] = n % (a * m) /\ g[i - 1] = n % a
      BY <3>1, <3>2, <3>3
    <3>7. Def(g, i) = g[i - 1] + bytes[i] * a
      BY <2>2, <3>2
    <3> HIDE DEF g, Def
    <3>8. QED
      BY <3>4, <3>5, <3>6, <3>7
  <2>3. QED
    BY <2>1, <2>2
<1>10. Upto(g)
  <2> HIDE DEF Def
  <2>1. QED
    BY <1>9
<1>11. Upto(Loop)
  <2> HIDE DEF Upto, g
  <2>1. QED
    BY <1>10
<1>12. Loop[l] = g[l]
  <2> HIDE DEF Loop
  <2> DEFINE S == {i \in 0..l : Loop[i] = g[i]}
  <2>1. \A i \in 0..l : Loop[i] = Def(Loop, i) /\ g[i] = Def(g, i)
    <3> HIDE DEF Def, g
    <3>1. QED
      BY <1>10, <1>11
  <2> HIDE DEF g
  <2>2. 0 \in S
    BY <2>1
  <2>3. \A i \in 1..l : i - 1 \in S => i \in S
    BY <2>1
  <2>4. 0..l \subseteq S
    <3> HIDE DEF S
    <3>1. QED
      BY <2>2, <2>3, UpTo, Zenon
  <2>5. QED
    BY <2>4
<1>13. g[l] = n
  <2>1. PICK y \in Nat : y = P[l] /\ n < y
    BY <1>3, <1>6
  <2>2. n % y = n
    BY <1>6, <2>1
  <2>3. QED
    BY <2>1, <2>2
<1>14. QED
  BY <1>8, <1>12, <1>13

LEMMA LengthType ==
    ASSUME NEW bytes \in Seq(Nat), Len(bytes) >= LengthBytes
    PROVE  LengthAt(bytes) \in Nat
<1>1. PICK l \in Nat, b \in Nat : l = LengthBytes /\ b = ByteBits
  BY CodingAssumption, DeltaConstants
<1>2. PICK w : w = [i \in 1..l |-> bytes[i] * Pow2(b * (i - 1))]
  OBVIOUS
<1>3. ASSUME NEW i \in 1..l
      PROVE  w[i] = bytes[i] * Pow2(b * (i - 1)) /\ w[i] \in Nat
  <2>1. PICK k \in Nat : k = b * (i - 1)
    <3>1. i - 1 \in Nat
      OBVIOUS
    <3>2. b * (i - 1) \in Nat
      BY <3>1
    <3>3. QED
      BY <3>2
  <2>2. PICK a \in Nat : a = Pow2(k)
    BY Pow2Facts
  <2>3. PICK x \in Nat : x = bytes[i]
    <3>1. i \in 1..Len(bytes)
      BY <1>1, LenProperties
    <3>2. bytes[i] \in Nat
      BY <3>1, ElementOfSeq
    <3>3. QED
      BY <3>2
  <2>4. x * a \in Nat
    OBVIOUS
  <2>5. QED
    BY <1>2, <2>1, <2>2, <2>3, <2>4
<1> DEFINE Def(f, i) == IF i = 0 THEN 0
                        ELSE f[i - 1] + bytes[i] * Pow2(b * (i - 1))
           Upto(f) == f = [i \in 0..l |-> Def(f, i)]
           Loop == CHOOSE f : Upto(f)
<1>4. LengthAt(bytes) = Loop[l]
  BY <1>1, Zenon DEF LengthAt
<1>5. PICK step : step = [i \in 1..l |-> [x \in Nat |-> x + w[i]]]
  OBVIOUS
<1>6. PICK g \in [0..l -> Nat] :
        g[0] = 0 /\ \A i \in 1..l : g[i] = step[i][g[i - 1]]
  <2>1. step \in [1..l -> [Nat -> Nat]]
    <3>1. ASSUME NEW i \in 1..l PROVE [x \in Nat |-> x + w[i]] \in [Nat -> Nat]
      <4>1. PICK y \in Nat : y = w[i]
        BY <1>3
      <4>2. [x \in Nat |-> x + y] \in [Nat -> Nat]
        OBVIOUS
      <4>3. QED
        BY <4>1, <4>2
    <3>2. QED
      BY <1>5, <3>1
  <2>2. PICK X : X = Nat
    OBVIOUS
  <2>3. step \in [1..l -> [X -> X]] /\ 0 \in X
    BY <2>1, <2>2
  <2>4. Runs(l, X, 0, step)
    BY <2>3, LoopRuns
  <2>5. QED
    BY <2>2, <2>4, Zenon DEF Runs
<1>7. ASSUME NEW i \in 1..l
      PROVE  g[i] = g[i - 1] + bytes[i] * Pow2(b * (i - 1))
  <2>1. i - 1 \in 0..l
    OBVIOUS
  <2>2. PICK y \in Nat : y = g[i - 1]
    BY <1>6, <2>1
  <2>3. step[i][y] = y + w[i]
    BY <1>5
  <2>4. QED
    BY <1>3, <1>6, <2>2, <2>3
<1>8. Upto(g)
  <2>1. ASSUME NEW i \in 0..l PROVE g[i] = Def(g, i)
    <3>1. i # 0 => i \in 1..l
      OBVIOUS
    <3>2. QED
      BY <1>6, <1>7, <3>1
  <2> HIDE DEF Def
  <2>2. QED
    BY <1>6, <2>1
<1>9. Upto(Loop)
  <2> HIDE DEF Upto
  <2>1. QED
    BY <1>8
<1>10. Loop[l] = g[l]
  <2> HIDE DEF Loop
  <2> DEFINE S == {i \in 0..l : Loop[i] = g[i]}
  <2>1. \A i \in 0..l : Loop[i] = Def(Loop, i) /\ g[i] = Def(g, i)
    <3> HIDE DEF Def
    <3>1. QED
      BY <1>8, <1>9
  <2>2. 0 \in S
    BY <2>1
  <2>3. \A i \in 1..l : i - 1 \in S => i \in S
    BY <2>1
  <2>4. 0..l \subseteq S
    <3> HIDE DEF S
    <3>1. QED
      BY <2>2, <2>3, UpTo, Zenon
  <2>5. QED
    BY <2>4
<1>11. l \in 0..l
  OBVIOUS
<1>12. QED
  BY <1>4, <1>6, <1>10, <1>11

-----------------------------------------------------------------------------
(* Plain pages of values one after the other, each with a length of its    *)
(* own, or all of one length.                                              *)
Codes(type, data) ==
    [i \in DOMAIN data |->
        IF type = "BYTE_ARRAY" THEN LengthOf(Len(data[i])) \o data[i]
        ELSE data[i]]

LEMMA PlainIs == \A type, data : PlainNumbers(type, data) = FlattenSeq(Codes(type, data))
BY DEF PlainNumbers, Codes, LengthOf

LEMMA CodesFacts ==
    ASSUME NEW type, NEW data \in Seq(Seq(Nat))
    PROVE  /\ Codes(type, data) \in Seq(Seq(Nat))
           /\ Len(Codes(type, data)) = Len(data)
           /\ \A i \in 1..Len(data) :
                 /\ data[i] \in Seq(Nat) /\ Len(data[i]) \in Nat
                 /\ Codes(type, data)[i] =
                       IF type = "BYTE_ARRAY"
                       THEN LengthOf(Len(data[i])) \o data[i] ELSE data[i]
<1>1. PICK l \in Nat : l = Len(data) /\ DOMAIN data = 1..l
  BY LenProperties
<1>2. ASSUME NEW i \in 1..l
      PROVE  /\ data[i] \in Seq(Nat) /\ Len(data[i]) \in Nat
             /\ LengthOf(Len(data[i])) \o data[i] \in Seq(Nat)
  <2>1. data[i] \in Seq(Nat)
    BY <1>1, ElementOfSeq
  <2>2. Len(data[i]) \in Nat
    BY <2>1, LenProperties
  <2>3. LengthOf(Len(data[i])) \in Seq(Nat)
    BY <2>2, LengthOfType
  <2>4. QED
    BY <2>1, <2>2, <2>3, ConcatProperties
<1>3. PICK c : /\ c = Codes(type, data)
               /\ c = [i \in 1..l |->
                          IF type = "BYTE_ARRAY"
                          THEN LengthOf(Len(data[i])) \o data[i] ELSE data[i]]
  BY <1>1 DEF Codes
<1>4. c \in Seq(Seq(Nat)) /\ Len(c) = l
  BY <1>2, <1>3
<1>5. QED
  BY <1>1, <1>2, <1>3, <1>4

LEMMA SubSeqType ==
    ASSUME NEW E, NEW s \in Seq(E), NEW a \in Nat, a >= 1,
           NEW b \in Int, b <= Len(s)
    PROVE  SubSeq(s, a, b) \in Seq(E)
<1>1. PICK l \in Nat : l = Len(s)
  BY LenProperties
<1>2. \A i \in 1..l : s[i] \in E
  BY <1>1, ElementOfSeq
<1>3. \A i \in a..b : s[i] \in E
  BY <1>1, <1>2
<1>4. QED
  BY <1>3, SubSeqProperties

PlainDecoders(coding) ==
    [coding : {coding}, size : Nat \ {0}, rest : Seq(Nat)]

AtCopied(coding, codes, whole) ==
    [k \in 0..Len(codes) |->
        {d \in PlainDecoders(coding) :
            Part(whole, d.rest, FlattenSeq(Skipped(codes, k)))}]

LEMMA BytesCopy == Copies(PlainDecoders("lengths and bytes"))
<1>1. PICK D : D = PlainDecoders("lengths and bytes")
  OBVIOUS
<1>2. ASSUME NEW batch \in Batches(D) PROVE Take(batch) \in Batches(D)
  <2>1. PICK d, values : /\ d = batch.decoder /\ values = batch.values
                         /\ d \in D /\ values \in Seq(Seq(Nat))
                         /\ batch.threw \in BOOLEAN
    BY DEF Batches
  <2>2. PICK rest \in Seq(Nat) : rest = d.rest
    BY <1>1, <2>1 DEF PlainDecoders
  <2>3. Take(batch) = TakeByteArray(batch)
    BY <1>1, <2>1 DEF Take, PlainDecoders
  <2>4. CASE TakeByteArray(batch) = batch
    BY <2>3, <2>4
  <2>5. CASE TakeByteArray(batch) = Threw(d)
    <3>1. <<>> \in Seq(Seq(Nat))
      BY EmptySeq
    <3>2. QED
      BY <2>1, <2>3, <2>5, <3>1 DEF Threw, Batches
  <2>6. CASE /\ Len(rest) >= LengthBytes
             /\ ~(Len(rest) - LengthBytes < LengthAt(rest))
             /\ TakeByteArray(batch) =
                   Batch([d EXCEPT !.rest =
                              Skipped(rest, LengthBytes + LengthAt(rest))],
                         Append(values,
                                SubSeq(rest, LengthBytes + 1,
                                       LengthBytes + LengthAt(rest))))
    <3>1. PICK l \in Nat, b \in Nat, a \in Nat :
            l = Len(rest) /\ b = LengthBytes /\ a = LengthAt(rest)
      BY <2>6, LenProperties, LengthType, CodingAssumption
    <3>2. b + a \in 0..l /\ b + a <= l /\ b + 1 >= 1 /\ b + 1 \in Nat
      BY <2>6, <3>1
    <3>3. Skipped(rest, b + a) \in Seq(Nat)
      BY <3>1, <3>2, SkipFacts
    <3>4. SubSeq(rest, b + 1, b + a) \in Seq(Nat)
      BY <3>1, <3>2, SubSeqType
    <3>5. Append(values, SubSeq(rest, b + 1, b + a)) \in Seq(Seq(Nat))
      BY <2>1, <3>4, AppendProperties
    <3>6. [d EXCEPT !.rest = Skipped(rest, b + a)] \in D
      BY <1>1, <2>1, <3>3 DEF PlainDecoders
    <3>7. QED
      BY <2>3, <2>6, <3>1, <3>5, <3>6 DEF Batches, Batch
  <2>7. TakeByteArray(batch) =
           IF batch.threw \/ rest = <<>> THEN batch
           ELSE IF Len(rest) < LengthBytes
                     \/ Len(rest) - LengthBytes < LengthAt(rest)
           THEN Threw(d)
           ELSE Batch([d EXCEPT !.rest =
                          Skipped(rest, LengthBytes + LengthAt(rest))],
                      Append(values,
                             SubSeq(rest, LengthBytes + 1,
                                    LengthBytes + LengthAt(rest))))
    BY <2>1, <2>2, Zenon DEF TakeByteArray
  <2>8. ~(Len(rest) < LengthBytes) => Len(rest) >= LengthBytes
    BY LenProperties, CodingAssumption
  <2>9. QED
    BY <2>4, <2>5, <2>6, <2>7, <2>8, Zenon
<1>3. QED
  BY <1>1, <1>2 DEF Copies, Copied, PlainDecoders

LEMMA FixedCopy == Copies(PlainDecoders("fixed"))
<1>1. PICK D : D = PlainDecoders("fixed")
  OBVIOUS
<1>2. ASSUME NEW batch \in Batches(D) PROVE Take(batch) \in Batches(D)
  <2>1. PICK d, values : /\ d = batch.decoder /\ values = batch.values
                         /\ d \in D /\ values \in Seq(Seq(Nat))
                         /\ batch.threw \in BOOLEAN
    BY DEF Batches
  <2>2. PICK rest \in Seq(Nat) : rest = d.rest
    BY <1>1, <2>1 DEF PlainDecoders
  <2>3. Take(batch) = TakeFixed(batch)
    BY <1>1, <2>1 DEF Take, PlainDecoders
  <2>4. CASE TakeFixed(batch) = batch
    BY <2>3, <2>4
  <2>5. CASE TakeFixed(batch) = Threw(d)
    <3>1. <<>> \in Seq(Seq(Nat))
      BY EmptySeq
    <3>2. QED
      BY <2>1, <2>3, <2>5, <3>1 DEF Threw, Batches
  <2>6. CASE /\ ~(Len(rest) < TypeLength)
             /\ TakeFixed(batch) =
                   Batch([d EXCEPT !.rest = Skipped(rest, TypeLength)],
                         Append(values, SubSeq(rest, 1, TypeLength)))
    <3>1. PICK l \in Nat, b \in Nat : l = Len(rest) /\ b = TypeLength
      BY LenProperties, CodingAssumption
    <3>2. b \in 0..l /\ b <= l
      BY <2>6, <3>1
    <3>3. Skipped(rest, b) \in Seq(Nat) /\ SubSeq(rest, 1, b) \in Seq(Nat)
      BY <3>1, <3>2, SkipFacts, FrontFacts
    <3>4. Append(values, SubSeq(rest, 1, b)) \in Seq(Seq(Nat))
      BY <2>1, <3>3, AppendProperties
    <3>5. [d EXCEPT !.rest = Skipped(rest, b)] \in D
      BY <1>1, <2>1, <3>3 DEF PlainDecoders
    <3>6. QED
      BY <2>3, <2>6, <3>1, <3>4, <3>5 DEF Batches, Batch
  <2>7. QED
    BY <2>1, <2>2, <2>4, <2>5, <2>6 DEF TakeFixed
<1>3. QED
  BY <1>1, <1>2 DEF Copies, Copied, PlainDecoders

(* What is ahead of a decoder that has given k values.                     *)
LEMMA CodesAhead ==
    ASSUME NEW codes \in Seq(Seq(Nat)), NEW whole, NEW k \in 0..Len(codes),
           NEW r \in Seq(Nat), Part(whole, r, FlattenSeq(Skipped(codes, k)))
    PROVE  IF k = Len(codes) THEN r = <<>>
           ELSE TakesPart(whole, r, codes[k + 1],
                          FlattenSeq(Skipped(codes, k + 1)))
<1>1. CASE k = Len(codes)
  <2>1. PICK T : T = Seq(Nat) /\ codes \in Seq(T)
    OBVIOUS
  <2>2. Skipped(codes, k) = <<>>
    BY <1>1, <2>1, SkipNone
  <2>3. FlattenSeq(Skipped(codes, k)) = <<>>
    BY <2>2, FlattenNone
  <2>4. r = <<>>
    BY <2>3, PartEmpty
  <2>5. QED
    BY <1>1, <2>4
<1>2. CASE k # Len(codes)
  <2>1. k \in 0..(Len(codes) - 1)
    BY <1>2, LenProperties
  <2>2. PICK c, m : c = codes[k + 1] /\ m = FlattenSeq(Skipped(codes, k + 1))
    OBVIOUS
  <2>3. /\ FlattenSeq(Skipped(codes, k)) = c \o m
        /\ c \in Seq(Nat) /\ m \in Seq(Nat)
    BY <2>1, <2>2, FlattenSkip
  <2>4. TakesPart(whole, r, c, m)
    BY <2>3, PartTaken
  <2>5. QED
    BY <1>2, <2>2, <2>4
<1>3. QED
  BY <1>1, <1>2

LEMMA FixedTaken ==
    ASSUME NEW content \in Seq(Seq(Nat)), NEW whole,
           \A i \in 1..Len(content) : Len(content[i]) = TypeLength
    PROVE  TakesOne(AtCopied("fixed", content, whole), content, whole)
<1>1. PICK l \in Nat, t \in Nat : l = Len(content) /\ t = TypeLength /\ t >= 1
  BY LenProperties, CodingAssumption
<1>2. PICK at : at = AtCopied("fixed", content, whole)
  OBVIOUS
<1>3. ASSUME NEW k \in 0..l, NEW d \in at[k], NEW values \in Seq(Seq(Nat))
      PROVE  OneTaken(Take(Batch(d, values)), d, values, at, content, whole, k)
  <2>1. d \in PlainDecoders("fixed")
        /\ Part(whole, d.rest, FlattenSeq(Skipped(content, k)))
    BY <1>1, <1>2, <1>3 DEF AtCopied
  <2>2. PICK rest \in Seq(Nat) : rest = d.rest
    BY <2>1 DEF PlainDecoders
  <2>3. PICK b : b = Take(Batch(d, values))
    OBVIOUS
  <2>4. b = IF rest = <<>> THEN Batch(d, values)
            ELSE IF Len(rest) < TypeLength THEN Threw(d)
            ELSE Batch([d EXCEPT !.rest = Skipped(rest, TypeLength)],
                       Append(values, SubSeq(rest, 1, TypeLength)))
    BY <2>1, <2>2, <2>3 DEF Take, TakeFixed, PlainDecoders, Batch
  <2>5. IF k = Len(content) THEN rest = <<>>
        ELSE TakesPart(whole, rest, content[k + 1],
                       FlattenSeq(Skipped(content, k + 1)))
    BY <1>1, <2>1, <2>2, CodesAhead
  <2>6. CASE k = l
    <3>1. b = Batch(d, values)
      BY <1>1, <2>4, <2>5, <2>6
    <3>2. QED
      BY <1>1, <2>3, <2>6, <3>1 DEF OneTaken
  <2>7. CASE k # l
    <3>1. /\ k + 1 \in 1..l /\ k + 1 \in 0..l /\ k < l
          /\ Len(content[k + 1]) = t
      BY <1>1, <2>7
    <3>2. IF Len(rest) >= t
          THEN /\ SubSeq(rest, 1, t) = content[k + 1]
               /\ Part(whole, Skipped(rest, t), FlattenSeq(Skipped(content, k + 1)))
               /\ Skipped(rest, t) \in Seq(Nat)
          ELSE ~whole
      BY <1>1, <2>5, <2>7, <3>1 DEF TakesPart
    <3>3. Len(rest) \in Nat /\ Len(<<>>) = 0
      BY LenProperties, EmptySeq
    <3>4. CASE rest = <<>>
      <4>1. ~whole
        BY <1>1, <3>2, <3>3, <3>4
      <4>2. QED
        BY <2>3, <2>4, <3>4, <4>1 DEF OneTaken
    <3>5. CASE rest # <<>> /\ Len(rest) < t
      <4>1. ~whole
        BY <1>1, <3>2, <3>3, <3>5
      <4>2. QED
        BY <1>1, <2>3, <2>4, <3>5, <4>1 DEF OneTaken
    <3>6. CASE rest # <<>> /\ ~(Len(rest) < t)
      <4>1. Len(rest) >= t
        BY <1>1, <3>3, <3>6
      <4>2. PICK e : e = [d EXCEPT !.rest = Skipped(rest, t)]
        OBVIOUS
      <4>3. e \in PlainDecoders("fixed") /\ e.rest = Skipped(rest, t)
        BY <2>1, <3>2, <4>1, <4>2 DEF PlainDecoders
      <4>4. e \in at[k + 1]
        BY <1>1, <1>2, <3>1, <3>2, <4>1, <4>3 DEF AtCopied
      <4>5. b = Batch(e, Append(values, content[k + 1]))
        BY <1>1, <2>4, <3>2, <3>6, <4>1, <4>2
      <4>6. QED
        BY <1>1, <2>3, <3>1, <4>4, <4>5 DEF OneTaken
    <3>7. QED
      BY <3>4, <3>5, <3>6
  <2>8. QED
    BY <2>6, <2>7
<1>4. QED
  BY <1>1, <1>2, <1>3 DEF TakesOne

(* The numbers begin with those of the length, and the value follows.      *)
LEMMA LengthFirst ==
    ASSUME NEW rest \in Seq(Nat), NEW v \in Seq(Nat), NEW c \in Seq(Nat),
           c = LengthOf(Len(v)) \o v,
           Len(v) \in 0..(Pow2(ByteBits * LengthBytes) - 1),
           NEW all \in Seq(Nat), NEW whole, Part(whole, rest, c \o all)
    PROVE  /\ Len(c) = LengthBytes + Len(v) /\ Len(v) \in Nat
           /\ Len(rest) >= LengthBytes => LengthAt(rest) = Len(v)
           /\ Len(rest) >= Len(c) =>
                 SubSeq(rest, LengthBytes + 1, LengthBytes + Len(v)) = v
<1>1. PICK n \in Nat, b \in Nat, k \in Nat, h \in Seq(Nat) :
        /\ n = Len(v) /\ b = LengthBytes /\ k = Len(rest)
        /\ h = LengthOf(n) /\ Len(h) = b
  <2>1. Len(v) \in Nat /\ LengthBytes \in Nat /\ Len(rest) \in Nat
    BY LenProperties, CodingAssumption
  <2>2. LengthOf(Len(v)) \in Seq(Nat) /\ Len(LengthOf(Len(v))) = LengthBytes
    BY <2>1, LengthOfType
  <2>3. QED
    BY <2>1, <2>2
<1>2. c = h \o v
  BY <1>1
<1>3. /\ Len(c) = b + n
      /\ \A i \in 1..b : c[i] = h[i]
      /\ \A i \in 1..n : c[b + i] = v[i]
  <2>1. /\ Len(h \o v) = Len(h) + Len(v)
        /\ \A i \in 1..Len(h) : (h \o v)[i] = h[i]
        /\ \A i \in 1..Len(v) : (h \o v)[Len(h) + i] = v[i]
    BY ConcatFacts
  <2>2. QED
    BY <1>1, <1>2, <2>1
<1>4. PICK t \in Seq(Nat) : t = c \o all /\ \A i \in 1..(b + n) : t[i] = c[i]
  <2>1. PICK t : t = c \o all
    OBVIOUS
  <2>2. t \in Seq(Nat) /\ \A i \in 1..Len(c) : t[i] = c[i]
    BY <2>1, ConcatFacts
  <2>3. QED
    BY <1>3, <2>1, <2>2
<1>5. \A i \in 1..k : rest[i] = t[i]
  <2>1. PartIs(whole, rest, t)
    BY <1>4, PartMeans
  <2>2. QED
    BY <1>1, <2>1 DEF PartIs
<1>6. ASSUME k >= b PROVE LengthAt(rest) = n
  <2>1. \A i \in 1..b : i \in 1..k /\ i \in 1..(b + n)
    BY <1>6
  <2>2. \A i \in 1..b : rest[i] = h[i]
    BY <1>3, <1>4, <1>5, <2>1
  <2>3. QED
    BY <1>1, <2>2, LengthBack
<1>7. ASSUME k >= b + n PROVE SubSeq(rest, b + 1, b + n) = v
  <2>1. PICK m \in Nat, a \in Nat : m = b + n /\ a = b + 1 /\ m <= k /\ a >= 1
    BY <1>7
  <2>2. PICK s : s = SubSeq(rest, a, m)
    OBVIOUS
  <2>3. \A i \in a..m : rest[i] \in Nat
    <3>1. \A i \in 1..k : rest[i] \in Nat
      BY <1>1, ElementOfSeq
    <3>2. QED
      BY <2>1, <3>1
  <2>4. /\ s \in Seq(Nat)
        /\ (IF a <= m + 1 THEN Len(s) = m - a + 1 ELSE Len(s) = 0)
        /\ \A i \in 1..(m - a + 1) : s[i] = rest[a + i - 1]
    BY <2>2, <2>3, SubSeqProperties
  <2>5. Len(s) = n
    BY <2>1, <2>4
  <2>6. ASSUME NEW i \in 1..n PROVE s[i] = v[i]
    <3>1. i \in 1..(m - a + 1) /\ a + i - 1 = b + i /\ b + i \in 1..k
          /\ b + i \in 1..(b + n)
      BY <2>1
    <3>2. s[i] = rest[b + i]
      BY <2>4, <3>1
    <3>3. rest[b + i] = t[b + i] /\ t[b + i] = c[b + i]
      BY <1>4, <1>5, <3>1
    <3>4. c[b + i] = v[i]
      BY <1>3
    <3>5. QED
      BY <3>2, <3>3, <3>4
  <2>7. s = v
    BY <1>1, <2>4, <2>5, <2>6, SeqEqual
  <2>8. QED
    BY <2>1, <2>2, <2>7
<1>8. QED
  BY <1>1, <1>3, <1>6, <1>7

LEMMA BytesTaken ==
    ASSUME NEW content \in Seq(Seq(Nat)), NEW whole,
           \A i \in 1..Len(content) :
              Len(content[i]) \in 0..(Pow2(ByteBits * LengthBytes) - 1)
    PROVE  TakesOne(AtCopied("lengths and bytes", Codes("BYTE_ARRAY", content),
                             whole), content, whole)
<1>1. PICK l \in Nat, t \in Nat : l = Len(content) /\ t = LengthBytes /\ t >= 1
  BY LenProperties, CodingAssumption
<1>2. PICK codes : codes = Codes("BYTE_ARRAY", content)
  OBVIOUS
<1>3. /\ codes \in Seq(Seq(Nat)) /\ Len(codes) = l
      /\ \A i \in 1..l : /\ content[i] \in Seq(Nat)
                         /\ codes[i] = LengthOf(Len(content[i])) \o content[i]
  BY <1>1, <1>2, CodesFacts
<1>4. PICK at : at = AtCopied("lengths and bytes", codes, whole)
  OBVIOUS
<1>5. ASSUME NEW k \in 0..l, NEW d \in at[k], NEW values \in Seq(Seq(Nat))
      PROVE  OneTaken(Take(Batch(d, values)), d, values, at, content, whole, k)
  <2>1. d \in PlainDecoders("lengths and bytes")
        /\ Part(whole, d.rest, FlattenSeq(Skipped(codes, k)))
    BY <1>3, <1>4, <1>5 DEF AtCopied
  <2>2. PICK rest \in Seq(Nat) : rest = d.rest
    BY <2>1 DEF PlainDecoders
  <2>3. PICK b : b = Take(Batch(d, values))
    OBVIOUS
  <2>4. b = IF rest = <<>> THEN Batch(d, values)
            ELSE IF Len(rest) < LengthBytes
                      \/ Len(rest) - LengthBytes < LengthAt(rest)
            THEN Threw(d)
            ELSE Batch([d EXCEPT !.rest =
                           Skipped(rest, LengthBytes + LengthAt(rest))],
                       Append(values,
                              SubSeq(rest, LengthBytes + 1,
                                     LengthBytes + LengthAt(rest))))
    BY <2>1, <2>2, <2>3 DEF Take, TakeByteArray, PlainDecoders, Batch
  <2>5. IF k = Len(codes) THEN rest = <<>>
        ELSE TakesPart(whole, rest, codes[k + 1],
                       FlattenSeq(Skipped(codes, k + 1)))
    BY <1>3, <2>1, <2>2, CodesAhead
  <2>6. CASE k = l
    <3>1. b = Batch(d, values)
      BY <1>3, <2>4, <2>5, <2>6
    <3>2. QED
      BY <1>1, <2>3, <2>6, <3>1 DEF OneTaken
  <2>7. CASE k # l
    <3>1. k + 1 \in 1..l /\ k + 1 \in 0..l /\ k < l /\ k \in 0..(l - 1)
      BY <1>1, <2>7
    <3>2. PICK v, c, all : /\ v = content[k + 1] /\ c = codes[k + 1]
                           /\ all = FlattenSeq(Skipped(codes, k + 1))
      OBVIOUS
    <3>3. /\ v \in Seq(Nat) /\ c = LengthOf(Len(v)) \o v
          /\ Len(v) \in 0..(Pow2(ByteBits * LengthBytes) - 1)
      BY <1>1, <1>3, <3>1, <3>2
    <3>4. /\ FlattenSeq(Skipped(codes, k)) = c \o all
          /\ c \in Seq(Nat) /\ all \in Seq(Nat)
      BY <1>3, <3>1, <3>2, FlattenSkip
    <3>5. Part(whole, rest, c \o all)
      BY <2>1, <2>2, <3>4
    <3>6. /\ Len(c) = LengthBytes + Len(v) /\ Len(v) \in Nat
          /\ Len(rest) >= LengthBytes => LengthAt(rest) = Len(v)
          /\ Len(rest) >= Len(c) =>
                SubSeq(rest, LengthBytes + 1, LengthBytes + Len(v)) = v
      BY <3>3, <3>4, <3>5, LengthFirst
    <3>7. IF Len(rest) >= Len(c)
          THEN /\ Part(whole, Skipped(rest, Len(c)), all)
               /\ Skipped(rest, Len(c)) \in Seq(Nat)
          ELSE ~whole
      BY <1>3, <2>5, <2>7, <3>2 DEF TakesPart
    <3>8. PICK r \in Nat, n \in Nat : /\ r = Len(rest) /\ n = Len(v)
                                      /\ Len(c) = t + n /\ Len(<<>>) = 0
      BY <1>1, <3>6, LenProperties, EmptySeq
    <3>9. CASE rest = <<>>
      <4>1. ~whole
        BY <1>1, <3>7, <3>8, <3>9
      <4>2. QED
        BY <2>3, <2>4, <3>9, <4>1 DEF OneTaken
    <3>10. CASE rest # <<>> /\ r < t + n
      <4>1. ~whole
        BY <3>7, <3>8, <3>10
      <4>2. r < t \/ r - t < LengthAt(rest)
        BY <1>1, <3>6, <3>8, <3>10
      <4>3. b = Threw(d)
        BY <1>1, <2>4, <3>8, <3>10, <4>2
      <4>4. QED
        BY <2>3, <4>1, <4>3 DEF OneTaken
    <3>11. CASE rest # <<>> /\ r >= t + n
      <4>1. r >= t /\ LengthAt(rest) = n /\ ~(r < t \/ r - t < n)
        BY <1>1, <3>6, <3>8, <3>11, SMTT(30)
      <4>2. PICK e : e = [d EXCEPT !.rest = Skipped(rest, t + n)]
        OBVIOUS
      <4>3. e \in PlainDecoders("lengths and bytes")
            /\ e.rest = Skipped(rest, t + n)
        BY <2>1, <3>7, <3>8, <3>11, <4>2 DEF PlainDecoders
      <4>4. e \in at[k + 1]
        <5>1. Part(whole, e.rest, FlattenSeq(Skipped(codes, k + 1)))
          BY <3>2, <3>7, <3>8, <3>11, <4>3
        <5>2. QED
          BY <1>3, <1>4, <3>1, <4>3, <5>1 DEF AtCopied
      <4>5. SubSeq(rest, t + 1, t + n) = v
        BY <1>1, <3>6, <3>8, <3>11
      <4>6. b = Batch(e, Append(values, content[k + 1]))
        BY <1>1, <2>4, <3>2, <3>8, <3>11, <4>1, <4>2, <4>5
      <4>7. QED
        BY <1>1, <2>3, <3>1, <4>4, <4>6 DEF OneTaken
    <3>12. QED
      BY <3>8, <3>9, <3>10, <3>11
  <2>8. QED
    BY <2>6, <2>7
<1>6. QED
  BY <1>1, <1>2, <1>4, <1>5 DEF TakesOne

-----------------------------------------------------------------------------
(* Pages of lengths, and the bytes of the values behind them.              *)
LengthDecoders ==
    {d \in [coding : {"DELTA_LENGTH_BYTE_ARRAY"}, lengths : Seq(Nat),
            idx : Nat, rest : Seq(Nat)] : d.idx <= Len(d.lengths)}

Lengths(content) == [i \in DOMAIN content |-> Len(content[i])]

AtLengths(content, whole) ==
    [k \in 0..Len(content) |->
        {d \in LengthDecoders :
            /\ d.idx = k /\ d.lengths = Lengths(content)
            /\ Part(whole, d.rest, FlattenSeq(Skipped(content, k)))}]

LEMMA LengthsFacts ==
    ASSUME NEW content \in Seq(Seq(Nat))
    PROVE  /\ Lengths(content) \in Seq(Nat)
           /\ Len(Lengths(content)) = Len(content)
           /\ \A i \in 1..Len(content) : Lengths(content)[i] = Len(content[i])
<1>1. PICK l \in Nat : l = Len(content) /\ DOMAIN content = 1..l
  BY LenProperties
<1>2. \A i \in 1..l : Len(content[i]) \in Nat
  BY <1>1, ElementOfSeq, LenProperties
<1>3. PICK s : s = Lengths(content) /\ s = [i \in 1..l |-> Len(content[i])]
  BY <1>1 DEF Lengths
<1>4. s \in Seq(Nat) /\ Len(s) = l
  BY <1>2, <1>3
<1>5. QED
  BY <1>1, <1>3, <1>4

LEMMA LengthsCopy == Copies(LengthDecoders)
<1>1. PICK D : D = LengthDecoders
  OBVIOUS
<1>2. ASSUME NEW batch \in Batches(D) PROVE Take(batch) \in Batches(D)
  <2>1. PICK d, values : /\ d = batch.decoder /\ values = batch.values
                         /\ d \in D /\ values \in Seq(Seq(Nat))
                         /\ batch.threw \in BOOLEAN
    BY DEF Batches
  <2>2. PICK rest \in Seq(Nat), i \in Nat, lens \in Seq(Nat) :
          rest = d.rest /\ i = d.idx /\ lens = d.lengths /\ i <= Len(lens)
    BY <1>1, <2>1 DEF LengthDecoders
  <2>3. Take(batch) = TakeLength(batch)
    BY <1>1, <2>1 DEF Take, LengthDecoders
  <2>4. CASE TakeLength(batch) = batch
    BY <2>3, <2>4
  <2>5. CASE TakeLength(batch) = Threw(d)
    <3>1. <<>> \in Seq(Seq(Nat))
      BY EmptySeq
    <3>2. QED
      BY <2>1, <2>3, <2>5, <3>1 DEF Threw, Batches
  <2>6. CASE /\ i # Len(lens) /\ ~(lens[i + 1] > Len(rest))
             /\ TakeLength(batch) =
                   Batch([d EXCEPT !.rest = Skipped(rest, lens[i + 1]),
                                   !.idx = i + 1],
                         Append(values, SubSeq(rest, 1, lens[i + 1])))
    <3>1. PICK l \in Nat, k \in Nat : l = Len(rest) /\ k = Len(lens)
      BY LenProperties
    <3>2. i + 1 \in 1..k /\ i + 1 <= k /\ i + 1 \in Nat
      BY <2>2, <2>6, <3>1
    <3>3. PICK n \in Nat : n = lens[i + 1]
      <4>1. lens[i + 1] \in Nat
        BY <3>1, <3>2, ElementOfSeq
      <4>2. QED
        BY <4>1
    <3>4. n \in 0..l
      BY <2>6, <3>1, <3>3
    <3>5. Skipped(rest, n) \in Seq(Nat) /\ SubSeq(rest, 1, n) \in Seq(Nat)
      BY <3>1, <3>4, SkipFacts, FrontFacts
    <3>6. Append(values, SubSeq(rest, 1, n)) \in Seq(Seq(Nat))
      BY <2>1, <3>5, AppendProperties
    <3>7. [d EXCEPT !.rest = Skipped(rest, n), !.idx = i + 1] \in D
      BY <1>1, <2>1, <2>2, <3>1, <3>2, <3>5 DEF LengthDecoders
    <3>8. QED
      BY <2>3, <2>6, <3>3, <3>6, <3>7 DEF Batches, Batch
  <2>7. TakeLength(batch) =
           IF batch.threw \/ i = Len(lens) THEN batch
           ELSE IF lens[i + 1] > Len(rest) THEN Threw(d)
           ELSE Batch([d EXCEPT !.rest = Skipped(rest, lens[i + 1]),
                                !.idx = i + 1],
                      Append(values, SubSeq(rest, 1, lens[i + 1])))
    BY <2>1, <2>2 DEF TakeLength
  <2>8. QED
    BY <2>4, <2>5, <2>6, <2>7, Zenon
<1>3. QED
  BY <1>1, <1>2 DEF Copies, Copied, LengthDecoders

LEMMA LengthsTaken ==
    ASSUME NEW content \in Seq(Seq(Nat)), NEW whole
    PROVE  TakesOne(AtLengths(content, whole), content, whole)
<1>1. PICK l \in Nat : l = Len(content)
  BY LenProperties
<1>2. PICK at : at = AtLengths(content, whole)
  OBVIOUS
<1>3. PICK lens \in Seq(Nat) : /\ lens = Lengths(content) /\ Len(lens) = l
                               /\ \A i \in 1..l : lens[i] = Len(content[i])
  BY <1>1, LengthsFacts
<1>4. ASSUME NEW k \in 0..l, NEW d \in at[k], NEW values \in Seq(Seq(Nat))
      PROVE  OneTaken(Take(Batch(d, values)), d, values, at, content, whole, k)
  <2>1. /\ d \in LengthDecoders /\ d.idx = k /\ d.lengths = lens
        /\ Part(whole, d.rest, FlattenSeq(Skipped(content, k)))
    BY <1>1, <1>2, <1>3, <1>4 DEF AtLengths
  <2>2. PICK rest \in Seq(Nat) : rest = d.rest
    BY <2>1 DEF LengthDecoders
  <2>3. PICK b : b = Take(Batch(d, values))
    OBVIOUS
  <2>4. b = IF k = l THEN Batch(d, values)
            ELSE IF lens[k + 1] > Len(rest) THEN Threw(d)
            ELSE Batch([d EXCEPT !.rest = Skipped(rest, lens[k + 1]),
                                 !.idx = k + 1],
                       Append(values, SubSeq(rest, 1, lens[k + 1])))
    BY <1>3, <2>1, <2>2, <2>3 DEF Take, TakeLength, LengthDecoders, Batch
  <2>5. IF k = Len(content) THEN rest = <<>>
        ELSE TakesPart(whole, rest, content[k + 1],
                       FlattenSeq(Skipped(content, k + 1)))
    BY <1>1, <2>1, <2>2, CodesAhead
  <2>6. CASE k = l
    <3>1. b = Batch(d, values)
      BY <2>4, <2>6
    <3>2. QED
      BY <1>1, <2>3, <2>6, <3>1 DEF OneTaken
  <2>7. CASE k # l
    <3>1. /\ k + 1 \in 1..l /\ k + 1 \in 0..l /\ k < l /\ k + 1 \in Nat
          /\ k + 1 <= l
      BY <1>1, <2>7
    <3>2. PICK n \in Nat : n = lens[k + 1] /\ n = Len(content[k + 1])
      <4>1. lens[k + 1] \in Nat
        BY <1>3, <3>1, ElementOfSeq
      <4>2. QED
        BY <1>3, <3>1, <4>1
    <3>3. IF Len(rest) >= n
          THEN /\ SubSeq(rest, 1, n) = content[k + 1]
               /\ Part(whole, Skipped(rest, n), FlattenSeq(Skipped(content, k + 1)))
               /\ Skipped(rest, n) \in Seq(Nat)
          ELSE ~whole
      BY <1>1, <2>5, <2>7, <3>2 DEF TakesPart
    <3>4. Len(rest) \in Nat
      BY LenProperties
    <3>5. CASE n > Len(rest)
      <4>1. ~whole
        BY <3>3, <3>4, <3>5
      <4>2. QED
        BY <2>3, <2>4, <2>7, <3>2, <3>5, <4>1 DEF OneTaken
    <3>6. CASE ~(n > Len(rest))
      <4>1. Len(rest) >= n
        BY <3>4, <3>6
      <4>2. PICK e : e = [d EXCEPT !.rest = Skipped(rest, n), !.idx = k + 1]
        OBVIOUS
      <4>3. /\ e \in LengthDecoders /\ e.rest = Skipped(rest, n)
            /\ e.idx = k + 1 /\ e.lengths = lens
        BY <1>3, <2>1, <3>1, <3>3, <4>1, <4>2 DEF LengthDecoders
      <4>4. e \in at[k + 1]
        BY <1>1, <1>2, <1>3, <3>1, <3>3, <4>1, <4>3 DEF AtLengths
      <4>5. b = Batch(e, Append(values, content[k + 1]))
        BY <2>4, <2>7, <3>2, <3>3, <3>6, <4>1, <4>2
      <4>6. QED
        BY <1>1, <2>3, <3>1, <4>4, <4>5 DEF OneTaken
    <3>7. QED
      BY <3>5, <3>6
  <2>8. QED
    BY <2>6, <2>7
<1>5. QED
  BY <1>1, <1>2, <1>4 DEF TakesOne

(* A batch from a decoder whose lengths are right.                         *)
LEMMA LengthsGive ==
    ASSUME NEW content \in Seq(Seq(Nat)), NEW whole, NEW k \in 0..Len(content),
           NEW d \in AtLengths(content, whole)[k], NEW n \in Nat
    PROVE  Gives(Times(d, n), AtLengths(content, whole), content, whole, k, n)
<1>1. PICK D, at : D = LengthDecoders /\ at = AtLengths(content, whole)
  OBVIOUS
<1>2. at \in [0..Len(content) -> SUBSET D]
  BY <1>1 DEF AtLengths
<1>3. Copies(D) /\ TakesOne(at, content, whole)
  BY <1>1, LengthsCopy, LengthsTaken
<1>4. QED
  BY <1>1, <1>2, <1>3, TimesGive

-----------------------------------------------------------------------------
(* Pages of prefixes and suffixes.                                         *)
PrefixDecoders ==
    {d \in [coding : {"DELTA_BYTE_ARRAY"}, lengths : Seq(Nat),
            suffixes : Seq(Seq(Nat)), last : Seq(Nat)] :
        Len(d.suffixes) <= Len(d.lengths)}

LEMMA PrefixCopy == Copies(PrefixDecoders)
<1>1. PICK D : D = PrefixDecoders
  OBVIOUS
<1>2. ASSUME NEW batch \in Batches(D) PROVE Take(batch) \in Batches(D)
  <2>1. PICK d, values : /\ d = batch.decoder /\ values = batch.values
                         /\ d \in D /\ values \in Seq(Seq(Nat))
                         /\ batch.threw \in BOOLEAN
    BY DEF Batches
  <2>2. PICK last \in Seq(Nat), lens \in Seq(Nat), sufs \in Seq(Seq(Nat)) :
          /\ last = d.last /\ lens = d.lengths /\ sufs = d.suffixes
          /\ Len(sufs) <= Len(lens)
    BY <1>1, <2>1 DEF PrefixDecoders
  <2>3. Take(batch) = TakePrefix(batch)
    BY <1>1, <2>1 DEF Take, PrefixDecoders
  <2>4. PICK i \in Nat : i = Len(values) + 1 /\ i >= 1
    BY <2>1, LenProperties
  <2>5. PICK v : v = SubSeq(last, 1, lens[i]) \o sufs[i]
    OBVIOUS
  <2>6. TakePrefix(batch) =
           IF batch.threw \/ i > Len(sufs) THEN batch
           ELSE IF lens[i] > Len(last) THEN Threw(d)
           ELSE Batch([d EXCEPT !.last = v], Append(values, v))
    BY <2>1, <2>2, <2>4, <2>5 DEF TakePrefix
  <2>7. CASE TakePrefix(batch) = batch
    BY <2>3, <2>7
  <2>8. CASE TakePrefix(batch) = Threw(d)
    <3>1. <<>> \in Seq(Seq(Nat))
      BY EmptySeq
    <3>2. QED
      BY <2>1, <2>3, <2>8, <3>1 DEF Threw, Batches
  <2>9. CASE /\ ~(i > Len(sufs)) /\ ~(lens[i] > Len(last))
             /\ TakePrefix(batch) =
                   Batch([d EXCEPT !.last = v], Append(values, v))
    <3>1. PICK a \in Nat, b \in Nat, c \in Nat :
            a = Len(sufs) /\ b = Len(lens) /\ c = Len(last)
      BY <2>2, LenProperties
    <3>2. i \in 1..a /\ i \in 1..b
      BY <2>2, <2>4, <2>9, <3>1
    <3>3. sufs[i] \in Seq(Nat) /\ lens[i] \in Nat
      BY <2>2, <3>1, <3>2, ElementOfSeq
    <3>4. lens[i] \in 0..c
      BY <2>9, <3>1, <3>3
    <3>5. SubSeq(last, 1, lens[i]) \in Seq(Nat)
      BY <3>1, <3>4, FrontFacts
    <3>6. v \in Seq(Nat)
      BY <2>5, <3>3, <3>5, ConcatProperties
    <3>7. Append(values, v) \in Seq(Seq(Nat))
      BY <2>1, <3>6, AppendProperties
    <3>8. [d EXCEPT !.last = v] \in D
      BY <1>1, <2>1, <3>6 DEF PrefixDecoders
    <3>9. QED
      BY <2>3, <2>9, <3>7, <3>8 DEF Batches, Batch
  <2>10. QED
    BY <2>6, <2>7, <2>8, <2>9, Zenon
<1>3. QED
  BY <1>1, <1>2 DEF Copies, Copied, PrefixDecoders

-----------------------------------------------------------------------------
(* Values that all have the same size.                                     *)
SameSize(content, size) == \A i \in 1..Len(content) : Len(content[i]) = size

IsFlat(f, content, size) ==
    /\ Len(f) = size * Len(content)
    /\ \A b \in 1..Len(content) : \A j \in 1..size :
          /\ size * (b - 1) + j \in 1..Len(f)
          /\ f[size * (b - 1) + j] = content[b][j]

LEMMA FlatSize ==
    ASSUME NEW content \in Seq(Seq(Nat)), NEW size \in Nat,
           SameSize(content, size)
    PROVE  IsFlat(FlattenSeq(content), content, size)
<1>1. PICK l \in Nat : l = Len(content)
  BY LenProperties
<1>2. CASE l = 0
  <2>1. content = <<>>
    BY <1>1, <1>2, EmptySeq
  <2>2. Len(FlattenSeq(content)) = 0
    BY <2>1, FlattenNone, EmptySeq
  <2>3. size * 0 = 0 /\ 1..0 = {}
    OBVIOUS
  <2>4. QED
    BY <1>1, <1>2, <2>2, <2>3 DEF IsFlat
<1>3. CASE l > 0
  <2>1. PICK used, f : used = 1..l /\ f = FlattenSeq(content)
    OBVIOUS
  <2>2. \A b \in 1..Len(content) : IF b \in used THEN Len(content[b]) = size
                                                 ELSE content[b] = <<>>
    BY <1>1, <2>1 DEF SameSize
  <2>3. HasParts(f, content, size, used)
    BY <1>1, <1>3, <2>1, <2>2, FlattenMinis
  <2>4. ASSUME NEW b \in 1..(l + 1) PROVE Before(used, b) = b - 1
    <3>1. {c \in 1..(b - 1) : c \in used} = 1..(b - 1)
      BY <2>1
    <3>2. 1 \in Int /\ b - 1 \in Int /\ b - 1 >= 0
      OBVIOUS
    <3>3. Cardinality(1..(b - 1)) = IF 1 > b - 1 THEN 0 ELSE (b - 1) - 1 + 1
      BY <3>2, FS_Interval
    <3>4. Cardinality(1..(b - 1)) = b - 1
      BY <3>2, <3>3
    <3>5. QED
      BY <3>1, <3>4 DEF Before
  <2>5. l + 1 \in 1..(l + 1) /\ (l + 1) - 1 = l
    OBVIOUS
  <2>6. Len(f) = size * l
    BY <1>1, <2>3, <2>4, <2>5 DEF HasParts
  <2>7. ASSUME NEW b \in 1..l, NEW j \in 1..size
        PROVE  /\ size * (b - 1) + j \in 1..Len(f)
               /\ f[size * (b - 1) + j] = content[b][j]
    <3>1. b \in 1..(l + 1) /\ b \in 1..Len(content) /\ b \in used
      BY <1>1, <2>1
    <3>2. Before(used, b) = b - 1
      BY <2>4, <3>1
    <3>3. /\ size * Before(used, b) + j \in 1..Len(f)
          /\ f[size * Before(used, b) + j] = content[b][j]
      BY <2>3, <3>1 DEF HasParts
    <3>4. QED
      BY <3>2, <3>3
  <2>8. QED
    BY <1>1, <2>1, <2>6, <2>7 DEF IsFlat
<1>4. QED
  BY <1>1, <1>2, <1>3

AtAsIs(coding, size, nums, total) ==
    [k \in 0..total |->
        {d \in PlainDecoders(coding) :
            /\ d.size = size /\ k * size <= Len(nums)
            /\ d.rest = Skipped(nums, k * size)}]

LEMMA DivFacts ==
    ASSUME NEW a \in Nat, NEW s \in Nat, s >= 1
    PROVE  /\ a \div s \in Nat /\ (a \div s) * s <= a
           /\ a < (a \div s) * s + s
<1>1. PICK q \in Int, r \in 0..(s - 1) : a = s * q + r /\ q = a \div s
  <2>1. a \in Int
    OBVIOUS
  <2>2. QED
    BY <2>1, DivideBy
<1>2. q >= 0
  <2>1. CASE q <= -1
    <3>1. s * q <= s * (-1)
      BY <2>1
    <3>2. QED
      BY <1>1, <3>1
  <2>2. QED
    BY <2>1
<1>3. q * s = s * q /\ s * q \in Int
  OBVIOUS
<1>4. QED
  BY <1>1, <1>2, <1>3

LEMMA FewerFacts ==
    ASSUME NEW a \in Int, NEW b \in Int
    PROVE  /\ Fewer(a, b) \in {a, b} /\ Fewer(a, b) <= a /\ Fewer(a, b) <= b
BY DEF Fewer

(* What a batch takes of the numbers ahead.                                *)
AsIsTaken(rest, s, n, m, values) ==
    /\ m = Fewer(Len(rest) \div s, n) /\ m * s <= Len(rest)
    /\ m * s \in Nat /\ Skipped(rest, m * s) \in Seq(Nat)
    /\ m = n \/ Len(rest) < m * s + s
    /\ values = [i \in 1..m |-> SubSeq(rest, (i - 1) * s + 1, i * s)]
    /\ Len(values) = m
    /\ \A i \in 1..m :
          /\ values[i] \in Seq(Nat) /\ Len(values[i]) = s
          /\ \A j \in 1..s : /\ (i - 1) * s + j <= Len(rest)
                             /\ values[i][j] = rest[(i - 1) * s + j]

LEMMA SeqIs ==
    ASSUME NEW E, NEW m \in Nat, NEW f \in [1..m -> E]
    PROVE  f \in Seq(E) /\ Len(f) = m
OBVIOUS

LEMMA AsIsTakes ==
    ASSUME NEW rest \in Seq(Nat), NEW s \in Nat, s >= 1, NEW n \in Nat
    PROVE  \E m \in 0..n : \E values \in Seq(Seq(Nat)) :
              AsIsTaken(rest, s, n, m, values)
<1>1. PICK r \in Nat : r = Len(rest)
  BY LenProperties
<1>2. PICK q \in Nat : q = r \div s /\ q * s <= r /\ r < q * s + s
  <2>1. r \div s \in Nat /\ (r \div s) * s <= r /\ r < (r \div s) * s + s
    BY DivFacts
  <2>2. QED
    BY <2>1
<1>3. PICK m \in 0..n : m = Fewer(q, n) /\ m <= q /\ (m = n \/ m = q)
  <2>1. Fewer(q, n) \in {q, n} /\ Fewer(q, n) <= q /\ Fewer(q, n) <= n
    BY FewerFacts
  <2>2. QED
    BY <2>1
<1>4. m * s <= r /\ m * s \in Nat
  <2>1. m \in Nat /\ m * s <= q * s /\ m * s \in Nat
    BY <1>3
  <2>2. PICK x \in Nat, y \in Nat : x = m * s /\ y = q * s
    BY <2>1
  <2>3. x <= r
    BY <1>2, <2>1, <2>2
  <2>4. QED
    BY <2>1, <2>2, <2>3
<1>5. Skipped(rest, m * s) \in Seq(Nat)
  <2>1. m * s \in 0..Len(rest)
    BY <1>1, <1>4
  <2>2. QED
    BY <2>1, SkipFacts
<1>6. m = n \/ r < m * s + s
  BY <1>2, <1>3
<1>7. ASSUME NEW i \in 1..m
      PROVE  /\ (i - 1) * s \in Nat /\ i * s = (i - 1) * s + s
             /\ i * s <= r
             /\ SubSeq(rest, (i - 1) * s + 1, i * s) \in Seq(Nat)
             /\ Len(SubSeq(rest, (i - 1) * s + 1, i * s)) = s
             /\ \A j \in 1..s :
                   /\ (i - 1) * s + j <= r
                   /\ SubSeq(rest, (i - 1) * s + 1, i * s)[j] =
                         rest[(i - 1) * s + j]
  <2>1. PICK x \in Nat, y \in Nat : x = (i - 1) * s /\ y = i * s /\ y = x + s
    <3>1. i - 1 \in Nat /\ i \in Nat
      OBVIOUS
    <3>2. (i - 1) * s \in Nat /\ i * s \in Nat /\ i * s = (i - 1) * s + s
      BY <3>1
    <3>3. QED
      BY <3>2
  <2>2. y <= r
    <3>1. i \in Nat /\ i <= m /\ m \in Nat
      OBVIOUS
    <3>2. i * s <= m * s
      BY <3>1
    <3>3. QED
      BY <1>4, <2>1, <3>2
  <2>3. PICK a \in Nat : a = x + 1 /\ a >= 1
    OBVIOUS
  <2>4. PICK t : a = x + 1 /\ a >= 1 /\ t = SubSeq(rest, a, y)
    BY <2>3
  <2>5. \A j \in a..y : rest[j] \in Nat
    <3>1. \A j \in 1..r : rest[j] \in Nat
      BY <1>1, ElementOfSeq
    <3>2. QED
      BY <2>2, <2>4, <3>1
  <2>6. /\ t \in Seq(Nat)
        /\ (IF a <= y + 1 THEN Len(t) = y - a + 1 ELSE Len(t) = 0)
        /\ \A j \in 1..(y - a + 1) : t[j] = rest[a + j - 1]
    BY <2>4, <2>5, SubSeqProperties
  <2>7. Len(t) = s
    BY <2>1, <2>4, <2>6
  <2>8. ASSUME NEW j \in 1..s PROVE x + j <= r /\ t[j] = rest[x + j]
    <3>1. j \in 1..(y - a + 1) /\ a + j - 1 = x + j /\ x + j <= r
      BY <2>1, <2>2, <2>4
    <3>2. QED
      BY <2>6, <3>1
  <2>9. QED
    BY <2>1, <2>2, <2>4, <2>6, <2>7, <2>8
<1>8. PICK f : f = [i \in 1..m |-> SubSeq(rest, (i - 1) * s + 1, i * s)]
  OBVIOUS
<1>9. f \in [1..m -> Seq(Nat)]
  BY <1>7, <1>8, Zenon
<1>10. \A i \in 1..m : f[i] = SubSeq(rest, (i - 1) * s + 1, i * s)
  BY <1>8, Zenon
<1>11. f \in Seq(Seq(Nat)) /\ Len(f) = m
  <2>1. PICK E : E = Seq(Nat)
    OBVIOUS
  <2>2. m \in Nat /\ f \in [1..m -> E]
    BY <1>9, <2>1
  <2>3. f \in Seq(E) /\ Len(f) = m
    BY <2>2, SeqIs
  <2>4. QED
    BY <2>1, <2>3
<1>12. ASSUME NEW i \in 1..m
       PROVE  /\ f[i] \in Seq(Nat) /\ Len(f[i]) = s
              /\ \A j \in 1..s : /\ (i - 1) * s + j <= r
                                 /\ f[i][j] = rest[(i - 1) * s + j]
  BY <1>7, <1>10, Zenon
<1>13. AsIsTaken(rest, s, n, m, f)
  <2>1. m = Fewer(Len(rest) \div s, n)
    BY <1>1, <1>2, <1>3
  <2>2. QED
    BY <1>1, <1>4, <1>5, <1>6, <1>8, <1>11, <1>12, <2>1, Zenon DEF AsIsTaken
<1>14. QED
  BY <1>3, <1>11, <1>13

(* What read_batch leaves of a decoder, and what it gives.                 *)
LEMMA AsIsType ==
    ASSUME NEW coding, NEW d \in PlainDecoders(coding), NEW n \in Nat
    PROVE  ReadAsIs(d, n) \in Batches(PlainDecoders(coding))
<1>1. PICK rest \in Seq(Nat), s \in Nat : rest = d.rest /\ s = d.size /\ s >= 1
  BY DEF PlainDecoders
<1>2. PICK m \in 0..n : \E values \in Seq(Seq(Nat)) :
                           AsIsTaken(rest, s, n, m, values)
  BY <1>1, AsIsTakes
<1>3. PICK values \in Seq(Seq(Nat)) : AsIsTaken(rest, s, n, m, values)
  BY <1>2
<1>4. /\ m = Fewer(Len(rest) \div s, n) /\ Skipped(rest, m * s) \in Seq(Nat)
      /\ values = [i \in 1..m |-> SubSeq(rest, (i - 1) * s + 1, i * s)]
  BY <1>3 DEF AsIsTaken
<1>5. PICK e : e = [d EXCEPT !.rest = Skipped(rest, m * s)]
  OBVIOUS
<1>6. e \in PlainDecoders(coding)
  BY <1>4, <1>5 DEF PlainDecoders
<1>7. ReadAsIs(d, n) = Batch(e, values)
  BY <1>1, <1>4, <1>5, Zenon DEF ReadAsIs
<1>8. QED
  BY <1>6, <1>7 DEF Batches, Batch

(* The values of one size that are in what is left of the numbers.         *)
IsAhead(nums, content, s, whole, k, rest) ==
    /\ rest \in Seq(Nat) /\ k * s \in Nat
    /\ Len(rest) = Len(nums) - k * s
    /\ \A m \in Nat : m * s <= Len(rest) =>
          /\ k + m <= Len(content) /\ (k + m) * s <= Len(nums)
          /\ Skipped(rest, m * s) = Skipped(nums, (k + m) * s)
          /\ whole /\ Len(rest) < m * s + s => k + m = Len(content)
    /\ \A i \in 1..(Len(content) - k) : \A j \in 1..s :
          (i - 1) * s + j <= Len(rest) =>
             rest[(i - 1) * s + j] = content[k + i][j]

LEMMA ValuesAhead ==
    ASSUME NEW nums \in Seq(Nat), NEW content \in Seq(Seq(Nat)),
           NEW s \in Nat, s >= 1, SameSize(content, s), NEW whole,
           Part(whole, nums, FlattenSeq(content)),
           NEW k \in 0..Len(content), k * s <= Len(nums),
           NEW rest, rest = Skipped(nums, k * s)
    PROVE  IsAhead(nums, content, s, whole, k, rest)
<1>1. PICK l \in Nat, a \in Nat, x \in Nat :
        /\ l = Len(content) /\ a = Len(nums) /\ x = k * s /\ x <= a
  <2>1. Len(content) \in Nat /\ Len(nums) \in Nat
    BY LenProperties
  <2>2. k * s \in Nat
    OBVIOUS
  <2>3. QED
    BY <2>1, <2>2
<1>2. PICK f \in Seq(Nat) : f = FlattenSeq(content)
  BY FlattenType
<1>3. /\ Len(f) = s * l
      /\ \A b \in 1..l : \A j \in 1..s :
            s * (b - 1) + j \in 1..Len(f) /\ f[s * (b - 1) + j] = content[b][j]
  BY <1>1, <1>2, FlatSize DEF IsFlat
<1>4. /\ a <= s * l /\ (\A i \in 1..a : nums[i] = f[i])
      /\ whole => a = s * l
  <2>1. PartIs(whole, nums, f)
    BY <1>2, PartMeans
  <2>2. QED
    BY <1>1, <1>3, <2>1 DEF PartIs
<1>5. /\ rest \in Seq(Nat) /\ Len(rest) = a - x
      /\ \A i \in 1..(a - x) : rest[i] = nums[x + i]
  <2>1. x \in 0..Len(nums)
    BY <1>1
  <2>2. QED
    BY <1>1, <2>1, SkipFacts
<1>6. ASSUME NEW m \in Nat, m * s <= a - x
      PROVE  /\ k + m <= l /\ (k + m) * s <= a
             /\ Skipped(rest, m * s) = Skipped(nums, (k + m) * s)
             /\ whole /\ a - x < m * s + s => k + m = l
  <2>1. PICK y \in Nat : y = m * s
    OBVIOUS
  <2>2. (k + m) * s = x + y /\ x + y <= a
    <3>1. (k + m) * s = k * s + m * s
      OBVIOUS
    <3>2. QED
      BY <1>1, <1>6, <2>1, <3>1
  <2>3. k + m <= l
    <3>1. CASE k + m >= l + 1
      <4>1. PICK g \in Nat : g = k + m
        OBVIOUS
      <4>2. g * s >= (l + 1) * s /\ (l + 1) * s = s * l + s /\ s * l \in Nat
        <5>1. g >= l + 1
          BY <3>1, <4>1
        <5>2. g * s >= (l + 1) * s
          BY <5>1
        <5>3. (l + 1) * s = s * l + s /\ s * l \in Nat
          OBVIOUS
        <5>4. QED
          BY <5>2, <5>3
      <4>3. g * s = x + y
        BY <2>2, <4>1
      <4>4. PICK z \in Nat : z = s * l
        BY <4>2
      <4>5. a <= z
        BY <1>4, <4>4
      <4>6. g * s >= z + s
        BY <4>2, <4>4
      <4>7. x + y >= z + s /\ x + y <= z
        BY <2>2, <4>3, <4>5, <4>6
      <4>8. QED
        BY <4>7
    <3>2. QED
      BY <1>1, <3>1
  <2>4. Skipped(rest, y) = Skipped(nums, x + y)
    <3>1. x + y <= Len(nums)
      BY <1>1, <2>2
    <3>2. Skipped(Skipped(nums, x), y) = Skipped(nums, x + y)
      BY <3>1, SkipSkip
    <3>3. QED
      BY <1>1, <3>2
  <2>5. ASSUME whole, a - x < y + s PROVE k + m = l
    <3>1. PICK g \in Nat : g = k + m /\ g <= l /\ g * s = x + y
      BY <2>2, <2>3
    <3>2. CASE g + 1 <= l
      <4>1. (g + 1) * s <= l * s /\ (g + 1) * s = g * s + s /\ l * s = s * l
            /\ s * l \in Nat
        <5>1. (g + 1) * s <= l * s
          BY <3>2
        <5>2. (g + 1) * s = g * s + s /\ l * s = s * l /\ s * l \in Nat
          OBVIOUS
        <5>3. QED
          BY <5>1, <5>2
      <4>2. PICK z \in Nat : z = s * l /\ z = a
        BY <1>4, <2>5, <4>1
      <4>3. x + y + s <= z
        BY <3>1, <4>1, <4>2
      <4>4. QED
        BY <2>5, <4>2, <4>3
    <3>3. QED
      BY <3>1, <3>2
  <2>6. QED
    BY <2>1, <2>2, <2>3, <2>4, <2>5
<1>7. ASSUME NEW i \in 1..(l - k), NEW j \in 1..s, (i - 1) * s + j <= a - x
      PROVE  rest[(i - 1) * s + j] = content[k + i][j]
  <2>1. PICK y \in Nat : y = (i - 1) * s
    <3>1. i - 1 \in Nat
      OBVIOUS
    <3>2. (i - 1) * s \in Nat
      BY <3>1
    <3>3. QED
      BY <3>2
  <2>2. y + j <= a - x
    BY <1>7, <2>1
  <2>3. PICK h \in Nat : h = y + j /\ h >= 1
    OBVIOUS
  <2>4. h \in 1..(a - x) /\ x + h \in 1..a
    BY <2>2, <2>3
  <2>5. y + j \in 1..(a - x) /\ x + (y + j) \in 1..a
    BY <2>3, <2>4, Zenon
  <2>6. PICK b \in 1..l : b = k + i
    BY <1>1
  <2>7. s * (b - 1) = x + y
    <3>1. b - 1 = k + (i - 1)
      BY <2>6
    <3>2. s * (k + (i - 1)) = k * s + (i - 1) * s
      OBVIOUS
    <3>3. QED
      BY <1>1, <2>1, <3>1, <3>2
  <2>8. f[s * (b - 1) + j] = content[b][j]
    BY <1>3
  <2>9. s * (b - 1) + j = x + (y + j)
    BY <2>7
  <2>10. rest[y + j] = nums[x + (y + j)] /\ nums[x + (y + j)] = f[x + (y + j)]
    BY <1>4, <1>5, <2>5
  <2>11. QED
    BY <2>1, <2>6, <2>8, <2>9, <2>10
<1>8. Len(rest) = Len(nums) - k * s /\ k * s \in Nat
  BY <1>1, <1>5
<1>9. \A i \in 1..(Len(content) - k) : \A j \in 1..s :
         (i - 1) * s + j <= Len(rest) =>
            rest[(i - 1) * s + j] = content[k + i][j]
  BY <1>1, <1>5, <1>7, Zenon
<1>10. \A m \in Nat : m * s <= Len(rest) =>
          /\ k + m <= Len(content) /\ (k + m) * s <= Len(nums)
          /\ Skipped(rest, m * s) = Skipped(nums, (k + m) * s)
          /\ whole /\ Len(rest) < m * s + s => k + m = Len(content)
  BY <1>1, <1>5, <1>6, Zenon
<1>11. QED
  BY <1>5, <1>8, <1>9, <1>10, Zenon DEF IsAhead

LEMMA AsIsGives ==
    ASSUME NEW coding, NEW nums \in Seq(Nat), NEW content \in Seq(Seq(Nat)),
           NEW s \in Nat, s >= 1, SameSize(content, s), NEW whole,
           Part(whole, nums, FlattenSeq(content)),
           NEW k \in 0..Len(content),
           NEW d \in AtAsIs(coding, s, nums, Len(content))[k], NEW n \in Nat
    PROVE  Gives(ReadAsIs(d, n), AtAsIs(coding, s, nums, Len(content)),
                 content, whole, k, n)
<1>1. PICK l \in Nat : l = Len(content)
  BY LenProperties
<1>2. PICK at : at = AtAsIs(coding, s, nums, l)
  OBVIOUS
<1>3. /\ d \in PlainDecoders(coding) /\ d.size = s /\ k * s <= Len(nums)
      /\ d.rest = Skipped(nums, k * s)
  BY <1>1 DEF AtAsIs
<1>4. PICK rest \in Seq(Nat) : rest = d.rest /\ rest = Skipped(nums, k * s)
  BY <1>3 DEF PlainDecoders
<1>5. PICK m \in 0..n : \E values \in Seq(Seq(Nat)) :
                           AsIsTaken(rest, s, n, m, values)
  BY AsIsTakes
<1>6. PICK values \in Seq(Seq(Nat)) : AsIsTaken(rest, s, n, m, values)
  BY <1>5
<1>7. IsAhead(nums, content, s, whole, k, rest)
  BY <1>3, <1>4, ValuesAhead
<1>8. /\ m = Fewer(Len(rest) \div s, n) /\ m * s <= Len(rest)
      /\ Skipped(rest, m * s) \in Seq(Nat)
      /\ m = n \/ Len(rest) < m * s + s
      /\ values = [i \in 1..m |-> SubSeq(rest, (i - 1) * s + 1, i * s)]
      /\ Len(values) = m
  BY <1>6 DEF AsIsTaken
<1>9. /\ m \in Nat /\ k + m <= l /\ (k + m) * s <= Len(nums)
      /\ Skipped(rest, m * s) = Skipped(nums, (k + m) * s)
      /\ whole /\ Len(rest) < m * s + s => k + m = l
  <2>1. m \in Nat
    OBVIOUS
  <2>2. QED
    BY <1>1, <1>7, <1>8, <2>1, Zenon DEF IsAhead
<1>10. PICK e : e = [d EXCEPT !.rest = Skipped(rest, m * s)]
  OBVIOUS
<1>11. ReadAsIs(d, n) = Batch(e, values)
  BY <1>3, <1>4, <1>10, <1>8, Zenon DEF ReadAsIs
<1>12. e \in at[k + m]
  <2>1. k + m \in 0..l
    BY <1>9
  <2>2. e \in PlainDecoders(coding) /\ e.size = s /\ e.rest = Skipped(rest, m * s)
    BY <1>3, <1>10, <1>8 DEF PlainDecoders
  <2>3. QED
    BY <1>2, <1>9, <2>1, <2>2 DEF AtAsIs
<1>13. values = SubSeq(content, k + 1, k + m)
  <2>1. values \in Seq(Seq(Nat)) /\ Len(values) = m
    BY <1>8
  <2>2. PICK t, a, b : t = SubSeq(content, a, b) /\ a = k + 1 /\ b = k + m
    OBVIOUS
  <2>3. a \in Nat /\ b \in Nat /\ a >= 1 /\ b <= l /\ k \in Nat
    BY <1>1, <1>9, <2>2
  <2>4. \A i \in a..b : content[i] \in Seq(Nat)
    <3>1. \A i \in 1..l : content[i] \in Seq(Nat)
      BY <1>1, ElementOfSeq
    <3>2. QED
      BY <2>3, <3>1
  <2>5. /\ t \in Seq(Seq(Nat))
        /\ (IF a <= b + 1 THEN Len(t) = b - a + 1 ELSE Len(t) = 0)
        /\ \A i \in 1..(b - a + 1) : t[i] = content[a + i - 1]
    BY <2>2, <2>3, <2>4, SubSeqProperties
  <2>6. Len(t) = m
    BY <1>9, <2>2, <2>3, <2>5
  <2>7. ASSUME NEW i \in 1..m PROVE values[i] = t[i]
    <3>1. i \in 1..(b - a + 1) /\ a + i - 1 = k + i /\ i \in 1..(l - k)
          /\ k + i \in 1..l
      BY <1>9, <2>2, <2>3
    <3>2. PICK c \in Seq(Nat) : c = content[k + i] /\ c = t[i] /\ Len(c) = s
      <4>1. content[k + i] \in Seq(Nat)
        BY <1>1, <3>1, ElementOfSeq
      <4>2. Len(content[k + i]) = s
        BY <1>1, <3>1 DEF SameSize
      <4>3. t[i] = content[k + i]
        BY <2>5, <3>1
      <4>4. QED
        BY <4>1, <4>2, <4>3
    <3>3. PICK v \in Seq(Nat) :
            /\ v = values[i] /\ Len(v) = s
            /\ \A j \in 1..s : /\ (i - 1) * s + j <= Len(rest)
                               /\ v[j] = rest[(i - 1) * s + j]
      BY <1>6, Zenon DEF AsIsTaken
    <3>4. ASSUME NEW j \in 1..s PROVE v[j] = c[j]
      <4>1. (i - 1) * s + j <= Len(rest) /\ v[j] = rest[(i - 1) * s + j]
        BY <3>3, Zenon
      <4>2. i \in 1..(Len(content) - k)
        BY <1>1, <3>1
      <4>3. rest[(i - 1) * s + j] = content[k + i][j]
        BY <1>7, <4>1, <4>2, Zenon DEF IsAhead
      <4>4. QED
        BY <3>2, <4>1, <4>3
    <3>5. v = c
      BY <3>2, <3>3, <3>4, SeqEqual
    <3>6. QED
      BY <3>2, <3>3, <3>5
  <2>8. values = t
    BY <2>1, <2>5, <2>6, <2>7, SeqEqual
  <2>9. QED
    BY <2>2, <2>8
<1>14. MoreGiven(ReadAsIs(d, n), at, content, whole, k, n, m)
  <2>1. whole => m = n \/ k + m = l
    BY <1>9, <1>8
  <2>2. QED
    BY <1>1, <1>9, <1>11, <1>12, <1>13, <2>1 DEF MoreGiven, Batch
<1>15. QED
  BY <1>1, <1>2, <1>14 DEF Gives

-----------------------------------------------------------------------------
(* Parts of the values.                                                    *)
LEMMA Shifted ==
    \A k, m \in Nat : \A i \in 1..m :
        (k + m) - (k + 1) + 1 = m /\ (k + 1) + i - 1 = k + i
OBVIOUS

(* A part of a sequence is the values that are behind its beginning.       *)
LEMMA PartEquals ==
    ASSUME NEW E, NEW s \in Seq(E), NEW k \in Nat, NEW m \in Nat,
           k + m <= Len(s), NEW v, DOMAIN v = 1..m, v = [i \in 1..m |-> v[i]],
           \A i \in 1..m : v[i] = s[k + i]
    PROVE  v = SubSeq(s, k + 1, k + m) /\ v \in Seq(E) /\ Len(v) = m
<1>1. PICK l \in Nat : l = Len(s) /\ \A i \in 1..l : s[i] \in E
  BY LenProperties, ElementOfSeq
<1>2. PICK a \in Nat, b \in Nat : a = k + 1 /\ b = k + m
  OBVIOUS
<1>3. PICK t : t = SubSeq(s, a, b)
  OBVIOUS
<1>4. \A i \in a..b : s[i] \in E
  BY <1>1, <1>2
<1>5. /\ t \in Seq(E) /\ (IF a <= b + 1 THEN Len(t) = b - a + 1 ELSE Len(t) = 0)
      /\ \A i \in 1..(b - a + 1) : t[i] = s[a + i - 1]
  BY <1>3, <1>4, SubSeqProperties
<1>6. Len(t) = m
  <2>1. a <= b + 1 /\ b - a + 1 = m
    BY <1>2
  <2>2. Len(t) = b - a + 1
    BY <1>5, <2>1, Zenon
  <2>3. QED
    BY <2>1, <2>2
<1>7. ASSUME NEW i \in 1..m PROVE v[i] = t[i] /\ v[i] \in E
  <2>1. l \in Nat /\ k + m <= l /\ k \in Nat /\ m \in Nat
    BY <1>1
  <2>2. i \in 1..(b - a + 1) /\ a + i - 1 = k + i /\ k + i \in 1..l
    <3>1. b - a + 1 = m /\ a + i - 1 = k + i
      BY <1>2, Shifted
    <3>2. k + i \in 1..l
      BY <2>1
    <3>3. QED
      BY <3>1, <3>2
  <2>3. t[i] = s[k + i]
    BY <1>5, <2>2
  <2>4. s[k + i] \in E
    BY <1>1, <2>2
  <2>5. QED
    BY <2>3, <2>4
<1>8. v \in [1..m -> E]
  BY <1>7, Zenon
<1>9. v \in Seq(E) /\ Len(v) = m
  BY <1>8, SeqIs
<1>10. v = t
  BY <1>5, <1>6, <1>7, <1>9, SeqEqual
<1>11. QED
  BY <1>2, <1>3, <1>9, <1>10

-----------------------------------------------------------------------------
(* Pages of runs.  S are the numbers that may be given: those of the page, *)
(* and what repeated runs have, or would have where a page is cut.         *)
OldValues(runs, S) ==
    0 \in S /\ \A j \in 1..Len(runs) : runs[j].literal \/ runs[j].value \in S

RunFacts(numbers, runs, S) ==
    /\ numbers \in Seq(Nat) /\ runs \in Seq(Run) /\ S \subseteq Nat
    /\ RunsFollow(runs, numbers)
    /\ \A i \in 1..Len(numbers) : numbers[i] \in S
    /\ RepeatsComplete(runs) \/ OldValues(runs, S)

(* The runs of a page that is whole are.                                   *)
RunsSound(runs, whole) ==
    /\ RepeatsComplete(runs)
    /\ whole => \A j \in 1..Len(runs) : Complete(runs[j])

RunRecords(coding, dict, numbers, runs) ==
    [coding : {coding}, dict : {dict}, numbers : {numbers}, runs : {runs},
     next : 1..(Len(runs) + 1), cur : Nat, rep : Nat, lit : Nat, have : Nat]

RunDecoders(coding, dict, numbers, runs, S) ==
    {d \in RunRecords(coding, dict, numbers, runs) :
        /\ d.have <= d.lit
        /\ d.cur \in S \/ (d.rep = 0 /\ RepeatsComplete(runs))
        /\ d.lit > 0 => d.next > 1 /\ d.lit <= runs[d.next - 1].count}

(* Where the run begins whose indicator is read next.                      *)
StartOf(numbers, runs, next) ==
    IF next <= Len(runs) THEN runs[next].from ELSE Len(numbers)

(* A decoder that has given the first k numbers.                           *)
RunsAt(d, k, whole) ==
    /\ StartOf(d.numbers, d.runs, d.next) = k + d.rep + d.lit
    /\ d.rep = 0 \/ d.lit = 0
    /\ \A i \in 1..d.rep : d.numbers[k + i] = d.cur
    /\ whole => d.have = d.lit

(* What rounds have given of a batch of n.                                 *)
Gots(D, S, n) ==
    {got \in [decoder : D, out : Seq(S), short : BOOLEAN] : Len(got.out) <= n}

GotRight(got, numbers, k, whole) ==
    /\ \A i \in 1..Len(got.out) : got.out[i] = numbers[k + i]
    /\ RunsAt(got.decoder, k + Len(got.out), whole)
    /\ got.short => ~whole \/ k + Len(got.out) = Len(numbers)

GotFar(got, n, i) ==
    got.short \/ Len(got.out) = n \/ Len(got.out) + got.decoder.next > i

LEMMA RunFields ==
    ASSUME NEW numbers, NEW runs, NEW S, RunFacts(numbers, runs, S),
           NEW next \in 1..(Len(runs) + 1)
    PROVE  /\ Len(runs) \in Nat /\ Len(numbers) \in Nat
           /\ StartOf(numbers, runs, next) \in 0..Len(numbers)
           /\ next <= Len(runs) =>
                /\ runs[next].literal \in BOOLEAN /\ runs[next].from \in Nat
                /\ runs[next].count \in Nat /\ runs[next].present \in Nat
                /\ runs[next].present <= runs[next].count
                /\ runs[next].value \in Nat
                /\ \/ runs[next].literal \/ runs[next].value \in S
                   \/ runs[next].count = 0 /\ RepeatsComplete(runs)
                /\ StartOf(numbers, runs, next) = runs[next].from
                /\ StartOf(numbers, runs, next + 1)
                        = runs[next].from + runs[next].count
                /\ runs[next].literal
                    \/ \A i \in 1..runs[next].count :
                          numbers[runs[next].from + i] = runs[next].value
<1>1. PICK l \in Nat, h \in Nat : l = Len(runs) /\ h = Len(numbers)
  BY LenProperties DEF RunFacts
<1>2. CASE next > l
  <2>1. StartOf(numbers, runs, next) = h
    BY <1>1, <1>2 DEF StartOf
  <2>2. QED
    BY <1>1, <1>2, <2>1
<1>3. CASE next <= l
  <2>1. next \in 1..l /\ next \in Nat /\ DOMAIN runs = 1..l
    BY <1>1, <1>3, LenProperties DEF RunFacts
  <2>2. PICK run \in Run : run = runs[next]
    BY <1>1, <2>1, ElementOfSeq DEF RunFacts
  <2>3. /\ run.literal \in BOOLEAN /\ run.from \in Nat /\ run.count \in Nat
        /\ run.present \in Nat /\ run.value \in Nat
    BY DEF Run
  <2>4. /\ run.from + run.count
              = IF next = l THEN h ELSE runs[next + 1].from
        /\ run.from + run.count <= h /\ run.present <= run.count
        /\ run.literal \/ \A i \in 1..run.count :
                              numbers[run.from + i] = run.value
    BY <1>1, <2>1, <2>2 DEF RunFacts, RunsFollow
  <2>5. StartOf(numbers, runs, next) = run.from
    BY <1>1, <1>3, <2>2 DEF StartOf
  <2>6. StartOf(numbers, runs, next + 1) = run.from + run.count
    <3>1. next + 1 <= l <=> next # l
      BY <2>1
    <3>2. QED
      BY <1>1, <2>4, <3>1 DEF StartOf
  <2>7. \/ run.literal \/ run.value \in S
        \/ run.count = 0 /\ RepeatsComplete(runs)
    <3>1. CASE RepeatsComplete(runs) /\ ~run.literal /\ run.count # 0
      <4>1. 1 \in 1..run.count /\ run.from + 1 \in 1..h
        BY <2>3, <2>4, <3>1
      <4>2. numbers[run.from + 1] = run.value
        BY <2>4, <3>1, <4>1
      <4>3. numbers[run.from + 1] \in S
        BY <1>1, <4>1 DEF RunFacts
      <4>4. QED
        BY <4>2, <4>3
    <3>2. CASE ~RepeatsComplete(runs)
      <4>1. run.literal \/ run.value \in S
        BY <1>1, <2>1, <2>2, <3>2 DEF RunFacts, OldValues
      <4>2. QED
        BY <4>1
    <3>3. QED
      BY <3>1, <3>2
  <2>8. run.from \in 0..h
    BY <2>3, <2>4
  <2>9. QED
    BY <1>1, <2>2, <2>3, <2>4, <2>5, <2>6, <2>7, <2>8
<1>4. QED
  BY <1>1, <1>2, <1>3

LEMMA RunDecoderFields ==
    ASSUME NEW coding, NEW dict, NEW numbers, NEW runs, NEW S,
           NEW d \in RunDecoders(coding, dict, numbers, runs, S)
    PROVE  /\ d.coding = coding /\ d.dict = dict /\ d.numbers = numbers
           /\ d.runs = runs /\ d.next \in 1..(Len(runs) + 1)
           /\ d.cur \in Nat /\ d.rep \in Nat /\ d.lit \in Nat /\ d.have \in Nat
           /\ d.have <= d.lit
           /\ d.cur \in S \/ (d.rep = 0 /\ RepeatsComplete(runs))
           /\ d.lit > 0 => d.next > 1 /\ d.lit <= runs[d.next - 1].count
BY DEF RunDecoders, RunRecords

(* What is given is put behind what there is.                              *)
LEMMA OutFacts ==
    ASSUME NEW S, NEW out \in Seq(S), NEW k \in Nat, NEW f \in [1..k -> S]
    PROVE  /\ out \o f \in Seq(S) /\ Len(out \o f) = Len(out) + k
           /\ Len(out) \in Nat
           /\ \A i \in 1..Len(out) : (out \o f)[i] = out[i]
           /\ \A i \in 1..k : (out \o f)[Len(out) + i] = f[i]
<1>1. f \in Seq(S) /\ Len(f) = k
  BY SeqIs
<1>2. PICK g \in Seq(S) : g = f
  BY <1>1
<1>3. /\ out \o g \in Seq(S) /\ Len(out \o g) = Len(out) + Len(g)
      /\ Len(out) \in Nat /\ Len(g) \in Nat
      /\ \A i \in 1..Len(out) : (out \o g)[i] = out[i]
      /\ \A i \in 1..Len(g) : (out \o g)[Len(out) + i] = g[i]
  BY ConcatFacts
<1>4. QED
  BY <1>1, <1>2, <1>3

(* What k more numbers of the page leave of a batch.                       *)
LEMMA GivenMore ==
    ASSUME NEW S, NEW numbers, NEW out \in Seq(S), NEW m \in Nat,
           NEW f \in [1..m -> S], NEW k \in Nat,
           \A i \in 1..Len(out) : out[i] = numbers[k + i],
           \A i \in 1..m : f[i] = numbers[(k + Len(out)) + i]
    PROVE  \A i \in 1..Len(out \o f) : (out \o f)[i] = numbers[k + i]
<1>1. PICK l \in Nat : l = Len(out)
  BY LenProperties
<1>2. /\ Len(out \o f) = l + m
      /\ \A i \in 1..l : (out \o f)[i] = out[i]
      /\ \A i \in 1..m : (out \o f)[l + i] = f[i]
  BY <1>1, OutFacts
<1>3. ASSUME NEW i \in 1..(l + m) PROVE (out \o f)[i] = numbers[k + i]
  <2>1. CASE i <= l
    <3>1. i \in 1..l
      BY <2>1
    <3>2. QED
      BY <1>1, <1>2, <3>1
  <2>2. CASE i > l
    <3>1. PICK j \in 1..m : i = l + j
      <4>1. i - l \in 1..m /\ i = l + (i - l)
        BY <2>2
      <4>2. QED
        BY <4>1
    <3>2. (k + l) + j = k + i
      BY <3>1
    <3>3. QED
      BY <1>1, <1>2, <3>1, <3>2
  <2>3. i <= l \/ i > l
    OBVIOUS
  <2>4. QED
    BY <2>1, <2>2, <2>3, Zenon
<1>4. QED
  BY <1>2, <1>3

(* What a round makes of a batch.                                          *)
GotOn(D, S, n, got, new) ==
    /\ new \in Gots(D, S, n)
    /\ new.short
          \/ Len(new.out) + new.decoder.next > Len(got.out) + got.decoder.next

StaysRight(numbers, runs, got, new) ==
    \A k \in Nat : \A whole \in BOOLEAN :
        RunsSound(runs, whole) /\ GotRight(got, numbers, k, whole) =>
            GotRight(new, numbers, k, whole)

LEMMA GotFields ==
    ASSUME NEW D, NEW S, NEW n \in Nat, NEW got \in Gots(D, S, n)
    PROVE  /\ got.decoder \in D /\ got.out \in Seq(S) /\ got.short \in BOOLEAN
           /\ Len(got.out) \in 0..n
           /\ got \in [decoder : D, out : Seq(S), short : BOOLEAN]
           /\ got = [decoder |-> got.decoder, out |-> got.out,
                     short |-> got.short]
<1>1. /\ got.decoder \in D /\ got.out \in Seq(S) /\ got.short \in BOOLEAN
      /\ Len(got.out) <= n
      /\ got \in [decoder : D, out : Seq(S), short : BOOLEAN]
      /\ got = [decoder |-> got.decoder, out |-> got.out, short |-> got.short]
  BY DEF Gots
<1>2. Len(got.out) \in Nat
  BY <1>1, LenProperties
<1>3. QED
  BY <1>1, <1>2

LEMMA TakenFrom ==
    \A k, l, r, x \in Nat : \A m \in 0..r :
        /\ (k + l) + r + x = (k + (l + m)) + (r - m) + x
        /\ (k + l) + x + r = (k + (l + m)) + x + (r - m)
        /\ r - m \in Nat /\ (k + l) + 0 + x - x = k + l
        /\ \A i \in 1..m : i \in 1..r
        /\ \A i \in 1..(r - m) :
              m + i \in 1..r /\ (k + (l + m)) + i = (k + l) + (m + i)
OBVIOUS

(* A round that gives m numbers more, and one that gives none.             *)
LEMMA GotMore ==
    ASSUME NEW D, NEW S, NEW n \in Nat, NEW got \in Gots(D, S, n),
           NEW l \in Nat, l = Len(got.out),
           NEW m \in Nat, m >= 1, m <= n - l, NEW f \in [1..m -> S],
           NEW e \in D, e.next = got.decoder.next, e.next \in Nat, NEW new,
           new = [decoder |-> e, out |-> got.out \o f, short |-> FALSE]
    PROVE  GotOn(D, S, n, got, new)
<1>1. PICK t : t = got.out \o f
  OBVIOUS
<1>2. got.out \in Seq(S)
  BY GotFields
<1>3. t \in Seq(S) /\ Len(t) = l + m
  BY <1>1, <1>2, OutFacts
<1>4. new = [decoder |-> e, out |-> t, short |-> FALSE]
  BY <1>1
<1>5. new.decoder = e /\ new.out = t
  BY <1>4
<1>6. l + m <= n
  OBVIOUS
<1>7. new \in Gots(D, S, n)
  BY <1>3, <1>4, <1>6 DEF Gots
<1>8. Len(new.out) + new.decoder.next > Len(got.out) + got.decoder.next
  BY <1>3, <1>5
<1>9. QED
  BY <1>7, <1>8 DEF GotOn

(* What is behind the first l numbers of a batch that begins at k.         *)
GoesOn(S, numbers, got, l, m, f, k) ==
    /\ got.out \in Seq(S) /\ l \in Nat /\ l = Len(got.out)
    /\ m \in Nat /\ f \in [1..m -> S] /\ k \in Nat
    /\ \A i \in 1..m : f[i] = numbers[(k + l) + i]

LEMMA GotMoreRight ==
    ASSUME NEW S, NEW numbers, NEW got, NEW l, NEW m, NEW f, NEW e, NEW k,
           NEW whole, GoesOn(S, numbers, got, l, m, f, k),
           GotRight(got, numbers, k, whole), RunsAt(e, k + (l + m), whole)
    PROVE  GotRight([decoder |-> e, out |-> got.out \o f, short |-> FALSE],
                    numbers, k, whole)
<1> USE DEF GoesOn
<1>1. PICK out \in Seq(S) : out = got.out
  OBVIOUS
<1>2. PICK t, new : /\ t = out \o f
                    /\ new = [decoder |-> e, out |-> t, short |-> FALSE]
  OBVIOUS
<1>3. Len(t) = l + m
  BY <1>1, <1>2, OutFacts
<1>4. new.decoder = e /\ new.out = t /\ new.short = FALSE
  BY <1>1, <1>2
<1>5. \A i \in 1..Len(out) : out[i] = numbers[k + i]
  <2>1. \A i \in 1..Len(got.out) : got.out[i] = numbers[k + i]
    BY Zenon DEF GotRight
  <2>2. QED
    BY <1>1, <2>1
<1>6. \A i \in 1..m : f[i] = numbers[(k + Len(out)) + i]
  BY <1>1
<1>7. \A i \in 1..Len(t) : t[i] = numbers[k + i]
  BY <1>2, <1>5, <1>6, GivenMore
<1>8. GotRight(new, numbers, k, whole)
  BY <1>3, <1>4, <1>7 DEF GotRight
<1>9. QED
  BY <1>1, <1>2, <1>8

LEMMA GotSame ==
    ASSUME NEW D, NEW S, NEW n \in Nat, NEW got \in Gots(D, S, n),
           NEW e \in D, NEW short \in BOOLEAN, got.decoder.next \in Nat,
           short \/ e.next = got.decoder.next + 1, NEW new,
           new = [decoder |-> e, out |-> got.out, short |-> short]
    PROVE  GotOn(D, S, n, got, new)
<1>1. PICK out \in Seq(S), l \in 0..n : out = got.out /\ l = Len(out)
  BY GotFields
<1>2. new.decoder = e /\ new.out = out /\ new.short = short
  BY <1>1
<1>3. new \in Gots(D, S, n)
  BY <1>1 DEF Gots
<1>4. l + (got.decoder.next + 1) > l + got.decoder.next
  BY <1>1
<1>5. QED
  BY <1>1, <1>2, <1>3, <1>4 DEF GotOn

LEMMA GotSameRight ==
    ASSUME NEW numbers, NEW got, NEW e, NEW short, NEW new, NEW l,
           l = Len(got.out),
           new = [decoder |-> e, out |-> got.out, short |-> short],
           NEW k \in Nat, NEW whole, GotRight(got, numbers, k, whole),
           RunsAt(e, k + l, whole), short => ~whole \/ k + l = Len(numbers)
    PROVE  GotRight(new, numbers, k, whole)
<1>1. new.decoder = e /\ new.out = got.out /\ new.short = short
  OBVIOUS
<1>2. \A i \in 1..Len(got.out) : got.out[i] = numbers[k + i]
  BY Zenon DEF GotRight
<1>3. QED
  BY <1>1, <1>2 DEF GotRight

LEMMA RepeatsTaken ==
    ASSUME NEW coding, NEW dict, NEW numbers, NEW runs, NEW S,
           RunFacts(numbers, runs, S), NEW n \in Nat,
           NEW D, D = RunDecoders(coding, dict, numbers, runs, S),
           NEW got \in Gots(D, S, n), NEW left \in 1..n,
           left <= n - Len(got.out), got.decoder.rep > 0, ~got.short
    PROVE  /\ GotOn(D, S, n, got, TakeRepeats(got, left))
           /\ StaysRight(numbers, runs, got, TakeRepeats(got, left))
<1>1. PICK d \in D : d = got.decoder
  BY GotFields
<1>2. PICK q \in Nat, cur \in Nat, r \in Nat, x \in Nat, h \in Nat :
        /\ q = d.next /\ cur = d.cur /\ r = d.rep /\ x = d.lit /\ h = d.have
        /\ d.numbers = numbers /\ d.runs = runs
        /\ cur \in S /\ r >= 1
  <2>1. /\ d.numbers = numbers /\ d.runs = runs /\ d.next \in 1..(Len(runs) + 1)
        /\ d.cur \in Nat /\ d.rep \in Nat /\ d.lit \in Nat /\ d.have \in Nat
        /\ d.cur \in S \/ d.rep = 0
    BY RunDecoderFields
  <2>2. d.next \in Nat /\ d.rep >= 1 /\ d.cur \in S
    BY <1>1, <2>1
  <2>3. QED
    BY <2>1, <2>2
<1>3. PICK l \in 0..n : l = Len(got.out) /\ left \in Nat /\ left <= n - l
  BY GotFields
<1>4. PICK m \in 1..n : m = Fewer(left, r) /\ m <= r /\ m <= left
  <2>1. Fewer(left, r) \in {left, r} /\ Fewer(left, r) <= left /\ Fewer(left, r) <= r
    BY <1>3, FewerFacts
  <2>2. Fewer(left, r) \in 1..n
    BY <1>2, <1>3, <2>1
  <2>3. QED
    BY <2>1, <2>2
<1>5. PICK f : f = [i \in 1..m |-> cur]
  OBVIOUS
<1>6. PICK e : e = [d EXCEPT !.rep = r - m]
  OBVIOUS
<1>7. PICK new : /\ new = TakeRepeats(got, left)
                 /\ new = [decoder |-> e, out |-> got.out \o f, short |-> FALSE]
  <2>1. got \in [decoder : D, out : Seq(S), short : BOOLEAN] /\ got.short = FALSE
    BY GotFields
  <2>2. /\ m = Fewer(left, got.decoder.rep)
        /\ f = [i \in 1..m |-> got.decoder.cur]
        /\ e = [got.decoder EXCEPT !.rep = got.decoder.rep - m]
    <3>1. got.decoder = d /\ d.rep = r /\ d.cur = cur
      BY <1>1, <1>2
    <3>2. m = Fewer(left, r)
      BY <1>4
    <3>3. QED
      BY <1>5, <1>6, <3>1, <3>2, Zenon
  <2>3. TakeRepeats(got, left)
          = [got EXCEPT !.decoder.rep = got.decoder.rep - m,
                        !.out = got.out \o f]
    BY <2>2, Zenon DEF TakeRepeats
  <2>4. QED
    BY <2>1, <2>2, <2>3
<1>8. /\ m \in 0..r /\ r - m \in Nat /\ f \in [1..m -> S]
      /\ m \in Nat /\ m >= 1 /\ m <= n - l /\ l \in Nat
  BY <1>2, <1>3, <1>4, <1>5, SMTT(30)
<1>9. /\ e \in D /\ e.numbers = numbers /\ e.runs = runs /\ e.next = q
      /\ e.cur = cur /\ e.rep = r - m /\ e.lit = x /\ e.have = h
  BY <1>2, <1>6, <1>8 DEF RunDecoders, RunRecords
<1>10. ASSUME NEW k \in Nat, NEW whole \in BOOLEAN,
              GotRight(got, numbers, k, whole)
       PROVE  /\ \A i \in 1..m : f[i] = numbers[(k + l) + i]
              /\ RunsAt(e, k + (l + m), whole)
  <2>1. /\ StartOf(numbers, runs, q) = (k + l) + r + x
        /\ r = 0 \/ x = 0
        /\ whole => h = x
        /\ \A i \in 1..r : numbers[(k + l) + i] = cur
    BY <1>1, <1>2, <1>3, <1>10 DEF GotRight, RunsAt
  <2>2. x = 0
    BY <1>2, <2>1
  <2>3. \A i \in 1..m : f[i] = numbers[(k + l) + i]
    <3>1. \A i \in 1..m : i \in 1..r
      BY <1>8, TakenFrom
    <3>2. QED
      BY <1>5, <2>1, <3>1
  <2>4. ASSUME NEW i \in 1..(r - m)
        PROVE  numbers[(k + (l + m)) + i] = cur
    <3>1. m + i \in 1..r /\ (k + (l + m)) + i = (k + l) + (m + i)
      BY <1>8, TakenFrom
    <3>2. QED
      BY <2>1, <3>1
  <2>5. (k + l) + r + x = (k + (l + m)) + (r - m) + x
    BY <1>8, TakenFrom
  <2>6. StartOf(numbers, runs, q) = (k + (l + m)) + (r - m) + x
    BY <2>1, <2>5, Zenon
  <2>7. RunsAt(e, k + (l + m), whole)
    BY <1>9, <2>1, <2>2, <2>4, <2>6, Zenon DEF RunsAt
  <2>8. QED
    BY <2>3, <2>7
<1>11. e.next = got.decoder.next /\ e.next \in Nat
  BY <1>1, <1>2, <1>9
<1>12. GotOn(D, S, n, got, new)
  BY <1>3, <1>7, <1>8, <1>9, <1>11, GotMore
<1>13. StaysRight(numbers, runs, got, new)
  <2>1. ASSUME NEW k \in Nat, NEW whole \in BOOLEAN,
               GotRight(got, numbers, k, whole)
        PROVE  GotRight(new, numbers, k, whole)
    <3>1. /\ \A i \in 1..m : f[i] = numbers[(k + l) + i]
          /\ RunsAt(e, k + (l + m), whole)
      BY <1>10, <2>1
    <3>2. /\ got.out \in Seq(S) /\ l \in Nat /\ l = Len(got.out)
          /\ m \in Nat /\ f \in [1..m -> S]
      BY <1>3, <1>8, GotFields
    <3>3. GoesOn(S, numbers, got, l, m, f, k)
      BY <3>1, <3>2 DEF GoesOn
    <3>4. GotRight([decoder |-> e, out |-> got.out \o f, short |-> FALSE],
                   numbers, k, whole)
      BY <2>1, <3>1, <3>3, GotMoreRight
    <3>5. QED
      BY <1>7, <3>4
  <2>2. QED
    BY <2>1 DEF StaysRight
<1>14. QED
  BY <1>7, <1>12, <1>13

LEMMA LiteralPlace ==
    ASSUME NEW a \in Nat, NEW b \in Nat, NEW x \in Int, NEW i \in Int, NEW s,
           s = a + b
    PROVE  a + b - x + i = s - x + i
OBVIOUS

LEMMA LiteralsTaken ==
    ASSUME NEW coding, NEW dict, NEW numbers, NEW runs, NEW S,
           RunFacts(numbers, runs, S), NEW n \in Nat,
           NEW D, D = RunDecoders(coding, dict, numbers, runs, S),
           NEW got \in Gots(D, S, n), NEW left \in 1..n,
           left <= n - Len(got.out), got.decoder.rep = 0, got.decoder.lit > 0,
           ~got.short
    PROVE  /\ GotOn(D, S, n, got, TakeLiterals(got, left))
           /\ StaysRight(numbers, runs, got, TakeLiterals(got, left))
<1>1. PICK d \in D : d = got.decoder
  BY GotFields
<1>2. PICK p \in Nat, cur \in Nat, x \in Nat, h \in Nat :
        /\ p + 1 = d.next /\ p = d.next - 1 /\ p \in 1..Len(runs)
        /\ cur = d.cur /\ x = d.lit /\ h = d.have
        /\ d.numbers = numbers /\ d.runs = runs /\ d.rep = 0
        /\ cur \in S \/ RepeatsComplete(runs)
        /\ x >= 1 /\ h <= x /\ x <= runs[p].count
  <2>1. /\ d.numbers = numbers /\ d.runs = runs /\ d.next \in 1..(Len(runs) + 1)
        /\ d.cur \in Nat /\ d.rep \in Nat /\ d.lit \in Nat /\ d.have \in Nat
        /\ d.have <= d.lit
        /\ d.cur \in S \/ (d.rep = 0 /\ RepeatsComplete(runs))
        /\ d.lit > 0 => d.next > 1 /\ d.lit <= runs[d.next - 1].count
    BY RunDecoderFields
  <2>2. Len(runs) \in Nat
    BY LenProperties DEF RunFacts
  <2>3. PICK p \in Nat : p = d.next - 1 /\ p + 1 = d.next /\ p \in 1..Len(runs)
    BY <1>1, <2>1, <2>2
  <2>4. /\ d.rep = 0 /\ d.lit >= 1 /\ d.lit <= runs[p].count
        /\ d.cur \in S \/ RepeatsComplete(runs)
    BY <1>1, <2>1, <2>3
  <2>5. QED
    BY <2>1, <2>3, <2>4, Zenon
<1>3. PICK l \in 0..n : l = Len(got.out) /\ left \in Nat /\ left <= n - l
  BY GotFields
<1>4. PICK m \in 1..n : m = Fewer(left, x) /\ m <= x /\ m <= left
  <2>1. Fewer(left, x) \in {left, x} /\ Fewer(left, x) <= left /\ Fewer(left, x) <= x
    BY <1>3, FewerFacts
  <2>2. Fewer(left, x) \in 1..n
    BY <1>2, <1>3, <2>1
  <2>3. QED
    BY <2>1, <2>2
<1>5. PICK s \in Nat : /\ s = runs[p].from + runs[p].count
                       /\ StartOf(numbers, runs, p + 1) = s
                       /\ x <= s /\ s <= Len(numbers) /\ Len(numbers) \in Nat
                       /\ runs[p].from \in Nat /\ runs[p].count \in Nat
  <2>1. /\ runs[p].from \in Nat /\ runs[p].count \in Nat
        /\ StartOf(numbers, runs, p + 1) = runs[p].from + runs[p].count
        /\ Len(runs) \in Nat
    <3>1. p \in 1..(Len(runs) + 1) /\ p <= Len(runs)
      <4>1. Len(runs) \in Nat
        BY LenProperties DEF RunFacts
      <4>2. QED
        BY <1>2, <4>1
    <3>2. QED
      BY <3>1, RunFields
  <2>2. p + 1 \in 1..(Len(runs) + 1)
    BY <1>2, <2>1
  <2>3. StartOf(numbers, runs, p + 1) \in 0..Len(numbers) /\ Len(numbers) \in Nat
    BY <2>2, RunFields
  <2>4. QED
    BY <1>2, <2>1, <2>3, SMTT(30)
<1>6. PICK f : f = [i \in 1..m |-> numbers[runs[p].from + runs[p].count - x + i]]
  OBVIOUS
<1>7. Literals(d, m) = f
  <2>1. d.runs[d.next - 1] = runs[p] /\ d.numbers = numbers /\ d.lit = x
    BY <1>2
  <2>2. QED
    BY <1>6, <2>1, Zenon DEF Literals
<1>8. f \in [1..m -> S] /\ \A i \in 1..m : f[i] = numbers[s - x + i]
  <2>1. ASSUME NEW i \in 1..m
        PROVE  f[i] = numbers[s - x + i] /\ numbers[s - x + i] \in S
    <3>1. s - x + i \in 1..Len(numbers)
      BY <1>4, <1>5, SMTT(30)
    <3>2. PICK a \in Nat, b \in Nat :
            a = runs[p].from /\ b = runs[p].count /\ s = a + b
      BY <1>5, Zenon
    <3>3. x \in Int /\ i \in Int
      BY <1>2
    <3>4. a + b - x + i = s - x + i
      BY <3>2, <3>3, LiteralPlace, SMTT(30)
    <3>5. f[i] = numbers[a + b - x + i]
      BY <1>6, <3>2, Zenon
    <3>6. f[i] = numbers[s - x + i]
      BY <3>4, <3>5, Zenon
    <3>7. QED
      BY <3>1, <3>6 DEF RunFacts
  <2>2. QED
    BY <1>6, <2>1
<1>9. got \in [decoder : D, out : Seq(S), short : BOOLEAN] /\ got.short = FALSE
  BY GotFields
<1>10. got.decoder.next \in Nat
  BY <1>1, <1>2
<1>11. CASE h < m
  <2>1. PICK e : e = [d EXCEPT !.have = 0]
    OBVIOUS
  <2>2. PICK new : /\ new = TakeLiterals(got, left)
                   /\ new = [decoder |-> e, out |-> got.out, short |-> TRUE]
    <3>1. /\ m = Fewer(left, got.decoder.lit) /\ got.decoder.have < m
          /\ e = [got.decoder EXCEPT !.have = 0]
      BY <1>1, <1>2, <1>4, <1>11, <2>1
    <3>2. QED
      BY <1>9, <3>1 DEF TakeLiterals
  <2>3. /\ e \in D /\ e.numbers = numbers /\ e.runs = runs /\ e.next = d.next
        /\ e.cur = d.cur /\ e.rep = 0 /\ e.lit = x /\ e.have = 0
    <3>1. d \in RunRecords(coding, dict, numbers, runs)
      BY DEF RunDecoders
    <3>2. /\ e \in RunRecords(coding, dict, numbers, runs)
          /\ e.numbers = numbers /\ e.runs = runs /\ e.next = d.next
          /\ e.cur = d.cur /\ e.rep = d.rep /\ e.lit = d.lit /\ e.have = 0
      BY <1>2, <2>1, <3>1 DEF RunRecords
    <3>3. e.have <= e.lit
      BY <1>2, <3>2
    <3>4. e \in D
      BY <3>2, <3>3 DEF RunDecoders
    <3>5. QED
      BY <1>2, <3>2, <3>4
  <2>4. ASSUME NEW k \in Nat, NEW whole \in BOOLEAN,
               GotRight(got, numbers, k, whole)
        PROVE  ~whole /\ RunsAt(e, k + l, whole)
    <3>1. RunsAt(d, k + l, whole)
      BY <1>1, <1>3, <2>4 DEF GotRight
    <3>2. ~whole
      BY <1>2, <1>4, <1>11, <3>1 DEF RunsAt
    <3>3. QED
      BY <1>2, <2>3, <3>1, <3>2 DEF RunsAt
  <2>5. GotOn(D, S, n, got, new)
    <3>1. TRUE \in BOOLEAN
      OBVIOUS
    <3>2. QED
      BY <1>10, <2>2, <2>3, <3>1, GotSame
  <2>6. StaysRight(numbers, runs, got, new)
    <3>1. ASSUME NEW k \in Nat, NEW whole \in BOOLEAN,
                 GotRight(got, numbers, k, whole)
          PROVE  GotRight(new, numbers, k, whole)
      <4>1. ~whole /\ RunsAt(e, k + l, whole)
        BY <2>4, <3>1
      <4>2. QED
        BY <1>3, <2>2, <3>1, <4>1, GotSameRight
    <3>2. QED
      BY <3>1 DEF StaysRight
  <2>7. QED
    BY <2>2, <2>5, <2>6
<1>12. CASE ~(h < m)
  <2>1. PICK y \in Nat, z \in Nat : y = x - m /\ z = h - m /\ z <= y
    BY <1>2, <1>4, <1>12
  <2>2. PICK e : e = [d EXCEPT !.lit = y, !.have = z]
    OBVIOUS
  <2>3. PICK new : /\ new = TakeLiterals(got, left)
                   /\ new = [decoder |-> e, out |-> got.out \o f, short |-> FALSE]
    <3>1. /\ m = Fewer(left, got.decoder.lit) /\ ~(got.decoder.have < m)
          /\ e = [got.decoder EXCEPT !.lit = got.decoder.lit - m,
                                     !.have = got.decoder.have - m]
          /\ Literals(got.decoder, m) = f
      BY <1>1, <1>2, <1>4, <1>7, <1>12, <2>1, <2>2
    <3>2. QED
      BY <1>9, <3>1 DEF TakeLiterals
  <2>4. /\ e.numbers = numbers /\ e.runs = runs /\ e.next = d.next
        /\ e.cur = d.cur /\ e.rep = 0 /\ e.lit = y /\ e.have = z
    BY <1>1, <1>2, <2>2 DEF RunDecoders, RunRecords
  <2>5. e \in D
    <3>1. y <= runs[d.next - 1].count
      <4>1. runs[p].count \in Nat
        <5>1. Len(runs) \in Nat
          BY LenProperties DEF RunFacts
        <5>2. p \in 1..(Len(runs) + 1) /\ p <= Len(runs)
          BY <1>2, <5>1
        <5>3. QED
          BY <5>2, RunFields
      <4>2. QED
        BY <1>2, <2>1, <4>1, SMTT(30)
    <3>2. QED
      BY <1>1, <1>2, <2>1, <2>2, <2>4, <3>1 DEF RunDecoders, RunRecords
  <2>6. ASSUME NEW k \in Nat, NEW whole \in BOOLEAN,
               GotRight(got, numbers, k, whole)
        PROVE  /\ \A i \in 1..m : f[i] = numbers[(k + l) + i]
               /\ RunsAt(e, k + (l + m), whole)
    <3>1. /\ s = (k + l) + 0 + x
          /\ whole => h = x
      BY <1>1, <1>2, <1>3, <1>5, <2>6 DEF GotRight, RunsAt
    <3>2. m \in 0..x /\ l \in Nat /\ 0 \in Nat
      BY <1>4
    <3>3. s - x = k + l /\ s = (k + (l + m)) + 0 + y
      BY <2>1, <3>1, <3>2, TakenFrom
    <3>4. \A i \in 1..m : f[i] = numbers[(k + l) + i]
      BY <1>8, <3>3
    <3>5. \A i \in 1..0 : FALSE
      OBVIOUS
    <3>6. whole => z = y
      BY <2>1, <3>1
    <3>7. StartOf(numbers, runs, d.next) = (k + (l + m)) + 0 + y
      BY <1>2, <1>5, <3>3
    <3>8. RunsAt(e, k + (l + m), whole)
      BY <2>4, <3>5, <3>6, <3>7, Zenon DEF RunsAt
    <3>9. QED
      BY <3>4, <3>8
  <2>7. /\ m \in Nat /\ m >= 1 /\ m <= n - l /\ l \in Nat
        /\ e.next = got.decoder.next /\ e.next \in Nat
    BY <1>1, <1>3, <1>4, <1>10, <2>4
  <2>8. GotOn(D, S, n, got, new)
    BY <1>3, <1>8, <2>3, <2>5, <2>7, GotMore
  <2>9. StaysRight(numbers, runs, got, new)
    <3>1. ASSUME NEW k \in Nat, NEW whole \in BOOLEAN,
                 GotRight(got, numbers, k, whole)
          PROVE  GotRight(new, numbers, k, whole)
      <4>1. /\ \A i \in 1..m : f[i] = numbers[(k + l) + i]
            /\ RunsAt(e, k + (l + m), whole)
        BY <2>6, <3>1
      <4>2. /\ got.out \in Seq(S) /\ l \in Nat /\ l = Len(got.out)
            /\ m \in Nat /\ f \in [1..m -> S]
        BY <1>3, <1>8, <2>7, GotFields
      <4>3. GoesOn(S, numbers, got, l, m, f, k)
        BY <4>1, <4>2 DEF GoesOn
      <4>4. GotRight([decoder |-> e, out |-> got.out \o f, short |-> FALSE],
                     numbers, k, whole)
        BY <3>1, <4>1, <4>3, GotMoreRight
      <4>5. QED
        BY <2>3, <4>4
    <3>2. QED
      BY <3>1 DEF StaysRight
  <2>10. QED
    BY <2>3, <2>8, <2>9
<1>13. QED
  BY <1>11, <1>12

LEMMA CountsRead ==
    ASSUME NEW coding, NEW dict, NEW numbers, NEW runs, NEW S,
           RunFacts(numbers, runs, S), NEW n \in Nat,
           NEW D, D = RunDecoders(coding, dict, numbers, runs, S),
           NEW got \in Gots(D, S, n), got.decoder.rep = 0, got.decoder.lit = 0,
           ~got.short
    PROVE  /\ GotOn(D, S, n, got, NextCounts(got))
           /\ StaysRight(numbers, runs, got, NextCounts(got))
<1>1. PICK d \in D : d = got.decoder
  BY GotFields
<1>2. PICK q \in Nat, c \in Nat :
        /\ q = d.next /\ q \in 1..(Len(runs) + 1) /\ c = d.cur
        /\ d.numbers = numbers /\ d.runs = runs
        /\ d.rep = 0 /\ d.lit = 0 /\ d.have = 0
        /\ c \in S \/ RepeatsComplete(runs)
        /\ Len(runs) \in Nat
  <2>1. /\ d.numbers = numbers /\ d.runs = runs /\ d.next \in 1..(Len(runs) + 1)
        /\ d.cur \in Nat /\ d.have \in Nat /\ d.have <= d.lit
        /\ d.cur \in S \/ RepeatsComplete(runs)
    BY RunDecoderFields
  <2>2. d.next \in Nat /\ d.have = 0
    BY <1>1, <2>1
  <2>3. Len(runs) \in Nat
    BY LenProperties DEF RunFacts
  <2>4. QED
    BY <1>1, <2>1, <2>2, <2>3
<1>3. got \in [decoder : D, out : Seq(S), short : BOOLEAN] /\ got.short = FALSE
  BY GotFields
<1>4. PICK l \in 0..n : l = Len(got.out)
  BY GotFields
<1>5. got.decoder.next \in Nat
  BY <1>1, <1>2
<1>6. CASE q > Len(runs)
  <2>1. PICK new : /\ new = NextCounts(got)
                   /\ new = [decoder |-> d, out |-> got.out, short |-> TRUE]
    BY <1>1, <1>2, <1>3, <1>6 DEF NextCounts
  <2>2. ASSUME NEW k \in Nat, NEW whole \in BOOLEAN,
               GotRight(got, numbers, k, whole)
        PROVE  RunsAt(d, k + l, whole) /\ k + l = Len(numbers)
    <3>1. RunsAt(d, k + l, whole)
      BY <1>1, <1>4, <2>2 DEF GotRight
    <3>2. StartOf(numbers, runs, q) = (k + l) + 0 + 0
      BY <1>2, <3>1 DEF RunsAt
    <3>3. StartOf(numbers, runs, q) = Len(numbers)
      BY <1>2, <1>6 DEF StartOf
    <3>4. k + l = Len(numbers)
      BY <3>2, <3>3
    <3>5. QED
      BY <3>1, <3>4
  <2>3. GotOn(D, S, n, got, new)
    <3>1. TRUE \in BOOLEAN
      OBVIOUS
    <3>2. QED
      BY <1>1, <1>5, <2>1, <3>1, GotSame
  <2>4. StaysRight(numbers, runs, got, new)
    <3>1. ASSUME NEW k \in Nat, NEW whole \in BOOLEAN,
                 GotRight(got, numbers, k, whole)
          PROVE  GotRight(new, numbers, k, whole)
      <4>1. RunsAt(d, k + l, whole) /\ k + l = Len(numbers)
        BY <2>2, <3>1
      <4>2. QED
        BY <1>4, <2>1, <3>1, <4>1, GotSameRight
    <3>2. QED
      BY <3>1 DEF StaysRight
  <2>5. QED
    BY <2>1, <2>3, <2>4
<1>7. CASE q <= Len(runs)
  <2>1. PICK run : run = runs[q]
    OBVIOUS
  <2>2. /\ run.literal \in BOOLEAN /\ run.from \in Nat /\ run.count \in Nat
        /\ run.present \in Nat /\ run.present <= run.count
        /\ run.value \in Nat
        /\ \/ run.literal \/ run.value \in S
           \/ run.count = 0 /\ RepeatsComplete(runs)
        /\ StartOf(numbers, runs, q) = run.from
        /\ StartOf(numbers, runs, q + 1) = run.from + run.count
        /\ run.literal \/ \A i \in 1..run.count :
                              numbers[run.from + i] = run.value
    <3>1. RunFacts(numbers, runs, S) /\ q \in 1..(Len(runs) + 1)
      BY <1>2
    <3>2. /\ runs[q].literal \in BOOLEAN /\ runs[q].from \in Nat
          /\ runs[q].count \in Nat
          /\ runs[q].present \in Nat /\ runs[q].present <= runs[q].count
          /\ runs[q].value \in Nat
          /\ \/ runs[q].literal \/ runs[q].value \in S
             \/ runs[q].count = 0 /\ RepeatsComplete(runs)
          /\ StartOf(numbers, runs, q) = runs[q].from
          /\ StartOf(numbers, runs, q + 1) = runs[q].from + runs[q].count
          /\ runs[q].literal \/ \A i \in 1..runs[q].count :
                                numbers[runs[q].from + i] = runs[q].value
      BY <1>7, <3>1, RunFields
    <3>3. QED
      BY <2>1, <3>2, Zenon
  <2>3. /\ q + 1 \in 1..(Len(runs) + 1) /\ q + 1 > 1 /\ (q + 1) - 1 = q
        /\ q \in 1..Len(runs)
    BY <1>2, <1>7
  <2>4. d.runs[d.next] = run /\ ~(d.next > Len(d.runs))
    BY <1>2, <1>7, <2>1
  <2>5. ASSUME NEW k \in Nat, NEW whole \in BOOLEAN,
               GotRight(got, numbers, k, whole)
        PROVE  run.from = k + l
    <3>1. RunsAt(d, k + l, whole)
      BY <1>1, <1>4, <2>5 DEF GotRight
    <3>2. StartOf(numbers, runs, q) = (k + l) + 0 + 0
      BY <1>2, <3>1 DEF RunsAt
    <3>3. QED
      BY <1>4, <2>2, <3>2
  <2>6. CASE run.literal
    <3>1. PICK e : e = [d EXCEPT !.next = q + 1, !.lit = run.count,
                                 !.have = run.present]
      OBVIOUS
    <3>2. PICK new : /\ new = NextCounts(got)
                     /\ new = [decoder |-> e, out |-> got.out, short |-> FALSE]
      <4>1. /\ got.decoder.runs[got.decoder.next] = run
            /\ ~(got.decoder.next > Len(got.decoder.runs))
            /\ e = [got.decoder EXCEPT !.next = got.decoder.next + 1,
                          !.lit = run.count, !.have = run.present]
        BY <1>1, <1>2, <2>4, <3>1
      <4>2. QED
        BY <1>3, <2>6, <4>1 DEF NextCounts
    <3>3. /\ e.numbers = numbers /\ e.runs = runs /\ e.next = q + 1
          /\ e.cur = c /\ e.rep = 0 /\ e.lit = run.count
          /\ e.have = run.present
      BY <1>1, <1>2, <3>1 DEF RunDecoders, RunRecords
    <3>4. e \in D
      <4>1. d \in RunRecords(coding, dict, numbers, runs)
        BY DEF RunDecoders
      <4>2. e \in RunRecords(coding, dict, numbers, runs)
        BY <1>2, <2>2, <2>3, <3>1, <4>1 DEF RunRecords
      <4>3. /\ e.have <= e.lit
            /\ e.cur \in S \/ (e.rep = 0 /\ RepeatsComplete(runs))
            /\ e.lit > 0 => e.next > 1 /\ e.lit <= runs[e.next - 1].count
        BY <1>2, <2>1, <2>2, <2>3, <3>3
      <4>4. QED
        BY <4>2, <4>3 DEF RunDecoders
    <3>5. ASSUME NEW k \in Nat, NEW whole \in BOOLEAN, RunsSound(runs, whole),
                 GotRight(got, numbers, k, whole)
          PROVE  RunsAt(e, k + l, whole)
      <4>1. run.from + run.count = (k + l) + 0 + run.count
        BY <1>4, <2>2, <2>5, <3>5
      <4>2. whole => run.present = run.count
        BY <2>1, <2>3, <3>5 DEF RunsSound, Complete
      <4>3. StartOf(numbers, runs, q + 1) = (k + l) + 0 + run.count
        BY <2>2, <4>1
      <4>4. \A i \in 1..0 : FALSE
        OBVIOUS
      <4>5. QED
        BY <3>3, <4>2, <4>3, <4>4, Zenon DEF RunsAt
    <3>6. e.next = got.decoder.next + 1
      BY <1>1, <1>2, <3>3
    <3>7. GotOn(D, S, n, got, new)
      <4>1. FALSE \in BOOLEAN
        OBVIOUS
      <4>2. QED
        BY <1>5, <3>2, <3>4, <3>6, <4>1, GotSame
    <3>8. StaysRight(numbers, runs, got, new)
      <4>1. ASSUME NEW k \in Nat, NEW whole \in BOOLEAN, RunsSound(runs, whole),
                   GotRight(got, numbers, k, whole)
            PROVE  GotRight(new, numbers, k, whole)
        <5>1. RunsAt(e, k + l, whole)
          BY <3>5, <4>1
        <5>2. QED
          BY <1>4, <3>2, <4>1, <5>1, GotSameRight
      <4>2. QED
        BY <4>1 DEF StaysRight
    <3>9. QED
      BY <3>2, <3>7, <3>8
  <2>7. CASE ~run.literal
    <3>1. PICK cur : cur = IF Complete(run) THEN run.value ELSE c
      OBVIOUS
    <3>2. PICK e : e = [d EXCEPT !.next = q + 1, !.rep = run.count,
                                 !.cur = cur]
      OBVIOUS
    <3>3. PICK short \in BOOLEAN : short = ~Complete(run)
      OBVIOUS
    <3>4. PICK new : /\ new = NextCounts(got)
                     /\ new = [decoder |-> e, out |-> got.out, short |-> short]
      <4>1. /\ got.decoder.runs[got.decoder.next] = run
            /\ ~(got.decoder.next > Len(got.decoder.runs))
            /\ e = [got.decoder EXCEPT !.next = got.decoder.next + 1,
                          !.rep = run.count,
                          !.cur = IF Complete(run) THEN run.value
                                  ELSE got.decoder.cur]
        BY <1>1, <1>2, <2>4, <3>1, <3>2
      <4>2. QED
        BY <1>3, <2>7, <3>3, <4>1 DEF NextCounts
    <3>5. q \in DOMAIN runs
      BY <2>3, LenProperties DEF RunFacts
    <3>6. /\ cur \in Nat
          /\ cur \in S \/ (run.count = 0 /\ RepeatsComplete(runs))
      <4>1. RepeatsComplete(runs) => Complete(run)
        BY <2>1, <2>7, <3>5 DEF RepeatsComplete
      <4>2. CASE Complete(run)
        <5>1. cur = run.value
          BY <3>1, <4>2
        <5>2. QED
          BY <2>2, <2>7, <5>1
      <4>3. CASE ~Complete(run)
        <5>1. cur = c /\ c \in S /\ c \in Nat
          BY <1>2, <3>1, <4>1, <4>3 DEF RunFacts
        <5>2. QED
          BY <5>1
      <4>4. QED
        BY <4>2, <4>3
    <3>7. /\ e.numbers = numbers /\ e.runs = runs /\ e.next = q + 1
          /\ e.cur = cur /\ e.rep = run.count /\ e.lit = 0 /\ e.have = 0
      BY <1>1, <1>2, <3>2 DEF RunDecoders, RunRecords
    <3>8. e \in D
      <4>1. d \in RunRecords(coding, dict, numbers, runs)
        BY DEF RunDecoders
      <4>2. e \in RunRecords(coding, dict, numbers, runs)
        BY <1>2, <2>2, <2>3, <3>2, <3>6, <4>1 DEF RunRecords
      <4>3. /\ e.have <= e.lit
            /\ e.cur \in S \/ (e.rep = 0 /\ RepeatsComplete(runs))
            /\ e.lit > 0 => e.next > 1 /\ e.lit <= runs[e.next - 1].count
        BY <3>6, <3>7
      <4>4. QED
        BY <4>2, <4>3 DEF RunDecoders
    <3>9. ASSUME NEW k \in Nat, NEW whole \in BOOLEAN, RunsSound(runs, whole),
                 GotRight(got, numbers, k, whole)
          PROVE  short = FALSE /\ RunsAt(e, k + l, whole)
      <4>1. Complete(run)
        BY <2>1, <2>7, <3>5, <3>9 DEF RunsSound, RepeatsComplete
      <4>2. cur = run.value /\ short = FALSE
        BY <3>1, <3>3, <4>1
      <4>3. run.from = k + l
        BY <2>5, <3>9
      <4>4. run.from + run.count = (k + l) + run.count + 0
        BY <1>4, <2>2, <4>3
      <4>5. StartOf(numbers, runs, q + 1) = (k + l) + run.count + 0
        BY <2>2, <4>4
      <4>6. \A i \in 1..run.count : numbers[(k + l) + i] = cur
        BY <2>2, <2>7, <4>2, <4>3
      <4>7. RunsAt(e, k + l, whole)
        BY <3>7, <4>5, <4>6, Zenon DEF RunsAt
      <4>8. QED
        BY <4>2, <4>7
    <3>10. e.next = got.decoder.next + 1
      BY <1>1, <1>2, <3>7
    <3>11. GotOn(D, S, n, got, new)
      BY <1>5, <3>4, <3>8, <3>10, GotSame
    <3>12. StaysRight(numbers, runs, got, new)
      <4>1. ASSUME NEW k \in Nat, NEW whole \in BOOLEAN, RunsSound(runs, whole),
                   GotRight(got, numbers, k, whole)
            PROVE  GotRight(new, numbers, k, whole)
        <5>1. short = FALSE /\ RunsAt(e, k + l, whole)
          BY <3>9, <4>1
        <5>2. QED
          BY <1>4, <3>4, <4>1, <5>1, GotSameRight
      <4>2. QED
        BY <4>1 DEF StaysRight
    <3>13. QED
      BY <3>4, <3>11, <3>12
  <2>8. QED
    BY <2>6, <2>7
<1>8. QED
  BY <1>2, <1>6, <1>7

(* What is left of a chunk: something, until the batch is full.            *)
LEMMA LeftFacts ==
    ASSUME NEW n \in Nat, NEW chunk \in Nat, chunk >= 1, NEW out,
           NEW l \in 0..n, l = Len(out)
    PROVE  /\ LeftInChunk(n, chunk, out) = 0 => l = n
           /\ LeftInChunk(n, chunk, out) # 0 =>
                 /\ LeftInChunk(n, chunk, out) \in 1..n
                 /\ LeftInChunk(n, chunk, out) <= n - l
<1>1. PICK r \in 0..(chunk - 1) : r = l % chunk
  <2>1. l \in Int
    OBVIOUS
  <2>2. \E q \in Int : \E r \in 0..(chunk - 1) :
          l = chunk * q + r /\ r = l % chunk /\ q = l \div chunk
    BY <2>1, DivideBy
  <2>3. QED
    BY <2>2
<1>2. PICK a \in Nat, b \in Nat : a = n - l /\ b = chunk - r /\ b >= 1
  <2>1. n - l \in Nat /\ chunk - r \in Nat /\ chunk - r >= 1
    OBVIOUS
  <2>2. QED
    BY <2>1
<1>3. LeftInChunk(n, chunk, out) = Fewer(a, b)
  BY <1>1, <1>2 DEF LeftInChunk
<1>4. Fewer(a, b) \in {a, b} /\ Fewer(a, b) <= a /\ Fewer(a, b) <= b
  BY FewerFacts
<1>5. QED
  BY <1>2, <1>3, <1>4

(* A round of GetBatch.                                                    *)
RoundOf(got, n, chunk) == RunRound(got, LeftInChunk(n, chunk, got.out))

LEMMA RoundTaken ==
    ASSUME NEW coding, NEW dict, NEW numbers, NEW runs, NEW S,
           RunFacts(numbers, runs, S), NEW n \in Nat,
           NEW chunk \in Nat, chunk >= 1,
           NEW D, D = RunDecoders(coding, dict, numbers, runs, S),
           NEW got \in Gots(D, S, n)
    PROVE  /\ RoundOf(got, n, chunk) \in Gots(D, S, n)
           /\ StaysRight(numbers, runs, got, RoundOf(got, n, chunk))
           /\ \A i \in Nat : GotFar(got, n, i) =>
                  GotFar(RoundOf(got, n, chunk), n, i + 1)
<1>1. PICK left : left = LeftInChunk(n, chunk, got.out)
  OBVIOUS
<1>2. PICK new : new = RoundOf(got, n, chunk) /\ new = RunRound(got, left)
  BY <1>1 DEF RoundOf
<1>3. PICK l \in 0..n : l = Len(got.out)
  BY GotFields
<1>4. /\ left = 0 => l = n
      /\ left # 0 => left \in 1..n /\ left <= n - l
  BY <1>1, <1>3, LeftFacts
<1>5. CASE got.short \/ left = 0
  <2>1. new = got
    BY <1>2, <1>5, Zenon DEF RunRound
  <2>2. StaysRight(numbers, runs, got, got)
    BY DEF StaysRight
  <2>3. \A i : GotFar(got, n, i)
    BY <1>3, <1>4, <1>5 DEF GotFar
  <2>4. QED
    BY <1>2, <2>1, <2>2, <2>3
<1>6. CASE ~got.short /\ left # 0
  <2>1. PICK d \in D : d = got.decoder
    BY GotFields
  <2>2. d.rep \in Nat /\ d.lit \in Nat /\ d.next \in Nat
    <3>1. d.rep \in Nat /\ d.lit \in Nat /\ d.next \in 1..(Len(runs) + 1)
      BY RunDecoderFields
    <3>2. QED
      BY <3>1
  <2>3. left \in 1..n /\ left <= n - Len(got.out)
    BY <1>3, <1>4, <1>6
  <2>4. GotOn(D, S, n, got, new) /\ StaysRight(numbers, runs, got, new)
    <3>1. CASE got.decoder.rep > 0
      <4>1. new = TakeRepeats(got, left)
        BY <1>2, <1>6, <3>1, Zenon DEF RunRound
      <4>2. QED
        BY <1>6, <2>3, <3>1, <4>1, RepeatsTaken
    <3>2. CASE ~(got.decoder.rep > 0) /\ got.decoder.lit > 0
      <4>1. new = TakeLiterals(got, left)
        BY <1>2, <1>6, <3>2, Zenon DEF RunRound
      <4>2. got.decoder.rep = 0
        BY <2>1, <2>2, <3>2
      <4>3. QED
        BY <1>6, <2>3, <3>2, <4>1, <4>2, LiteralsTaken
    <3>3. CASE ~(got.decoder.rep > 0) /\ ~(got.decoder.lit > 0)
      <4>1. new = NextCounts(got)
        BY <1>2, <1>6, <3>3, Zenon DEF RunRound
      <4>2. got.decoder.rep = 0 /\ got.decoder.lit = 0
        BY <2>1, <2>2, <3>3
      <4>3. QED
        BY <1>6, <4>1, <4>2, CountsRead
    <3>4. QED
      BY <3>1, <3>2, <3>3
  <2>5. new \in Gots(D, S, n)
    BY <2>4 DEF GotOn
  <2>6. ASSUME NEW i \in Nat, GotFar(got, n, i)
        PROVE  GotFar(new, n, i + 1)
    <3>1. PICK e \in D, h \in 0..n : e = new.decoder /\ h = Len(new.out)
      BY <2>5, GotFields
    <3>2. PICK f \in Nat : f = e.next
      <4>1. e.next \in 1..(Len(runs) + 1)
        BY RunDecoderFields
      <4>2. QED
        BY <4>1
    <3>3. new.short \/ h + f > l + d.next
      BY <1>3, <2>1, <2>4, <3>1, <3>2 DEF GotOn
    <3>4. l # n
      BY <1>3, <1>4, <2>3
    <3>5. l + d.next > i
      BY <1>3, <1>6, <2>1, <2>6, <3>4 DEF GotFar
    <3>6. new.short \/ h + f > i + 1
      BY <2>2, <3>3, <3>5
    <3>7. QED
      BY <3>1, <3>2, <3>6 DEF GotFar
  <2>7. QED
    BY <1>2, <2>4, <2>5, <2>6
<1>7. QED
  BY <1>5, <1>6

(* GetBatch as a loop of rounds.                                           *)
RoundsAre(X, d, n, chunk, m, f) ==
    /\ f \in [0..m -> X]
    /\ f[0] = [decoder |-> d, out |-> <<>>, short |-> FALSE]
    /\ \A i \in 1..m : f[i] = RoundOf(f[i - 1], n, chunk)

LEMMA RoundsTaken ==
    ASSUME NEW X, NEW d, NEW n, NEW chunk, NEW m \in Nat,
           m = n + Len(d.runs) + 1,
           [decoder |-> d, out |-> <<>>, short |-> FALSE] \in X,
           \A x \in X : RoundOf(x, n, chunk) \in X
    PROVE  \E f : RoundsAre(X, d, n, chunk, m, f) /\ GetBatch(d, n, chunk) = f[m]
<1>1. PICK base : base = [decoder |-> d, out |-> <<>>, short |-> FALSE]
  OBVIOUS
<1> DEFINE Def(f, i) ==
               IF i = 0 THEN [decoder |-> d, out |-> <<>>, short |-> FALSE]
               ELSE RunRound(f[i - 1], LeftInChunk(n, chunk, f[i - 1].out))
           Upto(f) == f = [i \in 0..(n + Len(d.runs) + 1) |-> Def(f, i)]
           Loop == CHOOSE f : Upto(f)
<1>2. GetBatch(d, n, chunk) = Loop[m]
  BY Zenon DEF GetBatch
<1>3. PICK step : step = [i \in 1..m |-> [x \in X |-> RoundOf(x, n, chunk)]]
  OBVIOUS
<1>4. step \in [1..m -> [X -> X]]
  BY <1>3
<1>5. PICK g \in [0..m -> X] :
        g[0] = base /\ \A i \in 1..m : g[i] = step[i][g[i - 1]]
  <2>1. Runs(m, X, base, step)
    BY <1>1, <1>4, LoopRuns
  <2>2. QED
    BY <2>1, Zenon DEF Runs
<1>6. ASSUME NEW i \in 1..m PROVE g[i] = RoundOf(g[i - 1], n, chunk)
  <2>1. i - 1 \in 0..m
    OBVIOUS
  <2>2. g[i - 1] \in X
    BY <1>5, <2>1
  <2>3. QED
    BY <1>3, <1>5, <2>2
<1>7. Upto(g)
  <2>1. ASSUME NEW i \in 0..m PROVE g[i] = Def(g, i)
    <3>1. CASE i = 0
      BY <1>1, <1>5, <3>1
    <3>2. CASE i # 0
      <4>1. i \in 1..m
        BY <3>2
      <4>2. g[i] = RoundOf(g[i - 1], n, chunk)
        BY <1>6, <4>1
      <4>3. QED
        BY <3>2, <4>2 DEF RoundOf
    <3>3. QED
      BY <3>1, <3>2
  <2> HIDE DEF Def
  <2>2. QED
    BY <1>5, <2>1
<1>8. Upto(Loop)
  <2> HIDE DEF Upto
  <2>1. QED
    BY <1>7
<1> HIDE DEF Loop
<1>9. \A i \in 0..m : Loop[i] = Def(Loop, i)
  <2> HIDE DEF Def
  <2>1. QED
    BY <1>8
<1>10. Loop[0] = base /\ \A i \in 1..m : Loop[i] = RoundOf(Loop[i - 1], n, chunk)
  <2>1. 0 \in 0..m /\ \A i \in 1..m : i \in 0..m /\ i # 0
    OBVIOUS
  <2>2. Loop[0] = base
    BY <1>1, <1>9, <2>1
  <2>3. ASSUME NEW i \in 1..m PROVE Loop[i] = RoundOf(Loop[i - 1], n, chunk)
    BY <1>9, <2>1, Zenon DEF RoundOf
  <2>4. QED
    BY <2>2, <2>3
<1>11. Loop[m] = g[m]
  <2> DEFINE E == {i \in 0..m : Loop[i] = g[i]}
  <2>1. 0 \in E
    BY <1>5, <1>10
  <2>2. \A i \in 1..m : i - 1 \in E => i \in E
    BY <1>6, <1>10
  <2>3. 0..m \subseteq E
    <3> HIDE DEF E
    <3>1. QED
      BY <2>1, <2>2, UpTo, Zenon
  <2>4. QED
    BY <2>3
<1>12. RoundsAre(X, d, n, chunk, m, g)
  BY <1>1, <1>5, <1>6 DEF RoundsAre
<1>13. QED
  BY <1>2, <1>11, <1>12

(* A batch is full, or there is no more: all that is given is right.       *)
BatchIsRight(coding, dict, numbers, runs, S, d, n, got) ==
    /\ got.decoder \in RunDecoders(coding, dict, numbers, runs, S)
    /\ got.out \in Seq(S) /\ Len(got.out) \in 0..n
    /\ got.short \/ Len(got.out) = n
    /\ \A k \in Nat : \A whole \in BOOLEAN :
          RunsSound(runs, whole) /\ RunsAt(d, k, whole) =>
              GotRight(got, numbers, k, whole)

LEMMA BatchRight ==
    ASSUME NEW coding, NEW dict, NEW numbers, NEW runs, NEW S,
           RunFacts(numbers, runs, S), NEW n \in Nat,
           NEW chunk \in Nat, chunk >= 1,
           NEW d \in RunDecoders(coding, dict, numbers, runs, S)
    PROVE  BatchIsRight(coding, dict, numbers, runs, S, d, n,
                        GetBatch(d, n, chunk))
<1>1. PICK D : D = RunDecoders(coding, dict, numbers, runs, S)
  OBVIOUS
<1>2. PICK X : X = Gots(D, S, n)
  OBVIOUS
<1>3. PICK h \in Nat, q \in Nat :
        h = Len(runs) /\ d.runs = runs /\ q = d.next /\ q >= 1
  <2>1. Len(runs) \in Nat
    BY LenProperties DEF RunFacts
  <2>2. d.runs = runs /\ d.next \in 1..(Len(runs) + 1)
    BY RunDecoderFields
  <2>3. QED
    BY <2>1, <2>2
<1>4. PICK base : base = [decoder |-> d, out |-> <<>>, short |-> FALSE]
  OBVIOUS
<1>5. base \in X /\ base.decoder = d /\ base.out = <<>> /\ base.short = FALSE
      /\ Len(<<>>) = 0
  <2>1. <<>> \in Seq(S) /\ Len(<<>>) = 0
    OBVIOUS
  <2>2. QED
    BY <1>1, <1>2, <1>4, <2>1 DEF Gots
<1>6. PICK m \in Nat : m = n + Len(d.runs) + 1 /\ m = n + h + 1
  BY <1>3
<1>7. \A x \in X : RoundOf(x, n, chunk) \in X
  BY <1>1, <1>2, RoundTaken
<1>8. PICK f : RoundsAre(X, d, n, chunk, m, f) /\ GetBatch(d, n, chunk) = f[m]
  BY <1>4, <1>5, <1>6, <1>7, RoundsTaken
<1>9. /\ f \in [0..m -> X] /\ f[0] = base
      /\ \A i \in 1..m : f[i] = RoundOf(f[i - 1], n, chunk)
  BY <1>4, <1>8 DEF RoundsAre
<1>10. PICK got \in X : got = f[m] /\ got = GetBatch(d, n, chunk)
  <2>1. m \in 0..m
    OBVIOUS
  <2>2. QED
    BY <1>8, <1>9, <2>1
<1>11. \A i \in 0..m : f[i] \in X
  BY <1>9
<1>12. GotFar(got, n, m)
  <2> DEFINE E == {i \in 0..m : GotFar(f[i], n, i)}
  <2>1. 0 \in E
    BY <1>3, <1>5, <1>9 DEF GotFar
  <2>2. ASSUME NEW i \in 1..m, i - 1 \in E PROVE i \in E
    <3>1. i - 1 \in Nat /\ (i - 1) + 1 = i /\ i - 1 \in 0..m /\ i \in 0..m
      OBVIOUS
    <3>2. GotFar(f[i - 1], n, i - 1) /\ f[i - 1] \in X
      BY <1>11, <2>2, <3>1
    <3>3. GotFar(RoundOf(f[i - 1], n, chunk), n, (i - 1) + 1)
      BY <1>1, <1>2, <3>1, <3>2, RoundTaken
    <3>4. QED
      BY <1>9, <3>1, <3>3
  <2>3. 0..m \subseteq E
    <3> HIDE DEF E
    <3>1. QED
      BY <2>1, <2>2, UpTo, Zenon
  <2>4. m \in 0..m
    OBVIOUS
  <2>5. QED
    BY <1>10, <2>3, <2>4
<1>13. /\ got.decoder \in D /\ got.out \in Seq(S) /\ Len(got.out) \in 0..n
       /\ got.short \/ Len(got.out) = n
  <2>1. got.decoder \in D /\ got.out \in Seq(S) /\ Len(got.out) \in 0..n
    BY <1>2, GotFields
  <2>2. PICK l \in 0..n, z \in 1..(h + 1) :
          l = Len(got.out) /\ z = got.decoder.next
    BY <1>1, <1>3, <2>1, RunDecoderFields
  <2>3. ~(l + z > m)
    BY <1>6
  <2>4. QED
    BY <1>12, <2>1, <2>2, <2>3 DEF GotFar
<1>14. ASSUME NEW k \in Nat, NEW whole \in BOOLEAN, RunsSound(runs, whole),
              RunsAt(d, k, whole)
       PROVE  GotRight(got, numbers, k, whole)
  <2> DEFINE E == {i \in 0..m : GotRight(f[i], numbers, k, whole)}
  <2>1. 0 \in E
    <3>1. GotRight(base, numbers, k, whole)
      <4>1. k + 0 = k /\ \A i \in 1..0 : FALSE
        OBVIOUS
      <4>2. QED
        BY <1>5, <1>14, <4>1 DEF GotRight
    <3>2. QED
      BY <1>9, <3>1
  <2>2. ASSUME NEW i \in 1..m, i - 1 \in E PROVE i \in E
    <3>1. i - 1 \in 0..m /\ i \in 0..m
      OBVIOUS
    <3>2. GotRight(f[i - 1], numbers, k, whole) /\ f[i - 1] \in X
      BY <1>11, <2>2, <3>1
    <3>3. StaysRight(numbers, runs, f[i - 1], RoundOf(f[i - 1], n, chunk))
      BY <1>1, <1>2, <3>2, RoundTaken
    <3>4. GotRight(RoundOf(f[i - 1], n, chunk), numbers, k, whole)
      BY <1>14, <3>2, <3>3 DEF StaysRight
    <3>5. QED
      BY <1>9, <3>1, <3>4
  <2>3. 0..m \subseteq E
    <3> HIDE DEF E
    <3>1. QED
      BY <2>1, <2>2, UpTo, Zenon
  <2>4. m \in 0..m
    OBVIOUS
  <2>5. QED
    BY <1>10, <2>3, <2>4
<1>15. QED
  BY <1>1, <1>10, <1>13, <1>14 DEF BatchIsRight

(* A new decoder has given nothing.                                        *)
LEMMA NewRuns ==
    ASSUME NEW coding, NEW dict, NEW numbers, NEW runs, NEW S,
           RunFacts(numbers, runs, S), NEW whole
    PROVE  /\ NewRleDecoder(coding, dict, numbers, runs)
                  \in RunDecoders(coding, dict, numbers, runs, S)
           /\ RunsAt(NewRleDecoder(coding, dict, numbers, runs), 0, whole)
<1>1. PICK d : d = NewRleDecoder(coding, dict, numbers, runs)
  OBVIOUS
<1>2. PICK h \in Nat : h = Len(runs)
  BY LenProperties DEF RunFacts
<1>3. /\ d.numbers = numbers /\ d.runs = runs /\ d.next = 1 /\ d.cur = 0
      /\ d.rep = 0 /\ d.lit = 0 /\ d.have = 0
  BY <1>1 DEF NewRleDecoder
<1>4. d \in RunRecords(coding, dict, numbers, runs)
  <2>1. 1 \in 1..(Len(runs) + 1)
    BY <1>2
  <2>2. QED
    BY <1>1, <2>1 DEF NewRleDecoder, RunRecords
<1>5. d \in RunDecoders(coding, dict, numbers, runs, S)
  <2>1. 0 \in S \/ RepeatsComplete(runs)
    BY DEF RunFacts, OldValues
  <2>2. QED
    BY <1>3, <1>4, <2>1 DEF RunDecoders
<1>6. StartOf(numbers, runs, 1) = 0
  <2>1. CASE h = 0
    <3>1. runs = <<>> /\ ~(1 <= Len(runs))
      <4>1. runs \in Seq(Run) /\ Len(runs) = 0
        BY <1>2, <2>1 DEF RunFacts
      <4>2. QED
        BY <4>1, EmptySeq
    <3>2. numbers = <<>>
      BY <3>1 DEF RunFacts, RunsFollow
    <3>3. Len(numbers) = 0
      BY <3>2
    <3>4. QED
      BY <3>1, <3>3 DEF StartOf
  <2>2. CASE h # 0
    <3>1. 1 \in DOMAIN runs /\ 1 <= Len(runs)
      BY <1>2, <2>2, LenProperties DEF RunFacts
    <3>2. runs[1].from = 0
      BY <3>1 DEF RunFacts, RunsFollow
    <3>3. QED
      BY <3>1, <3>2 DEF StartOf
  <2>3. QED
    BY <2>1, <2>2
<1>7. RunsAt(d, 0, whole)
  <2>1. \A i \in 1..0 : FALSE
    OBVIOUS
  <2>2. StartOf(d.numbers, d.runs, d.next) = 0 + d.rep + d.lit
    BY <1>3, <1>6
  <2>3. QED
    BY <1>3, <2>1, <2>2 DEF RunsAt
<1>8. QED
  BY <1>1, <1>5, <1>7

(* Where a decoder is, there are so many numbers.                          *)
LEMMA RunsWithin ==
    ASSUME NEW coding, NEW dict, NEW numbers, NEW runs, NEW S,
           RunFacts(numbers, runs, S), NEW k \in Nat, NEW whole,
           NEW d \in RunDecoders(coding, dict, numbers, runs, S),
           RunsAt(d, k, whole)
    PROVE  k <= Len(numbers)
<1>1. PICK q \in 1..(Len(runs) + 1), r \in Nat, x \in Nat :
        /\ q = d.next /\ r = d.rep /\ x = d.lit
        /\ d.numbers = numbers /\ d.runs = runs
  BY RunDecoderFields
<1>2. StartOf(numbers, runs, q) = k + r + x
  BY <1>1 DEF RunsAt
<1>3. StartOf(numbers, runs, q) \in 0..Len(numbers) /\ Len(numbers) \in Nat
  BY RunFields
<1>4. QED
  BY <1>2, <1>3

-----------------------------------------------------------------------------
(* Pages of indices, and pages of booleans.                                *)
AtIndices(numbers, runs, S, dict, whole, total) ==
    [k \in 0..total |->
        {d \in RunDecoders("indices", dict, numbers, runs, S) :
            /\ RunsAt(d, k, whole)
            /\ \A j \in 1..k : numbers[j] <= Len(dict)}]

IndicesAre(indices, dict, content, whole) ==
    /\ \A i \in 1..Len(indices) :
          (\A j \in 1..i : indices[j] <= Len(dict)) =>
              /\ indices[i] < Len(dict) /\ i <= Len(content)
              /\ content[i] = dict[indices[i] + 1]
    /\ whole => /\ Len(content) = Len(indices)
                /\ \A i \in 1..Len(indices) : indices[i] < Len(dict)

AtBooleans(numbers, runs, S, whole, total) ==
    [k \in 0..total |->
        {d \in RunDecoders("RLE", <<>>, numbers, runs, S) : RunsAt(d, k, whole)}]

BooleansAre(numbers, content, whole) ==
    /\ \A i \in 1..Len(numbers) : i <= Len(content) /\ content[i] = <<numbers[i]>>
    /\ whole => Len(content) = Len(numbers)

(* What a batch takes of the numbers of a page of runs.                    *)
RunsGiven(coding, dict, numbers, runs, S, d, n, chunk, whole, k, m, got) ==
    /\ got = GetBatch(d, n, chunk) /\ m = Len(got.out) /\ m \in 0..n
    /\ got.decoder \in RunDecoders(coding, dict, numbers, runs, S)
    /\ DOMAIN got.out = 1..m
    /\ k + m \in Nat /\ k + m <= Len(numbers) /\ RunsAt(got.decoder, k + m, whole)
    /\ \A i \in 1..m : got.out[i] = numbers[k + i] /\ k + i \in 1..Len(numbers)
    /\ whole => m = n \/ k + m = Len(numbers)

LEMMA RunsGive ==
    ASSUME NEW coding, NEW dict, NEW numbers, NEW runs, NEW S,
           RunFacts(numbers, runs, S), NEW n \in Nat,
           NEW chunk \in Nat, chunk >= 1, NEW whole \in BOOLEAN,
           RunsSound(runs, whole), NEW k \in Nat,
           NEW d \in RunDecoders(coding, dict, numbers, runs, S),
           RunsAt(d, k, whole)
    PROVE  \E m \in 0..n : \E got :
              RunsGiven(coding, dict, numbers, runs, S, d, n, chunk, whole,
                        k, m, got)
<1>1. PICK got : got = GetBatch(d, n, chunk)
  OBVIOUS
<1>2. /\ got.decoder \in RunDecoders(coding, dict, numbers, runs, S)
      /\ got.out \in Seq(S) /\ Len(got.out) \in 0..n
      /\ got.short \/ Len(got.out) = n
      /\ GotRight(got, numbers, k, whole)
  BY <1>1, BatchRight DEF BatchIsRight
<1>3. PICK m \in 0..n : m = Len(got.out) /\ DOMAIN got.out = 1..m
  BY <1>2, LenProperties
<1>4. /\ \A i \in 1..m : got.out[i] = numbers[k + i]
      /\ RunsAt(got.decoder, k + m, whole)
      /\ got.short => ~whole \/ k + m = Len(numbers)
  BY <1>2, <1>3 DEF GotRight
<1>5. k + m \in Nat /\ Len(numbers) \in Nat
  BY LenProperties DEF RunFacts
<1>6. k + m <= Len(numbers)
  BY <1>2, <1>4, <1>5, RunsWithin
<1>7. \A i \in 1..m : k + i \in 1..Len(numbers)
  BY <1>5, <1>6
<1>8. whole => m = n \/ k + m = Len(numbers)
  BY <1>2, <1>3, <1>4
<1>9. RunsGiven(coding, dict, numbers, runs, S, d, n, chunk, whole, k, m, got)
  BY <1>1, <1>2, <1>3, <1>4, <1>5, <1>6, <1>7, <1>8 DEF RunsGiven
<1>10. QED
  BY <1>9

LEMMA IndicesGive ==
    ASSUME NEW numbers, NEW runs, NEW S, RunFacts(numbers, runs, S),
           NEW dict, NEW content \in Seq(Seq(Nat)), NEW whole \in BOOLEAN,
           dict \in Seq(Seq(Nat)), RunsSound(runs, whole),
           IndicesAre(numbers, dict, content, whole),
           NEW k \in 0..Len(content),
           NEW d \in AtIndices(numbers, runs, S, dict, whole, Len(content))[k],
           NEW n \in Nat
    PROVE  Gives(ReadIndices(d, n),
                 AtIndices(numbers, runs, S, dict, whole, Len(content)),
                 content, whole, k, n)
<1>1. PICK l \in Nat, x \in Nat, h \in Nat :
        l = Len(content) /\ x = Len(numbers) /\ h = Len(dict)
  BY LenProperties DEF RunFacts
<1>2. PICK at : at = AtIndices(numbers, runs, S, dict, whole, l)
  OBVIOUS
<1>3. /\ d \in RunDecoders("indices", dict, numbers, runs, S) /\ d.dict = dict
      /\ RunsAt(d, k, whole) /\ \A j \in 1..k : numbers[j] <= h
  <2>1. k \in 0..l
    BY <1>1
  <2>2. /\ d \in RunDecoders("indices", dict, numbers, runs, S)
        /\ RunsAt(d, k, whole) /\ \A j \in 1..k : numbers[j] <= h
    BY <1>1, <2>1 DEF AtIndices
  <2>3. QED
    BY <2>2, RunDecoderFields
<1>4. PICK m \in 0..n :
        \E got : RunsGiven("indices", dict, numbers, runs, S, d, n, IndexBatch,
                          whole, k, m, got)
  <2>1. k \in Nat
    BY <1>1
  <2>2. PICK chunk \in Nat : chunk = IndexBatch /\ chunk >= 1
    BY CodingAssumption
  <2>3. /\ d \in RunDecoders("indices", dict, numbers, runs, S)
        /\ RunsAt(d, k, whole) /\ chunk >= 1
    BY <1>3, <2>2
  <2>4. \E m \in 0..n : \E got :
          RunsGiven("indices", dict, numbers, runs, S, d, n, chunk, whole, k,
                    m, got)
    BY <2>1, <2>3, RunsGive, ZenonT(30)
  <2>5. QED
    BY <2>2, <2>4
<1>5. PICK got :
      /\ got = GetBatch(d, n, IndexBatch)
      /\ got.decoder \in RunDecoders("indices", dict, numbers, runs, S)
      /\ DOMAIN got.out = 1..m
      /\ k + m \in Nat /\ k + m <= x /\ RunsAt(got.decoder, k + m, whole)
      /\ \A i \in 1..m : got.out[i] = numbers[k + i] /\ k + i \in 1..x
      /\ whole => m = n \/ k + m = x
  BY <1>1, <1>4 DEF RunsGiven
<1>6. /\ \A i \in 1..x : (\A j \in 1..i : numbers[j] <= h) =>
            numbers[i] < h /\ i <= l /\ content[i] = dict[numbers[i] + 1]
      /\ whole => l = x /\ \A i \in 1..x : numbers[i] < h
  BY <1>1 DEF IndicesAre
<1>7. \A j \in 1..x : numbers[j] \in Nat
  BY <1>1, ElementOfSeq DEF RunFacts
<1>8. PICK out : out = got.out
  OBVIOUS
<1>9. PICK bad : bad = \E i \in 1..m : out[i] > h
  OBVIOUS
<1>10. CASE bad
  <2>1. ReadIndices(d, n) = Threw(d)
    <3>1. \E i \in DOMAIN got.out : got.out[i] > Len(d.dict)
      BY <1>1, <1>3, <1>5, <1>8, <1>9, <1>10
    <3>2. QED
      BY <1>5, <3>1, Zenon DEF ReadIndices, LookedUp
  <2>2. PICK i \in 1..m : out[i] > h
    BY <1>9, <1>10
  <2>3. out[i] = numbers[k + i] /\ k + i \in 1..x
    BY <1>5, <1>8
  <2>4. ~(numbers[k + i] < h)
    BY <1>7, <2>2, <2>3
  <2>5. ~whole
    BY <1>6, <2>3, <2>4
  <2>6. QED
    BY <2>1, <2>5 DEF Gives, Threw
<1>11. CASE ~bad
  <2>1. PICK values : values = [i \in 1..m |-> dict[out[i] + 1]]
    OBVIOUS
  <2>2. ReadIndices(d, n) = Batch(got.decoder, values)
    <3>1. ~(\E i \in DOMAIN got.out : got.out[i] > Len(d.dict))
      BY <1>1, <1>3, <1>5, <1>8, <1>9, <1>11
    <3>2. [i \in DOMAIN got.out |-> d.dict[got.out[i] + 1]] = values
      BY <1>3, <1>5, <1>8, <2>1
    <3>3. QED
      BY <1>5, <3>1, <3>2, Zenon DEF ReadIndices, LookedUp
  <2>3. ASSUME NEW j \in 1..(k + m) PROVE numbers[j] <= h
    <3>1. CASE j <= k
      <4>1. j \in 1..k
        BY <3>1
      <4>2. QED
        BY <1>3, <4>1
    <3>2. CASE j > k
      <4>1. PICK i \in 1..m : j = k + i
        <5>1. j - k \in 1..m /\ j = k + (j - k)
          BY <3>2
        <5>2. QED
          BY <5>1
      <4>2. out[i] = numbers[k + i] /\ k + i \in 1..x
        BY <1>5, <1>8
      <4>3. ~(out[i] > h)
        BY <1>9, <1>11
      <4>4. QED
        BY <1>7, <4>1, <4>2, <4>3
    <3>3. QED
      BY <3>1, <3>2
  <2>4. ASSUME NEW i \in 1..m
        PROVE  k + i <= l /\ content[k + i] = dict[out[i] + 1]
    <3>1. out[i] = numbers[k + i] /\ k + i \in 1..x
      BY <1>5, <1>8
    <3>2. \A j \in 1..(k + i) : j \in 1..(k + m)
      OBVIOUS
    <3>3. k + i <= l /\ content[k + i] = dict[numbers[k + i] + 1]
      BY <1>6, <2>3, <3>1, <3>2
    <3>4. QED
      BY <3>1, <3>3
  <2>5. k + m <= l
    <3>1. CASE m = 0
      <4>1. k \in Nat /\ k <= l
        BY <1>1
      <4>2. QED
        BY <3>1, <4>1
    <3>2. CASE m # 0
      <4>1. m \in 1..m
        BY <3>2
      <4>2. QED
        BY <2>4, <4>1
    <3>3. QED
      BY <3>1, <3>2
  <2>6. values = SubSeq(content, k + 1, k + m)
    <3>1. PICK T : T = Seq(Nat) /\ content \in Seq(T)
      OBVIOUS
    <3>2. DOMAIN values = 1..m /\ values = [i \in 1..m |-> values[i]]
      BY <2>1, Zenon
    <3>3. \A i \in 1..m : values[i] = content[k + i]
      <4>1. ASSUME NEW i \in 1..m PROVE values[i] = content[k + i]
        <5>1. values[i] = dict[out[i] + 1]
          BY <2>1
        <5>2. QED
          BY <2>4, <5>1
      <4>2. QED
        BY <4>1
    <3>4. k + m <= Len(content) /\ k \in Nat /\ m \in Nat
      BY <1>1, <2>5
    <3>5. k \in Nat /\ m \in Nat
      OBVIOUS
    <3>6. k + m <= Len(content)
      BY <3>4
    <3>7. QED
      BY <3>1, <3>2, <3>3, <3>5, <3>6, PartEquals, SMTT(60)
  <2>7. got.decoder \in at[k + m]
    <3>1. k + m \in 0..l
      BY <1>5, <2>5
    <3>2. QED
      BY <1>1, <1>2, <1>5, <2>3, <3>1 DEF AtIndices
  <2>8. whole => m = n \/ k + m = l
    BY <1>5, <1>6
  <2>9. MoreGiven(ReadIndices(d, n), at, content, whole, k, n, m)
    BY <1>1, <2>2, <2>5, <2>6, <2>7, <2>8 DEF MoreGiven, Batch
  <2>10. QED
    BY <1>1, <1>2, <1>5, <2>9 DEF Gives
<1>12. QED
  BY <1>10, <1>11

LEMMA BooleansGive ==
    ASSUME NEW numbers, NEW runs, NEW S, RunFacts(numbers, runs, S),
           NEW content \in Seq(Seq(Nat)), NEW whole \in BOOLEAN,
           RunsSound(runs, whole), BooleansAre(numbers, content, whole),
           NEW k \in 0..Len(content),
           NEW d \in AtBooleans(numbers, runs, S, whole, Len(content))[k],
           NEW n \in Nat, n >= 1
    PROVE  Gives(ReadBooleans(d, n),
                 AtBooleans(numbers, runs, S, whole, Len(content)),
                 content, whole, k, n)
<1>1. PICK l \in Nat, x \in Nat : l = Len(content) /\ x = Len(numbers)
  BY LenProperties DEF RunFacts
<1>2. PICK at : at = AtBooleans(numbers, runs, S, whole, l)
  OBVIOUS
<1>3. /\ d \in RunDecoders("RLE", <<>>, numbers, runs, S)
      /\ RunsAt(d, k, whole)
  BY <1>1 DEF AtBooleans
<1>4. PICK m \in 0..n :
        \E got : RunsGiven("RLE", <<>>, numbers, runs, S, d, n, n, whole, k,
                          m, got)
  <2>1. k \in Nat
    BY <1>1
  <2>2. QED
    BY <1>3, <2>1, RunsGive
<1>5. PICK got :
      /\ got = GetBatch(d, n, n)
      /\ got.decoder \in RunDecoders("RLE", <<>>, numbers, runs, S)
      /\ DOMAIN got.out = 1..m
      /\ k + m \in Nat /\ k + m <= x /\ RunsAt(got.decoder, k + m, whole)
      /\ \A i \in 1..m : got.out[i] = numbers[k + i] /\ k + i \in 1..x
      /\ whole => m = n \/ k + m = x
  BY <1>1, <1>4 DEF RunsGiven
<1>6. /\ \A i \in 1..x : i <= l /\ content[i] = <<numbers[i]>>
      /\ whole => l = x
  BY <1>1 DEF BooleansAre
<1>7. PICK out, values :
        out = got.out /\ values = [i \in 1..m |-> <<out[i]>>]
  OBVIOUS
<1>8. ReadBooleans(d, n) = Batch(got.decoder, values)
  BY <1>5, <1>7 DEF ReadBooleans, BooleansOf
<1>9. ASSUME NEW i \in 1..m
      PROVE  k + i <= l /\ content[k + i] = <<out[i]>>
  <2>1. out[i] = numbers[k + i] /\ k + i \in 1..x
    BY <1>5, <1>7
  <2>2. QED
    BY <1>6, <2>1
<1>10. k + m <= l
  <2>1. CASE m = 0
    <3>1. k \in Nat /\ k <= l
      BY <1>1
    <3>2. QED
      BY <2>1, <3>1
  <2>2. CASE m # 0
    <3>1. m \in 1..m
      BY <2>2
    <3>2. QED
      BY <1>9, <3>1
  <2>3. QED
    BY <2>1, <2>2
<1>11. values = SubSeq(content, k + 1, k + m)
  <2>1. PICK T : T = Seq(Nat) /\ content \in Seq(T)
    OBVIOUS
  <2>2. DOMAIN values = 1..m /\ values = [i \in 1..m |-> values[i]]
    BY <1>7, Zenon
  <2>3. \A i \in 1..m : values[i] = content[k + i]
    <3>1. ASSUME NEW i \in 1..m PROVE values[i] = content[k + i]
      <4>1. values[i] = <<out[i]>>
        BY <1>7
      <4>2. QED
        BY <1>9, <4>1
    <3>2. QED
      BY <3>1
  <2>4. k \in Nat /\ m \in Nat
    OBVIOUS
  <2>5. k + m <= Len(content)
    BY <1>1, <1>10
  <2>6. QED
    BY <2>1, <2>2, <2>3, <2>4, <2>5, PartEquals, SMTT(60)
<1>12. got.decoder \in at[k + m]
  <2>1. k + m \in 0..l
    BY <1>5, <1>10
  <2>2. QED
    BY <1>2, <1>5, <2>1 DEF AtBooleans
<1>13. whole => m = n \/ k + m = l
  BY <1>5, <1>6
<1>14. MoreGiven(ReadBooleans(d, n), at, content, whole, k, n, m)
  BY <1>1, <1>8, <1>10, <1>11, <1>12, <1>13 DEF MoreGiven, Batch
<1>15. QED
  BY <1>1, <1>2, <1>5, <1>14 DEF Gives

(* The types of batches of runs, whatever the runs are.                    *)
LEMMA IndicesType ==
    ASSUME NEW numbers, NEW runs, NEW dict \in Seq(Seq(Nat)), NEW S,
           S = {i \in Nat : i # Len(dict)}, RunFacts(numbers, runs, S),
           NEW d \in RunDecoders("indices", dict, numbers, runs, S),
           NEW n \in Nat
    PROVE  /\ ReadIndices(d, n).decoder
                  \in RunDecoders("indices", dict, numbers, runs, S)
           /\ ReadIndices(d, n).values \in Seq(Seq(Nat))
           /\ ReadIndices(d, n).threw \in BOOLEAN
<1>1. PICK got : got = GetBatch(d, n, IndexBatch)
  OBVIOUS
<1>2. /\ got.decoder \in RunDecoders("indices", dict, numbers, runs, S)
      /\ got.out \in Seq(S)
  <2>1. IndexBatch \in Nat /\ IndexBatch >= 1
    BY CodingAssumption
  <2>2. QED
    BY <1>1, <2>1, BatchRight DEF BatchIsRight
<1>3. PICK h \in Nat, m \in Nat :
        /\ h = Len(dict) /\ d.dict = dict
        /\ DOMAIN got.out = 1..m /\ \A i \in 1..m : got.out[i] \in S
  <2>1. Len(dict) \in Nat /\ d.dict = dict
    BY LenProperties, RunDecoderFields
  <2>2. /\ Len(got.out) \in Nat /\ DOMAIN got.out = 1..Len(got.out)
        /\ \A i \in 1..Len(got.out) : got.out[i] \in S
    BY <1>2, LenProperties, ElementOfSeq
  <2>3. QED
    BY <2>1, <2>2
<1>4. CASE \E i \in DOMAIN got.out : got.out[i] > Len(d.dict)
  <2>1. ReadIndices(d, n) = Threw(d)
    BY <1>1, <1>4, Zenon DEF ReadIndices, LookedUp
  <2>2. QED
    BY <2>1 DEF Threw
<1>5. CASE ~(\E i \in DOMAIN got.out : got.out[i] > Len(d.dict))
  <2>1. PICK values : values = [i \in 1..m |-> dict[got.out[i] + 1]]
    OBVIOUS
  <2>2. ReadIndices(d, n) = Batch(got.decoder, values)
    <3>1. [i \in DOMAIN got.out |-> d.dict[got.out[i] + 1]] = values
      BY <1>3, <2>1
    <3>2. QED
      BY <1>1, <1>5, <3>1, Zenon DEF ReadIndices, LookedUp
  <2>3. PICK T : T = Seq(Nat) /\ dict \in Seq(T)
    OBVIOUS
  <2>4. values \in [1..m -> T]
    <3>1. ASSUME NEW i \in 1..m PROVE dict[got.out[i] + 1] \in T
      <4>1. got.out[i] \in Nat /\ got.out[i] # h /\ ~(got.out[i] > h)
        BY <1>3, <1>5
      <4>2. got.out[i] + 1 \in 1..h
        BY <4>1
      <4>3. QED
        BY <1>3, <2>3, <4>2, ElementOfSeq
    <3>2. QED
      BY <2>1, <3>1
  <2>5. values \in Seq(T)
    BY <2>4, SeqIs
  <2>6. QED
    BY <1>2, <2>2, <2>3, <2>5 DEF Batch
<1>6. QED
  BY <1>4, <1>5

LEMMA BooleansType ==
    ASSUME NEW numbers, NEW runs, RunFacts(numbers, runs, Nat),
           NEW d \in RunDecoders("RLE", <<>>, numbers, runs, Nat),
           NEW n \in Nat, n >= 1
    PROVE  /\ ReadBooleans(d, n).decoder
                  \in RunDecoders("RLE", <<>>, numbers, runs, Nat)
           /\ ReadBooleans(d, n).values \in Seq(Seq(Nat))
           /\ ReadBooleans(d, n).threw = FALSE
<1>1. PICK got : got = GetBatch(d, n, n)
  OBVIOUS
<1>2. /\ got.decoder \in RunDecoders("RLE", <<>>, numbers, runs, Nat)
      /\ got.out \in Seq(Nat)
  BY <1>1, BatchRight DEF BatchIsRight
<1>3. PICK m \in Nat :
        DOMAIN got.out = 1..m /\ \A i \in 1..m : got.out[i] \in Nat
  BY <1>2, LenProperties, ElementOfSeq
<1>4. PICK values : values = [i \in 1..m |-> <<got.out[i]>>]
  OBVIOUS
<1>5. ReadBooleans(d, n) = Batch(got.decoder, values)
  BY <1>1, <1>3, <1>4 DEF ReadBooleans, BooleansOf
<1>6. PICK T : T = Seq(Nat)
  OBVIOUS
<1>7. values \in Seq(T)
  <2>1. \A i \in 1..m : <<got.out[i]>> \in T
    BY <1>3, <1>6
  <2>2. values \in [1..m -> T]
    BY <1>4, <2>1
  <2>3. QED
    BY <2>2, SeqIs
<1>8. QED
  BY <1>2, <1>5, <1>6, <1>7 DEF Batch

-----------------------------------------------------------------------------
(* Pages whose values are split into streams of their bytes.               *)
SplitDecoders ==
    {d \in [coding : {"BYTE_STREAM_SPLIT"}, size : Nat \ {0}, data : Seq(Nat),
            total : Nat, idx : Nat] :
        d.idx <= d.total /\ Len(d.data) = d.size * d.total}

SplitValue(d, i) == [b \in 1..d.size |-> d.data[i + (b - 1) * d.total]]

AtSplit(size, numbers, total) ==
    [k \in 0..total |->
        {d \in SplitDecoders : /\ d.size = size /\ d.data = numbers
                               /\ d.total = total /\ d.idx = k}]

LEMMA SplitValueType ==
    ASSUME NEW d \in SplitDecoders, NEW i \in 1..d.total
    PROVE  SplitValue(d, i) \in Seq(Nat)
<1>1. PICK s \in Nat, t \in Nat, nums \in Seq(Nat) :
        /\ s = d.size /\ t = d.total /\ nums = d.data
        /\ s >= 1 /\ Len(nums) = s * t
  BY DEF SplitDecoders
<1>2. ASSUME NEW b \in 1..s PROVE nums[i + (b - 1) * t] \in Nat
  <2>1. PICK y \in Nat : y = (b - 1) * t /\ y + t <= s * t
    <3>1. b - 1 \in Nat /\ b \in Nat /\ b <= s
      OBVIOUS
    <3>2. (b - 1) * t \in Nat /\ b * t = (b - 1) * t + t /\ b * t <= s * t
      BY <3>1
    <3>3. QED
      BY <3>2
  <2>2. i \in 1..t
    BY <1>1
  <2>3. PICK z \in Nat : z = s * t /\ y + t <= z
    <3>1. s * t \in Nat
      OBVIOUS
    <3>2. QED
      BY <2>1, <3>1
  <2>4. i + y \in 1..Len(nums)
    BY <1>1, <2>2, <2>3
  <2>5. nums[i + y] \in Nat
    BY <2>4, ElementOfSeq
  <2>6. QED
    BY <2>1, <2>5
<1>3. PICK f : f = [b \in 1..s |-> nums[i + (b - 1) * t]]
  OBVIOUS
<1>4. f \in [1..s -> Nat]
  BY <1>2, <1>3, Zenon
<1>5. f \in Seq(Nat)
  BY <1>4, SeqIs
<1>6. QED
  BY <1>1, <1>3, <1>5 DEF SplitValue

SplitTaken(d, n, m, e, values) ==
    /\ m <= d.total - d.idx /\ (m = n \/ m = d.total - d.idx)
    /\ e \in SplitDecoders /\ e = [d EXCEPT !.idx = d.idx + m]
    /\ values \in Seq(Seq(Nat))
    /\ DOMAIN values = 1..m /\ values = [i \in 1..m |-> values[i]]
    /\ \A i \in 1..m : values[i] = SplitValue(d, d.idx + i)
    /\ ReadSplit(d, n) = Batch(e, values)

LEMMA SplitTakes ==
    ASSUME NEW d \in SplitDecoders, NEW n \in Nat
    PROVE  \E m \in 0..n : \E e, values : SplitTaken(d, n, m, e, values)
<1>1. PICK t \in Nat, x \in Nat : t = d.total /\ x = d.idx /\ x <= t
  BY DEF SplitDecoders
<1>2. PICK m \in 0..n :
        m = Fewer(n, t - x) /\ m <= t - x /\ (m = n \/ m = t - x)
  <2>1. t - x \in Nat
    BY <1>1
  <2>2. Fewer(n, t - x) \in {n, t - x} /\ Fewer(n, t - x) <= n
        /\ Fewer(n, t - x) <= t - x
    BY <2>1, FewerFacts
  <2>3. QED
    BY <2>1, <2>2
<1>3. PICK e, values : /\ e = [d EXCEPT !.idx = x + m]
                       /\ values = [i \in 1..m |-> SplitValue(d, x + i)]
  OBVIOUS
<1>4. e \in SplitDecoders
  <2>1. x + m \in Nat /\ x + m <= t
    BY <1>1, <1>2
  <2>2. QED
    BY <1>1, <1>3, <2>1 DEF SplitDecoders
<1>5. \A i \in 1..m : SplitValue(d, x + i) \in Seq(Nat)
  <2>1. ASSUME NEW i \in 1..m PROVE SplitValue(d, x + i) \in Seq(Nat)
    <3>1. x + i \in 1..d.total
      BY <1>1, <1>2
    <3>2. QED
      BY <3>1, SplitValueType
  <2>2. QED
    BY <2>1
<1>6. values \in Seq(Seq(Nat))
  <2>1. PICK E : E = Seq(Nat)
    OBVIOUS
  <2>2. values \in [1..m -> E] /\ m \in Nat
    <3>1. values \in [1..m -> E]
      BY <1>3, <1>5, <2>1, Zenon
    <3>2. QED
      BY <3>1
  <2>3. QED
    BY <2>1, <2>2, SeqIs
<1>7. /\ DOMAIN values = 1..m /\ values = [i \in 1..m |-> values[i]]
      /\ \A i \in 1..m : values[i] = SplitValue(d, x + i)
  BY <1>3, Zenon
<1>8. ReadSplit(d, n) = Batch(e, values)
  BY <1>1, <1>2, <1>3, Zenon DEF ReadSplit, SplitValue
<1>9. SplitTaken(d, n, m, e, values)
  BY <1>1, <1>2, <1>3, <1>4, <1>6, <1>7, <1>8, Zenon DEF SplitTaken
<1>10. QED
  BY <1>9

LEMMA SplitGives ==
    ASSUME NEW size, NEW numbers, NEW content \in Seq(Seq(Nat)), NEW whole,
           \A i \in 1..Len(content) :
              content[i] = [b \in 1..size |->
                               numbers[i + (b - 1) * Len(content)]],
           NEW k \in 0..Len(content),
           NEW d \in AtSplit(size, numbers, Len(content))[k], NEW n \in Nat
    PROVE  Gives(ReadSplit(d, n), AtSplit(size, numbers, Len(content)),
                 content, whole, k, n)
<1>1. PICK l \in Nat : l = Len(content)
  BY LenProperties
<1>2. PICK at : at = AtSplit(size, numbers, l)
  OBVIOUS
<1>3. /\ d \in SplitDecoders /\ d.size = size /\ d.data = numbers
      /\ d.total = l /\ d.idx = k
  BY <1>1 DEF AtSplit
<1>4. PICK m \in 0..n : \E e, values : SplitTaken(d, n, m, e, values)
  BY <1>3, SplitTakes
<1>5. PICK e, values : SplitTaken(d, n, m, e, values)
  BY <1>4
<1>6. /\ m <= l - k /\ (m = n \/ m = l - k)
      /\ e \in SplitDecoders /\ e = [d EXCEPT !.idx = k + m]
      /\ DOMAIN values = 1..m /\ values = [i \in 1..m |-> values[i]]
      /\ \A i \in 1..m : values[i] = SplitValue(d, k + i)
      /\ ReadSplit(d, n) = Batch(e, values)
  BY <1>3, <1>5, Zenon DEF SplitTaken
<1>7. k + m <= l /\ k + m \in 0..l /\ k \in Nat /\ m \in Nat
      /\ (m = n \/ k + m = l)
  BY <1>1, <1>6
<1>8. ASSUME NEW i \in 1..m PROVE values[i] = content[k + i]
  <2>1. k + i \in 1..l
    BY <1>1, <1>6
  <2>2. content[k + i] = [b \in 1..size |-> numbers[(k + i) + (b - 1) * l]]
    BY <1>1, <2>1, Zenon
  <2>3. SplitValue(d, k + i) = [b \in 1..size |-> numbers[(k + i) + (b - 1) * l]]
    BY <1>3, Zenon DEF SplitValue
  <2>4. QED
    BY <1>6, <2>2, <2>3, Zenon
<1>9. values = SubSeq(content, k + 1, k + m)
  <2>1. PICK T, s : T = Seq(Nat) /\ s = content /\ s \in Seq(T)
    OBVIOUS
  <2>2. k \in Nat /\ m \in Nat /\ k + m <= Len(s)
    BY <1>1, <1>7, <2>1
  <2>3. PICK v : /\ v = values /\ DOMAIN v = 1..m /\ v = [i \in 1..m |-> v[i]]
                 /\ \A i \in 1..m : v[i] = s[k + i]
    BY <1>6, <1>8, <2>1, Zenon
  <2>4. v = SubSeq(s, k + 1, k + m)
    BY <2>1, <2>2, <2>3, PartEquals, SMTT(30)
  <2>5. QED
    BY <2>1, <2>3, <2>4, Zenon
<1>10. e \in at[k + m]
  <2>1. e.size = size /\ e.data = numbers /\ e.total = l /\ e.idx = k + m
    BY <1>3, <1>6 DEF SplitDecoders
  <2>2. k + m \in 0..l /\ e \in SplitDecoders
    BY <1>6, <1>7
  <2>3. at[k + m] = {x \in SplitDecoders : /\ x.size = size /\ x.data = numbers
                                          /\ x.total = l /\ x.idx = k + m}
    BY <1>2, <2>2, Zenon DEF AtSplit
  <2>4. QED
    BY <2>1, <2>2, <2>3, Zenon
<1>11. MoreGiven(ReadSplit(d, n), at, content, whole, k, n, m)
  <2>1. /\ ReadSplit(d, n).threw = FALSE /\ ReadSplit(d, n).decoder = e
        /\ ReadSplit(d, n).values = values
    BY <1>6 DEF Batch
  <2>2. k + m <= Len(content) /\ (whole => m = n \/ k + m = Len(content))
    BY <1>1, <1>7
  <2>3. QED
    BY <1>9, <1>10, <2>1, <2>2, Zenon DEF MoreGiven
<1>12. QED
  BY <1>1, <1>2, <1>11 DEF Gives

LEMMA SplitType ==
    ASSUME NEW d \in SplitDecoders, NEW n \in Nat
    PROVE  ReadSplit(d, n) \in Batches(SplitDecoders)
           /\ ReadSplit(d, n).threw = FALSE
<1>1. PICK m \in 0..n : \E e, values : SplitTaken(d, n, m, e, values)
  BY SplitTakes
<1>2. PICK e, values : SplitTaken(d, n, m, e, values)
  BY <1>1
<1>3. /\ e \in SplitDecoders /\ values \in Seq(Seq(Nat))
      /\ ReadSplit(d, n) = Batch(e, values)
  BY <1>2, Zenon DEF SplitTaken
<1>4. QED
  BY <1>3 DEF Batches, Batch

-----------------------------------------------------------------------------
(* The decoder of deltas.                                                  *)
DeltaRecords(bits) ==
    {d \in [failed : BOOLEAN, bits : {bits}, rest : Seq(Nat), minis : Nat \ {0},
            perMini : Nat, remaining : Nat, last : Words(bits), least : Int,
            widths : Seq(Nat), width : Nat, idx : Nat, current : Nat,
            out : Seq(Words(bits))] :
        d.idx <= d.minis /\ (d.idx < d.minis => Len(d.widths) = d.minis)}

(* A value has been given, the last.                                       *)
Begun(d) == Len(d.out) >= 1 /\ d.out[Len(d.out)] = d.last

DeltaAdded(d, delta, spill, before) ==
    Wrap(d.bits, before + Narrow(d, delta, spill) + d.least)

(* The decoder after j deltas.                                             *)
AddedIs(d, deltas, spill, j, e) ==
    /\ e = [d EXCEPT !.last = e.last, !.out = e.out]
    /\ e.last \in Words(d.bits) /\ e.out \in Seq(Words(d.bits)) /\ Begun(e)
    /\ Len(e.out) = Len(d.out) + j
    /\ \A i \in 1..Len(d.out) : e.out[i] = d.out[i]
    /\ \A i \in 1..j : e.out[Len(d.out) + i] =
          DeltaAdded(d, deltas[i], spill, e.out[Len(d.out) + i - 1])

LEMMA AddedType ==
    ASSUME NEW bits \in Nat, NEW d, d.bits = bits, NEW delta \in Nat,
           NEW spill \in Nat, d.least \in Int, d.width \in Nat,
           NEW before \in Words(bits)
    PROVE  DeltaAdded(d, delta, spill, before) \in Words(bits)
<1>1. before \in Int
  BY Pow2Facts DEF Words
<1>2. Narrow(d, delta, spill) \in Int
  <2>1. BufferBits \in Nat
    BY DeltaConstants
  <2>2. delta + spill \in Int
    OBVIOUS
  <2>3. Wrap(BufferBits, delta + spill) \in Words(BufferBits)
    BY <2>1, <2>2, WrapFacts
  <2>4. Wrap(BufferBits, delta + spill) \in Int
    BY <2>1, <2>3, Pow2Facts DEF Words
  <2>5. QED
    BY <2>4 DEF Narrow
<1>3. PICK x \in Int : x = before + Narrow(d, delta, spill) + d.least
  BY <1>1, <1>2
<1>4. Wrap(bits, x) \in Words(bits)
  BY <1>3, WrapFacts
<1>5. QED
  BY <1>3, <1>4 DEF DeltaAdded

LEMMA AddedFirst ==
    ASSUME NEW bits \in Nat, NEW d \in DeltaRecords(bits), Begun(d),
           NEW deltas, NEW spill
    PROVE  AddedIs(d, deltas, spill, 0, d)
<1>1. d.last \in Words(d.bits) /\ d.out \in Seq(Words(d.bits))
      /\ d = [d EXCEPT !.last = d.last, !.out = d.out]
  BY DEF DeltaRecords
<1>2. Len(d.out) \in Nat
  BY <1>1, LenProperties
<1>3. Len(d.out) = Len(d.out) + 0 /\ \A i \in 1..0 : FALSE
  BY <1>2
<1>4. QED
  BY <1>1, <1>3 DEF AddedIs

LEMMA AddedNext ==
    ASSUME NEW bits \in Nat, NEW d \in DeltaRecords(bits), Len(d.out) >= 1,
           NEW spill \in Nat,
           NEW deltas \in Seq(Nat), NEW j \in Nat, j < Len(deltas),
           NEW e, AddedIs(d, deltas, spill, j, e)
    PROVE  AddedIs(d, deltas, spill, j + 1, AddDelta(e, deltas[j + 1], spill))
<1>1. PICK W : W = Words(bits)
  OBVIOUS
<1>2. /\ d.bits = bits /\ d.least \in Int /\ d.width \in Nat
      /\ d.out \in Seq(W)
  BY <1>1 DEF DeltaRecords
<1>3. /\ e = [d EXCEPT !.last = e.last, !.out = e.out]
      /\ e.last \in W /\ e.out \in Seq(W)
      /\ Len(e.out) >= 1 /\ e.out[Len(e.out)] = e.last
      /\ Len(e.out) = Len(d.out) + j
      /\ \A i \in 1..Len(d.out) : e.out[i] = d.out[i]
      /\ \A i \in 1..j : e.out[Len(d.out) + i] =
            DeltaAdded(d, deltas[i], spill, e.out[Len(d.out) + i - 1])
  BY <1>1, <1>2 DEF AddedIs, Begun
<1>4. PICK a \in Nat, b \in Nat, c \in Nat :
        a = Len(d.out) /\ b = Len(e.out) /\ b = a + j /\ b >= 1
        /\ c = Len(deltas) /\ j < c
  <2>1. Len(d.out) \in Nat /\ Len(e.out) \in Nat /\ Len(deltas) \in Nat
    BY <1>2, <1>3, LenProperties
  <2>2. QED
    BY <1>3, <2>1
<1>5. deltas[j + 1] \in Nat
  <2>1. j + 1 \in 1..c
    BY <1>4
  <2>2. QED
    BY <1>4, <2>1, ElementOfSeq
<1>6. PICK v \in W : v = DeltaAdded(d, deltas[j + 1], spill, e.last)
  BY <1>1, <1>2, <1>3, <1>5, AddedType
<1>7. PICK f : f = AddDelta(e, deltas[j + 1], spill)
  OBVIOUS
<1>8. e.bits = d.bits /\ e.width = d.width /\ e.least = d.least
  <2>1. PICK x, y : e = [d EXCEPT !.last = x, !.out = y]
    BY <1>3
  <2>2. QED
    BY <2>1 DEF DeltaRecords
<1>9. v = Wrap(e.bits, e.last + Narrow(e, deltas[j + 1], spill) + e.least)
  BY <1>6, <1>8, Zenon DEF DeltaAdded, Narrow
<1>10. f = [e EXCEPT !.last = v, !.out = Append(e.out, v)]
  BY <1>7, <1>9, Zenon DEF AddDelta
<1>11. PICK o : o = Append(e.out, v)
  OBVIOUS
<1>12. /\ o = Append(e.out, v) /\ o \in Seq(W) /\ Len(o) = b + 1
       /\ o[b + 1] = v /\ \A i \in 1..b : o[i] = e.out[i]
  <2>1. e.out \in Seq(W)
    BY <1>3
  <2>2. /\ o \in Seq(W) /\ Len(o) = Len(e.out) + 1
        /\ o[Len(e.out) + 1] = v /\ \A i \in 1..Len(e.out) : o[i] = e.out[i]
    BY <1>11, <2>1, AppendProperties
  <2>3. QED
    BY <1>4, <1>11, <2>2, Zenon
<1>13. f.last = v /\ f.out = o /\ f = [d EXCEPT !.last = v, !.out = o]
  <2>1. PICK x, y : e = [d EXCEPT !.last = x, !.out = y]
    BY <1>3
  <2>2. f = [e EXCEPT !.last = v, !.out = o]
    BY <1>10, <1>12
  <2>3. QED
    BY <2>1, <2>2 DEF DeltaRecords
<1>14. Begun(f)
  <2>1. b + 1 >= 1
    BY <1>4
  <2>2. Len(f.out) >= 1
    BY <1>12, <1>13, <2>1
  <2>3. f.out[Len(f.out)] = f.last
    BY <1>12, <1>13, Zenon
  <2>4. QED
    BY <2>2, <2>3 DEF Begun
<1>15. b = a + j /\ b >= 1
  BY <1>4
<1>16. Len(o) = a + (j + 1)
  <2>1. Len(o) = b + 1
    BY <1>12
  <2>2. QED
    BY <1>15, <2>1
<1>17. \A i \in 1..a : o[i] = d.out[i]
  <2>1. \A i \in 1..a : i \in 1..b
    BY <1>4
  <2>2. QED
    BY <1>3, <1>4, <1>12, <2>1
<1>18. ASSUME NEW i \in 1..(j + 1)
       PROVE  o[a + i] = DeltaAdded(d, deltas[i], spill, o[a + i - 1])
  <2>1. CASE i = j + 1
    <3>1. a + i = b + 1 /\ a + i - 1 = b /\ b \in 1..b
      BY <1>15, <2>1
    <3>2. o[b] = e.last
      BY <1>3, <1>4, <1>12, <3>1
    <3>3. QED
      BY <1>6, <1>12, <2>1, <3>1, <3>2
  <2>2. CASE i # j + 1
    <3>1. i \in 1..j
      BY <2>2
    <3>2. a + i \in 1..b /\ (a + i - 1 \in 1..b \/ a + i - 1 = 0)
      BY <1>4, <3>1
    <3>3. a >= 1
      BY <1>4
    <3>4. a + i - 1 \in 1..b
      BY <1>4, <3>1, <3>3
    <3>5. e.out[a + i] = DeltaAdded(d, deltas[i], spill, e.out[a + i - 1])
      BY <1>3, <1>4, <3>1
    <3>6. QED
      BY <1>12, <3>2, <3>4, <3>5
  <2>3. QED
    BY <2>1, <2>2
<1>19. QED
  BY <1>1, <1>2, <1>4, <1>6, <1>7, <1>12, <1>13, <1>14, <1>16, <1>17, <1>18, ZenonT(30)
     DEF AddedIs

(* The decoder after all of some deltas.                                   *)
LEMMA DeltasAdded ==
    ASSUME NEW bits \in Nat, NEW d \in DeltaRecords(bits), Begun(d),
           NEW spill \in Nat, NEW deltas \in Seq(Nat)
    PROVE  AddedIs(d, deltas, spill, Len(deltas), AddDeltas(d, deltas, spill))
<1>1. PICK n \in Nat : n = Len(deltas)
  BY LenProperties
<1>2. Len(d.out) >= 1
  BY DEF Begun
<1> DEFINE Def(f, k) == IF k = 0 THEN d ELSE AddDelta(f[k - 1], deltas[k], spill)
           Upto(f) == f = [k \in 0..n |-> Def(f, k)]
           Loop == CHOOSE f : Upto(f)
           Good(k) == {e \in DeltaRecords(bits) : AddedIs(d, deltas, spill, k, e)}
<1>3. AddDeltas(d, deltas, spill) = Loop[n]
  BY <1>1, Zenon DEF AddDeltas
<1>4. PICK X, step : /\ X = DeltaRecords(bits)
                     /\ step = [k \in 1..n |-> [x \in X |->
                           IF AddDelta(x, deltas[k], spill) \in X
                           THEN AddDelta(x, deltas[k], spill) ELSE x]]
  OBVIOUS
<1>5. step \in [1..n -> [X -> X]]
  BY <1>4
<1>6. PICK g \in [0..n -> X] :
        g[0] = d /\ \A k \in 1..n : g[k] = step[k][g[k - 1]]
  <2>1. d \in X
    BY <1>4
  <2>2. Runs(n, X, d, step)
    BY <1>5, <2>1, LoopRuns
  <2>3. QED
    BY <2>2, Zenon DEF Runs
<1>7. ASSUME NEW k \in 1..n, AddedIs(d, deltas, spill, k - 1, g[k - 1])
      PROVE  /\ AddedIs(d, deltas, spill, k, g[k])
             /\ g[k] = AddDelta(g[k - 1], deltas[k], spill)
  <2>1. PICK j \in Nat : j = k - 1 /\ k = j + 1 /\ j < Len(deltas)
                         /\ j \in 0..n
    BY <1>1
  <2>2. PICK e, f : e = g[j] /\ f = AddDelta(e, deltas[k], spill) /\ e \in X
    BY <1>6, <2>1
  <2>3. AddedIs(d, deltas, spill, k, f)
    BY <1>2, <1>7, <2>1, <2>2, AddedNext
  <2>4. f \in X
    <3>1. PICK l, o : l = f.last /\ o = f.out
      OBVIOUS
    <3>2. d.bits = bits
      BY DEF DeltaRecords
    <3>3. f = [d EXCEPT !.last = l, !.out = o] /\ l \in Words(bits)
          /\ o \in Seq(Words(bits))
      BY <2>3, <3>1, <3>2 DEF AddedIs
    <3>4. QED
      BY <1>4, <3>3 DEF DeltaRecords
  <2>5. g[k] = f
    <3>1. g[k] = step[k][e]
      BY <1>6, <2>1, <2>2
    <3>2. step[k][e] = IF AddDelta(e, deltas[k], spill) \in X
                       THEN AddDelta(e, deltas[k], spill) ELSE e
      BY <1>4, <2>2
    <3>3. QED
      BY <2>2, <2>4, <3>1, <3>2
  <2>6. QED
    BY <2>1, <2>2, <2>3, <2>5
<1>8. \A k \in 0..n : AddedIs(d, deltas, spill, k, g[k])
  <2> DEFINE S == {k \in 0..n : AddedIs(d, deltas, spill, k, g[k])}
  <2>1. 0 \in S
    BY <1>6, AddedFirst
  <2>2. \A k \in 1..n : k - 1 \in S => k \in S
    BY <1>7
  <2>3. 0..n \subseteq S
    <3> HIDE DEF S
    <3>1. QED
      BY <2>1, <2>2, UpTo, Zenon
  <2>4. QED
    BY <2>3
<1>9. \A k \in 1..n : g[k] = AddDelta(g[k - 1], deltas[k], spill)
  <2>1. \A k \in 1..n : k - 1 \in 0..n
    OBVIOUS
  <2>2. QED
    BY <1>7, <1>8, <2>1
<1>10. Upto(g)
  <2>1. ASSUME NEW k \in 0..n PROVE g[k] = Def(g, k)
    <3>1. k # 0 => k \in 1..n
      OBVIOUS
    <3>2. QED
      BY <1>6, <1>9, <3>1
  <2> HIDE DEF Def
  <2>2. QED
    BY <1>6, <2>1
<1>11. Upto(Loop)
  <2> HIDE DEF Upto
  <2>1. QED
    BY <1>10
<1> HIDE DEF Loop
<1>12. \A k \in 0..n : Loop[k] = Def(Loop, k)
  <2> HIDE DEF Def
  <2>1. QED
    BY <1>11
<1>13. Loop[n] = g[n]
  <2> DEFINE S == {k \in 0..n : Loop[k] = g[k]}
  <2>1. 0 \in S
    BY <1>6, <1>12
  <2>2. ASSUME NEW k \in 1..n, k - 1 \in S PROVE k \in S
    <3>1. k \in 0..n /\ k # 0
      OBVIOUS
    <3>2. Loop[k] = AddDelta(Loop[k - 1], deltas[k], spill)
      BY <1>12, <3>1
    <3>3. QED
      BY <1>9, <2>2, <3>1, <3>2
  <2>3. 0..n \subseteq S
    <3> HIDE DEF S
    <3>1. QED
      BY <2>1, <2>2, UpTo, Zenon
  <2>4. QED
    BY <2>3
<1>14. QED
  <2>1. n \in 0..n
    OBVIOUS
  <2>2. QED
    BY <1>1, <1>3, <1>8, <1>13, <2>1

-----------------------------------------------------------------------------
(* The steps of a round.                                                   *)
BlockStarted(d, e) ==
    /\ Len(d.rest) >= 1 + d.minis
    /\ e.least = UnZigZag(d.rest[1]) /\ e.widths = SubSeq(d.rest, 2, 1 + d.minis)
    /\ e.width = d.rest[2] /\ e.rest = Skipped(d.rest, 1 + d.minis)
    /\ e.idx = 1 /\ e.current = d.perMini

MiniblockStarted(d, e) ==
    /\ e.least = d.least /\ e.widths = d.widths /\ e.rest = d.rest
    /\ e.width = d.widths[d.idx + 1] /\ e.idx = d.idx + 1
    /\ e.current = d.perMini

SameElse(d, e) ==
    /\ e.bits = d.bits /\ e.minis = d.minis /\ e.perMini = d.perMini

NextIs(d, e) ==
    /\ SameElse(d, e) /\ e.remaining = d.remaining
    /\ e.last = d.last /\ e.out = d.out
    /\ e.failed = (d.current = 0 /\ d.idx = d.minis /\ Len(d.rest) < 1 + d.minis)
    /\ ~e.failed => IF d.current > 0 THEN e = d
                    ELSE IF d.idx = d.minis THEN BlockStarted(d, e)
                    ELSE MiniblockStarted(d, e)

LEMMA UnZigZagType == \A n \in Nat : UnZigZag(n) \in Int
BY DEF UnZigZag

LEMMA DeltaFields ==
    ASSUME NEW bits, NEW d \in DeltaRecords(bits)
    PROVE  /\ d.failed \in BOOLEAN /\ d.bits = bits /\ d.rest \in Seq(Nat)
           /\ d.minis \in Nat /\ d.minis >= 1 /\ d.perMini \in Nat
           /\ d.remaining \in Nat /\ d.last \in Words(bits) /\ d.least \in Int
           /\ d.widths \in Seq(Nat) /\ d.width \in Nat /\ d.idx \in Nat
           /\ d.current \in Nat /\ d.out \in Seq(Words(bits))
           /\ d.idx <= d.minis /\ (d.idx < d.minis => Len(d.widths) = d.minis)
BY DEF DeltaRecords

LEMMA NextFacts ==
    ASSUME NEW bits, NEW d \in DeltaRecords(bits), d.failed = FALSE
    PROVE  NextMiniblock(d) \in DeltaRecords(bits) /\ NextIs(d, NextMiniblock(d))
<1>1. PICK e : e = NextMiniblock(d)
  OBVIOUS
<1>2. /\ d.rest \in Seq(Nat) /\ d.minis \in Nat /\ d.idx \in Nat
      /\ d.widths \in Seq(Nat) /\ d.perMini \in Nat /\ d.current \in Nat
      /\ Len(d.rest) \in Nat /\ d.minis >= 1 /\ d.idx <= d.minis
      /\ (d.idx < d.minis => Len(d.widths) = d.minis)
  <2>1. d.rest \in Seq(Nat)
    BY DeltaFields
  <2>2. Len(d.rest) \in Nat
    BY <2>1, LenProperties
  <2>3. QED
    BY <2>2, DeltaFields
<1>3. PICK rest \in Seq(Nat), m \in Nat, idx \in Nat, widths \in Seq(Nat),
           p \in Nat, current \in Nat, n \in Nat :
        /\ rest = d.rest /\ m = d.minis /\ m >= 1 /\ idx = d.idx /\ idx <= m
        /\ widths = d.widths /\ p = d.perMini /\ current = d.current
        /\ n = Len(rest) /\ (idx < m => Len(widths) = m)
  BY <1>2, Zenon
<1>4. CASE current > 0
  <2>1. e = d
    BY <1>1, <1>3, <1>4 DEF NextMiniblock
  <2>2. d.current > 0 /\ ~(d.current = 0)
    BY <1>3, <1>4
  <2>3. NextIs(d, d)
    BY <2>2, Zenon DEF NextIs, SameElse
  <2>4. QED
    BY <1>1, <2>1, <2>3
<1>5. CASE current = 0 /\ idx = m /\ n < 1 + m
  <2>1. e = [d EXCEPT !.failed = TRUE]
    BY <1>1, <1>3, <1>5 DEF NextMiniblock, InitBlock, StartMiniblock, DeltaRecords
  <2>2. e \in DeltaRecords(bits)
    BY <2>1 DEF DeltaRecords
  <2>3. QED
    BY <1>1, <1>3, <1>5, <2>1, <2>2 DEF NextIs, SameElse, DeltaRecords
<1>6. CASE current = 0 /\ idx = m /\ ~(n < 1 + m)
  <2>1. PICK ws, more : ws = SubSeq(rest, 2, 1 + m) /\ more = SubSeq(rest, 2 + m, n)
    OBVIOUS
  <2>2. /\ ws \in Seq(Nat) /\ Len(ws) = m /\ \A i \in 1..m : ws[i] = rest[1 + i]
    <3>1. PICK a \in Nat, b \in Nat : a = 2 /\ b = 1 + m /\ b <= n
      BY <1>6
    <3>2. \A i \in a..b : rest[i] \in Nat
      <4>1. \A i \in a..b : i \in 1..n
        BY <3>1
      <4>2. QED
        BY <1>3, <4>1, ElementOfSeq
    <3>3. ws = SubSeq(rest, a, b)
      BY <2>1, <3>1
    <3>4. /\ ws \in Seq(Nat)
          /\ (IF a <= b + 1 THEN Len(ws) = b - a + 1 ELSE Len(ws) = 0)
          /\ \A i \in 1..(b - a + 1) : ws[i] = rest[a + i - 1]
      BY <3>2, <3>3, SubSeqProperties
    <3>5. a <= b + 1 /\ b - a + 1 = m
      BY <3>1
    <3>6. Len(ws) = m
      BY <3>4, <3>5, Zenon
    <3>7. \A i \in 1..m : a + i - 1 = 1 + i
      BY <3>1
    <3>8. \A i \in 1..m : ws[i] = rest[1 + i]
      BY <3>4, <3>5, <3>7
    <3>9. QED
      BY <3>4, <3>6, <3>8
  <2>3. more = Skipped(rest, 1 + m) /\ more \in Seq(Nat)
    <3>1. 1 + m \in 0..Len(rest) /\ (1 + m) + 1 = 2 + m
      BY <1>3, <1>6
    <3>2. Skipped(rest, 1 + m) \in Seq(Nat)
      BY <3>1, SkipFacts
    <3>3. QED
      BY <1>3, <2>1, <3>1, <3>2 DEF Skipped
  <2>4. PICK least \in Int : least = UnZigZag(rest[1])
    <3>1. 1 \in 1..n
      BY <1>6
    <3>2. rest[1] \in Nat
      BY <1>3, <3>1, ElementOfSeq
    <3>3. QED
      BY <3>2, UnZigZagType
  <2>5. PICK i : i = InitBlock(d)
    OBVIOUS
  <2>6. i = [d EXCEPT !.least = least, !.widths = ws, !.rest = more, !.idx = 0]
    BY <1>3, <1>6, <2>1, <2>4, <2>5 DEF InitBlock
  <2>7. i.failed = FALSE /\ i.widths = ws /\ i.idx = 0 /\ i.perMini = p
    BY <1>3, <2>6 DEF DeltaRecords
  <2>8. ws[1] = rest[2] /\ ws[1] \in Nat
    <3>1. 1 \in 1..m /\ 1 + 1 = 2
      BY <1>3
    <3>2. ws[1] \in Nat
      BY <2>2, <3>1, ElementOfSeq
    <3>3. ws[1] = rest[1 + 1]
      BY <2>2, <3>1
    <3>4. QED
      BY <3>1, <3>2, <3>3
  <2>9. e = [i EXCEPT !.width = ws[1], !.current = p, !.idx = 1]
    <3>1. e = StartMiniblock(i)
      BY <1>1, <1>3, <1>6, <2>5 DEF NextMiniblock
    <3>2. QED
      BY <2>7, <3>1 DEF StartMiniblock
  <2>10. e = [d EXCEPT !.least = least, !.widths = ws, !.rest = more, !.idx = 1,
                       !.width = ws[1], !.current = p]
    BY <2>6, <2>9 DEF DeltaRecords
  <2>11. e \in DeltaRecords(bits)
    BY <1>3, <2>2, <2>3, <2>8, <2>10 DEF DeltaRecords
  <2>12. /\ SameElse(d, e) /\ e.remaining = d.remaining
         /\ e.last = d.last /\ e.out = d.out /\ e.failed = FALSE
    BY <2>10 DEF DeltaRecords, SameElse
  <2>13. BlockStarted(d, e)
    <3>1. /\ e.least = least /\ e.widths = ws /\ e.rest = more /\ e.idx = 1
          /\ e.width = ws[1] /\ e.current = p
      BY <2>10 DEF DeltaRecords
    <3>2. n >= 1 + m
      BY <1>6
    <3>3. QED
      BY <1>3, <2>1, <2>3, <2>4, <2>8, <3>1, <3>2, Zenon DEF BlockStarted
  <2>14. ~(d.current > 0) /\ d.idx = d.minis /\ ~(Len(d.rest) < 1 + d.minis)
    BY <1>3, <1>6
  <2>15. NextIs(d, e)
    BY <2>12, <2>13, <2>14, Zenon DEF NextIs
  <2>16. QED
    BY <1>1, <2>11, <2>15
<1>7. CASE current = 0 /\ idx # m
  <2>1. idx + 1 \in 1..Len(widths) /\ idx + 1 <= m /\ idx + 1 \in Nat
        /\ Len(widths) = m
    BY <1>3, <1>7
  <2>2. PICK w \in Nat : w = widths[idx + 1]
    BY <2>1, ElementOfSeq
  <2>3. e = [d EXCEPT !.width = w, !.current = p, !.idx = idx + 1]
    <3>1. e = StartMiniblock(d)
      BY <1>1, <1>3, <1>7 DEF NextMiniblock
    <3>2. QED
      BY <1>3, <2>2, <3>1 DEF StartMiniblock
  <2>4. e \in DeltaRecords(bits)
    BY <1>3, <2>1, <2>3 DEF DeltaRecords
  <2>5. /\ SameElse(d, e) /\ e.remaining = d.remaining
        /\ e.last = d.last /\ e.out = d.out /\ e.failed = FALSE
        /\ MiniblockStarted(d, e)
    BY <1>3, <2>2, <2>3 DEF DeltaRecords, SameElse, MiniblockStarted
  <2>6. ~(d.current > 0) /\ ~(d.idx = d.minis)
    BY <1>3, <1>7
  <2>7. NextIs(d, e)
    BY <2>5, <2>6, Zenon DEF NextIs
  <2>8. QED
    BY <1>1, <2>4, <2>7
<1>8. QED
  BY <1>3, <1>4, <1>5, <1>6, <1>7

(* The numbers of n deltas.                                                *)
ShortOf(d, n) == d.width > 0 /\ Len(d.rest) < n

LEMMA AheadFacts ==
    ASSUME NEW bits, NEW d \in DeltaRecords(bits), NEW n \in Nat, ~ShortOf(d, n)
    PROVE  /\ Ahead(d, n) \in Seq(Nat) /\ Len(Ahead(d, n)) = n
           /\ Passed(d, n) \in Seq(Nat)
           /\ Passed(d, n) = IF d.width = 0 THEN d.rest ELSE Skipped(d.rest, n)
           /\ \A i \in 1..n :
                 Ahead(d, n)[i] = IF d.width = 0 THEN 0 ELSE d.rest[i]
<1>1. PICK rest \in Seq(Nat), w \in Nat, l \in Nat :
        rest = d.rest /\ w = d.width /\ l = Len(rest)
  <2>1. Len(d.rest) \in Nat
    BY DeltaFields, LenProperties
  <2>2. QED
    BY <2>1, DeltaFields
<1>2. CASE w = 0
  <2>1. PICK a : a = [i \in 1..n |-> 0]
    OBVIOUS
  <2>2. a \in [1..n -> Nat]
    BY <2>1
  <2>3. a \in Seq(Nat) /\ Len(a) = n /\ \A i \in 1..n : a[i] = 0
    BY <2>1, <2>2, SeqIs
  <2>4. Ahead(d, n) = a /\ Passed(d, n) = rest
    BY <1>1, <1>2, <2>1 DEF Ahead, Passed
  <2>5. QED
    BY <1>1, <1>2, <2>3, <2>4
<1>3. CASE w # 0
  <2>1. n \in 0..Len(rest)
    BY <1>1, <1>3 DEF ShortOf
  <2>2. /\ SubSeq(rest, 1, n) \in Seq(Nat) /\ Len(SubSeq(rest, 1, n)) = n
        /\ \A i \in 1..n : SubSeq(rest, 1, n)[i] = rest[i]
        /\ Skipped(rest, n) \in Seq(Nat)
    BY <2>1, FrontFacts, SkipFacts
  <2>3. Ahead(d, n) = SubSeq(rest, 1, n) /\ Passed(d, n) = Skipped(rest, n)
    BY <1>1, <1>3 DEF Ahead, Passed, Skipped
  <2>4. QED
    BY <1>1, <1>3, <2>2, <2>3
<1>4. QED
  BY <1>2, <1>3

(* The decoder after k deltas.                                             *)
TakenIs(d, k, spill, e) ==
    /\ SameElse(d, e) /\ e.failed = FALSE
    /\ e.rest = Passed(d, k) /\ e.current = d.current - k
    /\ e.remaining = d.remaining - k
    /\ e.least = d.least /\ e.widths = d.widths /\ e.width = d.width
    /\ e.idx = d.idx
    /\ Begun(e) /\ Len(e.out) = Len(d.out) + k
    /\ \A i \in 1..Len(d.out) : e.out[i] = d.out[i]
    /\ \A i \in 1..k : e.out[Len(d.out) + i] =
          DeltaAdded(d, IF d.width = 0 THEN 0 ELSE d.rest[i], spill,
                     e.out[Len(d.out) + i - 1])

LEMMA TakeFacts ==
    ASSUME NEW bits \in Nat, NEW d \in DeltaRecords(bits), d.failed = FALSE,
           Begun(d), NEW spill \in Nat, NEW k \in Nat,
           k <= d.current, k <= d.remaining
    PROVE  IF ShortOf(d, k) THEN TakeDeltas(d, k, spill) = [d EXCEPT !.failed = TRUE]
           ELSE /\ TakeDeltas(d, k, spill) \in DeltaRecords(bits)
                /\ TakenIs(d, k, spill, TakeDeltas(d, k, spill))
<1>1. CASE ShortOf(d, k)
  BY <1>1 DEF ShortOf, TakeDeltas
<1>2. CASE ~ShortOf(d, k)
  <2>1. PICK ahead \in Seq(Nat), passed \in Seq(Nat) :
          /\ ahead = Ahead(d, k) /\ passed = Passed(d, k) /\ Len(ahead) = k
          /\ \A i \in 1..k : ahead[i] = IF d.width = 0 THEN 0 ELSE d.rest[i]
    BY <1>2, AheadFacts
  <2>2. PICK x : x = AddDeltas(d, ahead, spill)
    OBVIOUS
  <2>3. AddedIs(d, ahead, spill, k, x)
    BY <2>1, <2>2, DeltasAdded
  <2>4. PICK l, o : l = x.last /\ o = x.out
    OBVIOUS
  <2>5. d.bits = bits
    BY DEF DeltaRecords
  <2>6. /\ x = [d EXCEPT !.last = l, !.out = o] /\ l \in Words(bits)
        /\ o \in Seq(Words(bits)) /\ Len(o) >= 1 /\ o[Len(o)] = l
        /\ Len(o) = Len(d.out) + k
        /\ \A i \in 1..Len(d.out) : o[i] = d.out[i]
    BY <2>3, <2>4, <2>5 DEF AddedIs, Begun
  <2>7. PICK e : e = [x EXCEPT !.rest = passed, !.current = d.current - k,
                               !.remaining = d.remaining - k]
    OBVIOUS
  <2>8. e = TakeDeltas(d, k, spill)
    <3>1. x.current = d.current /\ x.remaining = d.remaining
      BY <2>6 DEF DeltaRecords
    <3>2. TakeDeltas(d, k, spill) =
             [x EXCEPT !.rest = passed, !.current = x.current - k,
                       !.remaining = x.remaining - k]
      BY <1>2, <2>1, <2>2, Zenon DEF ShortOf, TakeDeltas
    <3>3. QED
      BY <2>7, <3>1, <3>2
  <2>9. e = [d EXCEPT !.last = l, !.out = o, !.rest = passed,
                      !.current = d.current - k, !.remaining = d.remaining - k]
    BY <2>6, <2>7 DEF DeltaRecords
  <2>10. d.current - k \in Nat /\ d.remaining - k \in Nat
    BY DeltaFields
  <2>11. e \in DeltaRecords(bits)
    BY <2>6, <2>9, <2>10 DEF DeltaRecords
  <2>12. /\ SameElse(d, e) /\ e.failed = FALSE
         /\ e.rest = passed /\ e.current = d.current - k
         /\ e.remaining = d.remaining - k
         /\ e.least = d.least /\ e.widths = d.widths /\ e.width = d.width
         /\ e.idx = d.idx /\ e.out = o /\ e.last = l
    BY <2>9 DEF DeltaRecords, SameElse
  <2>13. Begun(e)
    BY <2>6, <2>12, Zenon DEF Begun
  <2>14. \A i \in 1..k : o[Len(d.out) + i] =
            DeltaAdded(d, IF d.width = 0 THEN 0 ELSE d.rest[i], spill,
                       o[Len(d.out) + i - 1])
    BY <2>1, <2>3, <2>4, Zenon DEF AddedIs
  <2>15. TakenIs(d, k, spill, e)
    BY <2>1, <2>6, <2>12, <2>13, <2>14, Zenon DEF TakenIs
  <2>16. QED
    BY <1>2, <2>8, <2>11, <2>15
<1>3. QED
  BY <1>1, <1>2

LEMMA EatFacts ==
    ASSUME NEW bits, NEW d \in DeltaRecords(bits)
    PROVE  IF ShortOf(d, d.current)
           THEN EatFinalPadding(d) = [d EXCEPT !.failed = TRUE]
           ELSE /\ EatFinalPadding(d) \in DeltaRecords(bits)
                /\ EatFinalPadding(d) =
                      [d EXCEPT !.rest = Passed(d, d.current), !.current = 0]
                /\ Passed(d, d.current) \in Seq(Nat)
<1>1. CASE ShortOf(d, d.current)
  BY <1>1 DEF ShortOf, EatFinalPadding
<1>2. CASE ~ShortOf(d, d.current)
  <2>1. d.current \in Nat
    BY DeltaFields
  <2>2. PICK passed \in Seq(Nat) : passed = Passed(d, d.current)
    BY <1>2, <2>1, AheadFacts
  <2>3. EatFinalPadding(d) = [d EXCEPT !.rest = passed, !.current = 0]
    BY <1>2, <2>2 DEF ShortOf, EatFinalPadding
  <2>4. [d EXCEPT !.rest = passed, !.current = 0] \in DeltaRecords(bits)
    BY <2>2 DEF DeltaRecords
  <2>5. QED
    BY <1>2, <2>2, <2>3, <2>4
<1>3. QED
  BY <1>1, <1>2

LEMMA TakeableFacts ==
    ASSUME NEW d, NEW n \in Nat, d.current \in Nat, d.remaining \in Nat,
           Len(d.out) \in Nat, Len(d.out) <= n
    PROVE  /\ Takeable(d, n) \in Nat /\ Takeable(d, n) <= n - Len(d.out)
           /\ Takeable(d, n) <= d.current /\ Takeable(d, n) <= d.remaining
           /\ \/ Takeable(d, n) = n - Len(d.out) \/ Takeable(d, n) = d.current
              \/ Takeable(d, n) = d.remaining
<1>1. PICK a \in Nat, b \in Nat, c \in Nat :
        a = n - Len(d.out) /\ b = d.current /\ c = d.remaining
  <2>1. n - Len(d.out) \in Nat
    OBVIOUS
  <2>2. QED
    BY <2>1
<1>2. PICK k \in {a, b, c} : \A j \in {a, b, c} : k <= j
  <2>1. CASE a <= b /\ a <= c
    BY <2>1
  <2>2. CASE b <= a /\ b <= c
    BY <2>2
  <2>3. CASE c <= a /\ c <= b
    BY <2>3
  <2>4. QED
    BY <2>1, <2>2, <2>3
<1>3. Takeable(d, n) = CHOOSE x \in {a, b, c} : \A j \in {a, b, c} : x <= j
  BY <1>1 DEF Takeable
<1>4. PICK x : x = Takeable(d, n) /\ x \in {a, b, c} /\ \A j \in {a, b, c} : x <= j
  BY <1>2, <1>3, Zenon
<1>5. QED
  BY <1>1, <1>4

-----------------------------------------------------------------------------
(* A round of the decoder.                                                 *)
Given(d) == [d EXCEPT !.out = Append(d.out, d.last), !.remaining = d.remaining - 1]

GivenIs(d, g) ==
    /\ SameElse(d, g) /\ g.failed = d.failed /\ g.rest = d.rest
    /\ g.current = d.current /\ g.remaining = d.remaining - 1
    /\ g.least = d.least /\ g.widths = d.widths /\ g.width = d.width
    /\ g.idx = d.idx /\ g.last = d.last
    /\ Begun(g) /\ Len(g.out) = Len(d.out) + 1
    /\ \A i \in 1..Len(d.out) : g.out[i] = d.out[i]
    /\ g.out[Len(d.out) + 1] = d.last

LEMMA GivenFacts ==
    ASSUME NEW bits, NEW d \in DeltaRecords(bits), d.remaining # 0
    PROVE  Given(d) \in DeltaRecords(bits) /\ GivenIs(d, Given(d))
<1>1. PICK W, o : W = Words(bits) /\ o = Append(d.out, d.last)
  OBVIOUS
<1>2. d.out \in Seq(W) /\ d.last \in W /\ d.remaining \in Nat
  BY <1>1, DeltaFields
<1>3. Len(d.out) \in Nat
  BY <1>2, LenProperties
<1>4. /\ o \in Seq(W) /\ Len(o) = Len(d.out) + 1
      /\ \A i \in 1..Len(d.out) : o[i] = d.out[i]
      /\ o[Len(d.out) + 1] = d.last
  BY <1>1, <1>2, AppendProperties
<1>5. PICK g : g = [d EXCEPT !.out = o, !.remaining = d.remaining - 1]
  OBVIOUS
<1>6. g = Given(d)
  BY <1>1, <1>5 DEF Given
<1>7. d.remaining - 1 \in Nat
  BY <1>2
<1>8. g \in DeltaRecords(bits)
  BY <1>1, <1>4, <1>5, <1>7 DEF DeltaRecords
<1>9. /\ SameElse(d, g) /\ g.failed = d.failed /\ g.rest = d.rest
      /\ g.current = d.current /\ g.remaining = d.remaining - 1
      /\ g.least = d.least /\ g.widths = d.widths /\ g.width = d.width
      /\ g.idx = d.idx /\ g.last = d.last /\ g.out = o
  BY <1>5 DEF DeltaRecords, SameElse
<1>10. Begun(g)
  <2>1. Len(o) >= 1
    BY <1>3, <1>4
  <2>2. o[Len(o)] = d.last
    BY <1>4, Zenon
  <2>3. QED
    BY <1>9, <2>1, <2>2, Zenon DEF Begun
<1>11. GivenIs(d, g)
  BY <1>4, <1>9, <1>10, Zenon DEF GivenIs
<1>12. QED
  BY <1>6, <1>8, <1>11

(* What a round is, from its steps.                                        *)
RoundEnds(t, r) == r = IF ~t.failed /\ t.remaining = 0 THEN EatFinalPadding(t) ELSE t

RoundFrom(g, n, spill, r) ==
    IF g.remaining = 0 THEN r = EatFinalPadding(g)
    ELSE \E e : /\ e = NextMiniblock(g)
                /\ IF e.failed THEN r = e
                   ELSE RoundEnds(TakeDeltas(e, Takeable(e, n), spill), r)

LEMMA RoundSteps ==
    ASSUME NEW d, NEW n, NEW spill, ~Done(d, n)
    PROVE  RoundFrom(Given(d), n, spill, Round(d, n, spill))
<1>1. PICK g, r : g = Given(d) /\ r = Round(d, n, spill)
  OBVIOUS
<1>2. r = AfterLast(g, n, spill)
  BY <1>1, Zenon DEF Round, Given
<1>3. PICK e : e = NextMiniblock(g)
  OBVIOUS
<1>4. r = IF g.remaining = 0 THEN EatFinalPadding(g)
          ELSE IF e.failed THEN e
          ELSE Finished(TakeDeltas(e, Takeable(e, n), spill))
  BY <1>2, <1>3, Zenon DEF AfterLast, ReadMiniblock
<1>5. PICK t : t = TakeDeltas(e, Takeable(e, n), spill)
  OBVIOUS
<1>6. RoundEnds(t, Finished(t))
  BY Zenon DEF RoundEnds, Finished
<1>7. QED
  BY <1>1, <1>3, <1>4, <1>5, <1>6, Zenon DEF RoundFrom

(* What every round keeps to.                                              *)
RoundMade(d, n, r) ==
    ~r.failed =>
        /\ SameElse(d, r) /\ Begun(r)
        /\ Len(d.out) < Len(r.out) /\ Len(r.out) <= n
        /\ Len(r.out) + r.remaining = Len(d.out) + d.remaining
        /\ \A i \in 1..Len(d.out) : r.out[i] = d.out[i]

LEMMA EatMade ==
    ASSUME NEW bits, NEW d, NEW n, NEW t \in DeltaRecords(bits), RoundMade(d, n, t),
           t.failed = FALSE
    PROVE  /\ EatFinalPadding(t) \in DeltaRecords(bits)
           /\ RoundMade(d, n, EatFinalPadding(t))
<1>1. PICK r : r = EatFinalPadding(t)
  OBVIOUS
<1>2. CASE ShortOf(t, t.current)
  <2>1. r = [t EXCEPT !.failed = TRUE]
    BY <1>1, <1>2, EatFacts
  <2>2. r \in DeltaRecords(bits) /\ r.failed = TRUE
    BY <2>1 DEF DeltaRecords
  <2>3. QED
    BY <1>1, <2>2 DEF RoundMade
<1>3. CASE ~ShortOf(t, t.current)
  <2>1. PICK rest : r = [t EXCEPT !.rest = rest, !.current = 0]
                    /\ r \in DeltaRecords(bits)
    BY <1>1, <1>3, EatFacts
  <2>2. r.out = t.out /\ r.last = t.last /\ r.remaining = t.remaining
        /\ SameElse(t, r)
    BY <2>1 DEF DeltaRecords, SameElse
  <2>3. RoundMade(d, n, r)
    BY <2>2 DEF RoundMade, Begun, SameElse
  <2>4. QED
    BY <1>1, <2>1, <2>3
<1>4. QED
  BY <1>2, <1>3

LEMMA RoundFacts ==
    ASSUME NEW bits \in Nat, NEW d \in DeltaRecords(bits), NEW n \in Nat,
           NEW spill \in Nat, Len(d.out) <= n, ~Done(d, n)
    PROVE  /\ Round(d, n, spill) \in DeltaRecords(bits)
           /\ RoundMade(d, n, Round(d, n, spill))
<1>1. PICK o \in Nat, m \in Nat : /\ o = Len(d.out) /\ m = d.remaining
                                  /\ o < n /\ m >= 1
  <2>1. Len(d.out) \in Nat /\ d.remaining \in Nat
    BY DeltaFields, LenProperties
  <2>2. Len(d.out) # n /\ d.remaining # 0
    BY DEF Done
  <2>3. QED
    BY <2>1, <2>2
<1>2. d.failed = FALSE
  BY DeltaFields DEF Done
<1>3. PICK g \in DeltaRecords(bits) : g = Given(d) /\ GivenIs(d, g)
  BY <1>1, GivenFacts
<1>4. /\ SameElse(d, g) /\ g.failed = FALSE /\ g.remaining = m - 1
      /\ Begun(g) /\ Len(g.out) = o + 1
      /\ \A i \in 1..o : g.out[i] = d.out[i]
  BY <1>1, <1>2, <1>3, Zenon DEF GivenIs
<1>5. RoundMade(d, n, g)
  <2>1. o < o + 1 /\ o + 1 <= n /\ (o + 1) + (m - 1) = o + m
    BY <1>1
  <2>2. QED
    BY <1>1, <1>4, <2>1, Zenon DEF RoundMade
<1>6. PICK r : r = Round(d, n, spill)
  OBVIOUS
<1>7. RoundFrom(g, n, spill, r)
  BY <1>3, <1>6, RoundSteps
<1>8. CASE g.remaining = 0
  <2>1. r = EatFinalPadding(g)
    BY <1>7, <1>8 DEF RoundFrom
  <2>2. QED
    BY <1>4, <1>5, <1>6, <2>1, EatMade
<1>9. CASE g.remaining # 0
  <2>1. PICK e : /\ e = NextMiniblock(g)
                 /\ IF e.failed THEN r = e
                    ELSE RoundEnds(TakeDeltas(e, Takeable(e, n), spill), r)
    BY <1>7, <1>9 DEF RoundFrom
  <2>2. e \in DeltaRecords(bits) /\ NextIs(g, e)
    BY <1>4, <2>1, NextFacts
  <2>3. /\ SameElse(g, e) /\ e.remaining = g.remaining /\ e.last = g.last
        /\ e.out = g.out
    BY <2>2, Zenon DEF NextIs
  <2>4. CASE e.failed = TRUE
    BY <1>6, <2>1, <2>2, <2>4 DEF RoundMade
  <2>5. CASE e.failed = FALSE
    <3>1. Begun(e) /\ Len(e.out) = o + 1 /\ e.remaining = m - 1
          /\ \A i \in 1..o : e.out[i] = d.out[i]
      BY <1>4, <2>3, Zenon DEF Begun
    <3>2. PICK k \in Nat : /\ k = Takeable(e, n) /\ k <= n - (o + 1)
                           /\ k <= e.current /\ k <= e.remaining /\ k <= m - 1
      <4>1. e.current \in Nat /\ e.remaining \in Nat
        BY <2>2, DeltaFields
      <4>2. Len(e.out) \in Nat /\ Len(e.out) <= n
        BY <1>1, <3>1
      <4>3. /\ Takeable(e, n) \in Nat /\ Takeable(e, n) <= n - Len(e.out)
            /\ Takeable(e, n) <= e.current /\ Takeable(e, n) <= e.remaining
        BY <4>1, <4>2, TakeableFacts
      <4>4. QED
        BY <3>1, <4>3
    <3>3. PICK t : t = TakeDeltas(e, k, spill) /\ RoundEnds(t, r)
      BY <2>1, <2>5, <3>2
    <3>4. CASE ShortOf(e, k)
      <4>1. t = [e EXCEPT !.failed = TRUE]
        BY <2>2, <2>5, <3>1, <3>2, <3>3, <3>4, TakeFacts
      <4>2. t \in DeltaRecords(bits) /\ t.failed = TRUE
        BY <2>2, <4>1 DEF DeltaRecords
      <4>3. r = t
        BY <3>3, <4>2, Zenon DEF RoundEnds
      <4>4. QED
        BY <1>6, <4>2, <4>3 DEF RoundMade
    <3>5. CASE ~ShortOf(e, k)
      <4>1. t \in DeltaRecords(bits) /\ TakenIs(e, k, spill, t)
        BY <2>2, <2>5, <3>1, <3>2, <3>3, <3>5, TakeFacts
      <4>2. /\ SameElse(e, t) /\ t.failed = FALSE /\ t.remaining = m - 1 - k
            /\ Begun(t) /\ Len(t.out) = (o + 1) + k
            /\ \A i \in 1..(o + 1) : t.out[i] = e.out[i]
        BY <3>1, <4>1, Zenon DEF TakenIs
      <4>3. RoundMade(d, n, t)
        <5>1. o < (o + 1) + k /\ (o + 1) + k <= n
              /\ ((o + 1) + k) + (m - 1 - k) = o + m
          <6>1. k <= n - (o + 1)
            BY <3>2
          <6>2. /\ o < (o + 1) + k /\ (o + 1) + k <= n
            BY <6>1
          <6>3. ((o + 1) + k) + (m - 1 - k) = o + m
            OBVIOUS
          <6>4. QED
            BY <6>2, <6>3
        <5>2. \A i \in 1..o : t.out[i] = d.out[i]
          <6>1. \A i \in 1..o : i \in 1..(o + 1)
            OBVIOUS
          <6>2. QED
            BY <3>1, <4>2, <6>1
        <5>3. SameElse(d, t)
          BY <1>4, <2>3, <4>2, Zenon DEF SameElse
        <5>4. QED
          BY <1>1, <4>2, <5>1, <5>2, <5>3, Zenon DEF RoundMade
      <4>4. CASE t.remaining = 0
        <5>1. r = EatFinalPadding(t)
          BY <3>3, <4>2, <4>4, Zenon DEF RoundEnds
        <5>2. QED
          BY <1>6, <4>1, <4>2, <4>3, <5>1, EatMade
      <4>5. CASE t.remaining # 0
        <5>1. r = t
          BY <3>3, <4>5, Zenon DEF RoundEnds
        <5>2. QED
          BY <1>6, <4>1, <4>3, <5>1
      <4>6. QED
        BY <4>4, <4>5
    <3>6. QED
      BY <3>4, <3>5
  <2>6. QED
    BY <2>2, <2>4, <2>5, DeltaFields
<1>10. QED
  BY <1>8, <1>9

-----------------------------------------------------------------------------
(* A batch of deltas.                                                      *)
Rounds(bits, n) == {x \in DeltaRecords(bits) : x.failed \/ Len(x.out) <= n}

Emptied(d) == [d EXCEPT !.out = <<>>]

ReadIs(bits, d, n, spill, g) ==
    /\ g \in [0..n -> Rounds(bits, n)] /\ g[0] = Emptied(d)
    /\ \A k \in 1..n : g[k] = Round(g[k - 1], n, spill)
    /\ ReadDelta(d, n, spill) = g[n]

LEMMA RoundIn ==
    ASSUME NEW bits \in Nat, NEW n \in Nat, NEW x \in Rounds(bits, n),
           NEW spill \in Nat
    PROVE  Round(x, n, spill) \in Rounds(bits, n)
<1>1. x \in DeltaRecords(bits) /\ (x.failed \/ Len(x.out) <= n)
  BY DEF Rounds
<1>2. CASE Done(x, n)
  <2>1. Round(x, n, spill) = x
    BY <1>2, Zenon DEF Round
  <2>2. QED
    BY <2>1
<1>3. CASE ~Done(x, n)
  <2>1. Len(x.out) <= n
    BY <1>1, <1>3 DEF Done
  <2>2. /\ Round(x, n, spill) \in DeltaRecords(bits)
        /\ RoundMade(x, n, Round(x, n, spill))
    BY <1>1, <1>3, <2>1, RoundFacts
  <2>3. QED
    BY <2>2, Zenon DEF RoundMade, Rounds
<1>4. QED
  BY <1>2, <1>3

LEMMA EmptiedIn ==
    ASSUME NEW bits, NEW d \in DeltaRecords(bits), NEW n \in Nat
    PROVE  Emptied(d) \in Rounds(bits, n) /\ SameElse(d, Emptied(d))
           /\ Emptied(d) \in DeltaRecords(bits)
           /\ Emptied(d).out = <<>> /\ Emptied(d).remaining = d.remaining
           /\ Emptied(d).failed = d.failed /\ Emptied(d).last = d.last
           /\ Emptied(d).rest = d.rest /\ Emptied(d).idx = d.idx
           /\ Emptied(d).current = d.current /\ Emptied(d).width = d.width
           /\ Emptied(d).widths = d.widths /\ Emptied(d).least = d.least
<1>1. PICK W : W = Words(bits)
  OBVIOUS
<1>2. <<>> \in Seq(W) /\ Len(<<>>) = 0
  BY EmptySeq
<1>3. Emptied(d) \in DeltaRecords(bits)
  BY <1>1, <1>2 DEF DeltaRecords, Emptied
<1>4. /\ SameElse(d, Emptied(d)) /\ Emptied(d).out = <<>>
      /\ Emptied(d).remaining = d.remaining /\ Emptied(d).failed = d.failed
      /\ Emptied(d).last = d.last /\ Emptied(d).rest = d.rest
      /\ Emptied(d).idx = d.idx /\ Emptied(d).current = d.current
      /\ Emptied(d).width = d.width
      /\ Emptied(d).widths = d.widths /\ Emptied(d).least = d.least
  BY DEF DeltaRecords, Emptied, SameElse
<1>5. Len(Emptied(d).out) <= n
  BY <1>2, <1>4
<1>6. QED
  BY <1>3, <1>4, <1>5, Zenon DEF Rounds

LEMMA ReadRuns ==
    ASSUME NEW bits \in Nat, NEW d \in DeltaRecords(bits), NEW n \in Nat,
           NEW spill \in Nat
    PROVE  \E g : ReadIs(bits, d, n, spill, g)
<1>1. PICK X, base : X = Rounds(bits, n) /\ base = Emptied(d)
  OBVIOUS
<1>2. base \in X
  BY <1>1, EmptiedIn
<1> DEFINE Def(f, k) == IF k = 0 THEN base ELSE Round(f[k - 1], n, spill)
           Upto(f) == f = [k \in 0..n |-> Def(f, k)]
           Loop == CHOOSE f : Upto(f)
<1>3. ReadDelta(d, n, spill) = Loop[n]
  BY <1>1, Zenon DEF ReadDelta, Emptied
<1>4. PICK step : step = [k \in 1..n |-> [x \in X |-> Round(x, n, spill)]]
  OBVIOUS
<1>5. \A x \in X : Round(x, n, spill) \in X
  BY <1>1, RoundIn
<1>6. step \in [1..n -> [X -> X]]
  BY <1>4, <1>5
<1>7. PICK g \in [0..n -> X] :
        g[0] = base /\ \A k \in 1..n : g[k] = step[k][g[k - 1]]
  <2>1. Runs(n, X, base, step)
    BY <1>2, <1>6, LoopRuns
  <2>2. QED
    BY <2>1, Zenon DEF Runs
<1>8. ASSUME NEW k \in 1..n PROVE g[k] = Round(g[k - 1], n, spill)
  <2>1. k - 1 \in 0..n
    OBVIOUS
  <2>2. g[k - 1] \in X
    BY <1>7, <2>1
  <2>3. QED
    BY <1>4, <1>7, <2>2
<1>9. Upto(g)
  <2>1. ASSUME NEW k \in 0..n PROVE g[k] = Def(g, k)
    <3>1. k # 0 => k \in 1..n
      OBVIOUS
    <3>2. QED
      BY <1>7, <1>8, <3>1
  <2> HIDE DEF Def
  <2>2. QED
    BY <1>7, <2>1
<1>10. Upto(Loop)
  <2> HIDE DEF Upto
  <2>1. QED
    BY <1>9
<1> HIDE DEF Loop
<1>11. \A k \in 0..n : Loop[k] = Def(Loop, k)
  <2> HIDE DEF Def
  <2>1. QED
    BY <1>10
<1>12. Loop[0] = base /\ \A k \in 1..n : Loop[k] = Round(Loop[k - 1], n, spill)
  <2>1. 0 \in 0..n /\ \A k \in 1..n : k \in 0..n /\ k # 0
    OBVIOUS
  <2>2. QED
    BY <1>11, <2>1
<1>13. Loop[n] = g[n]
  <2> DEFINE S == {k \in 0..n : Loop[k] = g[k]}
  <2>1. 0 \in S
    BY <1>7, <1>12
  <2>2. \A k \in 1..n : k - 1 \in S => k \in S
    BY <1>8, <1>12
  <2>3. 0..n \subseteq S
    <3> HIDE DEF S
    <3>1. QED
      BY <2>1, <2>2, UpTo, Zenon
  <2>4. QED
    BY <2>3
<1>14. ReadIs(bits, d, n, spill, g)
  BY <1>1, <1>3, <1>7, <1>8, <1>13 DEF ReadIs
<1>15. QED
  BY <1>14

(* What a batch keeps to, and what it has after its first round.           *)
ReadMade(d, n, r) ==
    ~r.failed =>
        /\ SameElse(d, r)
        /\ Len(r.out) + r.remaining = d.remaining
        /\ Len(r.out) <= n /\ (Len(r.out) = n \/ r.remaining = 0)

BeginsWith(x, r) ==
    ~r.failed => /\ ~x.failed /\ Len(x.out) <= Len(r.out)
                 /\ \A i \in 1..Len(x.out) : r.out[i] = x.out[i]

LEMMA RoundBegins ==
    ASSUME NEW bits \in Nat, NEW n \in Nat, NEW spill \in Nat,
           NEW x, Len(x.out) \in Nat, NEW y \in Rounds(bits, n), BeginsWith(x, y)
    PROVE  BeginsWith(x, Round(y, n, spill))
<1>1. PICK r : r = Round(y, n, spill)
  OBVIOUS
<1>2. y \in DeltaRecords(bits) /\ (y.failed \/ Len(y.out) <= n)
  BY DEF Rounds
<1>3. CASE Done(y, n)
  <2>1. r = y
    BY <1>1, <1>3, Zenon DEF Round
  <2>2. QED
    BY <1>1, <2>1
<1>4. CASE ~Done(y, n)
  <2>1. Len(y.out) <= n /\ ~y.failed
    BY <1>2, <1>4 DEF Done
  <2>2. r \in DeltaRecords(bits) /\ RoundMade(y, n, r)
    BY <1>1, <1>2, <1>4, <2>1, RoundFacts
  <2>3. ASSUME ~r.failed
        PROVE  /\ ~x.failed /\ Len(x.out) <= Len(r.out)
               /\ \A i \in 1..Len(x.out) : r.out[i] = x.out[i]
    <3>1. /\ Len(y.out) < Len(r.out) /\ \A i \in 1..Len(y.out) : r.out[i] = y.out[i]
      BY <2>2, <2>3 DEF RoundMade
    <3>2. /\ ~x.failed /\ Len(x.out) <= Len(y.out)
          /\ \A i \in 1..Len(x.out) : y.out[i] = x.out[i]
      BY <2>1 DEF BeginsWith
    <3>3. Len(y.out) \in Nat /\ Len(r.out) \in Nat
      BY <1>2, <2>2, DeltaFields, LenProperties
    <3>4. QED
      BY <3>1, <3>2, <3>3
  <2>4. QED
    BY <1>1, <2>3 DEF BeginsWith
<1>5. QED
  BY <1>3, <1>4

ReadSoFar(d, n, k, x) ==
    ~x.failed => /\ SameElse(d, x)
                 /\ Len(x.out) + x.remaining = d.remaining
                 /\ Done(x, n) \/ Len(x.out) >= k

LEMMA ReadFacts ==
    ASSUME NEW bits \in Nat, NEW d \in DeltaRecords(bits), d.failed = FALSE,
           NEW n \in Nat, NEW spill \in Nat
    PROVE  /\ ReadDelta(d, n, spill) \in DeltaRecords(bits)
           /\ ReadMade(d, n, ReadDelta(d, n, spill))
<1>1. PICK g : ReadIs(bits, d, n, spill, g)
  BY ReadRuns
<1>2. /\ g \in [0..n -> Rounds(bits, n)] /\ g[0] = Emptied(d)
      /\ \A k \in 1..n : g[k] = Round(g[k - 1], n, spill)
      /\ ReadDelta(d, n, spill) = g[n]
  BY <1>1 DEF ReadIs
<1>3. d.remaining \in Nat
  BY DeltaFields
<1> DEFINE S == {k \in 0..n : ReadSoFar(d, n, k, g[k])}
<1>4. 0 \in S
  <2>1. /\ SameElse(d, g[0]) /\ g[0].out = <<>> /\ g[0].remaining = d.remaining
    BY <1>2, EmptiedIn
  <2>2. Len(<<>>) = 0
    BY EmptySeq
  <2>3. Len(g[0].out) = 0
    BY <2>1, <2>2
  <2>4. ReadSoFar(d, n, 0, g[0])
    BY <1>3, <2>1, <2>3 DEF ReadSoFar
  <2>5. QED
    BY <2>4
<1>5. ASSUME NEW k \in 1..n, k - 1 \in S PROVE k \in S
  <2>1. k - 1 \in 0..n
    OBVIOUS
  <2>2. PICK x \in Rounds(bits, n), y \in Rounds(bits, n) :
          x = g[k - 1] /\ y = g[k] /\ y = Round(x, n, spill)
    BY <1>2, <2>1
  <2>3. x \in DeltaRecords(bits) /\ (x.failed \/ Len(x.out) <= n)
    BY DEF Rounds
  <2>4. ReadSoFar(d, n, k - 1, x)
    BY <1>5, <2>2
  <2>5. CASE Done(x, n)
    <3>1. y = x
      BY <2>2, <2>5, Zenon DEF Round
    <3>2. ReadSoFar(d, n, k, y)
      BY <2>4, <2>5, <3>1 DEF ReadSoFar
    <3>3. ReadSoFar(d, n, k, g[k])
      BY <2>2, <3>2, Zenon
    <3>4. QED
      BY <3>3
  <2>6. CASE ~Done(x, n)
    <3>1. Len(x.out) <= n /\ ~x.failed
      BY <2>3, <2>6 DEF Done
    <3>2. y \in DeltaRecords(bits) /\ RoundMade(x, n, y)
      BY <2>2, <2>3, <2>6, <3>1, RoundFacts
    <3>3. /\ SameElse(d, x) /\ Len(x.out) + x.remaining = d.remaining
          /\ Len(x.out) >= k - 1
      BY <2>4, <2>6, <3>1 DEF ReadSoFar
    <3>4. ASSUME ~y.failed PROVE ReadSoFar(d, n, k, y)
      <4>1. /\ SameElse(x, y) /\ Len(x.out) < Len(y.out)
            /\ Len(y.out) + y.remaining = Len(x.out) + x.remaining
        BY <3>2, <3>4 DEF RoundMade
      <4>2. SameElse(d, y)
        BY <3>3, <4>1, Zenon DEF SameElse
      <4>3. Len(x.out) \in Nat /\ Len(y.out) \in Nat
        BY <2>3, <3>2, DeltaFields, LenProperties
      <4>4. Len(y.out) >= k
        BY <3>3, <4>1, <4>3
      <4>5. QED
        BY <3>3, <4>1, <4>2, <4>4 DEF ReadSoFar
    <3>5. ReadSoFar(d, n, k, y)
      BY <3>4 DEF ReadSoFar
    <3>6. ReadSoFar(d, n, k, g[k])
      BY <2>2, <3>5, Zenon
    <3>7. QED
      BY <3>6
  <2>7. QED
    BY <2>5, <2>6
<1>6. 0..n \subseteq S
  <2> HIDE DEF S
  <2>1. QED
    BY <1>4, <1>5, UpTo, Zenon
<1>7. PICK r : r = g[n] /\ r = ReadDelta(d, n, spill) /\ ReadSoFar(d, n, n, r)
  <2>1. n \in 0..n
    OBVIOUS
  <2>2. QED
    BY <1>2, <1>6, <2>1
<1>8. r \in DeltaRecords(bits) /\ (r.failed \/ Len(r.out) <= n)
  <2>1. n \in 0..n
    OBVIOUS
  <2>2. g[n] \in Rounds(bits, n)
    BY <1>2, <2>1
  <2>3. QED
    BY <1>7, <2>2 DEF Rounds
<1>9. ASSUME ~r.failed
      PROVE  /\ SameElse(d, r) /\ Len(r.out) + r.remaining = d.remaining
             /\ Len(r.out) <= n /\ (Len(r.out) = n \/ r.remaining = 0)
  <2>1. /\ SameElse(d, r) /\ Len(r.out) + r.remaining = d.remaining
        /\ Len(r.out) <= n /\ (Done(r, n) \/ Len(r.out) >= n)
    BY <1>7, <1>8, <1>9 DEF ReadSoFar
  <2>2. Len(r.out) \in Nat
    BY <1>8, DeltaFields, LenProperties
  <2>3. QED
    BY <1>9, <2>1, <2>2 DEF Done
<1>10. QED
  BY <1>7, <1>8, <1>9 DEF ReadMade

(* A batch goes on from its first round.                                   *)
FirstKept(x, n, y) == BeginsWith(x, y) /\ (Done(x, n) => y = x)

LEMMA ReadBegins ==
    ASSUME NEW bits \in Nat, NEW d \in DeltaRecords(bits), NEW n \in Nat, n >= 1,
           NEW spill \in Nat, NEW x, x = Round(Emptied(d), n, spill)
    PROVE  /\ BeginsWith(x, ReadDelta(d, n, spill))
           /\ Done(x, n) => ReadDelta(d, n, spill) = x
<1>1. PICK g : ReadIs(bits, d, n, spill, g)
  BY ReadRuns
<1>2. /\ g \in [0..n -> Rounds(bits, n)] /\ g[0] = Emptied(d)
      /\ \A k \in 1..n : g[k] = Round(g[k - 1], n, spill)
      /\ ReadDelta(d, n, spill) = g[n]
  BY <1>1 DEF ReadIs
<1>3. g[1] = x /\ x \in Rounds(bits, n)
  <2>1. 1 \in 1..n /\ 1 \in 0..n /\ 1 - 1 = 0
    OBVIOUS
  <2>2. QED
    BY <1>2, <2>1, SMTT(30)
<1>4. Len(x.out) \in Nat
  <2>1. x \in DeltaRecords(bits)
    BY <1>3 DEF Rounds
  <2>2. QED
    BY <2>1, DeltaFields, LenProperties
<1> DEFINE S == {k \in 0..n : k = 0 \/ FirstKept(x, n, g[k])}
<1>5. 0 \in S
  OBVIOUS
<1>6. ASSUME NEW k \in 1..n, k - 1 \in S PROVE k \in S
  <2>1. CASE k = 1
    <3>1. BeginsWith(x, x)
      BY <1>4 DEF BeginsWith
    <3>2. FirstKept(x, n, g[k])
      BY <1>3, <2>1, <3>1, Zenon DEF FirstKept
    <3>3. QED
      BY <3>2
  <2>2. CASE k # 1
    <3>1. k - 1 \in 1..n /\ k - 1 # 0 /\ k - 1 \in 0..n
      BY <2>2
    <3>2. PICK y \in Rounds(bits, n) : y = g[k - 1] /\ g[k] = Round(y, n, spill)
      BY <1>2, <3>1
    <3>3. FirstKept(x, n, g[k - 1])
      BY <1>6, <3>1
    <3>4. BeginsWith(x, g[k])
      <4>1. BeginsWith(x, y)
        BY <3>2, <3>3, Zenon DEF FirstKept
      <4>2. QED
        BY <1>4, <3>2, <4>1, RoundBegins
    <3>5. FirstKept(x, n, g[k])
      BY <3>2, <3>3, <3>4, Zenon DEF Round, FirstKept
    <3>6. QED
      BY <3>5
  <2>3. QED
    BY <2>1, <2>2
<1>7. 0..n \subseteq S
  <2> HIDE DEF S
  <2>1. QED
    BY <1>5, <1>6, UpTo, Zenon
<1>8. FirstKept(x, n, g[n])
  <2>1. n \in S
    BY <1>7
  <2>2. QED
    BY <2>1
<1>9. QED
  BY <1>2, <1>8, Zenon DEF FirstKept
=============================================================================
