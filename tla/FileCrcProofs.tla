--------------------------- MODULE FileCrcProofs ----------------------------
(***************************************************************************)
(* CalculateCrc32 and CalculateFileCrc32, for every file, chunk size,      *)
(* change by another program and failure of the medium: the loop computes  *)
(* CRC-32, byte by byte with the table as bit by bit with the polynomial;  *)
(* chunks are chained; and the answer is that of a whole file.             *)
(***************************************************************************)
EXTENDS FileCrc, SequenceTheorems, WellFoundedInduction, TLAPS

-----------------------------------------------------------------------------
(* Induction and recursion over an initial part of the naturals.           *)

\* A set of numbers that is not empty has a least one.
LEMMA LeastOf ==
  ASSUME NEW T, T \subseteq Nat, T # {}
  PROVE  \E n \in T : \A m \in T : ~(m < n)
<1> DEFINE R == {ss \in Nat \X Nat : ss[1] < ss[2]}
<1>1. IsWellFoundedOn(R, Nat)
  BY NatLessThanWellFounded, Zenon DEF OpToRel
<1>2. \A m, n \in Nat : m < n => <<m, n>> \in R
  OBVIOUS
<1> HIDE DEF R
<1>3. \E n \in T : \A m \in T : <<m, n>> \notin R
  BY <1>1, WFMin
<1> QED
  BY <1>2, <1>3

\* Induction, over a set in place of a formula with a parameter.
LEMMA Induction ==
  ASSUME NEW S, 0 \in S, \A n \in Nat : n \in S => n + 1 \in S
  PROVE  Nat \subseteq S
<1> SUFFICES ASSUME NEW T, T = Nat \ S, T # {} PROVE FALSE
  OBVIOUS
<1>1. PICK n \in T : \A m \in T : ~(m < n)
  BY LeastOf
<1>2. n # 0 /\ n - 1 \in Nat /\ n - 1 \notin T
  BY <1>1
<1> QED
  BY <1>1, <1>2

\* Induction up to a bound.
LEMMA InductionTo ==
  ASSUME NEW n \in Nat, NEW S, 0 \in S,
         \A i \in 1..n : i - 1 \in S => i \in S
  PROVE  0..n \subseteq S
<1> DEFINE T == {i \in Nat : i <= n => i \in S}
<1>1. 0 \in T
  OBVIOUS
<1>2. ASSUME NEW i \in Nat, i \in T PROVE i + 1 \in T
  <2> SUFFICES ASSUME i + 1 <= n PROVE i + 1 \in S
    OBVIOUS
  <2>1. i + 1 \in 1..n /\ (i + 1) - 1 = i /\ i \in S
    BY <1>2
  <2> QED
    BY <2>1
<1> HIDE DEF T
<1>3. Nat \subseteq T
  BY <1>1, <1>2, Induction
<1> QED
  BY <1>3 DEF T

\* f starts with a, and g makes each value from the one before it.
Follows(f, n, S, a, g) ==
  /\ f \in [0..n -> S] /\ f[0] = a
  /\ \A i \in 1..n : f[i] = g[<<f[i - 1], i>>]

\* There is such a function: recursion over 0..n.
LEMMA Recursion ==
  ASSUME NEW n \in Nat, NEW S, NEW a \in S, NEW g \in [S \X (1..n) -> S]
  PROVE  \E f : Follows(f, n, S, a, g)
<1> DEFINE T == {m \in 0..n : \E f : Follows(f, m, S, a, g)}
<1>1. 0 \in T
  <2>1. Follows([i \in 0..0 |-> a], 0, S, a, g)
    BY DEF Follows
  <2> QED
    BY <2>1
<1>2. ASSUME NEW m \in 1..n, m - 1 \in T PROVE m \in T
  <2>1. PICK f : Follows(f, m - 1, S, a, g)
    BY <1>2
  <2> DEFINE h == [i \in 0..m |-> IF i < m THEN f[i] ELSE g[<<f[m - 1], m>>]]
  <2>2. f[m - 1] \in S /\ g[<<f[m - 1], m>>] \in S
    <3>1. m - 1 \in 0..(m - 1)
      OBVIOUS
    <3>2. f[m - 1] \in S
      BY <2>1, <3>1 DEF Follows
    <3> QED
      BY <3>2
  <2>3. h \in [0..m -> S] /\ h[0] = a
    BY <2>1, <2>2 DEF Follows
  <2>4. ASSUME NEW i \in 1..m PROVE h[i] = g[<<h[i - 1], i>>]
    <3>1. h[i - 1] = f[i - 1]
      OBVIOUS
    <3>2. CASE i = m
      <4>1. h[m] = g[<<f[m - 1], m>>]
        BY <3>2
      <4> QED
        BY <3>1, <3>2, <4>1
    <3>3. CASE i < m
      BY <2>1, <3>1, <3>3 DEF Follows
    <3> QED
      BY <3>2, <3>3
  <2> HIDE DEF h
  <2>5. Follows(h, m, S, a, g)
    BY <2>3, <2>4 DEF Follows
  <2> QED
    BY <2>5
<1> HIDE DEF T
<1>3. n \in T
  BY <1>1, <1>2, InductionTo
<1> QED
  BY <1>3 DEF T

-----------------------------------------------------------------------------
(* Words, bit by bit.                                                      *)

LEMMA XorIs ==
  ASSUME NEW u \in Word, NEW v \in Word
  PROVE  /\ SymDiff(u, v) \in Word
         /\ \A j \in 0..31 : j \in SymDiff(u, v) <=> ~(j \in u <=> j \in v)
  BY DEF SymDiff, Word

LEMMA DownIs ==
  ASSUME NEW w \in Word, NEW n \in 0..31
  PROVE  /\ Down(w, n) \in Word
         /\ \A j \in 0..31 : j \in Down(w, n) <=> j + n \in w
<1>1. Down(w, n) \in Word
  BY DEF Down, Word
<1>2. ASSUME NEW j \in 0..31, j + n \in w PROVE j \in Down(w, n)
  <2>1. j + n \in w \cap (n..31) /\ j = (j + n) - n
    BY <1>2 DEF Word
  <2> QED
    BY <2>1 DEF Down
<1>3. ASSUME NEW j \in 0..31, j \in Down(w, n) PROVE j + n \in w
  <2>1. PICK i \in w \cap (n..31) : j = i - n
    BY <1>3 DEF Down
  <2> QED
    BY <2>1 DEF Word
<1> QED
  BY <1>1, <1>2, <1>3

LEMMA SameWord ==
  ASSUME NEW u \in Word, NEW v \in Word, \A j \in 0..31 : j \in u <=> j \in v
  PROVE  u = v
  BY DEF Word

\* The register after the k-th bit of the bits B.
Turn(w, B, k) == NextBit(w, k \in B)

LEMMA BitIs ==
  ASSUME NEW w \in Word, NEW B, NEW k
  PROVE  /\ Turn(w, B, k) \in Word
         /\ \A j \in 0..31 :
              j \in Turn(w, B, k) <=>
                ~(j + 1 \in w <=> (j \in Polynomial /\ ~(0 \in w <=> k \in B)))
<1>1. Polynomial \in Word /\ 1 \in 0..31
  BY DEF Polynomial, Word
<1>2. Down(w, 1) \in Word /\ \A j \in 0..31 : j \in Down(w, 1) <=> j + 1 \in w
  BY <1>1, DownIs
<1>3. CASE ~(0 \in w <=> k \in B)
  <2>1. Turn(w, B, k) = SymDiff(Down(w, 1), Polynomial)
    BY <1>3, Zenon DEF Turn, NextBit
  <2> QED
    BY <1>1, <1>2, <1>3, <2>1, XorIs
<1>4. CASE 0 \in w <=> k \in B
  <2>0. (0 \in w) = (k \in B)
    BY <1>4
  <2>1. Turn(w, B, k) = Down(w, 1)
    BY <2>0, Zenon DEF Turn, NextBit
  <2> QED
    BY <1>2, <1>4, <2>1
<1> QED
  BY <1>3, <1>4

\* The remainder after each bit of a byte exists and is a word.
LEMMA BitsAre ==
  ASSUME NEW b \in Byte, NEW w \in Word
  PROVE  /\ AfterBits(b, w) \in [0..8 -> Word]
         /\ AfterBits(b, w)[0] = w
         /\ \A k \in 0..7 :
              AfterBits(b, w)[k + 1] = Turn(AfterBits(b, w)[k], b, k)
<1> DEFINE g == [p \in Word \X (1..8) |-> Turn(p[1], b, p[2] - 1)]
<1>0. ASSUME NEW x \in Word, NEW i PROVE Turn(x, b, i) \in Word
  BY BitIs
<1>1. g \in [Word \X (1..8) -> Word]
  <2>1. ASSUME NEW p \in Word \X (1..8)
        PROVE  Turn(p[1], b, p[2] - 1) \in Word
    <3>1. p[1] \in Word
      OBVIOUS
    <3> QED
      BY <1>0, <3>1
  <2> QED
    BY <2>1
<1> HIDE DEF g
<1>2. PICK f : Follows(f, 8, Word, w, g)
  BY <1>1, Recursion
<1>3. f = [i \in 0..8 |-> IF i = 0 THEN w ELSE Turn(f[i - 1], b, i - 1)]
  <2>1. ASSUME NEW i \in 1..8
        PROVE  g[<<f[i - 1], i>>] = Turn(f[i - 1], b, i - 1)
    <3>1. f[i - 1] \in Word
      BY <1>2 DEF Follows
    <3>2. <<f[i - 1], i>> \in Word \X (1..8)
      BY <3>1
    <3> QED
      BY <3>2 DEF g
  <2> QED
    BY <1>2, <2>1 DEF Follows
<1> DEFINE e == AfterBits(b, w)
<1>4. e = [i \in 0..8 |-> IF i = 0 THEN w ELSE Turn(e[i - 1], b, i - 1)]
  BY <1>3, Zenon DEF AfterBits, Turn
<1> HIDE DEF e
<1>5. e[0] = w /\ \A k \in 0..7 : e[k + 1] = Turn(e[k], b, k)
  BY <1>4
<1> DEFINE T == {k \in 0..8 : e[k] \in Word}
<1>6. 0 \in T
  BY <1>5
<1>7. ASSUME NEW k \in 1..8, k - 1 \in T PROVE k \in T
  <2>1. e[k] = Turn(e[k - 1], b, k - 1) /\ e[k - 1] \in Word
    BY <1>4, <1>7
  <2> QED
    BY <1>0, <2>1
<1> HIDE DEF T
<1>8. 0..8 \subseteq T
  BY <1>6, <1>7, InductionTo
<1>9. e \in [0..8 -> Word]
  BY <1>4, <1>8 DEF T
<1> QED
  BY <1>5, <1>9 DEF e

\* The bits of a byte can be added to the register before they are shifted
\* through it, instead of one by one.
LEMMA BitsAddedFirst ==
  ASSUME NEW b \in Byte, NEW w \in Word
  PROVE  AfterBits(b, w)[8] = AfterBits(Zero, SymDiff(w, b))[8]
<1> DEFINE x == SymDiff(w, b)
           l == AfterBits(b, w)
           r == AfterBits(Zero, x)
           T == {k \in 0..8 : \A j \in 0..31 :
                   j \in r[k] <=> ~(j \in l[k] <=> j + k \in b)}
<1>1. b \in Word /\ Zero \in Byte /\ x \in Word
  BY XorIs DEF Byte, Word, Zero
<1>2. /\ l \in [0..8 -> Word] /\ l[0] = w
      /\ \A k \in 0..7 : l[k + 1] = Turn(l[k], b, k)
  BY BitsAre
<1>3. /\ r \in [0..8 -> Word] /\ r[0] = x
      /\ \A k \in 0..7 : r[k + 1] = Turn(r[k], Zero, k)
  BY <1>1, BitsAre
<1>5. 0 \in T
  <2>1. \A j \in 0..31 : j + 0 = j
    OBVIOUS
  <2>2. \A j \in 0..31 : j \in x <=> ~(j \in w <=> j \in b)
    BY <1>1, XorIs
  <2> QED
    BY <1>2, <1>3, <2>1, <2>2
<1> HIDE DEF x, l, r
<1>6. ASSUME NEW k \in 1..8, k - 1 \in T PROVE k \in T
  <2> DEFINE i == k - 1
  <2>1. i \in 0..7 /\ i + 1 = k
    OBVIOUS
  <2>2. \A j \in 0..31 : j \in r[i] <=> ~(j \in l[i] <=> j + i \in b)
    BY <1>6
  <2>3. /\ l[i] \in Word /\ l[k] = Turn(l[i], b, i)
        /\ r[i] \in Word /\ r[k] = Turn(r[i], Zero, i)
    <3>1. l[i] \in Word /\ r[i] \in Word
      BY <1>2, <1>3, <2>1
    <3>2. l[k] = Turn(l[i], b, i) /\ r[k] = Turn(r[i], Zero, i)
      BY <1>2, <1>3, <2>1
    <3> QED
      BY <3>1, <3>2
  <2>4. 0 \in r[i] <=> ~(0 \in l[i] <=> i \in b)
    <3>1. 0 + i = i /\ 0 \in 0..31
      BY <2>1
    <3> QED
      BY <2>2, <3>1
  <2> HIDE DEF i
  <2>5. SUFFICES ASSUME NEW j \in 0..31
                 PROVE  j \in r[k] <=> ~(j \in l[k] <=> j + k \in b)
    OBVIOUS
  <2>6. j \in l[k] <=>
          ~(j + 1 \in l[i] <=> (j \in Polynomial /\ ~(0 \in l[i] <=> i \in b)))
    BY <2>3, BitIs
  <2>7. j \in r[k] <=> ~(j + 1 \in r[i] <=> (j \in Polynomial /\ 0 \in r[i]))
    BY <2>3, BitIs DEF Zero
  <2>8. j + 1 \in r[i] <=> ~(j + 1 \in l[i] <=> j + k \in b)
    <3>1. CASE j = 31
      <4>1. j + 1 \notin r[i] /\ j + 1 \notin l[i] /\ j + k \notin b
        BY <2>1, <2>3, <3>1 DEF Byte, Word
      <4> QED
        BY <4>1
    <3>2. CASE j # 31
      <4>1. j + 1 \in 0..31 /\ (j + 1) + i = j + k
        BY <2>1, <3>2
      <4> QED
        BY <2>2, <4>1
    <3> QED
      BY <3>1, <3>2
  <2> QED
    BY <2>4, <2>6, <2>7, <2>8
<1>7. 8 \in T
  <2> HIDE DEF T
  <2>1. 0..8 \subseteq T
    BY <1>5, <1>6, InductionTo
  <2> QED
    BY <2>1
<1>8. \A j \in 0..31 : j \in r[8] <=> j \in l[8]
  <2>1. \A j \in 0..31 : j + 8 \notin b
    BY DEF Byte
  <2> QED
    BY <1>7, <2>1
<1>9. l[8] \in Word /\ r[8] \in Word
  BY <1>2, <1>3
<1>10. r[8] = l[8]
  BY <1>8, <1>9, SameWord
<1> QED
  BY <1>10 DEF l, r, x

\* In eight turns the upper bits only fall by eight places; what else changes
\* the register depends on its lowest byte.
LEMMA HighBitsFall ==
  ASSUME NEW x \in Word
  PROVE  AfterBits(Zero, x)[8] =
           SymDiff(AfterBits(Zero, LowByte(x))[8], Down(x, 8))
<1> DEFINE l == AfterBits(Zero, LowByte(x))
           r == AfterBits(Zero, x)
           T == {k \in 0..8 : \A j \in 0..31 :
                   j \in r[k] <=> ~(j \in l[k] <=> j + k >= 8 /\ j + k \in x)}
<1>1. Zero \in Byte /\ LowByte(x) \in Word
      /\ \A j \in 0..31 : j \in LowByte(x) <=> j < 8 /\ j \in x
  BY DEF Byte, Word, Zero, LowByte
<1>2. /\ l \in [0..8 -> Word] /\ l[0] = LowByte(x)
      /\ \A k \in 0..7 : l[k + 1] = Turn(l[k], Zero, k)
  BY <1>1, BitsAre
<1>3. /\ r \in [0..8 -> Word] /\ r[0] = x
      /\ \A k \in 0..7 : r[k + 1] = Turn(r[k], Zero, k)
  BY <1>1, BitsAre
<1> HIDE DEF l, r
<1>4. 0 \in T
  <2>1. \A j \in 0..31 : j + 0 = j
    OBVIOUS
  <2> QED
    BY <1>1, <1>2, <1>3, <2>1
<1>5. ASSUME NEW k \in 1..8, k - 1 \in T PROVE k \in T
  <2> DEFINE i == k - 1
  <2>1. i \in 0..7 /\ i + 1 = k
    OBVIOUS
  <2>2. \A j \in 0..31 :
          j \in r[i] <=> ~(j \in l[i] <=> j + i >= 8 /\ j + i \in x)
    BY <1>5
  <2>3. /\ l[i] \in Word /\ l[k] = Turn(l[i], Zero, i)
        /\ r[i] \in Word /\ r[k] = Turn(r[i], Zero, i)
    BY <1>2, <1>3, <2>1
  <2>4. 0 \in r[i] <=> 0 \in l[i]
    BY <2>1, <2>2
  <2> HIDE DEF i
  <2>5. SUFFICES ASSUME NEW j \in 0..31
                 PROVE  j \in r[k] <=>
                          ~(j \in l[k] <=> j + k >= 8 /\ j + k \in x)
    OBVIOUS
  <2>6. j \in l[k] <=> ~(j + 1 \in l[i] <=> (j \in Polynomial /\ 0 \in l[i]))
    BY <2>3, BitIs DEF Zero
  <2>7. j \in r[k] <=> ~(j + 1 \in r[i] <=> (j \in Polynomial /\ 0 \in r[i]))
    BY <2>3, BitIs DEF Zero
  <2>8. j + 1 \in r[i] <=> ~(j + 1 \in l[i] <=> j + k >= 8 /\ j + k \in x)
    <3>1. CASE j = 31
      <4>1. j + 1 \notin r[i] /\ j + 1 \notin l[i] /\ j + k \notin x
        BY <2>1, <2>3, <3>1 DEF Word
      <4> QED
        BY <4>1
    <3>2. CASE j # 31
      <4>1. j + 1 \in 0..31 /\ (j + 1) + i = j + k
        BY <2>1, <3>2
      <4> QED
        BY <2>2, <4>1
    <3> QED
      BY <3>1, <3>2
  <2> QED
    BY <2>4, <2>6, <2>7, <2>8
<1>6. 8 \in T
  <2> HIDE DEF T
  <2>1. 0..8 \subseteq T
    BY <1>4, <1>5, InductionTo
  <2> QED
    BY <2>1
<1>7. l[8] \in Word /\ r[8] \in Word /\ 8 \in 0..31
  BY <1>2, <1>3
<1>8. \A j \in 0..31 : j \in r[8] <=> ~(j \in l[8] <=> j + 8 \in x)
  BY <1>6
<1>9. \A j \in 0..31 : j \in r[8] <=> j \in SymDiff(l[8], Down(x, 8))
  BY <1>7, <1>8, DownIs, XorIs
<1>10. SymDiff(l[8], Down(x, 8)) \in Word
  BY <1>7, DownIs, XorIs
<1>11. r[8] = SymDiff(l[8], Down(x, 8))
  BY <1>7, <1>9, <1>10, SameWord
<1> QED
  BY <1>11 DEF l, r

\* A turn of the loop of CalculateCrc32 does what the eight bits do.
LEMMA TurnIsByte ==
  ASSUME NEW w \in Word, NEW b \in Byte
  PROVE  /\ NextByte(w, b) = AfterBits(b, w)[8]
         /\ NextByte(w, b) \in Word
<1> DEFINE x == SymDiff(w, b)
<1>1. b \in Word /\ x \in Word /\ 8 \in 0..31
      /\ \A j \in 0..31 : j \in x <=> ~(j \in w <=> j \in b)
  BY XorIs DEF Byte, Word
<1>2. LowByte(x) = SymDiff(LowByte(w), b) /\ LowByte(x) \in Byte
  BY DEF LowByte, SymDiff, Byte
<1> HIDE DEF x
<1>3. Down(x, 8) = Down(w, 8)
  <2>1. Down(x, 8) \in Word /\ Down(w, 8) \in Word
    BY <1>1, DownIs
  <2>2. ASSUME NEW j \in 0..31 PROVE j \in Down(x, 8) <=> j \in Down(w, 8)
    <3>1. /\ j \in Down(x, 8) <=> j + 8 \in x
          /\ j \in Down(w, 8) <=> j + 8 \in w
      BY <1>1, DownIs
    <3>2. j + 8 \in x <=> j + 8 \in w
      <4>1. CASE j + 8 \in 0..31
        BY <1>1, <4>1 DEF Byte
      <4>2. CASE j + 8 \notin 0..31
        BY <1>1, <4>2 DEF Word
      <4> QED
        BY <4>1, <4>2
    <3> QED
      BY <3>1, <3>2
  <2> QED
    BY <2>1, <2>2, SameWord
<1>4. NextByte(w, b) = SymDiff(AfterBits(Zero, LowByte(x))[8], Down(x, 8))
  BY <1>2, <1>3, TableAssumption DEF NextByte
<1>5. NextByte(w, b) = AfterBits(Zero, x)[8]
  BY <1>1, <1>4, HighBitsFall
<1>6. AfterBits(b, w)[8] = AfterBits(Zero, x)[8]
  BY BitsAddedFirst DEF x
<1>7. AfterBits(b, w)[8] \in Word
  BY BitsAre
<1> QED
  BY <1>5, <1>6, <1>7

-----------------------------------------------------------------------------
(* Messages, byte by byte.                                                 *)

\* What each byte of s does to the register.
ByteTurns(s) == [p \in Word \X (1..Len(s)) |-> NextByte(p[1], s[p[2]])]

\* The register after each byte exists and is a word.
LEMMA BytesAre ==
  ASSUME NEW s \in Seq(Byte), NEW w \in Word
  PROVE  Follows(AfterBytes(s, w), Len(s), Word, w, ByteTurns(s))
<1> DEFINE n == Len(s)
           g == ByteTurns(s)
           e == AfterBytes(s, w)
<1>1. n \in Nat /\ \A i \in 1..n : s[i] \in Byte
  OBVIOUS
<1> HIDE DEF n
<1>2. \A x \in Word, i \in 1..n :
        /\ g[<<x, i>>] = NextByte(x, s[i]) /\ g[<<x, i>>] \in Word
  BY <1>1, TurnIsByte DEF ByteTurns, n
<1>3. g \in [Word \X (1..n) -> Word]
  <2>1. ASSUME NEW p \in Word \X (1..n) PROVE NextByte(p[1], s[p[2]]) \in Word
    <3>1. p[1] \in Word /\ s[p[2]] \in Byte
      BY <1>1
    <3> QED
      BY <3>1, TurnIsByte
  <2> QED
    BY <2>1 DEF ByteTurns, n
<1> HIDE DEF g
<1>4. PICK f : Follows(f, n, Word, w, g)
  BY <1>1, <1>3, Recursion
<1>5. f = [i \in 0..n |-> IF i = 0 THEN w ELSE NextByte(f[i - 1], s[i])]
  <2>1. ASSUME NEW i \in 1..n
        PROVE  f[i] = NextByte(f[i - 1], s[i])
    <3>1. f[i - 1] \in Word /\ f[i] = g[<<f[i - 1], i>>]
      BY <1>1, <1>4 DEF Follows
    <3> QED
      BY <1>2, <3>1
  <2> QED
    BY <1>1, <1>4, <2>1 DEF Follows
<1>6. e = [i \in 0..n |-> IF i = 0 THEN w ELSE NextByte(e[i - 1], s[i])]
  BY <1>5, Zenon DEF AfterBytes, n
<1> HIDE DEF e
<1>7. e[0] = w /\ \A i \in 1..n : e[i] = NextByte(e[i - 1], s[i])
  BY <1>1, <1>6
<1> DEFINE T == {k \in 0..n : e[k] \in Word}
<1>8. 0 \in T
  BY <1>1, <1>7
<1>9. ASSUME NEW k \in 1..n, k - 1 \in T PROVE k \in T
  <2>1. e[k] = NextByte(e[k - 1], s[k]) /\ e[k - 1] \in Word /\ s[k] \in Byte
    BY <1>1, <1>7, <1>9
  <2>2. e[k] \in Word /\ k \in 0..n
    BY <1>1, <2>1, TurnIsByte
  <2> QED
    BY <2>2
<1> HIDE DEF T
<1>10. 0..n \subseteq T
  BY <1>1, <1>8, <1>9, InductionTo
<1>11. e \in [0..n -> Word]
  BY <1>6, <1>10 DEF T
<1>12. ASSUME NEW i \in 1..n PROVE e[i] = g[<<e[i - 1], i>>]
  <2>1. e[i - 1] \in Word
    BY <1>1, <1>11
  <2> QED
    BY <1>2, <1>7, <2>1
<1> QED
  BY <1>7, <1>11, <1>12 DEF Follows, e, g, n

\* The same in terms of NextByte.
LEMMA ByteByByte ==
  ASSUME NEW s \in Seq(Byte), NEW w \in Word
  PROVE  /\ AfterBytes(s, w) \in [0..Len(s) -> Word]
         /\ AfterBytes(s, w)[0] = w
         /\ \A i \in 1..Len(s) :
              AfterBytes(s, w)[i] = NextByte(AfterBytes(s, w)[i - 1], s[i])
<1> DEFINE e == AfterBytes(s, w)
<1>1. Follows(e, Len(s), Word, w, ByteTurns(s))
  BY BytesAre
<1> HIDE DEF e
<1>2. ASSUME NEW i \in 1..Len(s) PROVE e[i] = NextByte(e[i - 1], s[i])
  <2>1. e[i - 1] \in Word /\ e[i] = ByteTurns(s)[<<e[i - 1], i>>]
    BY <1>1 DEF Follows
  <2> QED
    BY <2>1 DEF ByteTurns
<1> QED
  BY <1>1, <1>2 DEF Follows, e

\* Byte by byte with the table, the register is what bit by bit makes it.
LEMMA TableIsReference ==
  ASSUME NEW s \in Seq(Byte)
  PROVE  ReferenceAfter(s) = AfterBytes(s, 0..31)
<1> DEFINE n == Len(s)
           f == AfterBytes(s, 0..31)
           e == ReferenceAfter(s)
<1>1. n \in Nat /\ 0..31 \in Word /\ \A i \in 1..n : s[i] \in Byte
  BY DEF Word
<1>2. /\ f \in [0..n -> Word] /\ f[0] = 0..31
      /\ \A i \in 1..n : f[i] = NextByte(f[i - 1], s[i])
  BY <1>1, ByteByByte
<1> HIDE DEF f
<1>3. f = [i \in 0..n |->
             IF i = 0 THEN 0..31 ELSE AfterBits(s[i], f[i - 1])[8]]
  <2>1. ASSUME NEW i \in 1..n PROVE f[i] = AfterBits(s[i], f[i - 1])[8]
    <3>1. f[i - 1] \in Word
      BY <1>1, <1>2
    <3> QED
      BY <1>1, <1>2, <3>1, TurnIsByte
  <2> QED
    BY <1>1, <1>2, <2>1
<1>4. e = [i \in 0..n |->
             IF i = 0 THEN 0..31 ELSE AfterBits(s[i], e[i - 1])[8]]
  BY <1>3, Zenon DEF ReferenceAfter
<1> HIDE DEF e, n
<1> DEFINE T == {k \in 0..n : e[k] = f[k]}
<1>5. 0 \in T
  BY <1>1, <1>3, <1>4
<1>6. ASSUME NEW k \in 1..n, k - 1 \in T PROVE k \in T
  <2>1. k \in 0..n /\ k - 1 \in 0..n /\ k # 0 /\ e[k - 1] = f[k - 1]
    BY <1>1, <1>6
  <2>2. f[k] = AfterBits(s[k], f[k - 1])[8] /\ e[k] = AfterBits(s[k], e[k - 1])[8]
    BY <1>3, <1>4, <2>1, Zenon
  <2> QED
    BY <2>1, <2>2
<1> HIDE DEF T
<1>7. \A k \in 0..n : e[k] = f[k]
  BY <1>1, <1>5, <1>6, InductionTo DEF T
<1> QED
  BY <1>2, <1>4, <1>7 DEF e, f

\* A message in two parts: the second starts where the first has ended.
LEMMA PartsAreChained ==
  ASSUME NEW s \in Seq(Byte), NEW t \in Seq(Byte), NEW w \in Word
  PROVE  AfterBytes(s \o t, w)[Len(s \o t)] =
           AfterBytes(t, AfterBytes(s, w)[Len(s)])[Len(t)]
<1> DEFINE m == Len(s)
           n == Len(t)
           u == s \o t
           a == AfterBytes(s, w)
           b == AfterBytes(t, a[m])
           c == AfterBytes(u, w)
<1>1. /\ m \in Nat /\ n \in Nat /\ u \in Seq(Byte) /\ Len(u) = m + n
      /\ \A i \in 1..(m + n) : u[i] = IF i <= m THEN s[i] ELSE t[i - m]
  BY ConcatProperties
<1>2. /\ a \in [0..m -> Word] /\ a[0] = w
      /\ \A i \in 1..m : a[i] = NextByte(a[i - 1], s[i])
  BY ByteByByte
<1>3. a[m] \in Word
  BY <1>1, <1>2
<1>4. /\ b \in [0..n -> Word] /\ b[0] = a[m]
      /\ \A i \in 1..n : b[i] = NextByte(b[i - 1], t[i])
  BY <1>3, ByteByByte
<1>5. /\ c \in [0..(m + n) -> Word] /\ c[0] = w
      /\ \A i \in 1..(m + n) : c[i] = NextByte(c[i - 1], u[i])
  BY <1>1, ByteByByte
<1> HIDE DEF m, n, u, a, b, c
<1> DEFINE T == {i \in 0..m : c[i] = a[i]}
<1>6. m \in T
  <2>1. 0 \in T
    BY <1>1, <1>2, <1>5
  <2>2. ASSUME NEW i \in 1..m, i - 1 \in T PROVE i \in T
    <3>1. c[i] = NextByte(c[i - 1], u[i]) /\ u[i] = s[i]
      BY <1>1, <1>5
    <3> QED
      BY <1>2, <2>2, <3>1
  <2> HIDE DEF T
  <2>3. 0..m \subseteq T
    BY <1>1, <2>1, <2>2, InductionTo
  <2> QED
    BY <1>1, <2>3
<1> DEFINE U == {i \in 0..n : c[m + i] = b[i]}
<1>7. n \in U
  <2>1. 0 \in U
    BY <1>1, <1>4, <1>6
  <2>2. ASSUME NEW i \in 1..n, i - 1 \in U PROVE i \in U
    <3>1. /\ m + i \in 1..(m + n) /\ ~(m + i <= m) /\ (m + i) - m = i
          /\ (m + i) - 1 = m + (i - 1)
      BY <1>1
    <3>2. c[m + i] = NextByte(c[(m + i) - 1], u[m + i]) /\ u[m + i] = t[i]
      BY <1>1, <1>5, <3>1
    <3> QED
      BY <1>4, <2>2, <3>1, <3>2
  <2> HIDE DEF U
  <2>3. 0..n \subseteq U
    BY <1>1, <2>1, <2>2, InductionTo
  <2> QED
    BY <1>1, <2>3
<1>8. c[m + n] = b[n]
  BY <1>7
<1> QED
  BY <1>1, <1>8 DEF m, n, u, a, b, c

\* CalculateCrc32 continues the CRC-32 of what came before.
LEMMA CrcContinues ==
  ASSUME NEW s \in Seq(Byte), NEW t \in Seq(Byte)
  PROVE  CalculateCrc32(t, ReferenceCrc(s)) = ReferenceCrc(s \o t)
<1> DEFINE w == AfterBytes(s, 0..31)[Len(s)]
<1>1. 0..31 \in Word /\ s \o t \in Seq(Byte) /\ Len(s) \in Nat
  BY DEF Word
<1>2. w \in Word
  BY <1>1, ByteByByte
<1>3. Invert(Invert(w)) = w
  BY <1>2 DEF Invert, Word
<1>4. ReferenceCrc(s) = Invert(w)
  BY TableIsReference DEF ReferenceCrc
<1> HIDE DEF w
<1>5. CalculateCrc32(t, ReferenceCrc(s)) = Invert(AfterBytes(t, w)[Len(t)])
  BY <1>3, <1>4 DEF CalculateCrc32
<1>6. ReferenceCrc(s \o t) = Invert(AfterBytes(s \o t, 0..31)[Len(s \o t)])
  BY <1>1, TableIsReference DEF ReferenceCrc
<1> QED
  BY <1>1, <1>5, <1>6, PartsAreChained DEF w

LEMMA NothingRead == ReferenceCrc(<<>>) = Zero
<1> DEFINE s == <<>>
<1>1. s \in Seq(Byte) /\ Len(s) = 0 /\ 0..31 \in Word
  BY DEF Word
<1> HIDE DEF s
<1>2. ReferenceAfter(s)[0] = 0..31
  <2>1. ReferenceAfter(s) = AfterBytes(s, 0..31)
    BY <1>1, TableIsReference
  <2>2. \A w \in Word : AfterBytes(s, w)[0] = w
    BY <1>1, ByteByByte
  <2> QED
    BY <1>1, <2>1, <2>2
<1>3. ReferenceCrc(s) = Zero
  BY <1>1, <1>2 DEF ReferenceCrc, Invert, Zero
<1> QED
  BY <1>3 DEF s

-----------------------------------------------------------------------------
(* The loop of CalculateFileCrc32.                                         *)

USE DEF readVars

\* The smaller of two numbers.
LEMMA MinOfTwo ==
  ASSUME NEW a \in Int, NEW b \in Int
  PROVE  Min({a, b}) = IF a <= b THEN a ELSE b
<1>1. \E x \in {a, b} : \A y \in {a, b} : x <= y
  OBVIOUS
<1>2. Min({a, b}) \in {a, b} /\ \A y \in {a, b} : Min({a, b}) <= y
  BY <1>1 DEF Min
<1> QED
  BY <1>2

-----------------------------------------------------------------------------
\* What was read is the beginning of the file.
Begins(c) ==
  /\ Len(bytes) <= Len(c)
  /\ \A i \in 1..Len(bytes) : bytes[i] = c[i]

\* The inductive invariant.  Without another program's doing, the bytes read
\* are the beginning of the file whose size was taken, and a read that came
\* short either reached the end of it or was cut by the medium.
\* (util.cpp, CalculateFileCrc32)
ReadInv ==
  /\ disk = <<>> \/ \E c \in Seq(Byte) : disk = <<c>>
  /\ bytes \in Seq(Byte) /\ fileSize \in Nat
  /\ step \in {"exists", "open", "size", "read", "returned", "threw"}
  /\ step \in {"exists", "open", "size"} => bytes = <<>> /\ good
  /\ (step = "open" /\ ~touched) \/ step = "read" => disk # <<>>
  /\ step = "read" /\ ~touched =>
       /\ fileSize = Len(disk[1]) /\ Begins(disk[1])
       /\ ~good /\ ~mediumFails => bytes = disk[1]
  /\ step = "returned" /\ answer # Zero =>
       /\ answer = crc /\ Len(bytes) = fileSize
       /\ ~touched => bytes = disk[1]
  /\ step = "returned" /\ ~touched /\ ~mediumFails =>
       IF disk = <<>> THEN answer = Zero ELSE bytes = disk[1] /\ answer = crc

\* The content under the path, if there is one.
LEMMA DiskTyped ==
  ASSUME ReadInv, disk # <<>>
  PROVE  disk[1] \in Seq(Byte) /\ disk = <<disk[1]>>
  BY DEF ReadInv

\* What the next read finds continues what was read.
LEMMA NextChunkIs ==
  ASSUME ReadInv, step = "read"
  PROVE  /\ NextChunk \in Seq(Byte)
         /\ Len(NextChunk) <= ChunkSize
         /\ NextChunk # <<>> => Len(bytes) + Len(NextChunk) <= Len(disk[1])
         /\ Len(NextChunk) < ChunkSize /\ Len(bytes) <= Len(disk[1])
              => Len(bytes) + Len(NextChunk) = Len(disk[1])
         /\ \A i \in 1..Len(NextChunk) : NextChunk[i] = disk[1][Len(bytes) + i]
<1>1. disk[1] \in Seq(Byte) /\ bytes \in Seq(Byte) /\ ChunkSize \in Nat \ {0}
  BY DiskTyped, FileCrcAssumption DEF ReadInv
<1> DEFINE d == disk[1]
           b == Len(bytes)
           last == Min({b + ChunkSize, Len(d)})
<1>2. b \in Nat /\ Len(d) \in Nat
  BY <1>1
<1>3. last = IF b + ChunkSize <= Len(d) THEN b + ChunkSize ELSE Len(d)
  BY <1>1, <1>2, MinOfTwo
<1>4. NextChunk = SubSeq(d, b + 1, last)
  BY DEF NextChunk
<1> HIDE DEF last
<1>5. CASE b < Len(d)
  <2>1. /\ NextChunk \in Seq(Byte) /\ Len(NextChunk) = last - b
        /\ \A i \in 1..(last - b) : NextChunk[i] = d[b + i]
    BY <1>1, <1>2, <1>3, <1>4, <1>5, SubSeqProperties
  <2> QED
    BY <1>1, <1>2, <1>3, <1>5, <2>1
<1>6. CASE b >= Len(d)
  <2>1. last = Len(d)
    BY <1>1, <1>2, <1>3, <1>6
  <2>2. NextChunk = <<>>
    BY <1>1, <1>2, <1>4, <1>6, <2>1, SubSeqEmpty
  <2> QED
    BY <1>1, <1>2, <1>6, <2>2
<1> QED
  BY <1>2, <1>5, <1>6

\* A read of part of the next chunk continues the beginning of the file.
LEMMA ReadKeeps ==
  ASSUME ReadInv, ReadChunk
  PROVE  ReadInv'
<1> DEFINE d == disk[1]
<1>1. /\ step = "read" /\ good /\ step' = "read" /\ disk # <<>>
      /\ UNCHANGED <<disk, touched, fileSize, answer>>
  BY DEF ReadChunk, ReadInv
<1>2. PICK n \in 1..Len(NextChunk) :
        /\ bytes' = bytes \o SubSeq(NextChunk, 1, n)
        /\ good' = (n = ChunkSize)
        /\ mediumFails' = (mediumFails \/ n < Len(NextChunk))
  BY DEF ReadChunk
<1> DEFINE buf == SubSeq(NextChunk, 1, n)
<1>3. d \in Seq(Byte) /\ bytes \in Seq(Byte) /\ ChunkSize \in Nat \ {0}
  BY <1>1, DiskTyped, FileCrcAssumption DEF ReadInv
<1>4. NextChunk \in Seq(Byte) /\ Len(NextChunk) \in Nat /\ n \in Nat
  BY <1>1, NextChunkIs
<1>5. /\ buf \in Seq(Byte) /\ Len(buf) = n
      /\ \A i \in 1..n : buf[i] = NextChunk[i]
  BY <1>4, SubSeqProperties
<1>6. /\ bytes' \in Seq(Byte) /\ Len(bytes') = Len(bytes) + n
      /\ \A i \in 1..(Len(bytes) + n) :
           bytes'[i] = IF i <= Len(bytes) THEN bytes[i] ELSE buf[i - Len(bytes)]
  BY <1>2, <1>3, <1>5, ConcatProperties
<1> HIDE DEF buf
<1>7. ASSUME ~touched
      PROVE  /\ fileSize = Len(d) /\ Begins(d)'
             /\ ~good' /\ ~mediumFails' => bytes' = d
  <2>1. /\ fileSize = Len(d) /\ Len(bytes) <= Len(d)
        /\ \A i \in 1..Len(bytes) : bytes[i] = d[i]
    BY <1>1, <1>7 DEF ReadInv, Begins
  <2>2. Len(bytes) + Len(NextChunk) <= Len(d)
    BY <1>1, <1>2, <1>4, NextChunkIs
  <2>3. \A i \in 1..n : buf[i] = d[Len(bytes) + i]
    <3>1. 1..n \subseteq 1..Len(NextChunk)
      BY <1>4
    <3>2. \A i \in 1..Len(NextChunk) : NextChunk[i] = d[Len(bytes) + i]
      BY <1>1, NextChunkIs
    <3> QED
      BY <1>5, <3>1, <3>2
  <2>4. \A i \in 1..(Len(bytes) + n) : bytes'[i] = d[i]
    <3> SUFFICES ASSUME NEW i \in 1..(Len(bytes) + n) PROVE bytes'[i] = d[i]
      OBVIOUS
    <3>1. CASE i <= Len(bytes)
      BY <1>3, <1>4, <1>6, <2>1, <3>1
    <3>2. CASE i > Len(bytes)
      <4>1. i - Len(bytes) \in 1..n /\ Len(bytes) + (i - Len(bytes)) = i
        BY <1>3, <1>4, <3>2
      <4>2. buf[i - Len(bytes)] = d[i]
        BY <2>3, <4>1
      <4> QED
        BY <1>3, <1>4, <1>6, <3>2, <4>2
    <3> QED
      BY <1>3, <1>4, <3>1, <3>2
  <2>5. Begins(d)'
    <3>1. Len(bytes') <= Len(d)
      BY <1>2, <1>3, <1>4, <1>6, <2>2
    <3> QED
      BY <1>1, <1>6, <2>4, <3>1 DEF Begins
  <2>6. ASSUME ~good', ~mediumFails' PROVE bytes' = d
    <3>1. n = Len(NextChunk) /\ n # ChunkSize
      <4>1. n # ChunkSize /\ ~(n < Len(NextChunk))
        BY <1>2, <2>6, Zenon
      <4> QED
        BY <1>4, <4>1
    <3>2. Len(NextChunk) < ChunkSize
      <4>1. Len(NextChunk) <= ChunkSize
        BY <1>1, NextChunkIs
      <4> QED
        BY <1>3, <1>4, <3>1, <4>1
    <3>3. Len(bytes') = Len(d)
      BY <1>1, <1>6, <2>1, <3>1, <3>2, NextChunkIs
    <3> QED
      BY <1>3, <1>6, <2>4, <3>3, SeqEqual
  <2> QED
    BY <2>1, <2>5, <2>6
<1> QED
  BY <1>1, <1>6, <1>7 DEF ReadInv, Begins

\* Every step keeps the invariant.
LEMMA ReadInvNext ==
  ASSUME ReadInv, [FileCrcNext]_fileCrcVars
  PROVE  ReadInv'
<1>1. CASE Exists
  BY <1>1 DEF Exists, Return, ReadInv
<1>2. CASE Open
  BY <1>2 DEF Open, ReadInv
<1>3. CASE OpenFails
  BY <1>3 DEF OpenFails, Return, ReadInv
<1>4. CASE TakeSize
  <2>1. CASE disk = <<>>
    BY <1>4, <2>1 DEF TakeSize, ReadInv
  <2>2. CASE disk # <<>>
    <3>1. /\ disk[1] \in Seq(Byte) /\ bytes = <<>> /\ good
          /\ step' = "read" /\ fileSize' = Len(disk[1])
          /\ UNCHANGED <<disk, touched, mediumFails, good, bytes>>
      BY <1>4, <2>2, DiskTyped DEF TakeSize, ReadInv
    <3>2. Len(disk[1]) \in Nat /\ Len(bytes) = 0
      BY <3>1
    <3>3. Begins(disk[1])'
      BY <3>1, <3>2 DEF Begins
    <3> QED
      BY <2>2, <3>1, <3>2, <3>3 DEF ReadInv
  <2> QED
    BY <2>1, <2>2
<1>5. CASE ReadEnds
  <2>1. /\ step = "read" /\ step' = "returned" /\ answer' = Verdict
        /\ UNCHANGED <<disk, touched, fileSize, good, bytes, crc>>
        /\ mediumFails' = (mediumFails \/ (good /\ NextChunk # <<>>))
        /\ disk # <<>> /\ disk[1] \in Seq(Byte) /\ bytes \in Seq(Byte)
    BY <1>5, DiskTyped DEF ReadEnds, Return, ReadInv
  <2>2. ASSUME ~touched
        PROVE  /\ fileSize = Len(disk[1]) /\ Begins(disk[1])
               /\ ~good /\ ~mediumFails => bytes = disk[1]
    BY <2>1, <2>2 DEF ReadInv
  <2>3. ASSUME ~touched, Len(bytes) = fileSize PROVE bytes = disk[1]
    BY <2>1, <2>2, <2>3, SeqEqual DEF Begins
  <2>4. ASSUME ~touched, ~mediumFails' PROVE bytes = disk[1]
    <3>1. CASE ~good
      BY <2>1, <2>2, <2>4, <3>1
    <3>2. CASE good
      <4>1. NextChunk = <<>>
        BY <2>1, <2>4, <3>2
      <4>2. Len(bytes) = Len(disk[1])
        BY <2>1, <2>2, <2>4, <4>1, NextChunkIs, FileCrcAssumption DEF Begins
      <4> QED
        BY <2>2, <2>3, <2>4, <4>2
    <3> QED
      BY <3>1, <3>2
  <2>5. /\ Verdict # Zero => Verdict = crc /\ Len(bytes) = fileSize
        /\ ~touched /\ bytes = disk[1] => Verdict = crc
    BY <2>2 DEF Verdict
  <2> QED
    BY <2>1, <2>3, <2>4, <2>5 DEF ReadInv
<1>6. CASE Touch
  <2>1. disk' = <<>> \/ \E c \in Seq(Byte) : disk' = <<c>>
    BY <1>6, FileCrcAssumption DEF Touch
  <2>2. touched' /\ (step = "read" => disk' # <<>>)
    BY <1>6 DEF Touch
  <2> QED
    BY <1>6, <2>1, <2>2 DEF Touch, ReadInv
<1>7. CASE UNCHANGED fileCrcVars
  BY <1>7 DEF fileCrcVars, ReadInv, Begins
<1> QED
  BY <1>1, <1>2, <1>3, <1>4, <1>5, <1>6, <1>7, ReadKeeps DEF FileCrcNext

\* The invariant holds in every reachable state.
THEOREM ReadInvariance == FileCrcSpec => []ReadInv
<1>1. FileCrcInit => ReadInv
  BY FileCrcAssumption DEF FileCrcInit, ReadInv
<1> QED
  BY <1>1, ReadInvNext, PTL DEF FileCrcSpec

-----------------------------------------------------------------------------
\* Whatever the sizes of the reads, crc32 is the CRC-32 of all bytes read: the
\* loop over the table is the polynomial division, and chunks are chained.
\* (util.cpp, CalculateCrc32 and the loop of CalculateFileCrc32)
THEOREM ChunksChained == FileCrcSpec => []ChunksAreChained
<1>1. FileCrcInit => ChunksAreChained
  BY NothingRead DEF FileCrcInit, ChunksAreChained
<1>2. ASSUME ReadInv, ChunksAreChained, [FileCrcNext]_fileCrcVars
      PROVE  ChunksAreChained'
  <2>1. CASE ReadChunk
    <3>1. PICK n \in 1..Len(NextChunk) :
            /\ bytes' = bytes \o SubSeq(NextChunk, 1, n)
            /\ crc' = CalculateCrc32(SubSeq(NextChunk, 1, n), crc)
      BY <2>1 DEF ReadChunk
    <3>2. NextChunk \in Seq(Byte) /\ bytes \in Seq(Byte)
      BY <1>2, <2>1, NextChunkIs DEF ReadChunk, ReadInv
    <3>3. SubSeq(NextChunk, 1, n) \in Seq(Byte)
      BY <3>2, SubSeqProperties
    <3> QED
      BY <1>2, <3>1, <3>2, <3>3, CrcContinues DEF ChunksAreChained
  <2>2. CASE UNCHANGED <<bytes, crc>>
    BY <1>2, <2>2 DEF ChunksAreChained
  <2>3. FileCrcNext => ReadChunk \/ UNCHANGED <<bytes, crc>>
    BY DEF FileCrcNext, Exists, Open, OpenFails, TakeSize, ReadEnds, Touch
  <2> QED
    BY <1>2, <2>1, <2>2, <2>3 DEF fileCrcVars
<1> QED
  BY <1>1, <1>2, ReadInvariance, PTL DEF FileCrcSpec

\* An answer other than 0 is the CRC-32 of a whole file, whatever fails half
\* way.  (util.cpp, the comparison of total_read_size with file_size)
THEOREM WholeFileAnswered == FileCrcSpec => []AnswerIsOfWholeFile
<1>1. ReadInv /\ ChunksAreChained => AnswerIsOfWholeFile
  BY DEF ReadInv, ChunksAreChained, AnswerIsOfWholeFile
<1> QED
  BY <1>1, ReadInvariance, ChunksChained, PTL

\* The answer is that of the file, for every length and every chunk size, if
\* nobody touches the file and no read fails.
\* (util.cpp, the loop and gcount)
THEOREM FileAnswered == FileCrcSpec => []CrcOfFile
<1>1. ReadInv /\ ChunksAreChained => CrcOfFile
  BY DEF ReadInv, ChunksAreChained, CrcOfFile
<1> QED
  BY <1>1, ReadInvariance, ChunksChained, PTL

=============================================================================
