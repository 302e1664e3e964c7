-------------------------- MODULE LZFSEEntropyProofs --------------------------
(***************************************************************************)
(* The entropy coder.  First the steps of a state, for any number of       *)
(* states that is a power of two and any frequency: the decoder's table    *)
(* undoes what the encoder's entry does, and neither leaves the states.    *)
(* Then a whole block, for any block and for any source the decoder is     *)
(* given: the states stay in their tables, the bits in the accumulators    *)
(* and the wide accesses in the buffers.                                   *)
(***************************************************************************)
EXTENDS LZFSEEntropy, SequenceTheorems, FiniteSetTheorems, WellFoundedInduction, TLAPS

(* Every nonempty set of natural numbers has a least element.              *)
LEMMA LeastElement ==
  ASSUME NEW T \in SUBSET Nat, T # {}
  PROVE  \E x \in T : \A y \in T : x <= y
<1>1. \E x \in T : \A y \in T : ~(<<y, x>> \in OpToRel(<, Nat))
  BY NatLessThanWellFounded, WFMin
<1>2. PICK x \in T : \A y \in T : ~(<<y, x>> \in OpToRel(<, Nat))
  BY <1>1
<1>3. ASSUME NEW y \in T PROVE x <= y
  <2>1. x \in Nat /\ y \in Nat
    OBVIOUS
  <2>2. <<y, x>> \in OpToRel(<, Nat) <=> y < x
    BY <2>1 DEF OpToRel
  <2>3. ~(y < x)
    BY <1>2, <2>2, Zenon
  <2> QED
    BY <2>1, <2>3
<1> QED
  BY <1>2, <1>3

(* Dividing a product, and what is left of a number.                       *)
LEMMA ProductDivided ==
  ASSUME NEW a \in Nat, NEW b \in Nat \ {0}
  PROVE  (a * b) \div b = a /\ (a * b) % b = 0
OBVIOUS

LEMMA QuotientAndRest ==
  ASSUME NEW a \in Nat, NEW b \in Nat \ {0}
  PROVE  /\ a \div b \in Nat /\ a % b \in 0 .. b - 1
         /\ a = (a \div b) * b + (a % b)
OBVIOUS

LEMMA QuotientBelow ==
  ASSUME NEW a \in Nat, NEW b \in Nat \ {0}, NEW c \in Nat
  PROVE  a < c * b <=> a \div b < c
<1> DEFINE q == a \div b
           r == a % b
<1>1. q \in Nat /\ r \in 0 .. b - 1 /\ a = q * b + r
  BY QuotientAndRest
<1> HIDE DEF q, r
<1>2. q * b \in Nat /\ c * b \in Nat
  BY <1>1
<1>3. CASE q < c
  <2>1. (q + 1) * b <= c * b
    BY <1>1, <1>3
  <2>2. (q + 1) * b = q * b + b
    BY <1>1
  <2> QED
    BY <1>1, <1>2, <1>3, <2>1, <2>2 DEF q
<1>4. CASE c <= q
  <2>1. c * b <= q * b
    BY <1>1, <1>4
  <2> QED
    BY <1>1, <1>2, <1>4, <2>1 DEF q
<1> QED
  BY <1>1, <1>3, <1>4

(* The span the encoder chooses for a frequency is defined: n is a number  *)
(* m of spans, and f of them are at least n and less than 2 * n.           *)
LEMMA SpanExists ==
  ASSUME NEW n, PowerOfTwo(n), NEW f \in 1 .. n
  PROVE  \E K \in 1 .. n : n % K = 0 /\ n <= f * K /\ f * K < 2 * n
<1> DEFINE T == {m \in Nat : \E K \in 1 .. n : n = m * K /\ f < 2 * m}
<1>1. n \in Nat \ {0} /\ f \in Nat /\ 1 <= f /\ f <= n
  BY DEF PowerOfTwo
<1>2. n \in T
  BY <1>1
<1>3. PICK m \in T : \A y \in T : m <= y
  BY <1>2, LeastElement
<1>4. PICK K \in 1 .. n : n = m * K /\ f < 2 * m
  BY <1>3
<1>5. m \in Nat /\ m # 0 /\ K \in Nat \ {0} /\ m <= n
  BY <1>1, <1>4
<1>6. m <= f
  <2> SUFFICES ASSUME f < m PROVE FALSE
    BY <1>1, <1>5
  <2>1. n % m = 0 /\ m \in 1 .. n
    BY <1>1, <1>4, <1>5, ProductDivided
  <2>2. m % 2 = 0
    BY <1>1, <2>1 DEF PowerOfTwo
  <2>3. PICK h \in Nat : m = 2 * h
    BY <1>5, <2>2
  <2>4. n = h * (2 * K)
    BY <1>4, <1>5, <2>3
  <2>5. h >= 1 /\ 2 * K \in 1 .. n
    BY <1>1, <1>5, <2>3, <2>4
  <2>6. h \in T
    BY <2>3, <2>4, <2>5
  <2> QED
    BY <1>3, <1>5, <2>3, <2>5, <2>6
<1>7. n % K = 0
  BY <1>4, <1>5, ProductDivided
<1>8. n <= f * K
  BY <1>1, <1>4, <1>5, <1>6
<1>9. f * K < 2 * n
  BY <1>1, <1>4, <1>5
<1> QED
  BY <1>7, <1>8, <1>9

(* What the span divides n into, and how often it goes into 2 * n.         *)
LEMMA SpanParts ==
  ASSUME NEW n, PowerOfTwo(n), NEW f \in 1 .. n
  PROVE  \E m \in Nat \ {0}, K \in Nat \ {0} :
           /\ K = Span(n, f) /\ n = m * K
           /\ n \div K = m /\ (2 * n) \div K = 2 * m
           /\ m <= f /\ f < 2 * m
           /\ K = 1 => f = m
           /\ K # 1 => K % 2 = 0
<1> DEFINE K == Span(n, f)
<1>1. n \in Nat \ {0} /\ f \in Nat /\ 1 <= f /\ f <= n
  BY DEF PowerOfTwo
<1>2. K \in 1 .. n /\ n % K = 0 /\ n <= f * K /\ f * K < 2 * n
  BY SpanExists DEF Span
<1>3. K # 1 => K % 2 = 0
  BY <1>2 DEF PowerOfTwo
<1> HIDE DEF K
<1> DEFINE m == n \div K
<1>4. m \in Nat /\ n = m * K
  BY <1>1, <1>2, QuotientAndRest
<1> HIDE DEF m
<1>5. m # 0 /\ K \in Nat \ {0}
  BY <1>1, <1>2, <1>4
<1>6. (2 * n) \div K = 2 * m
  <2>1. 2 * n = (2 * m) * K /\ 2 * m \in Nat
    BY <1>4, <1>5
  <2> QED
    BY <1>5, <2>1, ProductDivided
<1>7. m <= f
  <2> SUFFICES ASSUME f < m PROVE FALSE
    BY <1>1, <1>4
  <2>1. f * K < m * K
    BY <1>1, <1>4, <1>5
  <2> QED
    BY <1>1, <1>2, <1>4, <1>5, <2>1
<1>8. f < 2 * m
  <2> SUFFICES ASSUME 2 * m <= f PROVE FALSE
    BY <1>1, <1>4
  <2>1. (2 * m) * K <= f * K
    BY <1>1, <1>4, <1>5
  <2> QED
    BY <1>1, <1>2, <1>4, <1>5, <2>1
<1>9. K = 1 => f = m
  BY <1>1, <1>4, <1>7
<1> QED
  BY <1>3, <1>4, <1>5, <1>6, <1>7, <1>8, <1>9 DEF K, m

(* The encoder's next state is one of the symbol's own, and the decoder's  *)
(* entry for that state takes up as many bits as the encoder wrote and     *)
(* gives back the state before: fse_decode undoes fse_encode.  It holds    *)
(* for any value of delta1 where the code's own is undefined.              *)
THEOREM DecodingInvertsEncoding ==
  ASSUME NEW n, PowerOfTwo(n), NEW f \in 1 .. n, NEW offset \in Nat,
         NEW undefined, NEW s \in 0 .. n - 1
  PROVE  LET e == EncoderEntry(n, f, offset, undefined)
             j == NextState(e, s) - offset
             d == DecoderEntry(n, f, j)
         IN /\ NextState(e, s) \in Int /\ j \in 0 .. f - 1
            /\ d.span = WrittenSpan(e, s)
            /\ d.delta + WrittenValue(e, s) = s
<1>1. PICK m \in Nat \ {0}, K \in Nat \ {0} :
        /\ K = Span(n, f) /\ n = m * K
        /\ n \div K = m /\ (2 * n) \div K = 2 * m
        /\ m <= f /\ f < 2 * m
        /\ K = 1 => f = m
        /\ K # 1 => K % 2 = 0
  BY SpanParts
<1>2. n \in Nat /\ f \in Nat /\ s \in Nat /\ s < n
  BY DEF PowerOfTwo
<1> DEFINE e == EncoderEntry(n, f, offset, undefined)
           j == NextState(e, s) - offset
           d == DecoderEntry(n, f, j)
<1>3. /\ e.s0 = f * K - n /\ e.span = K /\ e.delta0 = offset - f + m
      /\ K # 1 => e.delta1 = offset - f + 2 * m
  BY <1>1 DEF EncoderEntry
<1>4. CASE s >= e.s0
  <2> DEFINE q == s \div K
             r == s % K
  <2>1. q \in Nat /\ r \in 0 .. K - 1 /\ s = q * K + r
    BY <1>1, <1>2, QuotientAndRest
  <2>2. WrittenSpan(e, s) = K /\ WrittenValue(e, s) = r
    BY <1>3, <1>4 DEF WrittenSpan, WrittenValue
  <2>11. WrittenSpan(e, s) = K /\ s >= e.s0
    BY <1>4, <2>2
  <2>12. NextState(e, s) = (offset - f + m) + q
    BY <1>3, <2>11 DEF NextState
  <2>13. NextState(e, s) \in Int
    BY <1>1, <1>2, <2>1, <2>12
  <2>3. j = q + m - f
    BY <1>1, <1>2, <1>3, <1>4, <2>1, <2>2 DEF NextState
  <2> HIDE DEF q, r, e
  <2>4. q < m
    BY <1>1, <1>2, QuotientBelow DEF q
  <2>5. f - m <= q
    <3>1. (f - m) * K = f * K - n
      BY <1>1, <1>2
    <3>2. ~(s < (f - m) * K) /\ f - m \in Nat
      BY <1>1, <1>2, <1>3, <1>4, <3>1 DEF e
    <3>3. ~(q < f - m)
      BY <1>1, <1>2, <3>2, QuotientBelow DEF q
    <3> QED
      BY <1>1, <1>2, <2>1, <3>3
  <2>6. j \in 0 .. f - 1 /\ j < 2 * m - f
    BY <1>1, <1>2, <2>1, <2>3, <2>4, <2>5
  <2>7. d = [span |-> K, delta |-> (f + j) * K - n]
    BY <1>1, <2>6 DEF DecoderEntry
  <2>8. (f + j) * K - n = q * K
    BY <1>1, <1>2, <2>1, <2>3
  <2> QED
    BY <2>1, <2>2, <2>6, <2>7, <2>8, <2>13 DEF e
<1>5. CASE s < e.s0
  <2>1. K # 1 /\ f > m
    <3>1. f * K - n > 0
      BY <1>1, <1>2, <1>3, <1>5
    <3>2. f # m
      BY <1>1, <3>1
    <3> QED
      BY <1>1, <3>2
  <2>2. PICK H \in Nat \ {0} : K = 2 * H
    BY <1>1, <2>1
  <2>3. K \div 2 = H
    BY <2>2
  <2> DEFINE q == s \div H
             r == s % H
  <2>4. q \in Nat /\ r \in 0 .. H - 1 /\ s = q * H + r
    BY <1>2, <2>2, QuotientAndRest
  <2>5. WrittenSpan(e, s) = H /\ WrittenValue(e, s) = r
    BY <1>2, <1>3, <1>5, <2>3 DEF WrittenSpan, WrittenValue
  <2>6. j = q + 2 * m - f /\ NextState(e, s) \in Int
    BY <1>1, <1>2, <1>3, <1>5, <2>1, <2>4, <2>5 DEF NextState
  <2> HIDE DEF q, r, e
  <2>7. q < 2 * (f - m)
    <3>1. (f - m) * (2 * H) = (2 * (f - m)) * H /\ (f - m) * K = f * K - n
      BY <1>1, <1>2, <2>2
    <3>2. s < (2 * (f - m)) * H /\ 2 * (f - m) \in Nat
      BY <1>1, <1>2, <1>3, <1>5, <2>1, <2>2, <3>1 DEF e
    <3> QED
      BY <1>2, <2>2, <3>2, QuotientBelow DEF q
  <2>8. j \in 0 .. f - 1 /\ ~(j < 2 * m - f)
    BY <1>1, <1>2, <2>4, <2>6, <2>7
  <2>9. d = [span |-> H, delta |-> (j - (2 * m - f)) * H]
    BY <1>1, <2>3, <2>8 DEF DecoderEntry
  <2>10. (j - (2 * m - f)) * H = q * H
    BY <1>1, <1>2, <2>4, <2>6
  <2> QED
    BY <2>4, <2>5, <2>6, <2>8, <2>9, <2>10 DEF e
<1>6. e.s0 \in Int
  BY <1>1, <1>2, <1>3
<1> QED
  BY <1>2, <1>4, <1>5, <1>6

(* Whatever bits follow, the decoder's next state is below the number of   *)
(* states: fse_decode never leaves its table, also in a payload that the   *)
(* encoder did not write.                                                  *)
THEOREM DecoderStaysInRange ==
  ASSUME NEW n, PowerOfTwo(n), NEW f \in 1 .. n, NEW j \in 0 .. f - 1,
         NEW v \in 0 .. DecoderEntry(n, f, j).span - 1
  PROVE  DecoderEntry(n, f, j).delta + v \in 0 .. n - 1
<1>1. PICK m \in Nat \ {0}, K \in Nat \ {0} :
        /\ K = Span(n, f) /\ n = m * K
        /\ n \div K = m /\ (2 * n) \div K = 2 * m
        /\ m <= f /\ f < 2 * m
        /\ K = 1 => f = m
        /\ K # 1 => K % 2 = 0
  BY SpanParts
<1>2. n \in Nat /\ f \in Nat /\ j \in Nat /\ j < f
  BY DEF PowerOfTwo
<1>3. CASE j < 2 * m - f
  <2>1. DecoderEntry(n, f, j) = [span |-> K, delta |-> (f + j) * K - n]
    BY <1>1, <1>3 DEF DecoderEntry
  <2>2. (f + j) * K - n = (f + j - m) * K /\ m * K - K = (m - 1) * K
    BY <1>1, <1>2
  <2>3. 0 <= (f + j - m) * K /\ (f + j - m) * K <= (m - 1) * K
    BY <1>1, <1>2, <1>3
  <2>4. v \in 0 .. K - 1
    BY <2>1
  <2>5. (f + j - m) * K \in Int /\ (m - 1) * K = n - K
    BY <1>1, <1>2, <2>2
  <2> QED
    BY <1>1, <1>2, <2>1, <2>2, <2>3, <2>4, <2>5
<1>4. CASE ~(j < 2 * m - f)
  <2>1. K # 1
    BY <1>1, <1>2, <1>4
  <2>2. PICK H \in Nat \ {0} : K = 2 * H
    BY <1>1, <2>1
  <2>3. K \div 2 = H
    BY <2>2
  <2> DEFINE w == j - (2 * m - f)
  <2>4. DecoderEntry(n, f, j) = [span |-> H, delta |-> w * H]
    BY <1>1, <1>4, <2>3 DEF DecoderEntry
  <2>5. w \in Nat /\ w <= 2 * m - 1
    BY <1>1, <1>2, <1>4
  <2> HIDE DEF w
  <2>6. w * H <= (2 * m - 1) * H /\ w * H \in Nat
    BY <1>1, <2>2, <2>5
  <2>7. (2 * m - 1) * H = n - H
    BY <1>1, <2>2
  <2>8. v \in 0 .. H - 1
    BY <2>4
  <2> QED
    BY <1>2, <2>2, <2>4, <2>6, <2>7, <2>8
<1> QED
  BY <1>1, <1>2, <1>3, <1>4

----------------------------------------------------------------------------
(* Powers of two, and the numbers of bits they stand for.                  *)

(* The powers of two up to 2^31, by computation.                           *)
LEMMA PowerDoubles ==
  ASSUME NEW k \in 1 .. 31
  PROVE  2^k = 2 * 2^(k - 1) /\ 2^(k - 1) \in Nat \ {0} /\ 2^k \in Nat \ {0}
<1>1. CASE k \in 1 .. 8
  <2>1. /\ 2^0 = 1 /\ 2^1 = 2 /\ 2^2 = 4 /\ 2^3 = 8
        /\ 2^4 = 16 /\ 2^5 = 32 /\ 2^6 = 64 /\ 2^7 = 128
        /\ 2^8 = 256
    OBVIOUS
  <2>2. CASE k = 1
    BY <2>1, <2>2
  <2>3. CASE k = 2
    BY <2>1, <2>3
  <2>4. CASE k = 3
    BY <2>1, <2>4
  <2>5. CASE k = 4
    BY <2>1, <2>5
  <2>6. CASE k = 5
    BY <2>1, <2>6
  <2>7. CASE k = 6
    BY <2>1, <2>7
  <2>8. CASE k = 7
    BY <2>1, <2>8
  <2>9. CASE k = 8
    BY <2>1, <2>9
  <2> QED
    BY <1>1, <2>2, <2>3, <2>4, <2>5, <2>6, <2>7, <2>8, <2>9
<1>2. CASE k \in 9 .. 16
  <2>1. /\ 2^8 = 256 /\ 2^9 = 512 /\ 2^10 = 1024 /\ 2^11 = 2048
        /\ 2^12 = 4096 /\ 2^13 = 8192 /\ 2^14 = 16384 /\ 2^15 = 32768
        /\ 2^16 = 65536
    OBVIOUS
  <2>2. CASE k = 9
    BY <2>1, <2>2
  <2>3. CASE k = 10
    BY <2>1, <2>3
  <2>4. CASE k = 11
    BY <2>1, <2>4
  <2>5. CASE k = 12
    BY <2>1, <2>5
  <2>6. CASE k = 13
    BY <2>1, <2>6
  <2>7. CASE k = 14
    BY <2>1, <2>7
  <2>8. CASE k = 15
    BY <2>1, <2>8
  <2>9. CASE k = 16
    BY <2>1, <2>9
  <2> QED
    BY <1>2, <2>2, <2>3, <2>4, <2>5, <2>6, <2>7, <2>8, <2>9
<1>3. CASE k \in 17 .. 24
  <2>1. /\ 2^16 = 65536 /\ 2^17 = 131072 /\ 2^18 = 262144 /\ 2^19 = 524288
        /\ 2^20 = 1048576 /\ 2^21 = 2097152 /\ 2^22 = 4194304 /\ 2^23 = 8388608
        /\ 2^24 = 16777216
    OBVIOUS
  <2>2. CASE k = 17
    BY <2>1, <2>2
  <2>3. CASE k = 18
    BY <2>1, <2>3
  <2>4. CASE k = 19
    BY <2>1, <2>4
  <2>5. CASE k = 20
    BY <2>1, <2>5
  <2>6. CASE k = 21
    BY <2>1, <2>6
  <2>7. CASE k = 22
    BY <2>1, <2>7
  <2>8. CASE k = 23
    BY <2>1, <2>8
  <2>9. CASE k = 24
    BY <2>1, <2>9
  <2> QED
    BY <1>3, <2>2, <2>3, <2>4, <2>5, <2>6, <2>7, <2>8, <2>9
<1>4. CASE k \in 25 .. 31
  <2>1. /\ 2^24 = 16777216 /\ 2^25 = 33554432 /\ 2^26 = 67108864 /\ 2^27 = 134217728
        /\ 2^28 = 268435456 /\ 2^29 = 536870912 /\ 2^30 = 1073741824 /\ 2^31 = 2147483648
    OBVIOUS
  <2>2. CASE k = 25
    BY <2>1, <2>2
  <2>3. CASE k = 26
    BY <2>1, <2>3
  <2>4. CASE k = 27
    BY <2>1, <2>4
  <2>5. CASE k = 28
    BY <2>1, <2>5
  <2>6. CASE k = 29
    BY <2>1, <2>6
  <2>7. CASE k = 30
    BY <2>1, <2>7
  <2>8. CASE k = 31
    BY <2>1, <2>8
  <2> QED
    BY <1>4, <2>2, <2>3, <2>4, <2>5, <2>6, <2>7, <2>8
<1> QED
  BY <1>1, <1>2, <1>3, <1>4

LEMMA PowerPositive ==
  ASSUME NEW k \in 0 .. 31
  PROVE  2^k \in Nat \ {0}
<1>1. CASE k = 0
  <2>1. 2^0 = 1
    OBVIOUS
  <2> QED
    BY <1>1, <2>1
<1>2. CASE k \in 1 .. 31
  BY <1>2, PowerDoubles
<1> QED
  BY <1>1, <1>2

LEMMA PowersGrow ==
  ASSUME NEW k \in 0 .. 31
  PROVE  \A l \in 0 .. 31 : l < k => 2^l < 2^k
<1> DEFINE B == {x \in 0 .. 31 : \E l \in 0 .. 31 : l < x /\ ~(2^l < 2^x)}
<1>1. SUFFICES B = {}
  OBVIOUS
<1>2. SUFFICES ASSUME B # {} PROVE FALSE
  OBVIOUS
<1>3. B \in SUBSET Nat
  OBVIOUS
<1>4. PICK x \in B : \A y \in B : x <= y
  BY <1>2, <1>3, LeastElement
<1>5. x \in 0 .. 31
  OBVIOUS
<1>6. PICK l \in 0 .. 31 : l < x /\ ~(2^l < 2^x)
  OBVIOUS
<1>7. x \in 1 .. 31 /\ x - 1 \in 0 .. 31
  BY <1>5, <1>6
<1>8. 2^x = 2 * 2^(x - 1) /\ 2^(x - 1) \in Nat \ {0}
  BY <1>7, PowerDoubles
<1>9. 2^(x - 1) < 2^x /\ 2^x \in Nat
  BY <1>8
<1>10. l < x - 1
  <2>1. l # x - 1
    BY <1>6, <1>9
  <2> QED
    BY <1>5, <1>6, <2>1
<1>11. x - 1 \notin B
  BY <1>4, <1>7
<1>12. 2^l < 2^(x - 1)
  BY <1>7, <1>10, <1>11
<1>13. 2^l \in Nat
  BY PowerPositive
<1> QED
  BY <1>6, <1>8, <1>9, <1>12, <1>13

(* A divisor of 2 * n divides n, or its half does.                         *)
LEMMA DivisorsOfDouble ==
  ASSUME NEW n \in Nat \ {0}, NEW K \in Nat \ {0}, (2 * n) % K = 0
  PROVE  n % K = 0 \/ \E H \in Nat \ {0} : K = 2 * H /\ n % H = 0
<1>1. PICK m \in Nat : 2 * n = m * K
  <2>1. PICK x \in Nat : x = 2 * n
    OBVIOUS
  <2>2. x % K = 0
    BY <2>1
  <2>3. x \div K \in Nat /\ x = (x \div K) * K + (x % K)
    BY QuotientAndRest
  <2>4. PICK q \in Nat : q = x \div K
    BY <2>3
  <2>5. x = q * K
    BY <2>2, <2>3, <2>4
  <2> QED
    BY <2>1, <2>5
<1>2. CASE \E H \in Nat : K = 2 * H
  <2>1. PICK H \in Nat : K = 2 * H
    BY <1>2
  <2>2. H \in Nat \ {0} /\ n = m * H
    BY <1>1, <2>1
  <2>3. n % H = 0
    BY <2>2, ProductDivided
  <2> QED
    BY <2>1, <2>2, <2>3
<1>3. CASE \E h \in Nat : K = 2 * h + 1
  <2>1. PICK h \in Nat : K = 2 * h + 1
    BY <1>3
  <2>2. (\E g \in Nat : m = 2 * g) \/ (\E g \in Nat : m = 2 * g + 1)
    <3>1. m = 2 * (m \div 2) \/ m = 2 * (m \div 2) + 1
      OBVIOUS
    <3>2. m \div 2 \in Nat
      OBVIOUS
    <3> QED
      BY <3>1, <3>2
  <2>3. ~ \E g \in Nat : m = 2 * g + 1
    <3> SUFFICES ASSUME NEW g \in Nat, m = 2 * g + 1 PROVE FALSE
      OBVIOUS
    <3>1. m * K = 2 * (g * K + h) + 1
      BY <2>1
    <3>2. PICK x \in Nat : x = g * K + h
      BY <2>1
    <3> QED
      BY <1>1, <3>1, <3>2
  <2>4. PICK g \in Nat : m = 2 * g
    BY <2>2, <2>3
  <2>5. n = g * K
    <3>1. 2 * n = 2 * (g * K)
      BY <1>1, <2>4
    <3>2. g * K \in Nat
      OBVIOUS
    <3> QED
      BY <3>1, <3>2
  <2>6. n % K = 0
    BY <2>5, ProductDivided
  <2> QED
    BY <2>6
<1>4. (\E H \in Nat : K = 2 * H) \/ (\E h \in Nat : K = 2 * h + 1)
  <2>1. K = 2 * (K \div 2) \/ K = 2 * (K \div 2) + 1
    OBVIOUS
  <2>2. K \div 2 \in Nat
    OBVIOUS
  <2> QED
    BY <2>1, <2>2
<1> QED
  BY <1>2, <1>3, <1>4

(* The spans of at most k bits; a divisor of 2^k is one of them.           *)
Spans(k) == {2^l : l \in 0 .. k}

LEMMA DivisorIsPower ==
  ASSUME NEW k \in 0 .. 31, NEW K \in Nat \ {0}, 2^k % K = 0
  PROVE  K \in Spans(k)
<1> DEFINE B == {x \in 0 .. 31 : \E d \in Nat \ {0} : 2^x % d = 0 /\ ~(d \in Spans(x))}
<1>1. SUFFICES B = {}
  OBVIOUS
<1>2. SUFFICES ASSUME B # {} PROVE FALSE
  OBVIOUS
<1>3. B \in SUBSET Nat
  OBVIOUS
<1>4. PICK x \in B : \A y \in B : x <= y
  BY <1>2, <1>3, LeastElement
<1>5. x \in 0 .. 31
  OBVIOUS
<1>6. PICK d \in Nat \ {0} : 2^x % d = 0 /\ ~(d \in Spans(x))
  OBVIOUS
<1>7. x # 0
  <2> SUFFICES ASSUME x = 0 PROVE FALSE
    OBVIOUS
  <2>1. 2^0 = 1
    OBVIOUS
  <2>2. 1 % d = 0
    BY <1>6, <2>1
  <2>3. d = 1
    BY <2>2
  <2>4. 0 \in 0 .. x
    BY <1>5
  <2> QED
    BY <1>6, <2>1, <2>3, <2>4 DEF Spans
<1>8. x \in 1 .. 31 /\ x - 1 \in 0 .. 31
  BY <1>5, <1>7
<1>9. 2^x = 2 * 2^(x - 1) /\ 2^(x - 1) \in Nat \ {0}
  BY <1>8, PowerDoubles
<1>10. x - 1 \notin B
  BY <1>4, <1>8
<1>11. \A H \in Nat \ {0} : 2^(x - 1) % H = 0 => H \in Spans(x - 1)
  BY <1>8, <1>10
<1>12. CASE 2^(x - 1) % d = 0
  <2>1. PICK l \in 0 .. x - 1 : d = 2^l
    BY <1>11, <1>12 DEF Spans
  <2>2. l \in 0 .. x
    BY <1>8
  <2> QED
    BY <1>6, <2>1, <2>2 DEF Spans
<1>13. CASE \E H \in Nat \ {0} : d = 2 * H /\ 2^(x - 1) % H = 0
  <2>1. PICK H \in Nat \ {0} : d = 2 * H /\ 2^(x - 1) % H = 0
    BY <1>13
  <2>2. PICK l \in 0 .. x - 1 : H = 2^l
    BY <1>11, <2>1 DEF Spans
  <2>3. PICK j \in 1 .. 31 : j = l + 1
    BY <1>8
  <2>4. l = j - 1 /\ j \in 0 .. x
    BY <1>8, <2>3
  <2>5. 2^j = 2 * H
    BY <2>2, <2>4, PowerDoubles
  <2> QED
    BY <1>6, <2>1, <2>4, <2>5 DEF Spans
<1> QED
  BY <1>6, <1>9, <1>12, <1>13, DivisorsOfDouble

LEMMA PowersAre ==
  ASSUME NEW k \in 0 .. 15
  PROVE  PowerOfTwo(2^k)
<1>1. k \in 0 .. 31
  OBVIOUS
<1>2. 2^k \in Nat \ {0}
  BY <1>1, PowerPositive
<1>3. ASSUME NEW d \in 1 .. 2^k, 2^k % d = 0
      PROVE  d = 1 \/ d % 2 = 0
  <2>1. d \in Nat \ {0}
    BY <1>2
  <2>2. PICK l \in 0 .. k : d = 2^l
    BY <1>1, <1>3, <2>1, DivisorIsPower DEF Spans
  <2>3. CASE l = 0
    <3>1. 2^0 = 1
      OBVIOUS
    <3> QED
      BY <2>2, <2>3, <3>1
  <2>4. CASE l # 0
    <3>1. l \in 1 .. 31
      BY <2>4
    <3>2. 2^l = 2 * 2^(l - 1) /\ 2^(l - 1) \in Nat
      BY <3>1, PowerDoubles
    <3>3. PICK x \in Nat : x = 2^(l - 1)
      BY <3>2
    <3> QED
      BY <2>2, <3>2, <3>3
  <2> QED
    BY <2>3, <2>4
<1> QED
  BY <1>2, <1>3 DEF PowerOfTwo

LEMMA BitCountIs ==
  ASSUME NEW l \in 0 .. 15
  PROVE  BitCount(2^l) = l
<1>1. ASSUME NEW x \in 0 .. 15, 2^x = 2^l PROVE x = l
  <2>1. x \in 0 .. 31 /\ l \in 0 .. 31
    OBVIOUS
  <2>2. ~(x < l) /\ ~(l < x)
    <3>1. 2^x \in Nat /\ 2^l \in Nat
      BY <2>1, PowerPositive
    <3>2. x < l => 2^x < 2^l
      BY <2>1, PowersGrow
    <3>3. l < x => 2^l < 2^x
      BY <2>1, PowersGrow
    <3> QED
      BY <1>1, <3>1, <3>2, <3>3
  <2> QED
    BY <2>2
<1> QED
  BY <1>1 DEF BitCount

LEMMA SpanBits ==
  ASSUME NEW k \in 0 .. 15, NEW K \in Spans(k)
  PROVE  BitCount(K) \in 0 .. k /\ K = 2^BitCount(K) /\ K \in Nat \ {0}
<1>1. PICK l \in 0 .. k : K = 2^l
  BY DEF Spans
<1>2. l \in 0 .. 15 /\ l \in 0 .. 31
  OBVIOUS
<1>3. BitCount(K) = l
  BY <1>1, <1>2, BitCountIs
<1>4. K \in Nat \ {0}
  BY <1>1, <1>2, PowerPositive
<1> QED
  BY <1>1, <1>3, <1>4

----------------------------------------------------------------------------
(* The entries of the tables.                                              *)

(* The numbers of states are powers of two.                                *)
StateBits == [L |-> 6, M |-> 6, D |-> 8, literal |-> 10]

LEMMA StatesArePowers ==
  ASSUME NEW kind \in Kinds
  PROVE  /\ StateBits[kind] \in 0 .. 10 /\ States[kind] = 2^StateBits[kind]
         /\ States[kind] \in 64 .. 1024 /\ PowerOfTwo(States[kind])
<1>1. 2^6 = 64 /\ 2^8 = 256 /\ 2^10 = 1024
  OBVIOUS
<1>2. kind = "L" \/ kind = "M" \/ kind = "D" \/ kind = "literal"
  BY DEF Kinds
<1>3. StateBits[kind] \in 0 .. 10
  BY <1>2 DEF StateBits
<1>4. States[kind] = 2^StateBits[kind] /\ States[kind] \in 64 .. 1024
  <2>1. CASE kind = "L" \/ kind = "M"
    <3>1. States[kind] = 64 /\ StateBits[kind] = 6
      BY <2>1 DEF StateBits, States
    <3> QED
      BY <1>1, <3>1
  <2>2. CASE kind = "D"
    <3>1. States[kind] = 256 /\ StateBits[kind] = 8
      BY <2>2 DEF StateBits, States
    <3> QED
      BY <1>1, <3>1
  <2>3. CASE kind = "literal"
    <3>1. States[kind] = 1024 /\ StateBits[kind] = 10
      BY <2>3 DEF StateBits, States
    <3> QED
      BY <1>1, <3>1
  <2> QED
    BY <1>2, <2>1, <2>2, <2>3
<1>5. StateBits[kind] \in 0 .. 15
  BY <1>3
<1> QED
  BY <1>3, <1>4, <1>5, PowersAre, ZenonT(40)

(* What an entry of a decoder table of n = 2^k states does.                *)
Entries(k, symbols) ==
  {e \in [symbol : 0 .. symbols - 1, span : Spans(k), delta : Nat] : e.delta + e.span <= 2^k}

LEMMA DecoderEntrySound ==
  ASSUME NEW k \in 0 .. 15, NEW f \in 1 .. 2^k, NEW j \in 0 .. f - 1
  PROVE  /\ DecoderEntry(2^k, f, j).span \in Spans(k)
         /\ DecoderEntry(2^k, f, j).delta \in Nat
         /\ DecoderEntry(2^k, f, j).delta + DecoderEntry(2^k, f, j).span <= 2^k
<1> DEFINE n == 2^k
           d == DecoderEntry(n, f, j)
<1>1. PowerOfTwo(n) /\ k \in 0 .. 31 /\ n \in Nat \ {0}
  <2>1. PowerOfTwo(n)
    BY PowersAre
  <2>2. k \in 0 .. 31
    OBVIOUS
  <2> QED
    BY <2>1, <2>2, PowerPositive
<1>2. PICK m \in Nat \ {0}, K \in Nat \ {0} :
        /\ K = Span(n, f) /\ n = m * K
        /\ n \div K = m /\ (2 * n) \div K = 2 * m
        /\ m <= f /\ f < 2 * m
        /\ K = 1 => f = m
        /\ K # 1 => K % 2 = 0
  BY <1>1, SpanParts
<1> HIDE DEF n
<1>3. n % K = 0
  BY <1>2, ProductDivided
<1>4. K \in Spans(k)
  BY <1>1, <1>3, DivisorIsPower DEF n
<1>5. f \in Nat /\ j \in Nat /\ j < f
  BY <1>1
<1>6. d.span \in Spans(k) /\ d.span \in Nat \ {0} /\ d.delta \in Int
  <2>1. CASE j < 2 * m - f
    <3>1. d = [span |-> K, delta |-> (f + j) * K - n]
      BY <1>2, <2>1 DEF DecoderEntry
    <3>2. (f + j) * K - n \in Int
      BY <1>1, <1>2, <1>5
    <3> QED
      BY <1>2, <1>4, <3>1, <3>2
  <2>2. CASE ~(j < 2 * m - f)
    <3>1. d = [span |-> K \div 2, delta |-> (j - (2 * m - f)) * (K \div 2)]
      BY <1>2, <2>2 DEF DecoderEntry
    <3>2. K # 1
      BY <1>2, <1>5, <2>2
    <3>3. PICK H \in Nat \ {0} : K = 2 * H
      BY <1>2, <3>2
    <3>4. K \div 2 = H
      BY <3>3
    <3>5. PICK l \in 0 .. k : K = 2^l
      BY <1>4 DEF Spans
    <3>6. l # 0
      <4>1. 2^0 = 1
        OBVIOUS
      <4> QED
        BY <3>2, <3>5, <4>1
    <3>7. l \in 1 .. 31 /\ l - 1 \in 0 .. k
      BY <3>6
    <3>8. 2^l = 2 * 2^(l - 1) /\ 2^(l - 1) \in Nat
      BY <3>7, PowerDoubles
    <3>9. H = 2^(l - 1)
      BY <3>3, <3>5, <3>8
    <3>10. H \in Spans(k)
      BY <3>7, <3>9 DEF Spans
    <3>11. (j - (2 * m - f)) * H \in Int
      BY <1>2, <1>5, <3>3
    <3> QED
      BY <3>1, <3>3, <3>4, <3>10, <3>11
  <2> QED
    BY <2>1, <2>2
<1> HIDE DEF d
<1>7. \A v \in 0 .. d.span - 1 : d.delta + v \in 0 .. n - 1
  <2> SUFFICES ASSUME NEW v \in 0 .. d.span - 1
               PROVE  d.delta + v \in 0 .. n - 1
    OBVIOUS
  <2>1. v \in 0 .. DecoderEntry(n, f, j).span - 1 /\ f \in 1 .. n
    BY DEF d, n
  <2> QED
    BY <1>1, <2>1, DecoderStaysInRange DEF d
<1>8. 0 \in 0 .. d.span - 1 /\ d.span - 1 \in 0 .. d.span - 1
  BY <1>6
<1>9. d.delta + 0 \in 0 .. n - 1 /\ d.delta + (d.span - 1) \in 0 .. n - 1
  BY <1>7, <1>8
<1> QED
  BY <1>1, <1>6, <1>9 DEF d, n

(* Below the number of states whatever bits follow.                        *)
LEMMA EntryStays ==
  ASSUME NEW k \in 0 .. 15, NEW symbols, NEW e \in Entries(k, symbols), NEW v \in 0 .. e.span - 1
  PROVE  e.delta + v \in 0 .. 2^k - 1
<1>1. e.delta \in Nat /\ e.span \in Spans(k) /\ e.delta + e.span <= 2^k
  BY DEF Entries
<1>2. e.span \in Nat \ {0}
  BY <1>1, SpanBits
<1>3. k \in 0 .. 31
  OBVIOUS
<1>4. 2^k \in Nat
  BY <1>3, PowerPositive
<1> QED
  BY <1>1, <1>2, <1>4

----------------------------------------------------------------------------
(* Joining by halves, and sums.                                            *)

LEMMA Middle ==
  ASSUME NEW lo \in Nat, NEW hi \in Nat
  PROVE  /\ (lo + hi) \div 2 \in Nat
         /\ lo < hi => lo <= (lo + hi) \div 2 /\ (lo + hi) \div 2 < hi
         /\ hi < lo => hi <= (lo + hi) \div 2 /\ (lo + hi) \div 2 < lo
OBVIOUS

(* What holds of single items, and of two parts together, holds of all.    *)
LEMMA ByHalves ==
  ASSUME NEW n \in Nat, NEW G,
         \A c \in 1 .. n : <<c, c>> \in G,
         \A lo, hi \in 1 .. n :
           lo < hi /\ <<lo, (lo + hi) \div 2>> \in G /\ <<(lo + hi) \div 2 + 1, hi>> \in G
             => <<lo, hi>> \in G
  PROVE  \A lo, hi \in 1 .. n : lo <= hi => <<lo, hi>> \in G
<1> DEFINE B == {d \in Nat : \E lo, hi \in 1 .. n : hi - lo = d /\ <<lo, hi>> \notin G}
<1>1. SUFFICES B = {}
  <2> SUFFICES ASSUME NEW lo \in 1 .. n, NEW hi \in 1 .. n, lo <= hi, <<lo, hi>> \notin G
               PROVE  B # {}
    OBVIOUS
  <2>1. PICK d \in Nat : d = hi - lo
    OBVIOUS
  <2>2. d \in B
    BY <2>1
  <2> QED
    BY <2>2
<1>2. SUFFICES ASSUME B # {} PROVE FALSE
  OBVIOUS
<1>3. B \in SUBSET Nat
  OBVIOUS
<1>4. PICK d \in B : \A y \in B : d <= y
  BY <1>2, <1>3, LeastElement
<1>5. PICK lo \in 1 .. n, hi \in 1 .. n : hi - lo = d /\ <<lo, hi>> \notin G
  OBVIOUS
<1>6. d \in Nat
  BY <1>3
<1>7. \A a, b \in 1 .. n : a <= b /\ b - a < d => <<a, b>> \in G
  <2> SUFFICES ASSUME NEW a \in 1 .. n, NEW b \in 1 .. n, a <= b, b - a < d, <<a, b>> \notin G
               PROVE  FALSE
    OBVIOUS
  <2>1. PICK x \in Nat : x = b - a
    OBVIOUS
  <2>2. x \in B
    BY <2>1
  <2>3. d <= x
    BY <1>4, <2>2
  <2> QED
    BY <1>6, <2>1, <2>3
<1> HIDE DEF B
<1>8. lo # hi
  BY <1>5
<1>9. PICK mid \in Nat : mid = (lo + hi) \div 2 /\ lo <= mid /\ mid < hi
  <2>1. lo < hi
    BY <1>5, <1>6, <1>8
  <2> QED
    BY <2>1, Middle
<1>10. mid \in 1 .. n /\ mid + 1 \in 1 .. n /\ mid - lo < d /\ hi - (mid + 1) < d
  BY <1>5, <1>9
<1>11. <<lo, mid>> \in G /\ <<mid + 1, hi>> \in G
  BY <1>7, <1>9, <1>10
<1> QED
  BY <1>5, <1>9, <1>11

(* The parts of 1 to n with their values, item by item and joined.         *)
Parts(n, T, op, item, P) ==
  /\ P \in [(1 .. n) \X (1 .. n) -> T]
  /\ \A lo, hi \in 1 .. n :
       P[<<lo, hi>>] = IF lo = hi THEN item[lo]
                       ELSE op[<<P[<<lo, (lo + hi) \div 2>>], P[<<(lo + hi) \div 2 + 1, hi>>]>>]

(* The recursion of Joined has a solution.                                 *)
LEMMA PartsExist ==
  ASSUME NEW n \in Nat, NEW T, NEW op \in [T \X T -> T], NEW item \in [1 .. n -> T],
         NEW none \in T, op[<<none, none>>] = none
  PROVE  \E P : Parts(n, T, op, item, P)
<1> DEFINE D == (1 .. n) \X (1 .. n)
           Next(P, lo, hi) ==
             IF lo = hi THEN item[lo]
             ELSE op[<<P[<<lo, (lo + hi) \div 2>>], P[<<(lo + hi) \div 2 + 1, hi>>]>>]
           Upto(P, d) ==
             /\ P \in [D -> T]
             /\ \A lo, hi \in 1 .. n : hi < lo => P[<<lo, hi>>] = none
             /\ \A lo, hi \in 1 .. n : lo <= hi /\ hi - lo < d => P[<<lo, hi>>] = Next(P, lo, hi)
           B == {d \in Nat : ~ \E P : Upto(P, d)}
<1>1. B = {}
  <2>1. SUFFICES ASSUME B # {} PROVE FALSE
    OBVIOUS
  <2>2. B \in SUBSET Nat
    OBVIOUS
  <2>3. PICK d \in B : \A y \in B : d <= y
    BY <2>1, <2>2, LeastElement
  <2>4. d \in Nat /\ ~ \E P : Upto(P, d)
    OBVIOUS
  <2>5. d # 0
    <3> SUFFICES ASSUME d = 0 PROVE FALSE
      OBVIOUS
    <3> DEFINE P == [r \in D |-> none]
    <3>1. Upto(P, 0)
      <4>1. P \in [D -> T]
        OBVIOUS
      <4>2. \A lo, hi \in 1 .. n : P[<<lo, hi>>] = none
        OBVIOUS
      <4>3. \A lo, hi \in 1 .. n : ~(lo <= hi /\ hi - lo < 0)
        OBVIOUS
      <4> QED
        BY <4>1, <4>2, <4>3
    <3> HIDE DEF Upto, P
    <3> QED
      BY <2>4, <3>1
  <2>6. d - 1 \in Nat /\ d - 1 \notin B
    <3> HIDE DEF B
    <3> QED
      BY <2>3, <2>4, <2>5
  <2>7. PICK P : Upto(P, d - 1)
    <3> HIDE DEF Upto
    <3> QED
      BY <2>6
  <2> DEFINE Q == [r \in D |-> IF r[2] - r[1] = d - 1 THEN Next(P, r[1], r[2]) ELSE P[r]]
  <2>8. \A lo, hi \in 1 .. n :
          Q[<<lo, hi>>] = IF hi - lo = d - 1 THEN Next(P, lo, hi) ELSE P[<<lo, hi>>]
    <3> SUFFICES ASSUME NEW lo \in 1 .. n, NEW hi \in 1 .. n
                 PROVE  Q[<<lo, hi>>] = IF hi - lo = d - 1 THEN Next(P, lo, hi) ELSE P[<<lo, hi>>]
      OBVIOUS
    <3>1. <<lo, hi>> \in D /\ <<lo, hi>>[1] = lo /\ <<lo, hi>>[2] = hi
      OBVIOUS
    <3> HIDE DEF D, Next
    <3> QED
      BY <3>1
  <2>9. ASSUME NEW lo \in 1 .. n, NEW hi \in 1 .. n, lo <= hi PROVE Next(P, lo, hi) \in T
    <3>1. CASE lo = hi
      BY <3>1
    <3>2. CASE lo # hi
      <4>1. PICK mid \in Nat : mid = (lo + hi) \div 2 /\ lo <= mid /\ mid < hi
        BY <2>9, <3>2, Middle
      <4>2. mid \in 1 .. n /\ mid + 1 \in 1 .. n
        BY <4>1
      <4>3. P[<<lo, mid>>] \in T /\ P[<<mid + 1, hi>>] \in T
        BY <2>7, <4>2
      <4> QED
        BY <3>2, <4>1, <4>3
    <3> QED
      BY <3>1, <3>2
  <2>10. Q \in [D -> T]
    <3> SUFFICES ASSUME NEW r \in D
                 PROVE  (IF r[2] - r[1] = d - 1 THEN Next(P, r[1], r[2]) ELSE P[r]) \in T
      OBVIOUS
    <3>1. PICK lo \in 1 .. n, hi \in 1 .. n : r = <<lo, hi>>
      OBVIOUS
    <3>2. r[1] = lo /\ r[2] = hi
      BY <3>1
    <3>3. P[r] \in T
      BY <2>7
    <3> HIDE DEF Next, D, Upto
    <3>4. hi - lo = d - 1 => lo <= hi
      BY <2>4, <2>6
    <3> QED
      BY <2>9, <3>2, <3>3, <3>4
  <2>11. ASSUME NEW lo \in 1 .. n, NEW hi \in 1 .. n, lo <= hi, hi - lo < d
         PROVE  Next(Q, lo, hi) = Next(P, lo, hi)
    <3>1. CASE lo = hi
      BY <3>1
    <3>2. CASE lo # hi
      <4>1. PICK mid \in Nat : mid = (lo + hi) \div 2 /\ lo <= mid /\ mid < hi
        BY <2>11, <3>2, Middle
      <4>2. mid \in 1 .. n /\ mid + 1 \in 1 .. n /\ mid - lo # d - 1 /\ hi - (mid + 1) # d - 1
        BY <2>4, <2>11, <4>1
      <4>3. Q[<<lo, mid>>] = P[<<lo, mid>>] /\ Q[<<mid + 1, hi>>] = P[<<mid + 1, hi>>]
        <5> HIDE DEF Q
        <5> QED
          BY <2>8, <4>2
      <4>4. (lo + hi) \div 2 = mid
        BY <4>1
      <4> HIDE DEF Q
      <4> QED
        BY <3>2, <4>3, <4>4
    <3> QED
      BY <3>1, <3>2
  <2> HIDE DEF Q
  <2>12. ASSUME NEW lo \in 1 .. n, NEW hi \in 1 .. n, hi < lo PROVE Q[<<lo, hi>>] = none
    <3>1. hi - lo # d - 1 /\ P[<<lo, hi>>] = none
      BY <2>4, <2>6, <2>7, <2>12
    <3> QED
      BY <2>8, <3>1
  <2>13. ASSUME NEW lo \in 1 .. n, NEW hi \in 1 .. n, lo <= hi, hi - lo < d
         PROVE  Q[<<lo, hi>>] = Next(Q, lo, hi)
    <3>1. Next(Q, lo, hi) = Next(P, lo, hi)
      BY <2>11, <2>13
    <3>2. CASE hi - lo = d - 1
      <4> HIDE DEF Next
      <4> QED
        BY <2>8, <3>1, <3>2
    <3>3. CASE hi - lo # d - 1
      <4>1. hi - lo < d - 1
        BY <2>4, <2>13, <3>3
      <4>2. P[<<lo, hi>>] = Next(P, lo, hi)
        BY <2>7, <2>13, <4>1
      <4> HIDE DEF Next
      <4> QED
        BY <2>8, <3>1, <3>3, <4>2
    <3> QED
      BY <3>2, <3>3
  <2>14. Upto(Q, d)
    BY <2>10, <2>12, <2>13
  <2> HIDE DEF Upto
  <2> QED
    BY <2>4, <2>14
<1>2. PICK P : Upto(P, n)
  <2> HIDE DEF Upto
  <2>1. n \notin B
    BY <1>1
  <2> QED
    BY <2>1
<1>3. ASSUME NEW lo \in 1 .. n, NEW hi \in 1 .. n
      PROVE  P[<<lo, hi>>] = Next(P, lo, hi)
  <2>1. CASE lo <= hi
    <3>1. hi - lo < n
      OBVIOUS
    <3> QED
      BY <1>2, <2>1, <3>1
  <2>2. CASE hi < lo
    <3>1. PICK mid \in Nat : mid = (lo + hi) \div 2 /\ hi <= mid /\ mid < lo
      BY <2>2, Middle
    <3>2. mid \in 1 .. n /\ mid + 1 \in 1 .. n /\ hi < mid + 1
      BY <3>1
    <3>3. P[<<lo, hi>>] = none /\ P[<<lo, mid>>] = none /\ P[<<mid + 1, hi>>] = none
      BY <1>2, <2>2, <3>1, <3>2
    <3> QED
      BY <2>2, <3>1, <3>3
  <2> QED
    BY <2>1, <2>2
<1>4. P \in [D -> T]
  BY <1>2
<1> HIDE DEF Upto, B
<1> QED
  BY <1>3, <1>4 DEF Parts

(* The sums of the first items of freq.                                    *)
Sums(freq, m, S) ==
  /\ S \in [0 .. m -> Int] /\ S[0] = 0
  /\ \A c \in 1 .. m : freq[c] \in Int /\ S[c] = S[c - 1] + freq[c]

LEMMA SumsExist ==
  ASSUME NEW m \in Nat, NEW freq \in [1 .. m -> Int]
  PROVE  \E S : Sums(freq, m, S)
<1> DEFINE B == {k \in 0 .. m : ~ \E S : Sums(freq, k, S)}
<1>1. SUFFICES B = {}
  <2>1. m \in 0 .. m
    OBVIOUS
  <2> HIDE DEF Sums
  <2> QED
    BY <2>1
<1>2. SUFFICES ASSUME B # {} PROVE FALSE
  OBVIOUS
<1>3. B \in SUBSET Nat
  OBVIOUS
<1>4. PICK k \in B : \A y \in B : k <= y
  BY <1>2, <1>3, LeastElement
<1>5. k \in 0 .. m /\ ~ \E S : Sums(freq, k, S)
  OBVIOUS
<1>6. k # 0
  <2> SUFFICES ASSUME k = 0 PROVE FALSE
    OBVIOUS
  <2>1. Sums(freq, 0, [c \in 0 .. 0 |-> 0])
    BY DEF Sums
  <2> QED
    BY <1>5, <2>1
<1>7. k - 1 \in 0 .. m /\ k - 1 \notin B
  <2>1. k - 1 \in 0 .. m
    BY <1>5, <1>6
  <2>2. ~(k <= k - 1)
    BY <1>5
  <2> HIDE DEF B
  <2> QED
    BY <1>4, <2>1, <2>2
<1>8. PICK S : Sums(freq, k - 1, S)
  BY <1>7
<1> DEFINE R == [c \in 0 .. k |-> IF c = k THEN S[k - 1] + freq[k] ELSE S[c]]
<1>9. S[k - 1] \in Int /\ freq[k] \in Int
  <2>1. k - 1 \in 0 .. k - 1 /\ k \in 1 .. m
    BY <1>5, <1>6
  <2> QED
    BY <1>8, <2>1 DEF Sums
<1>10. R \in [0 .. k -> Int]
  <2>1. ASSUME NEW c \in 0 .. k, c # k PROVE S[c] \in Int
    <3>1. c \in 0 .. k - 1
      BY <2>1, <1>5
    <3> QED
      BY <1>8, <3>1 DEF Sums
  <2> QED
    BY <1>9, <2>1
<1>11. R[0] = 0
  BY <1>5, <1>6, <1>8 DEF Sums
<1>12. ASSUME NEW c \in 1 .. k PROVE freq[c] \in Int /\ R[c] = R[c - 1] + freq[c]
  <2>1. c \in 0 .. k /\ c - 1 \in 0 .. k /\ c - 1 # k /\ c \in 1 .. m
    BY <1>5
  <2>2. R[c - 1] = S[c - 1]
    BY <2>1
  <2>3. CASE c = k
    BY <1>9, <2>1, <2>2, <2>3
  <2>4. CASE c # k
    <3>1. c \in 1 .. k - 1
      BY <1>5, <2>4
    <3>2. S[c] = S[c - 1] + freq[c]
      BY <1>8, <3>1 DEF Sums
    <3> QED
      BY <2>1, <2>2, <2>4, <3>2
  <2> QED
    BY <2>3, <2>4
<1>13. Sums(freq, k, R)
  <2> HIDE DEF R
  <2> QED
    BY <1>10, <1>11, <1>12 DEF Sums
<1> QED
  BY <1>5, <1>13

(* TotalBefore computes them.                                              *)
LEMMA TotalIs ==
  ASSUME NEW m \in Nat, NEW freq, NEW S, Sums(freq, m, S), NEW c \in 1 .. m + 1
  PROVE  TotalBefore(freq, c) = S[c - 1]
<1> DEFINE n == c - 1
           D == (1 .. n) \X (1 .. n)
           Unfold(g) == [r \in D |->
             IF r[1] = r[2] THEN freq[r[1]]
             ELSE g[<<r[1], (r[1] + r[2]) \div 2>>] + g[<<(r[1] + r[2]) \div 2 + 1, r[2]>>]]
           part == CHOOSE g : g = Unfold(g)
           P == [r \in D |-> IF r[1] <= r[2] THEN S[r[2]] - S[r[1] - 1] ELSE 0]
<1>1. n \in 0 .. m /\ n \in Nat /\ \A j \in 1 .. n : j \in 0 .. m /\ j - 1 \in 0 .. m /\ j \in 1 .. m
  OBVIOUS
<1>2. S[0] = 0 /\ (\A j \in 0 .. m : S[j] \in Int) 
      /\ \A j \in 1 .. m : freq[j] \in Int /\ S[j] = S[j - 1] + freq[j]
  BY DEF Sums
<1> HIDE DEF n
<1>3. \A lo, hi \in 1 .. n : P[<<lo, hi>>] = IF lo <= hi THEN S[hi] - S[lo - 1] ELSE 0
  OBVIOUS
<1>4. ASSUME NEW lo \in 1 .. n, NEW hi \in 1 .. n
      PROVE  P[<<lo, hi>>] = IF lo = hi THEN freq[lo]
               ELSE P[<<lo, (lo + hi) \div 2>>] + P[<<(lo + hi) \div 2 + 1, hi>>]
  <2> HIDE DEF P
  <2>1. CASE lo = hi
    <3>1. P[<<lo, hi>>] = S[hi] - S[lo - 1]
      BY <1>3, <2>1
    <3>2. S[lo] = S[lo - 1] + freq[lo] /\ S[lo - 1] \in Int /\ freq[lo] \in Int
      BY <1>1, <1>2
    <3>3. S[lo] - S[lo - 1] = freq[lo]
      BY <3>2
    <3> QED
      BY <2>1, <3>1, <3>3
  <2>2. CASE lo < hi
    <3>1. PICK mid \in Nat : mid = (lo + hi) \div 2 /\ lo <= mid /\ mid < hi
      BY <2>2, Middle
    <3>2. mid \in 1 .. n /\ mid + 1 \in 1 .. n /\ (mid + 1) - 1 = mid
      BY <1>1, <3>1
    <3>3. P[<<lo, mid>>] = S[mid] - S[lo - 1] /\ P[<<mid + 1, hi>>] = S[hi] - S[mid]
          /\ P[<<lo, hi>>] = S[hi] - S[lo - 1]
      BY <1>3, <2>2, <3>1, <3>2
    <3>4. S[mid] \in Int /\ S[lo - 1] \in Int /\ S[hi] \in Int
      BY <1>1, <1>2, <3>2
    <3>5. P[<<lo, hi>>] = P[<<lo, mid>>] + P[<<mid + 1, hi>>]
      BY <3>3, <3>4
    <3> QED
      BY <2>2, <3>1, <3>5
  <2>3. CASE hi < lo
    <3>1. PICK mid \in Nat : mid = (lo + hi) \div 2 /\ hi <= mid /\ mid < lo
      BY <2>3, Middle
    <3>2. mid \in 1 .. n /\ mid + 1 \in 1 .. n
      BY <1>1, <3>1
    <3>3. P[<<lo, mid>>] = 0 /\ P[<<mid + 1, hi>>] = 0 /\ P[<<lo, hi>>] = 0
      BY <1>3, <2>3, <3>1, <3>2
    <3> QED
      BY <2>3, <3>1, <3>3
  <2> QED
    BY <2>1, <2>2, <2>3
<1>5. P = Unfold(P)
  <2>1. \A r \in D : P[r] = Unfold(P)[r]
    <3> SUFFICES ASSUME NEW r \in D PROVE P[r] = Unfold(P)[r]
      OBVIOUS
    <3>1. PICK lo \in 1 .. n, hi \in 1 .. n : r = <<lo, hi>>
      OBVIOUS
    <3>2. r[1] = lo /\ r[2] = hi
      BY <3>1
    <3>3. Unfold(P)[r] = IF lo = hi THEN freq[lo]
                       ELSE P[<<lo, (lo + hi) \div 2>>] + P[<<(lo + hi) \div 2 + 1, hi>>]
      <4> HIDE DEF P, D
      <4> QED
        BY <3>2
    <3> HIDE DEF P, D, Unfold
    <3> QED
      BY <1>4, <3>1, <3>3
  <2> HIDE DEF Unfold
  <2>2. P = [r \in D |-> P[r]]
    OBVIOUS
  <2>3. Unfold(P) = [r \in D |-> Unfold(P)[r]]
    BY DEF Unfold
  <2> HIDE DEF P, D
  <2> QED
    BY <2>1, <2>2, <2>3
<1>6. part = Unfold(part)
  <2> HIDE DEF Unfold, P
  <2> QED
    BY <1>5
<1> HIDE DEF P, part
<1>7. ASSUME NEW lo \in 1 .. n, NEW hi \in 1 .. n
      PROVE  part[<<lo, hi>>] = IF lo = hi THEN freq[lo]
               ELSE part[<<lo, (lo + hi) \div 2>>] + part[<<(lo + hi) \div 2 + 1, hi>>]
  <2>1. <<lo, hi>> \in D /\ <<lo, hi>>[1] = lo /\ <<lo, hi>>[2] = hi
    OBVIOUS
  <2>2. Unfold(part)[<<lo, hi>>] = IF lo = hi THEN freq[lo]
               ELSE part[<<lo, (lo + hi) \div 2>>] + part[<<(lo + hi) \div 2 + 1, hi>>]
    <3> HIDE DEF D
    <3> QED
      BY <2>1
  <2> HIDE DEF Unfold
  <2> QED
    BY <1>6, <2>2
<1> HIDE DEF Unfold
<1> DEFINE G == {r \in D : part[r] = S[r[2]] - S[r[1] - 1]}
<1>8. \A lo, hi \in 1 .. n : <<lo, hi>> \in G <=> part[<<lo, hi>>] = S[hi] - S[lo - 1]
  OBVIOUS
<1> HIDE DEF G, D
<1>9. ASSUME NEW lo \in 1 .. n PROVE <<lo, lo>> \in G
  <2>1. part[<<lo, lo>>] = freq[lo]
    BY <1>7
  <2>2. S[lo] = S[lo - 1] + freq[lo] /\ S[lo - 1] \in Int /\ freq[lo] \in Int
    BY <1>1, <1>2
  <2>3. S[lo] - S[lo - 1] = freq[lo]
    BY <2>2
  <2> QED
    BY <1>8, <2>1, <2>3
<1>10. ASSUME NEW lo \in 1 .. n, NEW hi \in 1 .. n, lo < hi,
              <<lo, (lo + hi) \div 2>> \in G, <<(lo + hi) \div 2 + 1, hi>> \in G
       PROVE  <<lo, hi>> \in G
  <2>1. PICK mid \in Nat : mid = (lo + hi) \div 2 /\ lo <= mid /\ mid < hi
    BY <1>10, Middle
  <2>2. mid \in 1 .. n /\ mid + 1 \in 1 .. n /\ (mid + 1) - 1 = mid
    BY <1>1, <2>1
  <2>3. part[<<lo, mid>>] = S[mid] - S[lo - 1] /\ part[<<mid + 1, hi>>] = S[hi] - S[mid]
    BY <1>8, <1>10, <2>1, <2>2
  <2>4. S[mid] \in Int /\ S[lo - 1] \in Int /\ S[hi] \in Int
    BY <1>1, <1>2, <2>2
  <2>5. part[<<lo, hi>>] = part[<<lo, mid>>] + part[<<mid + 1, hi>>]
    BY <1>7, <1>10, <2>1
  <2>6. part[<<lo, hi>>] = S[hi] - S[lo - 1]
    BY <2>3, <2>4, <2>5
  <2> QED
    BY <1>8, <2>6
<1>11. \A lo, hi \in 1 .. n : lo <= hi => <<lo, hi>> \in G
  BY <1>1, <1>9, <1>10, ByHalves
<1>12. CASE n = 0
  <2>1. TotalBefore(freq, c) = 0
    BY <1>12 DEF TotalBefore, Joined, n
  <2> QED
    BY <1>2, <1>12, <2>1 DEF n
<1>13. CASE n # 0
  <2>1. TotalBefore(freq, c) = part[<<1, n>>]
    BY <1>13 DEF TotalBefore, Joined, part, Unfold, n, D
  <2>2. 1 \in 1 .. n /\ n \in 1 .. n /\ 1 <= n
    BY <1>1, <1>13
  <2>3. part[<<1, n>>] = S[n] - S[1 - 1]
    BY <1>8, <1>11, <2>2
  <2>4. S[n] \in Int
    BY <1>1, <1>2
  <2> QED
    BY <1>2, <2>1, <2>3, <2>4 DEF n
<1> QED
  BY <1>12, <1>13

LEMMA FunctionSeq ==
  ASSUME NEW m \in Nat, NEW S, NEW f \in [1 .. m -> S]
  PROVE  f \in Seq(S)
OBVIOUS

LEMMA ListedIs ==
  ASSUME NEW m \in Nat, NEW S, NEW f \in [1 .. m -> S]
  PROVE  Listed(f) = f /\ f \in Seq(S) /\ Len(f) = m
<1>1. f \in Seq(S)
  BY FunctionSeq
<1>2. <<>> \o f = f
  BY <1>1, ConcatEmptySeq
<1>3. Len(f) = m
  BY <1>1, LenProperties
<1> QED
  BY <1>1, <1>2, <1>3 DEF Listed

(* Sums of natural numbers only grow.                                      *)
LEMMA SumsGrow ==
  ASSUME NEW m \in Nat, NEW freq \in [1 .. m -> Nat], NEW S, Sums(freq, m, S)
  PROVE  /\ S \in [0 .. m -> Nat]
         /\ \A j \in 0 .. m : \A c \in 0 .. j : S[c] <= S[j]
         /\ \A c \in 1 .. m : freq[c] <= S[m] /\ S[c - 1] + freq[c] <= S[m]
<1> DEFINE B == {j \in 0 .. m : ~(S[j] \in Nat /\ \A c \in 0 .. j : S[c] <= S[j])}
<1>1. /\ S[0] = 0 /\ S \in [0 .. m -> Int]
      /\ \A c \in 1 .. m : freq[c] \in Nat /\ S[c] = S[c - 1] + freq[c]
  BY DEF Sums
<1>2. B = {}
  <2>1. SUFFICES ASSUME B # {} PROVE FALSE
    OBVIOUS
  <2>2. B \in SUBSET Nat
    OBVIOUS
  <2>3. PICK j \in B : \A y \in B : j <= y
    BY <2>1, <2>2, LeastElement
  <2>4. j \in 0 .. m /\ ~(S[j] \in Nat /\ \A c \in 0 .. j : S[c] <= S[j])
    OBVIOUS
  <2>5. j # 0
    BY <1>1, <2>4
  <2>6. j - 1 \in 0 .. m /\ j - 1 \notin B
    <3>1. j - 1 \in 0 .. m /\ ~(j <= j - 1)
      BY <2>4, <2>5
    <3> HIDE DEF B
    <3> QED
      BY <2>3, <3>1
  <2>7. S[j - 1] \in Nat /\ \A c \in 0 .. j - 1 : S[c] <= S[j - 1]
    BY <2>6
  <2>8. freq[j] \in Nat /\ S[j] = S[j - 1] + freq[j]
    BY <1>1, <2>4, <2>5
  <2>9. S[j] \in Nat /\ S[j - 1] <= S[j]
    BY <2>7, <2>8
  <2>10. ASSUME NEW c \in 0 .. j PROVE S[c] <= S[j]
    <3>1. CASE c = j
      BY <2>9, <3>1
    <3>2. CASE c # j
      <4>1. c \in 0 .. j - 1 /\ c \in 0 .. m
        BY <2>4, <3>2
      <4>2. S[c] <= S[j - 1] /\ S[c] \in Int
        BY <1>1, <2>7, <4>1
      <4> QED
        BY <2>7, <2>9, <4>2
    <3> QED
      BY <3>1, <3>2
  <2> QED
    BY <2>4, <2>9, <2>10
<1>3. \A j \in 0 .. m : S[j] \in Nat /\ \A c \in 0 .. j : S[c] <= S[j]
  BY <1>2
<1> HIDE DEF B
<1>4. ASSUME NEW c \in 1 .. m PROVE freq[c] <= S[m] /\ S[c - 1] + freq[c] <= S[m]
  <2>1. c \in 0 .. m /\ m \in 0 .. m /\ c - 1 \in 0 .. m
    OBVIOUS
  <2>2. S[c] <= S[m] /\ S[c] \in Nat /\ S[c - 1] \in Nat /\ S[m] \in Nat
    BY <1>3, <2>1
  <2>3. S[c] = S[c - 1] + freq[c] /\ freq[c] \in Nat
    BY <1>1
  <2> QED
    BY <2>2, <2>3
<1> QED
  BY <1>1, <1>3, <1>4

LEMMA SumsTotal ==
  ASSUME NEW m \in Nat, NEW freq \in [1 .. m -> Nat], NEW S, Sums(freq, m, S)
  PROVE  Total(freq) = S[m]
<1>1. Len(freq) = m
  BY ListedIs
<1>2. m + 1 \in 1 .. m + 1 /\ (m + 1) - 1 = m
  OBVIOUS
<1>3. TotalBefore(freq, m + 1) = S[(m + 1) - 1]
  BY <1>2, TotalIs
<1> QED
  BY <1>1, <1>2, <1>3 DEF Total

----------------------------------------------------------------------------
(* Normalisation.                                                          *)

LEMMA HigherLower ==
  ASSUME NEW a \in Int, NEW b \in Int
  PROVE  /\ Higher(a, b) \in Int /\ a <= Higher(a, b) /\ b <= Higher(a, b)
         /\ Higher(a, b) = a \/ Higher(a, b) = b
         /\ Lower(a, b) \in Int /\ Lower(a, b) <= a /\ Lower(a, b) <= b
         /\ Lower(a, b) = a \/ Lower(a, b) = b
BY DEF Higher, Lower

(* One pass of fse_adjust_freqs, with a shift that divides by q.           *)
Pass(freqs, t, q) ==
  LET offered == Listed([c \in DOMAIN freqs |-> Higher(t.freq[c] - 1, 0) \div q])
      left == Listed([c \in 1 .. Len(freqs) + 1 |-> Higher(t.overrun - TotalBefore(offered, c), 0)])
  IN [freq |-> Listed([c \in DOMAIN freqs |-> t.freq[c] - Lower(offered[c], left[c])]),
      overrun |-> left[Len(freqs) + 1]]

(* The symbols of t have as many states as n and the overrun.              *)
Overrun(t, m, n) ==
  /\ t.freq \in [1 .. m -> Nat] /\ t.overrun \in Nat
  /\ \E S : Sums(t.freq, m, S) /\ S[m] = n + t.overrun

LEMMA PassTakes ==
  ASSUME NEW m \in Nat, NEW n \in Nat, NEW freqs \in [1 .. m -> Nat], NEW q \in Nat \ {0},
         NEW t, Overrun(t, m, n)
  PROVE  /\ Overrun(Pass(freqs, t, q), m, n)
         /\ \A c \in 1 .. m : t.freq[c] > 0 => Pass(freqs, t, q).freq[c] > 0
         /\ q = 1 /\ m <= n => Pass(freqs, t, q).overrun = 0
<1>1. PICK f \in [1 .. m -> Nat] : f = t.freq
  BY DEF Overrun
<1>2. PICK over \in Nat : over = t.overrun
  BY DEF Overrun
<1>3. PICK S : Sums(f, m, S) /\ S[m] = n + over
  BY <1>1, <1>2 DEF Overrun
<1>4. S \in [0 .. m -> Nat] /\ S[0] = 0 /\ \A c \in 1 .. m : S[c] = S[c - 1] + f[c]
  BY <1>3, SumsGrow DEF Sums
<1>5. Len(freqs) = m /\ DOMAIN freqs = 1 .. m
  BY ListedIs
<1> DEFINE o == [c \in 1 .. m |-> Higher(f[c] - 1, 0) \div q]
<1>6. ASSUME NEW c \in 1 .. m
      PROVE  /\ Higher(f[c] - 1, 0) \div q \in Nat
             /\ Higher(f[c] - 1, 0) \div q <= f[c]
             /\ f[c] > 0 => Higher(f[c] - 1, 0) \div q < f[c]
             /\ q = 1 => f[c] - 1 <= Higher(f[c] - 1, 0) \div q
  <2>1. f[c] \in Nat
    OBVIOUS
  <2>2. PICK h \in Nat : h = Higher(f[c] - 1, 0) /\ h <= f[c] /\ (f[c] > 0 => h < f[c]) /\ f[c] - 1 <= h
    <3>1. PICK x \in Nat : x = f[c]
      BY <2>1
    <3>2. /\ Higher(x - 1, 0) \in Nat /\ Higher(x - 1, 0) <= x
          /\ x > 0 => Higher(x - 1, 0) < x
          /\ x - 1 <= Higher(x - 1, 0)
      BY DEF Higher
    <3> QED
      BY <3>1, <3>2
  <2>3. PICK z \in Nat : z = h \div q /\ z * q <= h
    <3>1. PICK z \in Nat, r \in 0 .. q - 1 : z = h \div q /\ r = h % q
      BY QuotientAndRest
    <3>2. h = z * q + r
      BY <3>1, QuotientAndRest
    <3>3. z * q \in Nat
      OBVIOUS
    <3>4. z * q <= h
      <4>1. PICK w \in Nat : w = z * q
        BY <3>3
      <4>2. h = w + r
        BY <3>2, <4>1
      <4> QED
        BY <4>1, <4>2
    <3> QED
      BY <3>1, <3>4
  <2>4. z <= z * q
    <3>1. 1 <= q
      OBVIOUS
    <3> QED
      BY <3>1
  <2>5. q = 1 => z = h
    BY <2>3
  <2> QED
    BY SMTT(30), <2>1, <2>2, <2>3, <2>4, <2>5
<1>7. o \in [1 .. m -> Nat]
  BY <1>6
<1>8. \A c \in 1 .. m : /\ o[c] \in Nat /\ o[c] <= f[c] /\ (f[c] > 0 => o[c] < f[c])
                        /\ q = 1 => f[c] - 1 <= o[c]
  BY <1>6
<1> HIDE DEF o
<1>9. PICK O : Sums(o, m, O)
  <2>1. o \in [1 .. m -> Int]
    BY <1>7
  <2> QED
    BY <2>1, SumsExist
<1>10. O \in [0 .. m -> Nat] /\ O[0] = 0 /\ \A c \in 1 .. m : O[c] = O[c - 1] + o[c]
  BY <1>7, <1>9, SumsGrow DEF Sums
<1>11. Listed(o) = o
  BY <1>7, ListedIs
<1>12. \A c \in 1 .. m + 1 : TotalBefore(o, c) = O[c - 1]
  BY <1>9, TotalIs
<1> DEFINE left == [c \in 1 .. m + 1 |-> Higher(over - TotalBefore(o, c), 0)]
<1>13. ASSUME NEW c \in 0 .. m
       PROVE  left[c + 1] = IF O[c] <= over THEN over - O[c] ELSE 0
  <2>1. c + 1 \in 1 .. m + 1 /\ (c + 1) - 1 = c
    OBVIOUS
  <2>2. left[c + 1] = Higher(over - O[c], 0) /\ O[c] \in Nat
    BY <1>10, <1>12, <2>1
  <2> QED
    BY <2>2 DEF Higher
<1>14. left \in [1 .. m + 1 -> Nat]
  <2>1. ASSUME NEW c \in 1 .. m + 1 PROVE Higher(over - TotalBefore(o, c), 0) \in Nat
    <3>1. c - 1 \in 0 .. m
      OBVIOUS
    <3>2. TotalBefore(o, c) \in Nat
      BY <1>10, <1>12, <3>1
    <3> QED
      BY <3>2 DEF Higher
  <2> QED
    BY <2>1
<1> HIDE DEF left
<1>15. Listed(left) = left
  <2>1. m + 1 \in Nat
    OBVIOUS
  <2> QED
    BY <1>14, <2>1, ListedIs
<1> DEFINE u == [c \in 1 .. m |-> f[c] - Lower(o[c], left[c])]
<1>16. ASSUME NEW c \in 1 .. m
       PROVE  /\ f[c] - Lower(o[c], left[c]) \in Nat
              /\ f[c] > 0 => f[c] - Lower(o[c], left[c]) > 0
              /\ Lower(o[c], left[c]) = left[c] - left[c + 1]
  <2>1. c - 1 \in 0 .. m /\ (c - 1) + 1 = c /\ c \in 0 .. m /\ c \in 1 .. m + 1
    OBVIOUS
  <2>2. PICK x \in Nat, y \in Nat, a \in Nat : x = O[c - 1] /\ y = O[c] /\ a = o[c] /\ y = x + a
    <3>1. O[c - 1] \in Nat /\ O[c] \in Nat /\ o[c] \in Nat /\ O[c] = O[c - 1] + o[c]
      BY <1>8, <1>10, <2>1
    <3> QED
      BY <3>1
  <2>3. left[c] = IF x <= over THEN over - x ELSE 0
    BY <1>13, <2>1, <2>2
  <2>4. left[c + 1] = IF y <= over THEN over - y ELSE 0
    BY <1>13, <2>1, <2>2
  <2>5. Lower(a, left[c]) = left[c] - left[c + 1]
    <3>1. left[c + 1] = IF x + a <= over THEN over - (x + a) ELSE 0
      BY <2>2, <2>4
    <3>2. PICK l, k : l = left[c] /\ k = left[c + 1]
      OBVIOUS
    <3>3. l = (IF x <= over THEN over - x ELSE 0)
      BY <2>3, <3>2
    <3>4. k = (IF x + a <= over THEN over - (x + a) ELSE 0)
      BY <3>1, <3>2
    <3>5. Lower(a, l) = l - k
      <4>1. over \in Nat /\ x \in Nat /\ a \in Nat
        BY <1>2, <2>2
      <4>2. x <= over => l = over - x
        BY <3>3
      <4>3. ~(x <= over) => l = 0
        BY <3>3
      <4>4. x + a <= over => k = over - (x + a)
        BY <3>4
      <4>5. ~(x + a <= over) => k = 0
        BY <3>4
      <4>6. CASE x + a <= over
        <5>1. x <= over /\ l = over - x /\ k = over - (x + a)
          BY <4>1, <4>2, <4>4, <4>6
        <5>2. l \in Nat /\ a <= l /\ l - k = a
          BY <4>1, <4>6, <5>1
        <5> QED
          BY <4>1, <5>2 DEF Lower
      <4>7. CASE ~(x + a <= over)
        <5>1. k = 0 /\ ((x <= over /\ l = over - x) \/ (~(x <= over) /\ l = 0))
          BY <4>1, <4>2, <4>3, <4>5, <4>7
        <5>2. k = 0 /\ l \in Nat /\ (l <= a)
          BY <4>1, <4>7, <5>1
        <5>3. Lower(a, l) = l
          BY <4>1, <5>2 DEF Lower
        <5> QED
          BY <5>2, <5>3
      <4> QED
        BY <4>6, <4>7
    <3> QED
      BY <3>2, <3>5
  <2>6. left[c] \in Nat
    BY <1>14, <2>1
  <2>7. Lower(a, left[c]) \in Nat /\ Lower(a, left[c]) <= a
    BY <2>6 DEF Lower
  <2>8. a <= f[c] /\ (f[c] > 0 => a < f[c]) /\ f[c] \in Nat
    BY <1>8, <2>2
  <2>9. PICK g \in Nat : g = Lower(a, left[c]) /\ g <= a
    BY <2>7
  <2>10. f[c] - g \in Nat /\ (f[c] > 0 => f[c] - g > 0)
    BY <2>8, <2>9
  <2> QED
    BY <2>2, <2>5, <2>9, <2>10
<1>17. u \in [1 .. m -> Nat]
  BY <1>16
<1>18. \A c \in 1 .. m : u[c] = f[c] - Lower(o[c], left[c])
  OBVIOUS
<1> HIDE DEF u
<1>19. Listed(u) = u
  BY <1>17, ListedIs
<1>20. Pass(freqs, t, q) = [freq |-> u, overrun |-> left[m + 1]]
  <2>1. o = [c \in DOMAIN freqs |-> Higher(t.freq[c] - 1, 0) \div q]
    BY <1>1, <1>5 DEF o
  <2>2. left = [c \in 1 .. Len(freqs) + 1 |-> Higher(t.overrun - TotalBefore(o, c), 0)]
    BY <1>2, <1>5 DEF left
  <2>3. u = [c \in DOMAIN freqs |-> t.freq[c] - Lower(o[c], left[c])]
    BY <1>1, <1>5 DEF u
  <2>4. Pass(freqs, t, q) = [freq |-> Listed([c \in DOMAIN freqs |-> t.freq[c] - Lower(o[c], left[c])]),
                             overrun |-> left[Len(freqs) + 1]]
    BY <1>11, <1>15, <2>1, <2>2, ZenonT(60) DEF Pass
  <2> QED
    BY <1>5, <1>19, <2>3, <2>4
<1> DEFINE R == [c \in 0 .. m |-> S[c] - (over - left[c + 1])]
<1>21. \A c \in 0 .. m : R[c] \in Int /\ R[c] = S[c] - (over - left[c + 1])
  <2> SUFFICES ASSUME NEW c \in 0 .. m PROVE S[c] - (over - left[c + 1]) \in Int
    OBVIOUS
  <2>1. S[c] \in Nat /\ left[c + 1] \in Nat
    BY <1>4, <1>14
  <2> QED
    BY <2>1
<1>22. R \in [0 .. m -> Int]
  BY <1>21
<1> HIDE DEF R
<1>23. R[0] = 0
  <2>1. 0 \in 0 .. m
    OBVIOUS
  <2>2. left[0 + 1] = over
    BY <1>10, <1>13, <2>1
  <2> QED
    BY <1>4, <1>21, <2>1, <2>2
<1>24. ASSUME NEW c \in 1 .. m PROVE u[c] \in Int /\ R[c] = R[c - 1] + u[c]
  <2>1. c - 1 \in 0 .. m /\ (c - 1) + 1 = c /\ c \in 0 .. m /\ c \in 1 .. m + 1 /\ c + 1 \in 1 .. m + 1
    OBVIOUS
  <2>2. R[c] = S[c] - (over - left[c + 1]) /\ R[c - 1] = S[c - 1] - (over - left[c])
    BY <1>21, <2>1
  <2>3. S[c] = S[c - 1] + f[c] /\ S[c - 1] \in Nat /\ f[c] \in Nat
    BY <1>4, <2>1
  <2>4. left[c] \in Nat /\ left[c + 1] \in Nat
    BY <1>14, <2>1
  <2>5. u[c] = f[c] - (left[c] - left[c + 1])
    BY <1>16, <1>18
  <2>6. PICK l \in Nat, k \in Nat : l = left[c] /\ k = left[c + 1]
    BY <2>4
  <2>7. PICK s \in Nat, x \in Nat : s = S[c - 1] /\ x = f[c]
    BY <2>3
  <2>8. R[c] = (s + x) - (over - k) /\ R[c - 1] = s - (over - l) /\ u[c] = x - (l - k)
    BY <2>2, <2>3, <2>5, <2>6, <2>7
  <2> QED
    BY <2>8
<1>25. Sums(u, m, R)
  BY <1>22, <1>23, <1>24 DEF Sums
<1>26. left[m + 1] \in Nat /\ R[m] = n + left[m + 1]
  <2>1. m \in 0 .. m /\ m + 1 \in 1 .. m + 1
    OBVIOUS
  <2>2. R[m] = S[m] - (over - left[m + 1]) /\ left[m + 1] \in Nat
    BY <1>14, <1>21, <2>1
  <2> QED
    BY <1>3, <2>2
<1>27. Overrun(Pass(freqs, t, q), m, n)
  BY SMTT(30), <1>17, <1>20, <1>25, <1>26 DEF Overrun
<1>28. ASSUME NEW c \in 1 .. m, t.freq[c] > 0 PROVE Pass(freqs, t, q).freq[c] > 0
  <2>1. u[c] > 0
    BY <1>1, <1>16, <1>18, <1>28
  <2> QED
    BY <1>20, <2>1
<1>29. ASSUME q = 1, m <= n PROVE Pass(freqs, t, q).overrun = 0
  <2> DEFINE B == {c \in 0 .. m : ~(S[c] - c <= O[c])}
  <2>1. B = {}
    <3>1. SUFFICES ASSUME B # {} PROVE FALSE
      OBVIOUS
    <3>2. B \in SUBSET Nat
      OBVIOUS
    <3>3. PICK c \in B : \A y \in B : c <= y
      BY <3>1, <3>2, LeastElement
    <3>4. c \in 0 .. m /\ ~(S[c] - c <= O[c])
      OBVIOUS
    <3>5. c # 0
      BY <1>4, <1>10, <3>4
    <3>6. c - 1 \in 0 .. m /\ c \in 1 .. m /\ ~(c <= c - 1)
      BY <3>4, <3>5
    <3>7. c - 1 \notin B
      <4> HIDE DEF B
      <4> QED
        BY <3>3, <3>6
    <3>8. S[c - 1] - (c - 1) <= O[c - 1]
      BY <3>6, <3>7
    <3>9. S[c] = S[c - 1] + f[c] /\ O[c] = O[c - 1] + o[c] /\ f[c] - 1 <= o[c]
      BY <1>4, <1>8, <1>10, <1>29, <3>6
    <3>10. S[c - 1] \in Nat /\ O[c - 1] \in Nat /\ f[c] \in Nat /\ o[c] \in Nat
      BY <1>4, <1>8, <1>10, <3>6
    <3>11. PICK s \in Nat, x \in Nat, y \in Nat, z \in Nat :
             s = S[c - 1] /\ x = O[c - 1] /\ y = f[c] /\ z = o[c]
      BY <3>10
    <3>12. s - (c - 1) <= x /\ y - 1 <= z /\ S[c] = s + y /\ O[c] = x + z
      BY <3>8, <3>9, <3>11
    <3>13. S[c] - c <= O[c]
      BY <3>4, <3>12
    <3> QED
      BY <3>4, <3>13
  <2>2. m \in 0 .. m /\ m \notin B
    BY <2>1
  <2>3. S[m] - m <= O[m] /\ O[m] \in Nat
    BY <1>10, <2>2
  <2>4. over <= O[m]
    BY <1>3, <1>29, <2>3
  <2>5. left[m + 1] = 0
    BY <1>13, <2>2, <2>3, <2>4
  <2> QED
    BY <1>20, <2>5
<1> QED
  BY <1>27, <1>28, <1>29

(* The four passes take all of the overrun, and every symbol keeps a state.*)
LEMMA Adjusted ==
  ASSUME NEW m \in Nat, NEW n \in Nat, m <= n, NEW freqs \in [1 .. m -> Nat], NEW over \in Nat,
         NEW S, Sums(freqs, m, S), S[m] = n + over
  PROVE  /\ AdjustFreqs(freqs, over) \in [1 .. m -> Nat]
         /\ Total(AdjustFreqs(freqs, over)) = n
         /\ \A c \in 1 .. m : freqs[c] > 0 => AdjustFreqs(freqs, over)[c] > 0
<1> DEFINE a4 == [freq |-> freqs, overrun |-> over]
           a3 == Pass(freqs, a4, 2^3)
           a2 == Pass(freqs, a3, 2^2)
           a1 == Pass(freqs, a2, 2^1)
           a0 == Pass(freqs, a1, 2^0)
           Unfold(g) == [shift \in 0 .. 4 |->
                           IF shift = 4 THEN a4 ELSE Pass(freqs, g[shift + 1], 2^shift)]
           pass == CHOOSE g : g = Unfold(g)
           W == [shift \in 0 .. 4 |->
                  IF shift = 4 THEN a4 ELSE IF shift = 3 THEN a3
                  ELSE IF shift = 2 THEN a2 ELSE IF shift = 1 THEN a1 ELSE a0]
<1>1. AdjustFreqs(freqs, over) = pass[0].freq
  BY DEF AdjustFreqs, Pass
<1>2. Overrun(a4, m, n)
  BY DEF Overrun
<1>3. 2^3 = 8 /\ 2^2 = 4 /\ 2^1 = 2 /\ 2^0 = 1
  OBVIOUS
<1>4. 2^3 \in Nat \ {0} /\ 2^2 \in Nat \ {0} /\ 2^1 \in Nat \ {0} /\ 2^0 \in Nat \ {0}
  BY <1>3
<1>5. a4.freq = freqs
  OBVIOUS
<1> HIDE DEF a4
<1>6. Overrun(a3, m, n) /\ \A c \in 1 .. m : freqs[c] > 0 => a3.freq[c] > 0
  BY <1>2, <1>4, <1>5, PassTakes
<1> HIDE DEF a3
<1>7. Overrun(a2, m, n) /\ \A c \in 1 .. m : freqs[c] > 0 => a2.freq[c] > 0
  BY <1>4, <1>6, PassTakes
<1> HIDE DEF a2
<1>8. Overrun(a1, m, n) /\ \A c \in 1 .. m : freqs[c] > 0 => a1.freq[c] > 0
  BY <1>4, <1>7, PassTakes
<1> HIDE DEF a1
<1>9. /\ Overrun(a0, m, n)
      /\ \A c \in 1 .. m : freqs[c] > 0 => a0.freq[c] > 0
      /\ a0.overrun = 0
  BY <1>3, <1>4, <1>8, PassTakes
<1>10. W = Unfold(W)
  <2> SUFFICES ASSUME NEW s \in 0 .. 4
               PROVE  W[s] = IF s = 4 THEN a4 ELSE Pass(freqs, W[s + 1], 2^s)
    OBVIOUS
  <2>1. s \in {0, 1, 2, 3, 4}
    OBVIOUS
  <2>2. W[4] = a4 /\ W[3] = a3 /\ W[2] = a2 /\ W[1] = a1 /\ W[0] = a0
    <3> HIDE DEF a0
    <3> QED
      OBVIOUS
  <2> HIDE DEF W
  <2>3. CASE s = 4
    BY <2>2, <2>3
  <2>4. CASE s = 3
    <3>1. s + 1 = 4
      BY <2>4
    <3> QED
      BY <2>2, <2>4, <3>1 DEF a3
  <2>5. CASE s = 2
    <3>1. s + 1 = 3
      BY <2>5
    <3> QED
      BY <2>2, <2>5, <3>1 DEF a2
  <2>6. CASE s = 1
    <3>1. s + 1 = 2
      BY <2>6
    <3> QED
      BY <2>2, <2>6, <3>1 DEF a1
  <2>7. CASE s = 0
    <3>1. s + 1 = 1
      BY <2>7
    <3> QED
      BY <2>2, <2>7, <3>1 DEF a0
  <2> QED
    BY <2>1, <2>3, <2>4, <2>5, <2>6, <2>7
<1>11. pass = Unfold(pass)
  <2> HIDE DEF W, Unfold
  <2> QED
    BY <1>10
<1> HIDE DEF pass, W
<1>12. pass[4] = a4 /\ pass[3] = a3 /\ pass[2] = a2 /\ pass[1] = a1 /\ pass[0] = a0
  <2>1. \A s \in 0 .. 4 : pass[s] = IF s = 4 THEN a4 ELSE Pass(freqs, pass[s + 1], 2^s)
    <3>1. \A s \in 0 .. 4 : Unfold(pass)[s] = IF s = 4 THEN a4 ELSE Pass(freqs, pass[s + 1], 2^s)
      OBVIOUS
    <3> HIDE DEF Unfold
    <3> QED
      BY <1>11, <3>1
  <2> HIDE DEF Unfold
  <2>2. 4 \in 0 .. 4 /\ 3 \in 0 .. 4 /\ 2 \in 0 .. 4 /\ 1 \in 0 .. 4 /\ 0 \in 0 .. 4
        /\ 3 + 1 = 4 /\ 2 + 1 = 3 /\ 1 + 1 = 2 /\ 0 + 1 = 1
        /\ 3 # 4 /\ 2 # 4 /\ 1 # 4 /\ 0 # 4
    OBVIOUS
  <2>3. pass[4] = a4
    BY <2>1, <2>2
  <2>4. pass[3] = a3
    BY <2>1, <2>2, <2>3 DEF a3
  <2>5. pass[2] = a2
    BY <2>1, <2>2, <2>4 DEF a2
  <2>6. pass[1] = a1
    BY <2>1, <2>2, <2>5 DEF a1
  <2>7. pass[0] = a0
    BY <2>1, <2>2, <2>6 DEF a0
  <2> QED
    BY <2>3, <2>4, <2>5, <2>6, <2>7
<1> HIDE DEF Unfold, a0
<1>13. AdjustFreqs(freqs, over) = a0.freq
  BY <1>1, <1>12
<1>14. a0.freq \in [1 .. m -> Nat] /\ \E R : Sums(a0.freq, m, R) /\ R[m] = n + 0
  BY <1>9 DEF Overrun
<1>15. Total(a0.freq) = n
  <2>1. PICK R : Sums(a0.freq, m, R) /\ R[m] = n + 0
    BY <1>14
  <2> QED
    BY <1>14, <2>1, SumsTotal
<1> QED
  BY <1>9, <1>13, <1>14, <1>15

LEMMA QuotientNat ==
  ASSUME NEW a \in Nat, NEW b \in Nat \ {0}
  PROVE  a \div b \in Nat
BY QuotientAndRest

LEMMA PrecisionLeft ==
  ASSUME NEW n \in 1 .. 1024
  PROVE  2^PrecisionBits \in Nat /\ 2^(PrecisionBits - 1) \div n \in Nat \ {0}
<1>1. PrecisionBits \in 12 .. 31
  BY PrecisionAssumption
<1>2. PICK p \in 11 .. 30 : p = PrecisionBits - 1
  BY <1>1
<1>3. 2^11 = 2048
  OBVIOUS
<1>8. 11 \in 0 .. 31 /\ p \in 0 .. 31
  OBVIOUS
<1>4. 2^p \in Nat /\ 2^11 <= 2^p
  <2>1. 2^p \in Nat
    BY <1>8, PowerPositive
  <2>2. 11 < p => 2^11 < 2^p
    BY <1>8, PowersGrow, ZenonT(60)
  <2>3. 11 = p => 2^11 = 2^p
    OBVIOUS
  <2> QED
    BY <1>2, <1>3, <2>1, <2>2, <2>3
<1>5. PICK x \in Nat : x = 2^p /\ x >= 2048
  BY <1>3, <1>4
<1>6. x \div n \in Nat \ {0}
  <2>1. x \div n \in Nat
    BY QuotientNat
  <2>2. ~(x < 1 * n)
    BY <1>5
  <2>3. ~(x \div n < 1)
    <3>1. n \in Nat \ {0} /\ 1 \in Nat
      OBVIOUS
    <3> QED
      BY <2>2, <3>1, QuotientBelow
  <2> QED
    BY <2>1, <2>3
<1>7. 2^PrecisionBits \in Nat
  <2>1. PrecisionBits \in 0 .. 31
    BY <1>1
  <2> QED
    BY <2>1, PowerPositive, ZenonT(60)
<1> QED
  BY <1>2, <1>5, <1>6, <1>7

LEMMA PrecisionPower ==
  2^PrecisionBits \in Nat
<1>1. PrecisionBits \in 12 .. 31
  BY PrecisionAssumption
<1>2. PICK p \in 0 .. 31 : p = PrecisionBits
  BY <1>1
<1>3. 2^p \in Nat
  BY PowerPositive
<1> QED
  BY <1>2, <1>3

(* One index has the largest value, and is the first that has it.          *)
LEMMA FirstOfTheMost ==
  ASSUME NEW m \in Nat \ {0}, NEW freq \in [1 .. m -> Nat]
  PROVE  \E c \in 1 .. m : /\ \A j \in 1 .. m : freq[j] <= freq[c]
                           /\ \A j \in 1 .. c - 1 : freq[j] < freq[c]
<1>1. PICK S : Sums(freq, m, S)
  <2>1. freq \in [1 .. m -> Int] /\ m \in Nat
    OBVIOUS
  <2> QED
    BY <2>1, SumsExist
<1>2. PICK s \in Nat : \A c \in 1 .. m : freq[c] <= s
  <2>1. m \in Nat /\ m \in 0 .. m
    OBVIOUS
  <2>2. S \in [0 .. m -> Nat] /\ \A c \in 1 .. m : freq[c] <= S[m]
    BY <1>1, <2>1, SumsGrow
  <2>3. S[m] \in Nat
    BY <2>1, <2>2
  <2> QED
    BY <2>2, <2>3
<1> DEFINE A == {x \in Nat : \E c \in 1 .. m : x = s - freq[c]}
<1>3. A \in SUBSET Nat
  OBVIOUS
<1>4. A # {}
  <2>1. 1 \in 1 .. m
    OBVIOUS
  <2>2. freq[1] \in Nat /\ freq[1] <= s
    BY <1>2, <2>1
  <2>3. PICK x \in Nat : x = s - freq[1]
    BY <2>2
  <2>4. x \in A
    BY <2>1, <2>3
  <2> QED
    BY <2>4
<1>5. PICK a \in A : \A y \in A : a <= y
  BY <1>3, <1>4, LeastElement
<1>6. PICK b \in 1 .. m : a = s - freq[b]
  OBVIOUS
<1>7. ASSUME NEW j \in 1 .. m PROVE freq[j] <= freq[b]
  <2>1. freq[j] \in Nat /\ freq[j] <= s
    BY <1>2
  <2>2. PICK y \in Nat : y = s - freq[j]
    BY <2>1
  <2>3. y \in A
    BY <2>2
  <2>4. a <= y
    <3> HIDE DEF A
    <3> QED
      BY <1>5, <2>3
  <2>5. freq[b] \in Nat
    OBVIOUS
  <2> QED
    BY <1>6, <2>1, <2>2, <2>4, <2>5
<1> HIDE DEF A
<1> DEFINE C == {c \in 1 .. m : freq[c] = freq[b]}
<1>8. C \in SUBSET Nat /\ C # {}
  OBVIOUS
<1>9. PICK c \in C : \A y \in C : c <= y
  BY <1>8, LeastElement
<1>10. c \in 1 .. m /\ freq[c] = freq[b]
  OBVIOUS
<1>11. ASSUME NEW j \in 1 .. c - 1 PROVE freq[j] < freq[c]
  <2>1. j \in 1 .. m /\ ~(c <= j)
    BY <1>10
  <2>2. j \notin C
    <3> HIDE DEF C
    <3> QED
      BY <1>9, <2>1
  <2>3. freq[j] # freq[b] /\ freq[j] <= freq[b] /\ freq[j] \in Nat /\ freq[b] \in Nat
    BY <1>7, <2>1, <2>2
  <2> QED
    BY <1>10, <2>3
<1> QED
  BY <1>7, <1>10, <1>11

(* One item more or less, and the sum with it.                             *)
Changed(freq, m, most, d, g) ==
  /\ freq \in [1 .. m -> Nat] /\ g \in [1 .. m -> Nat] /\ most \in 1 .. m /\ d \in Int
  /\ g[most] = freq[most] + d
  /\ \A c \in 1 .. m : c # most => g[c] = freq[c]

LEMMA OneChanged ==
  ASSUME NEW m \in Nat, NEW freq, NEW S, Sums(freq, m, S),
         NEW most, NEW d, NEW g, Changed(freq, m, most, d, g)
  PROVE  Total(g) = S[m] + d
<1> DEFINE R == [c \in 0 .. m |-> IF c < most THEN S[c] ELSE S[c] + d]
<1>0. freq \in [1 .. m -> Nat] /\ g \in [1 .. m -> Nat] /\ most \in 1 .. m /\ d \in Int
  BY DEF Changed
<1>2. \A c \in 1 .. m : g[c] = IF c = most THEN freq[c] + d ELSE freq[c]
  BY DEF Changed
<1>3. /\ S \in [0 .. m -> Int] /\ S[0] = 0
      /\ \A c \in 1 .. m : freq[c] \in Int /\ S[c] = S[c - 1] + freq[c]
  BY <1>0 DEF Sums
<1>4. \A c \in 0 .. m : R[c] = IF c < most THEN S[c] ELSE S[c] + d
  OBVIOUS
<1>5. R \in [0 .. m -> Int]
  <2>1. \A c \in 0 .. m : S[c] \in Int
    BY <1>3
  <2>2. \A c \in 0 .. m : S[c] + d \in Int
    BY <1>0, <2>1
  <2> QED
    BY <2>1, <2>2
<1> HIDE DEF R
<1>6. R[0] = 0
  <2>1. 0 \in 0 .. m /\ 0 < most
    BY <1>0
  <2> QED
    BY <1>3, <1>4, <2>1
<1>7. ASSUME NEW c \in 1 .. m PROVE g[c] \in Int /\ R[c] = R[c - 1] + g[c]
  <2>1. c \in 0 .. m /\ c - 1 \in 0 .. m
    OBVIOUS
  <2>2. S[c] = S[c - 1] + freq[c] /\ S[c - 1] \in Int /\ freq[c] \in Int
    BY <1>3, <2>1
  <2>3. PICK x \in Int, y \in Int : x = S[c - 1] /\ y = freq[c]
    BY <2>2
  <2>4. S[c] = x + y
    BY <2>2, <2>3
  <2>5. CASE c < most
    <3>2. c # most /\ c - 1 < most
      BY <1>0, <2>5
    <3>1. R[c] = x + y /\ R[c - 1] = x /\ g[c] = y
      BY <1>2, <1>4, <2>1, <2>3, <2>4, <2>5, <3>2
    <3> QED
      BY <1>0, <2>3, <3>1
  <2>6. CASE c = most
    <3>1. R[c] = (x + y) + d /\ R[c - 1] = x /\ g[c] = y + d
      BY <1>2, <1>4, <2>1, <2>3, <2>4, <2>6
    <3> QED
      BY SMTT(30), <1>0, <2>3, <3>1
  <2>7. CASE c > most
    <3>1. ~(c < most) /\ ~(c - 1 < most) /\ c # most
      BY <1>0, <2>7
    <3>2. R[c] = (x + y) + d /\ R[c - 1] = x + d /\ g[c] = y
      BY <1>2, <1>4, <2>1, <2>3, <2>4, <3>1
    <3> QED
      BY <1>0, <2>3, <3>2
  <2> QED
    BY <1>0, <2>5, <2>6, <2>7
<1>8. Sums(g, m, R)
  BY <1>5, <1>6, <1>7 DEF Sums
<1>9. Total(g) = R[m]
  BY <1>0, <1>8, SumsTotal
<1>10. R[m] = S[m] + d
  <2>1. m \in 0 .. m /\ ~(m < most)
    BY <1>0
  <2> QED
    BY <1>4, <2>1
<1> QED
  BY <1>9, <1>10

(* fse_normalize_freq: as many states as there are, and one at least for   *)
(* each symbol that occurs.                                                *)
LEMMA Normalized ==
  ASSUME NEW n \in 1 .. 1024, NEW m \in 1 .. n, NEW counts \in [1 .. m -> Nat]
  PROVE  /\ NormalizeFreq(n, counts) \in [1 .. m -> Nat]
         /\ Total(NormalizeFreq(n, counts)) = n
         /\ \A c \in 1 .. m : counts[c] > 0 => NormalizeFreq(n, counts)[c] > 0
<1>0. m \in Nat /\ m \in Nat \ {0} /\ n \in Nat /\ m <= n /\ DOMAIN counts = 1 .. m /\ m \in 0 .. m
  OBVIOUS
<1> DEFINE count == Total(counts)
           step == IF count = 0 THEN 0 ELSE 2^PrecisionBits \div count
           parts == 2^(PrecisionBits - 1) \div n
           rounded(t) == ((t * step) \div parts + 1) \div 2
           freq == [c \in 1 .. m |->
                     IF counts[c] # 0 /\ rounded(counts[c]) = 0 THEN 1 ELSE rounded(counts[c])]
           remaining == n - Total(freq)
           most == CHOOSE c \in DOMAIN freq :
                     /\ \A j \in DOMAIN freq : freq[j] <= freq[c]
                     /\ \A j \in 1 .. c - 1 : freq[j] < freq[c]
<1>1. count \in Nat
  <2>1. PICK S : Sums(counts, m, S)
    <3>1. counts \in [1 .. m -> Int]
      OBVIOUS
    <3> QED
      BY <1>0, <3>1, SumsExist
  <2>2. S[m] \in Nat
    <3>1. S \in [0 .. m -> Nat]
      BY <1>0, <2>1, SumsGrow
    <3> QED
      BY <1>0, <3>1
  <2> QED
    BY <1>0, <2>1, <2>2, SumsTotal
<1> HIDE DEF count
<1>2. step \in Nat
  <2>1. 2^PrecisionBits \in Nat
    BY PrecisionPower
  <2> QED
    BY <1>1, <2>1, QuotientNat
<1>3. parts \in Nat \ {0}
  BY PrecisionLeft, ZenonT(60)
<1> HIDE DEF step, parts
<1>4. \A t \in Nat : rounded(t) \in Nat
  <2> SUFFICES ASSUME NEW t \in Nat PROVE rounded(t) \in Nat
    OBVIOUS
  <2>1. PICK x \in Nat : x = t * step
    BY <1>2
  <2>2. x \div parts \in Nat
    BY <1>3, QuotientNat
  <2>3. PICK y \in Nat : y = x \div parts
    BY <2>2
  <2>4. (y + 1) \div 2 \in Nat
    OBVIOUS
  <2> QED
    BY <2>1, <2>3, <2>4
<1> HIDE DEF rounded
<1>5. freq \in [1 .. m -> Nat]
  <2>1. \A c \in 1 .. m : counts[c] \in Nat
    OBVIOUS
  <2> QED
    <3>1. \A c \in 1 .. m : rounded(counts[c]) \in Nat
      BY <1>4, <2>1, ZenonT(40)
    <3> QED
      BY <3>1, Zenon
<1>6. \A c \in 1 .. m : counts[c] > 0 => freq[c] > 0
  <2> SUFFICES ASSUME NEW c \in 1 .. m, counts[c] > 0 PROVE freq[c] > 0
    OBVIOUS
  <2>1. counts[c] \in Nat /\ rounded(counts[c]) \in Nat
    BY <1>4
  <2>2. freq[c] = IF counts[c] # 0 /\ rounded(counts[c]) = 0 THEN 1 ELSE rounded(counts[c])
    OBVIOUS
  <2> HIDE DEF freq
  <2> QED
    BY <2>1, <2>2
<1>7. Listed(freq) = freq
  <2> HIDE DEF freq
  <2> QED
    BY <1>0, <1>5, ListedIs
<1> DEFINE left(g) == n - Total(g)
           first(g) == CHOOSE c \in DOMAIN g : /\ \A j \in DOMAIN g : g[j] <= g[c]
                                              /\ \A j \in 1 .. c - 1 : g[j] < g[c]
           result(g) == IF -left(g) < g[first(g)] \div 4
                          THEN [g EXCEPT ![first(g)] = @ + left(g)]
                          ELSE AdjustFreqs(g, -left(g))
<1>8. NormalizeFreq(n, counts) =
        IF -remaining < freq[most] \div 4 THEN [freq EXCEPT ![most] = @ + remaining]
        ELSE AdjustFreqs(freq, -remaining)
  <2>1. Listed([c \in DOMAIN counts |->
                 IF counts[c] # 0 /\ rounded(counts[c]) = 0 THEN 1 ELSE rounded(counts[c])]) = freq
    BY <1>0, <1>7
  <2> HIDE DEF freq
  <2>2. NormalizeFreq(n, counts)
          = result(Listed([c \in DOMAIN counts |->
                 IF counts[c] # 0 /\ rounded(counts[c]) = 0 THEN 1 ELSE rounded(counts[c])]))
    BY DEF NormalizeFreq, count, step, parts, rounded
  <2>3. NormalizeFreq(n, counts) = result(freq)
    <3> HIDE DEF result
    <3> QED
      BY <2>1, <2>2
  <2> QED
    BY <2>3
<1> HIDE DEF result, left, first
<1> HIDE DEF freq
<1>9. PICK S : Sums(freq, m, S)
  <2>1. freq \in [1 .. m -> Int]
    BY <1>5
  <2> QED
    BY <1>0, <2>1, SumsExist
<1>10. Total(freq) = S[m] /\ S[m] \in Nat
  <2>1. S \in [0 .. m -> Nat]
    BY <1>0, <1>5, <1>9, SumsGrow
  <2> QED
    BY <1>0, <1>5, <1>9, <2>1, SumsTotal
<1>11. remaining \in Int /\ remaining = n - S[m]
  BY <1>0, <1>10
<1>12. most \in 1 .. m
  <2>1. \E c \in DOMAIN freq : /\ \A j \in DOMAIN freq : freq[j] <= freq[c]
                               /\ \A j \in 1 .. c - 1 : freq[j] < freq[c]
    <3>1. DOMAIN freq = 1 .. m
      BY <1>5
    <3> QED
      BY <1>0, <1>5, <3>1, FirstOfTheMost, ZenonT(60)
  <2>2. most \in DOMAIN freq
    BY <2>1
  <2> QED
    BY <1>5, <2>2
<1> HIDE DEF remaining, most
<1>13. PICK x \in Nat : x = freq[most]
  BY <1>5, <1>12
<1>14. x \div 4 \in Nat /\ x \div 4 <= x
  OBVIOUS
<1>15. CASE -remaining < freq[most] \div 4
  <2>0. -remaining < x \div 4
    BY <1>13, <1>15
  <2>6. PICK y \in Nat : y = x \div 4 /\ y <= x
    BY <1>14
  <2>1. x + remaining \in Nat /\ x + remaining > 0
    BY <1>11, <2>0, <2>6
  <2>5. freq[most] + remaining \in Nat
    BY <1>13, <2>1
  <2> DEFINE g == [freq EXCEPT ![most] = @ + remaining]
  <2>2. g \in [1 .. m -> Nat] /\ Total(g) = S[m] + remaining
    <3>1. remaining \in Int
      BY <1>11
    <3>2. PICK d \in Int : d = remaining
      BY <3>1
    <3>3. freq[most] + d \in Nat
      BY <2>5, <3>2
    <3>4. g[most] = freq[most] + d
      BY <1>5, <1>12, <3>2
    <3>7. \A c \in 1 .. m : c # most => g[c] = freq[c]
      BY <1>5, <1>12, <3>2
    <3>5. g \in [1 .. m -> Nat]
      BY <1>5, <1>12, <2>5
    <3> HIDE DEF g
    <3>6. Total(g) = S[m] + d
      <4>1. m \in Nat
        BY <1>0
      <4>2. Changed(freq, m, most, d, g)
        BY <1>5, <1>12, <3>2, <3>4, <3>5, <3>7, ZenonT(60) DEF Changed
      <4> QED
        BY <1>9, <4>1, <4>2, OneChanged
    <3> QED
      BY <3>2, <3>5, <3>6
  <2>3. S[m] + remaining = n
    BY <1>0, <1>10, <1>11
  <2>4. ASSUME NEW c \in 1 .. m, counts[c] > 0 PROVE g[c] > 0
    <3>1. g[c] = IF c = most THEN x + remaining ELSE freq[c]
      BY <1>5, <1>13
    <3> QED
      BY <1>6, <2>1, <2>4, <3>1
  <2> QED
    BY <1>8, <1>15, <2>2, <2>3, <2>4
<1>16. CASE ~(-remaining < freq[most] \div 4)
  <2>1. PICK over \in Nat : over = -remaining
    BY <1>11, <1>13, <1>14, <1>16
  <2>2. S[m] = n + over
    BY SMTT(30), <1>0, <1>10, <1>11, <2>1
  <2>3. NormalizeFreq(n, counts) = AdjustFreqs(freq, over)
    BY <1>8, <1>16, <2>1
  <2>4. /\ AdjustFreqs(freq, over) \in [1 .. m -> Nat]
        /\ Total(AdjustFreqs(freq, over)) = n
        /\ \A c \in 1 .. m : freq[c] > 0 => AdjustFreqs(freq, over)[c] > 0
    BY <1>0, <1>5, <1>9, <2>2, Adjusted, ZenonT(60)
  <2> QED
    BY <1>6, <2>3, <2>4
<1> QED
  BY <1>15, <1>16

----------------------------------------------------------------------------
(* The symbols of a block, and how often they occur.                       *)

LEMMA KindsAre ==
  ASSUME NEW kind \in Kinds
  PROVE  /\ Symbols[kind] \in Nat /\ States[kind] \in Nat
         /\ Symbols[kind] \in 20 .. 256 /\ States[kind] \in 64 .. 1024
         /\ 20 <= Symbols[kind] /\ Symbols[kind] <= 256
         /\ States[kind] <= 1024 /\ Symbols[kind] <= States[kind]
         /\ kind = "L" => Symbols[kind] = 20 /\ States[kind] = 64
         /\ kind = "M" => Symbols[kind] = 20 /\ States[kind] = 64
         /\ kind = "D" => Symbols[kind] = 64 /\ States[kind] = 256
         /\ kind = "literal" => Symbols[kind] = 256 /\ States[kind] = 1024
<1>1. kind = "L" \/ kind = "M" \/ kind = "D" \/ kind = "literal"
  BY DEF Kinds
<1>2. Symbols.L = 20 /\ Symbols.M = 20 /\ Symbols.D = 64 /\ Symbols.literal = 256
  BY DEF Symbols
<1>3. States.L = 64 /\ States.M = 64 /\ States.D = 256 /\ States.literal = 1024
  BY DEF States
<1> QED
  BY <1>1, <1>2, <1>3

LEMMA KindCounts ==
  ASSUME NEW kind \in Kinds
  PROVE  Symbols[kind] \in Nat /\ States[kind] \in Nat
BY KindsAre

LEMMA OccurrencesAre ==
  ASSUME NEW kind \in Kinds, NEW N \in Nat, NEW symbols \in [1 .. N -> Int]
  PROVE  /\ Occurrences(kind, symbols) \in [1 .. Symbols[kind] -> Nat]
         /\ \A t \in 1 .. N : symbols[t] \in 0 .. Symbols[kind] - 1
              => Occurrences(kind, symbols)[symbols[t] + 1] > 0
<1> DEFINE m == Symbols[kind]
           At(s) == {t \in DOMAIN symbols : symbols[t] = s - 1}
           o == [s \in 1 .. m |-> Cardinality(At(s))]
<1>1. m \in Nat
  <2> HIDE DEF o, At
  <2> QED
    BY KindCounts
<1>2. DOMAIN symbols = 1 .. N
  OBVIOUS
<1>3. ASSUME NEW s PROVE /\ Cardinality(At(s)) \in Nat
                         /\ Cardinality(At(s)) = 0 <=> At(s) = {}
  <2>1. IsFiniteSet(1 .. N)
    <3>1. 1 \in Int /\ N \in Int
      OBVIOUS
    <3> QED
      BY <3>1, FS_Interval
  <2>2. At(s) \in SUBSET (1 .. N)
    BY <1>2
  <2> HIDE DEF At
  <2>3. IsFiniteSet(At(s))
    BY <2>1, <2>2, FS_Subset
  <2>4. Cardinality(At(s)) \in Nat
    BY <2>3, FS_CardinalityType
  <2>5. Cardinality(At(s)) = 0 <=> At(s) = {}
    BY <2>3, FS_EmptySet
  <2> QED
    BY <2>4, <2>5
<1>4. o \in [1 .. m -> Nat]
  BY <1>3
<1>5. Occurrences(kind, symbols) = o
  <2>1. Listed(o) = o
    <3> HIDE DEF o, m
    <3> QED
      BY <1>1, <1>4, ListedIs
  <2> QED
    BY <2>1 DEF Occurrences
<1>6. ASSUME NEW t \in 1 .. N, symbols[t] \in 0 .. m - 1
      PROVE  o[symbols[t] + 1] > 0
  <2>1. PICK s \in Nat : s = symbols[t] + 1
    BY <1>6
  <2>2. s \in 1 .. m
    BY <1>1, <1>6, <2>1
  <2>3. symbols[t] = s - 1
    BY <1>6, <2>1
  <2>4. t \in At(s)
    BY <1>2, <2>3
  <2>5. Cardinality(At(s)) \in Nat /\ Cardinality(At(s)) # 0
    <3> HIDE DEF At
    <3> QED
      BY <1>3, <2>4
  <2>6. o[s] = Cardinality(At(s))
    BY <2>2
  <2> HIDE DEF o, At
  <2> QED
    BY <2>1, <2>5, <2>6
<1> HIDE DEF o
<1> QED
  BY <1>4, <1>5, <1>6

(* The last value below which there is none of T's.                        *)
LEMMA FirstAbove ==
  ASSUME NEW k \in Nat, NEW T \in SUBSET (0 .. k), k \in T
  PROVE  \E x \in 0 .. k : x \in T /\ (x # 0 => x - 1 \notin T)
<1>1. T \in SUBSET Nat /\ T # {}
  OBVIOUS
<1>2. PICK x \in T : \A y \in T : x <= y
  BY <1>1, LeastElement
<1>3. x \in 0 .. k /\ x \in Nat
  OBVIOUS
<1>4. ~(x <= x - 1)
  BY <1>3
<1> QED
  BY <1>2, <1>3, <1>4

(* The symbol of a value.                                                  *)
Fits(kind, value, s) ==
  BaseValue[kind][s] <= value /\ value < BaseValue[kind][s] + 2^ExtraBits[kind][s]

MostExtra == [L |-> 8, M |-> 11, D |-> 15]

LEMMA MaxDistance ==
  MaxValue.D \in Nat /\ MaxValue.D < 4 * (2^(15 + 1) - 1) /\ 4 * (2^(15 + 1) - 1) \in Nat
<1>1. MaxValue.D = 262139
  BY DEF MaxValue
<1>2. 2^(15 + 1) = 65536
  OBVIOUS
<1> QED
  BY <1>1, <1>2, SMT

LEMMA DistanceBase ==
  ASSUME NEW value \in 0 .. MaxValue.D
  PROVE  \E s \in 0 .. 63 : Fits("D", value, s)
<1> DEFINE T == {k \in 0 .. 15 : value < 4 * (2^(k + 1) - 1)}
<1>0. value \in Nat /\ value <= MaxValue.D /\ MaxValue.D \in Nat
  BY MaxDistance
<1>1. 2^0 = 1
  OBVIOUS
<1>2. 15 \in T
  BY <1>0, MaxDistance
<1>3. PICK k \in 0 .. 15 : k \in T /\ (k # 0 => k - 1 \notin T)
  <2>1. 15 \in Nat /\ T \in SUBSET (0 .. 15)
    OBVIOUS
  <2> HIDE DEF T
  <2> QED
    BY <1>2, <2>1, FirstAbove
<1>4. value < 4 * (2^(k + 1) - 1)
  BY <1>3
<1>5. PICK p \in Nat \ {0} : p = 2^k
  <2>1. k \in 0 .. 31
    OBVIOUS
  <2> QED
    BY <2>1, PowerPositive
<1>6. 2^(k + 1) = 2 * p
  <2>1. PICK l \in 1 .. 31 : l = k + 1
    OBVIOUS
  <2>2. l - 1 = k
    BY <2>1
  <2> QED
    BY <1>5, <2>1, <2>2, PowerDoubles
<1>7. 4 * (p - 1) <= value
  <2>1. CASE k = 0
    BY <1>0, <1>1, <1>5, <2>1
  <2>2. CASE k # 0
    <3>1. PICK l \in 0 .. 15 : l = k - 1
      BY <2>2
    <3>2. l \notin T
      BY <1>3, <2>2, <3>1
    <3>3. ~(value < 4 * (2^(l + 1) - 1))
      BY <3>2
    <3>4. l + 1 = k
      BY <3>1
    <3>5. ~(value < 4 * (p - 1))
      BY <1>5, <3>3, <3>4
    <3> QED
      BY <1>0, <3>5
  <2> QED
    BY <2>1, <2>2
<1> HIDE DEF T
<1>8. PICK x \in Nat : value = 4 * (p - 1) + x /\ x < 4 * p
  <2>1. value < 4 * (2 * p - 1)
    BY <1>4, <1>6
  <2>2. value - 4 * (p - 1) \in Nat /\ value - 4 * (p - 1) < 4 * p
    BY <1>0, <1>7, <2>1
  <2> QED
    BY <2>2
<1>9. PICK q \in 0 .. 3, r \in Nat : x = q * p + r /\ r < p
  <2>1. PICK q \in Nat, r \in 0 .. p - 1 : q = x \div p /\ r = x % p
    BY QuotientAndRest
  <2>2. x = q * p + r
    BY <2>1, QuotientAndRest
  <2>3. q < 4
    BY <1>8, <2>1, QuotientBelow
  <2>4. q \in 0 .. 3 /\ r \in Nat /\ r < p
    BY <2>1, <2>3
  <2> QED
    BY <2>2, <2>4, Zenon
<1>10. PICK s \in 0 .. 63 : s = 4 * k + q
  OBVIOUS
<1>11. s \div 4 = k /\ s % 4 = q
  BY <1>10
<1>12. ExtraBits.D[s] = k /\ BaseValue.D[s] = 4 * (p - 1) + q * p
  BY <1>5, <1>11 DEF ExtraBits, BaseValue
<1>13. value = (4 * (p - 1) + q * p) + r
  <2>1. q * p \in Nat
    OBVIOUS
  <2> QED
    BY <1>0, <1>8, <1>9, <2>1
<1>14. 4 * (p - 1) + q * p \in Nat
  OBVIOUS
<1>15. PICK b \in Nat : b = 4 * (p - 1) + q * p
  BY <1>14
<1>16. BaseValue.D[s] = b /\ 2^ExtraBits.D[s] = p /\ value = b + r
  BY <1>5, <1>12, <1>13, <1>15
<1>17. b <= value /\ value < b + p
  BY <1>9, <1>16
<1>18. Fits("D", value, s)
  BY <1>16, <1>17, SMT DEF Fits
<1> QED
  BY <1>10, <1>18, Zenon

LEMMA LiteralLengthBase ==
  ASSUME NEW value \in Nat, value <= MaxValue.L
  PROVE  \E s \in 0 .. 19 : Fits("L", value, s)
<1>1. 2^0 = 1 /\ 2^2 = 4 /\ 2^3 = 8 /\ 2^5 = 32 /\ 2^8 = 256 /\ 2^11 = 2048
  OBVIOUS
<1>2. CASE value < 16
  <2>1. value \in 0 .. 15 /\ value \in 0 .. 19
    BY <1>2
  <2>2. BaseValue["L"][value] = value /\ ExtraBits["L"][value] = 0
    BY <2>1 DEF BaseValue, ExtraBits
  <2>3. Fits("L", value, value)
    BY <1>1, <2>2 DEF Fits
  <2> QED
    BY <2>1, <2>3
<1>3. CASE 16 <= value /\ value <= 19
  <2>1. BaseValue["L"][16] = 16 /\ ExtraBits["L"][16] = 2
    BY DEF BaseValue, ExtraBits
  <2>2. Fits("L", value, 16)
    BY <1>1, <1>3, <2>1 DEF Fits
  <2>3. 16 \in 0 .. 19
    OBVIOUS
  <2> QED
    BY <2>2, <2>3
<1>4. CASE 20 <= value /\ value <= 27
  <2>1. BaseValue["L"][17] = 20 /\ ExtraBits["L"][17] = 3
    BY DEF BaseValue, ExtraBits
  <2>2. Fits("L", value, 17)
    BY <1>1, <1>4, <2>1 DEF Fits
  <2>3. 17 \in 0 .. 19
    OBVIOUS
  <2> QED
    BY <2>2, <2>3
<1>5. CASE 28 <= value /\ value <= 59
  <2>1. BaseValue["L"][18] = 28 /\ ExtraBits["L"][18] = 5
    BY DEF BaseValue, ExtraBits
  <2>2. Fits("L", value, 18)
    BY <1>1, <1>5, <2>1 DEF Fits
  <2>3. 18 \in 0 .. 19
    OBVIOUS
  <2> QED
    BY <2>2, <2>3
<1>6. CASE 60 <= value /\ value <= 315
  <2>1. BaseValue["L"][19] = 60 /\ ExtraBits["L"][19] = 8
    BY DEF BaseValue, ExtraBits
  <2>2. Fits("L", value, 19)
    BY <1>1, <1>6, <2>1 DEF Fits
  <2>3. 19 \in 0 .. 19
    OBVIOUS
  <2> QED
    BY <2>2, <2>3
<1>7. value <= 315
  BY DEF MaxValue
<1> QED
  BY <1>2, <1>3, <1>4, <1>5, <1>6, <1>7

LEMMA MatchLengthBase ==
  ASSUME NEW value \in Nat, value <= MaxValue.M
  PROVE  \E s \in 0 .. 19 : Fits("M", value, s)
<1>1. 2^0 = 1 /\ 2^2 = 4 /\ 2^3 = 8 /\ 2^5 = 32 /\ 2^8 = 256 /\ 2^11 = 2048
  OBVIOUS
<1>2. CASE value < 16
  <2>1. value \in 0 .. 15 /\ value \in 0 .. 19
    BY <1>2
  <2>2. BaseValue["M"][value] = value /\ ExtraBits["M"][value] = 0
    BY <2>1 DEF BaseValue, ExtraBits
  <2>3. Fits("M", value, value)
    BY <1>1, <2>2 DEF Fits
  <2> QED
    BY <2>1, <2>3
<1>3. CASE 16 <= value /\ value <= 23
  <2>1. BaseValue["M"][16] = 16 /\ ExtraBits["M"][16] = 3
    BY DEF BaseValue, ExtraBits
  <2>2. Fits("M", value, 16)
    BY <1>1, <1>3, <2>1 DEF Fits
  <2>3. 16 \in 0 .. 19
    OBVIOUS
  <2> QED
    BY <2>2, <2>3
<1>4. CASE 24 <= value /\ value <= 55
  <2>1. BaseValue["M"][17] = 24 /\ ExtraBits["M"][17] = 5
    BY DEF BaseValue, ExtraBits
  <2>2. Fits("M", value, 17)
    BY <1>1, <1>4, <2>1 DEF Fits
  <2>3. 17 \in 0 .. 19
    OBVIOUS
  <2> QED
    BY <2>2, <2>3
<1>5. CASE 56 <= value /\ value <= 311
  <2>1. BaseValue["M"][18] = 56 /\ ExtraBits["M"][18] = 8
    BY DEF BaseValue, ExtraBits
  <2>2. Fits("M", value, 18)
    BY <1>1, <1>5, <2>1 DEF Fits
  <2>3. 18 \in 0 .. 19
    OBVIOUS
  <2> QED
    BY <2>2, <2>3
<1>6. CASE 312 <= value /\ value <= 2359
  <2>1. BaseValue["M"][19] = 312 /\ ExtraBits["M"][19] = 11
    BY DEF BaseValue, ExtraBits
  <2>2. Fits("M", value, 19)
    BY <1>1, <1>6, <2>1 DEF Fits
  <2>3. 19 \in 0 .. 19
    OBVIOUS
  <2> QED
    BY <2>2, <2>3
<1>7. value <= 2359
  BY DEF MaxValue
<1> QED
  BY <1>2, <1>3, <1>4, <1>5, <1>6, <1>7

LEMMA ValueBase ==
  ASSUME NEW kind \in {"L", "M", "D"}, NEW value \in 0 .. MaxValue[kind]
  PROVE  \E s \in 0 .. Symbols[kind] - 1 : Fits(kind, value, s)
<1>1. Symbols.L - 1 = 19 /\ Symbols.M - 1 = 19 /\ Symbols.D - 1 = 63
  BY DEF Symbols
<1>2. CASE kind = "L"
  <2>1. value \in Nat /\ value <= MaxValue.L
    BY <1>2 DEF MaxValue
  <2> QED
    BY <1>1, <1>2, <2>1, LiteralLengthBase, Zenon
<1>3. CASE kind = "M"
  <2>1. value \in Nat /\ value <= MaxValue.M
    BY <1>3 DEF MaxValue
  <2> QED
    BY <1>1, <1>3, <2>1, MatchLengthBase, Zenon
<1>4. CASE kind = "D"
  <2>1. value \in 0 .. MaxValue.D
    BY <1>4
  <2>2. \E s \in 0 .. 63 : Fits("D", value, s)
    BY <2>1, DistanceBase, Zenon
  <2> QED
    BY <1>1, <1>4, <2>2, Zenon
<1> QED
  BY <1>2, <1>3, <1>4

LEMMA BaseIsSymbol ==
  ASSUME NEW kind \in {"L", "M", "D"}, NEW value \in 0 .. MaxValue[kind]
  PROVE  BaseFromValue(kind, value) \in 0 .. Symbols[kind] - 1
<1>1. DOMAIN BaseValue[kind] = 0 .. Symbols[kind] - 1
  <2>1. Symbols.L - 1 = 19 /\ Symbols.M - 1 = 19 /\ Symbols.D - 1 = 63
    BY DEF Symbols
  <2>2. DOMAIN BaseValue["L"] = 0 .. 19 /\ DOMAIN BaseValue["M"] = 0 .. 19 /\ DOMAIN BaseValue["D"] = 0 .. 63
    BY DEF BaseValue
  <2> QED
    BY <2>1, <2>2, Zenon
<1>2. \E s \in DOMAIN BaseValue[kind] : Fits(kind, value, s)
  BY <1>1, ValueBase
<1>3. BaseFromValue(kind, value) \in DOMAIN BaseValue[kind]
  BY <1>2, Zenon DEF BaseFromValue, Fits
<1> QED
  BY <1>1, <1>3

----------------------------------------------------------------------------
(* The encoder's tables.                                                   *)

(* What is coded.                                                          *)
BlockSound ==
  /\ block.literals \in Seq(0 .. 255) /\ Len(block.literals) % 4 = 0
  /\ block.triples \in Seq([L : 0 .. MaxValue.L, M : 0 .. MaxValue.M, D : 0 .. MaxValue.D]) \ {<<>>}
  /\ room \in Nat

(* The symbols' frequencies.                                               *)
FreqSound(freq) ==
  \A kind \in Kinds : freq[kind] \in [1 .. Symbols[kind] -> Nat] /\ Total(freq[kind]) = States[kind]

SymbolAt(kind, t) ==
  IF kind = "literal" THEN block.literals[t] ELSE BaseFromValue(kind, block.triples[t][kind])
Coded(kind) == IF kind = "literal" THEN Len(block.literals) ELSE Len(block.triples)

AllOccur(freq) ==
  \A kind \in Kinds : \A t \in 1 .. Coded(kind) : freq[kind][SymbolAt(kind, t) + 1] > 0

LEMMA CodedIs ==
  ASSUME BlockSound, NEW kind \in Kinds
  PROVE  Coded(kind) \in Nat /\ \A t \in 1 .. Coded(kind) : SymbolAt(kind, t) \in 0 .. Symbols[kind] - 1
<1>1. CASE kind = "literal"
  <2>1. Symbols[kind] - 1 = 255
    BY <1>1 DEF Symbols
  <2>2. block.literals \in Seq(0 .. 255)
    BY DEF BlockSound
  <2>3. Coded(kind) = Len(block.literals)
    BY <1>1 DEF Coded
  <2>4. Len(block.literals) \in Nat /\ block.literals \in [1 .. Len(block.literals) -> 0 .. 255]
    BY <2>2, LenProperties, ZenonT(60)
  <2>5. \A t : SymbolAt(kind, t) = block.literals[t]
    BY <1>1 DEF SymbolAt
  <2>6. \A t \in 1 .. Len(block.literals) : block.literals[t] \in 0 .. 255
    BY <2>4, Zenon
  <2>7. Coded(kind) \in Nat
    BY <2>3, <2>4
  <2>8. ASSUME NEW t \in 1 .. Coded(kind) PROVE SymbolAt(kind, t) \in 0 .. Symbols[kind] - 1
    <3>1. block.literals[t] \in 0 .. 255
      BY <2>3, <2>6
    <3>2. SymbolAt(kind, t) = block.literals[t]
      BY <2>5
    <3> QED
      BY <2>1, <3>1, <3>2
  <2> QED
    BY <2>7, <2>8
<1>2. CASE kind # "literal"
  <2>1. kind \in {"L", "M", "D"}
    BY <1>2 DEF Kinds
  <2> DEFINE Triples == [L : 0 .. MaxValue.L, M : 0 .. MaxValue.M, D : 0 .. MaxValue.D]
  <2>2. block.triples \in Seq(Triples)
    BY DEF BlockSound
  <2>3. Coded(kind) = Len(block.triples)
    BY <1>2 DEF Coded
  <2>4. \A x \in Triples : x.L \in 0 .. MaxValue.L /\ x.M \in 0 .. MaxValue.M /\ x.D \in 0 .. MaxValue.D
    OBVIOUS
  <2> HIDE DEF Triples
  <2>5. Len(block.triples) \in Nat /\ block.triples \in [1 .. Len(block.triples) -> Triples]
    BY <2>2, LenProperties
  <2>6. ASSUME NEW t \in 1 .. Len(block.triples)
        PROVE  BaseFromValue(kind, block.triples[t][kind]) \in 0 .. Symbols[kind] - 1
    <3>1. block.triples[t] \in Triples
      BY <2>5
    <3>2. block.triples[t][kind] \in 0 .. MaxValue[kind]
      BY <2>1, <2>4, <3>1
    <3> QED
      BY <2>1, <3>2, BaseIsSymbol
  <2>7. \A t : SymbolAt(kind, t) = BaseFromValue(kind, block.triples[t][kind])
    BY <1>2 DEF SymbolAt
  <2> QED
    BY <2>3, <2>5, <2>6, <2>7
<1> QED
  BY <1>1, <1>2

(* As the sequence whose symbols are counted.                              *)
LEMMA SymbolsListed ==
  ASSUME BlockSound, NEW kind \in Kinds
  PROVE  \E symbols \in [1 .. Coded(kind) -> Int] :
           /\ symbols = IF kind = "literal" THEN block.literals ELSE SymbolsOf(kind)
           /\ \A t \in 1 .. Coded(kind) : symbols[t] = SymbolAt(kind, t)
<1>1. CASE kind = "literal"
  <2>1. block.literals \in Seq(0 .. 255)
    BY DEF BlockSound
  <2>2. Len(block.literals) \in Nat /\ block.literals \in [1 .. Len(block.literals) -> 0 .. 255]
    BY <2>1, LenProperties, ZenonT(60)
  <2>3. Coded(kind) = Len(block.literals) /\ \A t : SymbolAt(kind, t) = block.literals[t]
    BY <1>1 DEF Coded, SymbolAt
  <2>5. ASSUME NEW t \in 1 .. Len(block.literals) PROVE block.literals[t] \in Int
    <3>1. block.literals[t] \in 0 .. 255
      BY <2>2, Zenon
    <3>2. \A x \in 0 .. 255 : x \in Int
      OBVIOUS
    <3> QED
      BY <3>1, <3>2, Zenon
  <2>6. block.literals = [t \in 1 .. Len(block.literals) |-> block.literals[t]]
    BY <2>2
  <2>4. block.literals \in [1 .. Coded(kind) -> Int]
    BY <2>3, <2>5, <2>6
  <2> QED
    BY <1>1, <2>3, <2>4
<1>2. CASE kind # "literal"
  <2> DEFINE s == [t \in 1 .. Coded(kind) |-> SymbolAt(kind, t)]
  <2>1. Coded(kind) \in Nat /\ \A t \in 1 .. Coded(kind) : SymbolAt(kind, t) \in Int
    <3>1. \A t \in 1 .. Coded(kind) : SymbolAt(kind, t) \in 0 .. Symbols[kind] - 1
      BY CodedIs
    <3>2. Symbols[kind] \in Nat
      BY KindsAre
    <3> QED
      BY <3>1, <3>2, CodedIs
  <2>2. s \in [1 .. Coded(kind) -> Int]
    BY <2>1
  <2>3. DOMAIN block.triples = 1 .. Coded(kind)
    <3>1. block.triples \in Seq([L : 0 .. MaxValue.L, M : 0 .. MaxValue.M, D : 0 .. MaxValue.D])
      BY DEF BlockSound
    <3>2. DOMAIN block.triples = 1 .. Len(block.triples)
      BY <3>1, LenProperties
    <3> QED
      BY <1>2, <3>2 DEF Coded
  <2>4. s = [t \in DOMAIN block.triples |-> BaseFromValue(kind, block.triples[t][kind])]
    BY <1>2, <2>3 DEF SymbolAt
  <2>5. Listed(s) = s
    <3> HIDE DEF s
    <3> QED
      BY <2>1, <2>2, ListedIs
  <2>6. SymbolsOf(kind) = s
    <3> HIDE DEF s
    <3> QED
      BY <2>4, <2>5 DEF SymbolsOf
  <2>7. \A t \in 1 .. Coded(kind) : s[t] = SymbolAt(kind, t)
    OBVIOUS
  <2> HIDE DEF s
  <2> QED
    BY <1>2, <2>2, <2>6, <2>7
<1> QED
  BY <1>1, <1>2

LEMMA FrequenciesSound ==
  ASSUME BlockSound
  PROVE  FreqSound(Frequencies) /\ AllOccur(Frequencies)
<1>1. ASSUME NEW kind \in Kinds
      PROVE  /\ Frequencies[kind] \in [1 .. Symbols[kind] -> Nat]
             /\ Total(Frequencies[kind]) = States[kind]
             /\ \A t \in 1 .. Coded(kind) : Frequencies[kind][SymbolAt(kind, t) + 1] > 0
  <2>1. PICK symbols \in [1 .. Coded(kind) -> Int] :
          /\ symbols = IF kind = "literal" THEN block.literals ELSE SymbolsOf(kind)
          /\ \A t \in 1 .. Coded(kind) : symbols[t] = SymbolAt(kind, t)
    BY SymbolsListed
  <2>2. PICK m \in Nat : m = Symbols[kind]
    BY KindsAre
  <2>3. PICK n \in Nat : n = States[kind]
    BY KindsAre
  <2>4. n \in 1 .. 1024 /\ m \in 1 .. n
    <3>1. 20 <= Symbols[kind] /\ States[kind] <= 1024 /\ Symbols[kind] <= States[kind]
      BY KindsAre
    <3>2. 20 <= m /\ n <= 1024 /\ m <= n
      BY <2>2, <2>3, <3>1
    <3>3. m \in Nat /\ n \in Nat
      BY <2>2, <2>3
    <3> QED
      BY <3>2, <3>3
  <2> DEFINE counts == Occurrences(kind, symbols)
  <2>5. counts \in [1 .. m -> Nat]
        /\ \A t \in 1 .. Coded(kind) : symbols[t] \in 0 .. m - 1 => counts[symbols[t] + 1] > 0
    <3>1. Coded(kind) \in Nat
      BY CodedIs
    <3> QED
      BY <2>1, <2>2, <3>1, OccurrencesAre
  <2>6. Frequencies[kind] = NormalizeFreq(n, counts)
    BY <2>1, <2>3 DEF Frequencies
  <2> HIDE DEF counts
  <2>7. /\ NormalizeFreq(n, counts) \in [1 .. m -> Nat]
        /\ Total(NormalizeFreq(n, counts)) = n
        /\ \A c \in 1 .. m : counts[c] > 0 => NormalizeFreq(n, counts)[c] > 0
    BY <2>4, <2>5, Normalized, ZenonT(60)
  <2>8. ASSUME NEW t \in 1 .. Coded(kind) PROVE Frequencies[kind][SymbolAt(kind, t) + 1] > 0
    <3>1. SymbolAt(kind, t) \in 0 .. m - 1
      BY <2>2, CodedIs
    <3>2. PICK c \in 1 .. m : c = SymbolAt(kind, t) + 1
      BY <3>1
    <3>3. counts[c] > 0
      BY <2>1, <2>5, <3>1, <3>2
    <3> QED
      BY <2>6, <2>7, <3>2, <3>3
  <2> QED
    BY <2>2, <2>3, <2>6, <2>7, <2>8
<1> QED
  BY <1>1 DEF FreqSound, AllOccur

(* What NormalizedFrequencies says.                                        *)
LEMMA SoundIsNormalized ==
  ASSUME BlockSound, FreqSound(header.freq), AllOccur(header.freq)
  PROVE  NormalizedFrequencies
<1>1. ASSUME NEW kind \in Kinds
      PROVE  /\ Total(header.freq[kind]) = States[kind]
             /\ kind = "literal" =>
                  \A t \in DOMAIN block.literals : header.freq.literal[block.literals[t] + 1] > 0
             /\ kind # "literal" =>
                  \A t \in DOMAIN block.triples : header.freq[kind][SymbolsOf(kind)[t] + 1] > 0
  <2>1. PICK symbols \in [1 .. Coded(kind) -> Int] :
          /\ symbols = IF kind = "literal" THEN block.literals ELSE SymbolsOf(kind)
          /\ \A t \in 1 .. Coded(kind) : symbols[t] = SymbolAt(kind, t)
    BY SymbolsListed
  <2>2. \A t \in 1 .. Coded(kind) : header.freq[kind][symbols[t] + 1] > 0
    BY <2>1 DEF AllOccur
  <2>3. DOMAIN block.literals = 1 .. Len(block.literals) /\ DOMAIN block.triples = 1 .. Len(block.triples)
    <3>1. block.literals \in Seq(0 .. 255)
      BY DEF BlockSound
    <3>2. block.triples \in Seq([L : 0 .. MaxValue.L, M : 0 .. MaxValue.M, D : 0 .. MaxValue.D])
      BY DEF BlockSound
    <3>3. DOMAIN block.literals = 1 .. Len(block.literals)
      BY <3>1, LenProperties
    <3>4. DOMAIN block.triples = 1 .. Len(block.triples)
      BY <3>2, LenProperties
    <3> QED
      BY <3>3, <3>4
  <2>4. Total(header.freq[kind]) = States[kind]
    BY DEF FreqSound
  <2>5. CASE kind = "literal"
    BY <2>1, <2>2, <2>3, <2>4, <2>5 DEF Coded
  <2>6. CASE kind # "literal"
    BY <2>1, <2>2, <2>3, <2>4, <2>6 DEF Coded
  <2> QED
    BY <2>5, <2>6
<1> QED
  BY <1>1 DEF NormalizedFrequencies

----------------------------------------------------------------------------
(* A step of the encoder.                                                  *)

Bit == {0, 1}

LEMMA BothAre ==
  ASSUME NEW T, NEW s \in Seq(T), NEW t \in Seq(T)
  PROVE  s \o t \in Seq(T) /\ Len(s \o t) = Len(s) + Len(t)
BY ConcatProperties

LEMMA BitsAre ==
  ASSUME NEW v \in Nat, NEW n \in Nat
  PROVE  Bits(v, n) \in Seq(Bit) /\ Len(Bits(v, n)) = n
<1>1. ASSUME NEW c \in 1 .. n PROVE (IF c > 30 THEN 0 ELSE (v \div 2^(c - 1)) % 2) \in Bit
  <2>1. CASE c > 30
    BY <2>1 DEF Bit
  <2>2. CASE ~(c > 30)
    <3>1. PICK l \in 0 .. 31 : l = c - 1
      BY <2>2
    <3>2. PICK p \in Nat \ {0} : p = 2^l
      BY PowerPositive
    <3>3. v \div p \in Nat
      BY QuotientNat
    <3>4. \A x \in Nat : x % 2 \in Bit
      BY DEF Bit
    <3> QED
      BY <2>2, <3>1, <3>2, <3>3, <3>4
  <2> QED
    BY <2>1, <2>2
<1>2. Bits(v, n) \in [1 .. n -> Bit]
  BY <1>1 DEF Bits
<1> QED
  BY <1>2, ListedIs

LEMMA ZerosAre ==
  ASSUME NEW n \in Nat
  PROVE  Zeros(n) \in Seq(Bit) /\ Len(Zeros(n)) = n
<1>1. Zeros(n) \in [1 .. n -> Bit]
  BY DEF Zeros, Bit
<1> QED
  BY <1>1, ListedIs

LEMMA EncoderEntrySound ==
  ASSUME NEW k \in 0 .. 15, NEW f \in 1 .. 2^k, NEW offset \in Nat, offset + f <= 2^k,
         NEW u, NEW s \in 0 .. 2^k - 1
  PROVE  LET e == EncoderEntry(2^k, f, offset, u)
         IN /\ NextState(e, s) \in 0 .. 2^k - 1
            /\ WrittenSpan(e, s) \in Spans(k)
            /\ WrittenValue(e, s) \in Nat
<1> DEFINE n == 2^k
           e == EncoderEntry(n, f, offset, u)
           j == NextState(e, s) - offset
<1>1. PowerOfTwo(n) /\ n \in Nat \ {0}
  <2>1. k \in 0 .. 31
    OBVIOUS
  <2> QED
    BY <2>1, PowersAre, PowerPositive
<1>2. j \in 0 .. f - 1 /\ DecoderEntry(n, f, j).span = WrittenSpan(e, s)
  BY <1>1, DecodingInvertsEncoding
<1>3. DecoderEntry(n, f, j).span \in Spans(k)
  <2> HIDE DEF j
  <2> QED
    BY <1>2, DecoderEntrySound
<1>4. WrittenSpan(e, s) \in Spans(k)
  BY <1>2, <1>3
<1> HIDE DEF e
<1>5. WrittenSpan(e, s) \in Nat \ {0}
  BY <1>4, SpanBits
<1>6. WrittenValue(e, s) \in Nat
  <2>1. s \in Nat
    BY <1>1
  <2> QED
    BY <1>5, <2>1, QuotientAndRest DEF WrittenValue
<1>7. NextState(e, s) \in Int
  BY <1>1, DecodingInvertsEncoding DEF e
<1>8. NextState(e, s) \in 0 .. n - 1
  BY <1>1, <1>2, <1>7
<1> QED
  BY <1>4, <1>6, <1>8 DEF e

LEMMA EncodeSound ==
  ASSUME NEW kind \in Kinds, NEW freq, NEW u, NEW symbol \in 0 .. Symbols[kind] - 1,
         freq[kind] \in [1 .. Symbols[kind] -> Nat], Total(freq[kind]) = States[kind],
         freq[kind][symbol + 1] > 0,
         NEW s \in 0 .. States[kind] - 1, NEW acc \in Seq(Bit)
  PROVE  LET r == Encode([table |-> EncoderTable(States[kind], freq[kind], u),
                          state |-> s, accum |-> acc], symbol)
         IN /\ r.state \in 0 .. States[kind] - 1
            /\ r.accum \in Seq(Bit)
            /\ Len(acc) <= Len(r.accum) /\ Len(r.accum) <= Len(acc) + StateBits[kind]
<1> DEFINE m == Symbols[kind]
           g == freq[kind]
           k == StateBits[kind]
           c == symbol + 1
           e == EncoderEntry(2^k, g[c], TotalBefore(g, c), u)
           w == BitCount(WrittenSpan(e, s))
           b == Bits(WrittenValue(e, s), w)
           r == Encode([table |-> EncoderTable(States[kind], g, u), state |-> s, accum |-> acc], symbol)
<1>1. m \in Nat /\ k \in 0 .. 10 /\ k \in 0 .. 15 /\ States[kind] = 2^k /\ 2^k \in Nat
  <2>1. k \in 0 .. 10 /\ States[kind] = 2^k
    BY StatesArePowers
  <2>2. k \in 0 .. 15 /\ k \in 0 .. 31
    BY <2>1
  <2> HIDE DEF k
  <2>3. 2^k \in Nat
    BY <2>2, PowerPositive
  <2> QED
    BY <2>1, <2>2, <2>3, KindCounts
<1>2. g \in [1 .. m -> Nat] /\ Total(g) = 2^k /\ g[c] > 0
  BY <1>1
<1>3. c \in 1 .. m /\ c \in 1 .. m + 1
  BY <1>1
<1> HIDE DEF m, k, g, c
<1>4. PICK S : Sums(g, m, S)
  <2>1. g \in [1 .. m -> Int]
    BY <1>2
  <2> QED
    BY <1>1, <2>1, SumsExist
<1>5. TotalBefore(g, c) = S[c - 1] /\ S[c - 1] \in Nat /\ S[c - 1] + g[c] <= 2^k /\ g[c] \in 1 .. 2^k
  <2>1. S[m] = 2^k
    BY <1>1, <1>2, <1>4, SumsTotal
  <2>2. TotalBefore(g, c) = S[c - 1]
    BY <1>1, <1>3, <1>4, TotalIs
  <2>3. S \in [0 .. m -> Nat] /\ g[c] <= S[m] /\ S[c - 1] + g[c] <= S[m]
    BY <1>1, <1>2, <1>3, <1>4, SumsGrow
  <2>4. c - 1 \in 0 .. m
    BY <1>1, <1>3
  <2>5. S[c - 1] \in Nat
    BY <2>3, <2>4
  <2>6. g[c] \in Nat
    BY <1>2, <1>3
  <2> QED
    BY <1>1, <1>2, <2>1, <2>2, <2>3, <2>5, <2>6
<1>6. s \in 0 .. 2^k - 1
  BY <1>1
<1>7. /\ NextState(e, s) \in 0 .. 2^k - 1
      /\ WrittenSpan(e, s) \in Spans(k)
      /\ WrittenValue(e, s) \in Nat
  <2>1. PICK o \in Nat : o = TotalBefore(g, c) /\ o + g[c] <= 2^k
    BY <1>5
  <2>2. PICK f \in 1 .. 2^k : f = g[c]
    BY <1>5
  <2>3. o + f <= 2^k
    BY <2>1, <2>2
  <2>4. e = EncoderEntry(2^k, f, o, u)
    BY <2>1, <2>2
  <2> HIDE DEF e
  <2> QED
    BY <1>1, <1>6, <2>3, <2>4, EncoderEntrySound
<1>8. EncoderTable(States[kind], g, u)[c] = e
  <2>1. c \in DOMAIN g
    BY <1>2, <1>3
  <2>2. g[c] # 0
    BY <1>5
  <2> QED
    BY <1>1, <2>1, <2>2 DEF EncoderTable
<1> HIDE DEF e
<1>9. w \in 0 .. k
  BY <1>1, <1>7, SpanBits
<1>10. b \in Seq(Bit) /\ Len(b) = w
  <2>1. w \in Nat
    BY <1>1, <1>9
  <2> HIDE DEF w
  <2> QED
    BY <1>7, <2>1, BitsAre
<1>11. r.state = NextState(e, s) /\ r.accum = acc \o b
  BY <1>8 DEF Encode, c
<1> HIDE DEF b, w, r
<1>12. acc \o b \in Seq(Bit) /\ Len(acc \o b) = Len(acc) + Len(b)
  BY <1>10, BothAre
<1>13. Len(acc) \in Nat
  BY LenProperties
<1>14. Len(acc) <= Len(r.accum) /\ Len(r.accum) <= Len(acc) + k
  BY <1>1, <1>9, <1>10, <1>11, <1>12, <1>13
<1>15. r.state \in 0 .. States[kind] - 1 /\ r.accum \in Seq(Bit)
  BY <1>1, <1>7, <1>11, <1>12
<1> QED
  BY <1>14, <1>15 DEF r, g, k

----------------------------------------------------------------------------
(* Sequences joined by halves.                                             *)

(* The recursion of Joined for sequences.                                  *)
JoinsSeqs(n, items, g) ==
  \A lo, hi \in 1 .. n :
    g[<<lo, hi>>] = IF lo = hi THEN items[lo]
                    ELSE g[<<lo, (lo + hi) \div 2>>] \o g[<<(lo + hi) \div 2 + 1, hi>>]

LEMMA JoinExists ==
  ASSUME NEW n \in Nat, NEW T, NEW items \in [1 .. n -> Seq(T)]
  PROVE  \E P \in [(1 .. n) \X (1 .. n) -> Seq(T)] : JoinsSeqs(n, items, P)
<1> DEFINE op == [p \in Seq(T) \X Seq(T) |-> p[1] \o p[2]]
<1>1. op \in [Seq(T) \X Seq(T) -> Seq(T)]
  <2>1. ASSUME NEW p \in Seq(T) \X Seq(T) PROVE p[1] \o p[2] \in Seq(T)
    <3>1. p[1] \in Seq(T) /\ p[2] \in Seq(T)
      OBVIOUS
    <3> QED
      BY <3>1, BothAre
  <2> QED
    BY <2>1
<1>2. \A s, t \in Seq(T) : op[<<s, t>>] = s \o t
  OBVIOUS
<1> HIDE DEF op
<1>3. <<>> \in Seq(T)
  OBVIOUS
<1>4. op[<<<<>>, <<>>>>] = <<>>
  BY <1>2, <1>3, ConcatEmptySeq
<1>5. PICK P : Parts(n, Seq(T), op, items, P)
  BY <1>1, <1>3, <1>4, PartsExist
<1>6. P \in [(1 .. n) \X (1 .. n) -> Seq(T)]
  BY <1>5 DEF Parts
<1>7. ASSUME NEW lo \in 1 .. n, NEW hi \in 1 .. n
      PROVE  P[<<lo, hi>>] = IF lo = hi THEN items[lo]
               ELSE P[<<lo, (lo + hi) \div 2>>] \o P[<<(lo + hi) \div 2 + 1, hi>>]
  <2>1. P[<<lo, hi>>] = IF lo = hi THEN items[lo]
          ELSE op[<<P[<<lo, (lo + hi) \div 2>>], P[<<(lo + hi) \div 2 + 1, hi>>]>>]
    BY <1>5 DEF Parts
  <2>2. CASE lo = hi
    BY <2>1, <2>2
  <2>3. CASE lo # hi
    <3>1. PICK mid \in 1 .. n : mid = (lo + hi) \div 2 /\ mid + 1 \in 1 .. n
      <4>1. CASE lo < hi
        BY <4>1, Middle
      <4>2. CASE hi < lo
        BY <4>2, Middle
      <4> QED
        BY <2>3, <4>1, <4>2
    <3>2. P[<<lo, mid>>] \in Seq(T) /\ P[<<mid + 1, hi>>] \in Seq(T)
      BY <1>6, <3>1
    <3>3. op[<<P[<<lo, mid>>], P[<<mid + 1, hi>>]>>] = P[<<lo, mid>>] \o P[<<mid + 1, hi>>]
      BY <1>2, <3>2
    <3> QED
      BY <2>1, <2>3, <3>1, <3>3
  <2> QED
    BY <2>2, <2>3
<1>8. JoinsSeqs(n, items, P)
  BY <1>7 DEF JoinsSeqs
<1> QED
  BY <1>6, <1>8

LEMMA JoinIs ==
  ASSUME NEW n \in Nat \ {0}, NEW T, NEW items \in [1 .. n -> Seq(T)], NEW g, JoinsSeqs(n, items, g)
  PROVE  /\ g[<<1, n>>] \in Seq(T)
         /\ (\A c \in 1 .. n : Len(items[c]) <= 14) => Len(g[<<1, n>>]) <= 14 * n
<1> DEFINE D == (1 .. n) \X (1 .. n)
           Short == \A c \in 1 .. n : Len(items[c]) <= 14
           G == {r \in D : g[r] \in Seq(T) /\ (Short => Len(g[r]) <= 14 * (r[2] - r[1] + 1))}
<1>1. \A lo, hi \in 1 .. n :
        <<lo, hi>> \in G <=> /\ g[<<lo, hi>>] \in Seq(T)
                             /\ Short => Len(g[<<lo, hi>>]) <= 14 * (hi - lo + 1)
  OBVIOUS
<1> HIDE DEF G, Short
<1>2. ASSUME NEW lo \in 1 .. n PROVE <<lo, lo>> \in G
  <2>1. g[<<lo, lo>>] = items[lo] /\ items[lo] \in Seq(T)
    BY DEF JoinsSeqs
  <2>2. Short => Len(items[lo]) <= 14
    BY DEF Short
  <2>3. 14 * (lo - lo + 1) = 14
    OBVIOUS
  <2> QED
    BY <1>1, <2>1, <2>2, <2>3
<1>3. ASSUME NEW lo \in 1 .. n, NEW hi \in 1 .. n, lo < hi,
             <<lo, (lo + hi) \div 2>> \in G, <<(lo + hi) \div 2 + 1, hi>> \in G
      PROVE  <<lo, hi>> \in G
  <2>1. PICK mid \in Nat : mid = (lo + hi) \div 2 /\ lo <= mid /\ mid < hi
    BY <1>3, Middle
  <2>2. mid \in 1 .. n /\ mid + 1 \in 1 .. n
    BY <2>1
  <2>3. g[<<lo, hi>>] = g[<<lo, mid>>] \o g[<<mid + 1, hi>>]
    <3>1. g[<<lo, hi>>] = IF lo = hi THEN items[lo]
            ELSE g[<<lo, (lo + hi) \div 2>>] \o g[<<(lo + hi) \div 2 + 1, hi>>]
      BY DEF JoinsSeqs
    <3>2. lo # hi
      BY <1>3
    <3> QED
      BY <2>1, <3>1, <3>2
  <2>4. g[<<lo, mid>>] \in Seq(T) /\ g[<<mid + 1, hi>>] \in Seq(T)
    BY <1>1, <1>3, <2>1, <2>2
  <2>5. /\ g[<<lo, hi>>] \in Seq(T)
        /\ Len(g[<<lo, hi>>]) = Len(g[<<lo, mid>>]) + Len(g[<<mid + 1, hi>>])
    <3>1. PICK a \in Seq(T), b \in Seq(T) : a = g[<<lo, mid>>] /\ b = g[<<mid + 1, hi>>]
      BY <2>4
    <3>2. a \o b \in Seq(T) /\ Len(a \o b) = Len(a) + Len(b)
      BY BothAre
    <3> QED
      BY <2>3, <3>1, <3>2
  <2>6. ASSUME Short PROVE Len(g[<<lo, hi>>]) <= 14 * (hi - lo + 1)
    <3>1. Len(g[<<lo, mid>>]) <= 14 * (mid - lo + 1) /\ Len(g[<<mid + 1, hi>>]) <= 14 * (hi - (mid + 1) + 1)
      BY <1>1, <1>3, <2>1, <2>2, <2>6
    <3>2. PICK a \in Nat, b \in Nat : a = Len(g[<<lo, mid>>]) /\ b = Len(g[<<mid + 1, hi>>])
      BY <2>4, LenProperties
    <3>3. a <= 14 * (mid - lo + 1) /\ b <= 14 * (hi - (mid + 1) + 1)
      BY <3>1, <3>2
    <3>4. a + b <= 14 * (hi - lo + 1)
      BY <2>1, <2>2, <3>3
    <3> QED
      BY <2>5, <3>2, <3>4
  <2> QED
    BY <1>1, <2>5, <2>6
<1>4. \A lo, hi \in 1 .. n : lo <= hi => <<lo, hi>> \in G
  BY <1>2, <1>3, ByHalves
<1>5. 1 \in 1 .. n /\ n \in 1 .. n /\ 1 <= n /\ n - 1 + 1 = n
  OBVIOUS
<1>6. <<1, n>> \in G
  BY <1>4, <1>5
<1> QED
  BY <1>1, <1>5, <1>6 DEF Short

----------------------------------------------------------------------------
(* The tables of a header.                                                 *)

LEMMA FreqCodeIs ==
  ASSUME NEW v \in Nat
  PROVE  EncodeFreqValue(v) \in Seq(Bit) /\ Len(EncodeFreqValue(v)) <= 14
<1>1. CASE v \in {0, 1}
  <2>1. EncodeFreqValue(v) = Bits(2 * v, 2) /\ 2 * v \in Nat
    BY <1>1 DEF EncodeFreqValue
  <2> QED
    BY <2>1, BitsAre
<1>2. CASE v \in {2, 3}
  <2>1. EncodeFreqValue(v) = Bits(4 * v - 7, 3) /\ 4 * v - 7 \in Nat
    BY <1>2 DEF EncodeFreqValue
  <2> QED
    BY <2>1, BitsAre
<1>3. CASE v \in 4 .. 7
  <2>1. EncodeFreqValue(v) = Bits(8 * v - 29, 5) /\ 8 * v - 29 \in Nat
    BY <1>3 DEF EncodeFreqValue
  <2> QED
    BY <2>1, BitsAre
<1>4. CASE v \in 8 .. 23
  <2>1. EncodeFreqValue(v) = Bits(7 + (v - 8) * 16, 8) /\ 7 + (v - 8) * 16 \in Nat
    BY <1>4 DEF EncodeFreqValue
  <2> QED
    BY <2>1, BitsAre
<1>5. CASE v > 23
  <2>1. EncodeFreqValue(v) = Bits(15 + (v - 24) * 16, 14) /\ 15 + (v - 24) * 16 \in Nat
    BY <1>5 DEF EncodeFreqValue
  <2> QED
    BY <2>1, BitsAre
<1> QED
  BY <1>1, <1>2, <1>3, <1>4, <1>5

LEMMA FourAre ==
  ASSUME NEW T, NEW s \in Seq(T), NEW t \in Seq(T), NEW x \in Seq(T), NEW y \in Seq(T)
  PROVE  /\ s \o t \o x \o y \in Seq(T)
         /\ Len(s \o t \o x \o y) = Len(s) + Len(t) + Len(x) + Len(y)
<1>1. PICK p \in Seq(T) : p = s \o t /\ Len(p) = Len(s) + Len(t)
  BY BothAre
<1>2. PICK q \in Seq(T) : q = p \o x /\ Len(q) = Len(p) + Len(x)
  BY BothAre
<1>3. q \o y \in Seq(T) /\ Len(q \o y) = Len(q) + Len(y)
  BY BothAre
<1> QED
  BY <1>1, <1>2, <1>3

LEMMA AllFreqsAre ==
  ASSUME NEW freq, \A kind \in Kinds : freq[kind] \in [1 .. Symbols[kind] -> Nat]
  PROVE  AllFreqs(freq) \in [1 .. 360 -> Nat] /\ Len(AllFreqs(freq)) = 360
<1>1. Symbols.L = 20 /\ Symbols.M = 20 /\ Symbols.D = 64 /\ Symbols.literal = 256
  BY DEF Symbols
<1>2. "L" \in Kinds /\ "M" \in Kinds /\ "D" \in Kinds /\ "literal" \in Kinds
  BY DEF Kinds
<1>3. ASSUME NEW kind \in Kinds PROVE freq[kind] \in Seq(Nat) /\ Len(freq[kind]) = Symbols[kind]
  <2>1. Symbols[kind] \in Nat /\ freq[kind] \in [1 .. Symbols[kind] -> Nat]
    BY KindCounts
  <2> QED
    BY <2>1, ListedIs
<1>4. PICK l \in Seq(Nat), m \in Seq(Nat), d \in Seq(Nat), b \in Seq(Nat) :
        l = freq.L /\ m = freq.M /\ d = freq.D /\ b = freq.literal
  BY <1>2, <1>3, Zenon
<1>5. Len(l) = 20 /\ Len(m) = 20 /\ Len(d) = 64 /\ Len(b) = 256
  <2>1. Len(freq["L"]) = Symbols["L"] /\ Len(freq["M"]) = Symbols["M"]
        /\ Len(freq["D"]) = Symbols["D"] /\ Len(freq["literal"]) = Symbols["literal"]
    BY <1>2, <1>3, Zenon
  <2> QED
    BY <1>1, <1>4, <2>1
<1>6. l \o m \o d \o b \in Seq(Nat) /\ Len(l \o m \o d \o b) = 360
  <2>1. /\ l \o m \o d \o b \in Seq(Nat)
        /\ Len(l \o m \o d \o b) = Len(l) + Len(m) + Len(d) + Len(b)
    BY <1>4, FourAre
  <2> QED
    BY <1>5, <2>1
<1>7. PICK z \in Seq(Nat) : z = l \o m \o d \o b /\ Len(z) = 360
  BY <1>6
<1>8. AllFreqs(freq) = z
  BY <1>4, <1>7 DEF AllFreqs
<1>9. z \in [1 .. Len(z) -> Nat]
  BY LenProperties
<1>10. Len(AllFreqs(freq)) = 360 /\ Len(z) = 360
  BY <1>7, <1>8
<1> QED
  BY <1>8, <1>9, <1>10, Zenon

LEMMA FinishedIs ==
  ASSUME NEW bits \in Seq(Bit)
  PROVE  /\ Finished(bits) \in Seq(Bit) /\ Len(Finished(bits)) % 8 = 0
         /\ Len(bits) <= Len(Finished(bits)) /\ Len(Finished(bits)) <= Len(bits) + 7
<1>1. PICK l \in Nat : l = Len(bits)
  BY LenProperties
<1>2. PICK z \in Nat : z = Padding(bits) /\ (l + z) % 8 = 0 /\ z <= 7
  <2>1. PICK r \in 0 .. 7 : r = (l + 7) % 8
    OBVIOUS
  <2>2. Padding(bits) = ((l + 7) - r) - l
    BY <1>1, <2>1 DEF Padding, WholeBytes
  <2>3. 7 - r \in Nat /\ (l + (7 - r)) % 8 = 0 /\ ((l + 7) - r) - l = 7 - r
    BY <2>1
  <2> QED
    BY <2>2, <2>3
<1>3. Zeros(z) \in Seq(Bit) /\ Len(Zeros(z)) = z
  BY ZerosAre
<1>4. Finished(bits) = bits \o Zeros(z)
  BY <1>2 DEF Finished
<1>5. Finished(bits) \in Seq(Bit) /\ Len(Finished(bits)) = l + z
  BY <1>1, <1>3, <1>4, BothAre
<1> QED
  BY <1>1, <1>2, <1>5

LEMMA FreqTableBitsAre ==
  ASSUME NEW freq, FreqSound(freq)
  PROVE  /\ FreqTableBits(freq) \in Seq(Bit)
         /\ Len(FreqTableBits(freq)) % 8 = 0 /\ Len(FreqTableBits(freq)) <= 5047
<1> DEFINE all == AllFreqs(freq)
           n == 360
           D == (1 .. n) \X (1 .. n)
           Unfold(g) == [r \in D |->
             IF r[1] = r[2] THEN EncodeFreqValue(all[r[1]])
             ELSE g[<<r[1], (r[1] + r[2]) \div 2>>] \o g[<<(r[1] + r[2]) \div 2 + 1, r[2]>>]]
           part == CHOOSE g : g = Unfold(g)
           codes == [c \in 1 .. n |-> EncodeFreqValue(all[c])]
<1>1. all \in [1 .. n -> Nat] /\ Len(all) = n
  <2>1. \A kind \in Kinds : freq[kind] \in [1 .. Symbols[kind] -> Nat]
    BY DEF FreqSound
  <2> QED
    BY <2>1, AllFreqsAre
<1>2. FreqTableBits(freq) = Finished(part[<<1, n>>])
  <2>1. n # 0
    OBVIOUS
  <2> HIDE DEF n
  <2>2. FreqTableBits(freq) =
          Finished(Joined(LAMBDA s, t : s \o t, LAMBDA j : EncodeFreqValue(all[j]), <<>>, n))
    BY <1>1 DEF FreqTableBits
  <2> QED
    BY <2>1, <2>2 DEF Joined
<1>3. n \in Nat /\ n \in Nat \ {0}
  OBVIOUS
<1> HIDE DEF n, all
<1>4. codes \in [1 .. n -> Seq(Bit)] /\ \A c \in 1 .. n : Len(codes[c]) <= 14
  BY <1>1, FreqCodeIs
<1>5. PICK P \in [D -> Seq(Bit)] : JoinsSeqs(n, codes, P)
  BY <1>3, <1>4, JoinExists
<1>6. P = Unfold(P)
  <2>1. ASSUME NEW lo \in 1 .. n, NEW hi \in 1 .. n
        PROVE  P[<<lo, hi>>] = IF lo = hi THEN EncodeFreqValue(all[lo])
                 ELSE P[<<lo, (lo + hi) \div 2>>] \o P[<<(lo + hi) \div 2 + 1, hi>>]
    BY <1>5 DEF JoinsSeqs
  <2>2. \A r \in D : P[r] = Unfold(P)[r]
    <3> SUFFICES ASSUME NEW r \in D PROVE P[r] = Unfold(P)[r]
      OBVIOUS
    <3>1. PICK lo \in 1 .. n, hi \in 1 .. n : r = <<lo, hi>>
      OBVIOUS
    <3>2. r[1] = lo /\ r[2] = hi
      BY <3>1
    <3>3. Unfold(P)[r] = IF lo = hi THEN EncodeFreqValue(all[lo])
            ELSE P[<<lo, (lo + hi) \div 2>>] \o P[<<(lo + hi) \div 2 + 1, hi>>]
      <4> HIDE DEF D
      <4> QED
        BY <3>2
    <3> HIDE DEF D, Unfold
    <3> QED
      BY <2>1, <3>1, <3>3
  <2> HIDE DEF Unfold
  <2>3. P = [r \in D |-> P[r]]
    BY <1>5
  <2>4. Unfold(P) = [r \in D |-> Unfold(P)[r]]
    BY DEF Unfold
  <2> HIDE DEF D
  <2> QED
    BY <2>2, <2>3, <2>4
<1>7. part = Unfold(part)
  <2> HIDE DEF Unfold
  <2> QED
    BY <1>6
<1> HIDE DEF part
<1>8. JoinsSeqs(n, codes, part)
  <2> SUFFICES ASSUME NEW lo \in 1 .. n, NEW hi \in 1 .. n
      PROVE  part[<<lo, hi>>] = IF lo = hi THEN codes[lo]
               ELSE part[<<lo, (lo + hi) \div 2>>] \o part[<<(lo + hi) \div 2 + 1, hi>>]
    BY DEF JoinsSeqs
  <2>1. <<lo, hi>> \in D /\ <<lo, hi>>[1] = lo /\ <<lo, hi>>[2] = hi
    OBVIOUS
  <2>2. Unfold(part)[<<lo, hi>>] = IF lo = hi THEN EncodeFreqValue(all[lo])
               ELSE part[<<lo, (lo + hi) \div 2>>] \o part[<<(lo + hi) \div 2 + 1, hi>>]
    <3> HIDE DEF D
    <3> QED
      BY <2>1
  <2>3. codes[lo] = EncodeFreqValue(all[lo])
    OBVIOUS
  <2> HIDE DEF Unfold, codes
  <2> QED
    BY <1>7, <2>2, <2>3
<1> HIDE DEF codes, Unfold, D
<1>9. PICK b \in Seq(Bit) : b = part[<<1, n>>] /\ Len(b) <= 14 * n
  BY <1>3, <1>4, <1>8, JoinIs
<1>10. 14 * n = 5040
  BY DEF n
<1>11. Finished(b) \in Seq(Bit) /\ Len(Finished(b)) % 8 = 0 /\ Len(Finished(b)) <= Len(b) + 7
  BY <1>9, FinishedIs
<1>12. PICK x \in Nat : x = Len(Finished(b)) /\ x % 8 = 0
  BY <1>11, LenProperties
<1>13. PICK y \in Nat : y = Len(b)
  BY <1>9, LenProperties
<1>14. x <= 5047
  BY <1>9, <1>10, <1>11, <1>12, <1>13
<1> QED
  BY <1>2, <1>9, <1>11, <1>12, <1>14

----------------------------------------------------------------------------
(* A turn of either loop of the encoder.                                   *)

LEMMA BaseIsNat ==
  ASSUME NEW kind \in {"L", "M", "D"}, NEW s \in 0 .. Symbols[kind] - 1
  PROVE  BaseValue[kind][s] \in Nat /\ ExtraBits[kind][s] \in 0 .. MostExtra[kind]
<1>1. Symbols.L - 1 = 19 /\ Symbols.M - 1 = 19 /\ Symbols.D - 1 = 63
  BY DEF Symbols
<1>2. MostExtra.L = 8 /\ MostExtra.M = 11 /\ MostExtra.D = 15
  BY DEF MostExtra
<1>3. CASE kind = "L"
  <2>1. s \in 0 .. 19
    BY <1>1, <1>3
  <2>2. BaseValue["L"][s] = (IF s < 16 THEN s ELSE <<16, 20, 28, 60>>[s - 15])
        /\ ExtraBits["L"][s] = (IF s < 16 THEN 0 ELSE <<2, 3, 5, 8>>[s - 15])
    BY <2>1 DEF BaseValue, ExtraBits
  <2>3. BaseValue["L"][s] \in Nat /\ ExtraBits["L"][s] \in 0 .. 8
    BY <2>1, <2>2
  <2> QED
    BY <1>2, <1>3, <2>3
<1>4. CASE kind = "M"
  <2>1. s \in 0 .. 19
    BY <1>1, <1>4
  <2>2. BaseValue["M"][s] = (IF s < 16 THEN s ELSE <<16, 24, 56, 312>>[s - 15])
        /\ ExtraBits["M"][s] = (IF s < 16 THEN 0 ELSE <<3, 5, 8, 11>>[s - 15])
    BY <2>1 DEF BaseValue, ExtraBits
  <2>3. BaseValue["M"][s] \in Nat /\ ExtraBits["M"][s] \in 0 .. 11
    BY <2>1, <2>2
  <2> QED
    BY <1>2, <1>4, <2>3
<1>5. CASE kind = "D"
  <2>1. s \in 0 .. 63
    BY <1>1, <1>5
  <2>2. PICK k \in 0 .. 15, q \in 0 .. 3 : s \div 4 = k /\ s % 4 = q
    BY <2>1
  <2>3. PICK p \in Nat \ {0} : p = 2^k
    <3>1. k \in 0 .. 31
      OBVIOUS
    <3> QED
      BY <3>1, PowerPositive
  <2>4. ExtraBits["D"][s] = k /\ BaseValue["D"][s] = 4 * (p - 1) + q * p
    BY <2>1, <2>2, <2>3 DEF ExtraBits, BaseValue
  <2>5. q * p \in Nat /\ 4 * (p - 1) \in Nat
    OBVIOUS
  <2>6. BaseValue["D"][s] \in Nat /\ ExtraBits["D"][s] \in 0 .. 15
    BY <2>4, <2>5
  <2> QED
    BY <1>2, <1>5, <2>6
<1> QED
  BY <1>3, <1>4, <1>5

LEMMA BaseFits ==
  ASSUME NEW kind \in {"L", "M", "D"}, NEW value \in 0 .. MaxValue[kind]
  PROVE  Fits(kind, value, BaseFromValue(kind, value))
<1>1. DOMAIN BaseValue[kind] = 0 .. Symbols[kind] - 1
  <2>1. Symbols.L - 1 = 19 /\ Symbols.M - 1 = 19 /\ Symbols.D - 1 = 63
    BY DEF Symbols
  <2>2. DOMAIN BaseValue["L"] = 0 .. 19 /\ DOMAIN BaseValue["M"] = 0 .. 19 /\ DOMAIN BaseValue["D"] = 0 .. 63
    BY DEF BaseValue
  <2> QED
    BY <2>1, <2>2, Zenon
<1>2. \E s \in DOMAIN BaseValue[kind] : Fits(kind, value, s)
  BY <1>1, ValueBase
<1> QED
  BY <1>2, Zenon DEF BaseFromValue, Fits

(* The tables of the encoder for frequencies.                              *)
TablesFor(freq) ==
  \E u : \A kind \in Kinds : table[kind] = EncoderTable(States[kind], freq[kind], u)

LEMMA EncodeValueSound ==
  ASSUME NEW kind \in {"L", "M", "D"}, NEW value \in 0 .. MaxValue[kind], NEW acc \in Seq(Bit),
         NEW freq, FreqSound(freq), TablesFor(freq), freq[kind][BaseFromValue(kind, value) + 1] > 0,
         header.lmdState[kind] \in 0 .. States[kind] - 1
  PROVE  LET r == EncodeValue(kind, value, acc)
         IN /\ r.state \in 0 .. States[kind] - 1
            /\ r.accum \in Seq(Bit)
            /\ Len(acc) <= Len(r.accum)
            /\ Len(r.accum) <= Len(acc) + (MostExtra[kind] + StateBits[kind])
<1>0. kind \in Kinds
  BY DEF Kinds
<1>1. PICK symbol \in 0 .. Symbols[kind] - 1 :
        symbol = BaseFromValue(kind, value) /\ Fits(kind, value, symbol)
  BY BaseIsSymbol, BaseFits
<1>2. PICK base \in Nat, k \in 0 .. MostExtra[kind] :
        base = BaseValue[kind][symbol] /\ k = ExtraBits[kind][symbol]
  BY BaseIsNat
<1>3. value - base \in Nat
  <2>1. base <= value
    BY <1>1, <1>2 DEF Fits
  <2>2. MaxValue[kind] \in Nat
    <3>1. MaxValue.L \in Nat /\ MaxValue.M \in Nat /\ MaxValue.D \in Nat
      BY DEF MaxValue
    <3> QED
      BY <3>1, Zenon
  <2>3. PICK v \in Nat : v = value
    BY <2>2
  <2> QED
    BY <2>1, <2>3
<1>4. PICK K \in Nat : K = MostExtra[kind]
  <2>1. MostExtra.L \in Nat /\ MostExtra.M \in Nat /\ MostExtra.D \in Nat
    BY DEF MostExtra
  <2> QED
    BY <2>1, Zenon
<1>5. k \in Nat /\ k <= K
  BY <1>2, <1>4
<1>6. PICK b \in Seq(Bit) : b = Bits(value - base, k) /\ Len(b) = k
  BY <1>3, <1>5, BitsAre
<1>7. PICK a \in Seq(Bit) : a = acc \o b /\ Len(a) = Len(acc) + Len(b)
  BY <1>6, BothAre
<1>8. PICK s \in 0 .. States[kind] - 1 : s = header.lmdState[kind]
  OBVIOUS
<1>9. PICK u : table[kind] = EncoderTable(States[kind], freq[kind], u)
  BY <1>0 DEF TablesFor
<1> DEFINE r == Encode([table |-> EncoderTable(States[kind], freq[kind], u), state |-> s, accum |-> a], symbol)
<1>10. EncodeValue(kind, value, acc) = r
  BY <1>1, <1>2, <1>6, <1>7, <1>8, <1>9 DEF EncodeValue
<1>11. /\ freq[kind] \in [1 .. Symbols[kind] -> Nat] /\ Total(freq[kind]) = States[kind]
       /\ freq[kind][symbol + 1] > 0
  BY <1>0, <1>1 DEF FreqSound
<1>12. /\ r.state \in 0 .. States[kind] - 1
       /\ r.accum \in Seq(Bit)
       /\ Len(a) <= Len(r.accum) /\ Len(r.accum) <= Len(a) + StateBits[kind]
  BY <1>0, <1>7, <1>11, EncodeSound
<1> HIDE DEF r
<1>13. PICK x \in Nat, y \in Nat, z \in Nat :
         x = Len(acc) /\ y = Len(r.accum) /\ z = StateBits[kind]
  <2>1. PICK n \in 0 .. 10 : n = StateBits[kind]
    BY <1>0, StatesArePowers
  <2>2. n \in Nat /\ n = StateBits[kind]
    BY <2>1
  <2>3. Len(acc) \in Nat /\ Len(r.accum) \in Nat
    BY <1>12, LenProperties
  <2> QED
    BY <2>2, <2>3
<1>14. x <= y /\ y <= x + (K + z)
  <2>1. Len(a) = x + k
    BY <1>6, <1>7, <1>13
  <2>2. x + k <= y /\ y <= (x + k) + z
    BY <1>12, <1>13, <2>1
  <2> QED
    BY SMTT(30), <1>5, <1>13, <2>2
<1> QED
  BY <1>4, <1>10, <1>12, <1>13, <1>14

(* The fields of a header, and its states below their numbers.             *)
Fields == {"freq", "rawBytes", "matches", "literals", "literalBits", "literalBytes",
           "lmdBits", "lmdBytes", "state", "lmdState"}
StatesSound(h) ==
  /\ \A j \in 0 .. 3 : h.state[j] \in 0 .. States.literal - 1
  /\ \A kind \in {"L", "M", "D"} : h.lmdState[kind] \in 0 .. States[kind] - 1


FlushPhases == {"flush literals", "flush matches"}
CodingPhases == {"literals", "matches"} \cup FlushPhases

(* What the loops keep of the tables and of their index, and the room they *)
(* have checked for.                                                       *)
TablesInv ==
  /\ FreqSound(header.freq) /\ AllOccur(header.freq) /\ TablesFor(header.freq)
  /\ header.literals = Len(block.literals)
IndexInv ==
  /\ phase \in {"literals", "flush literals"} => i \in 0 .. Len(block.literals) /\ i % 4 = 0
  /\ phase \in {"matches", "flush matches"} => i \in 0 .. Len(block.triples)
RoomInv ==
  /\ dst \in Seq(Bit)
  /\ phase \in FlushPhases => Size(dst) + 16 <= room
  /\ phase = "literals" \/ (phase = "matches" /\ i = 0) => Size(dst) + 8 <= room
  /\ phase = "matches" => Size(dst) <= room

(* The invariant of the encoder.                                           *)
EncoderInv ==
  /\ BlockSound
  /\ DOMAIN header = Fields /\ StatesSound(header)
  /\ phase = "tables" => accum = <<>> /\ dst = <<>>
  /\ accum \in Seq(Bit) /\ AccumulatorFits
  /\ phase \in CodingPhases => TablesInv /\ IndexInv /\ RoomInv

LEMMA EmptyHeaderSound == DOMAIN EmptyHeader = Fields /\ StatesSound(EmptyHeader)
<1>1. DOMAIN EmptyHeader = Fields
  BY DEF EmptyHeader, Fields
<1>2. \A j \in 0 .. 3 : EmptyHeader.state[j] = 0
  BY DEF EmptyHeader
<1>3. \A kind \in {"L", "M", "D"} : EmptyHeader.lmdState[kind] = 0
  BY DEF EmptyHeader
<1>4. \A kind \in Kinds : 0 \in 0 .. States[kind] - 1
  <2>1. \A kind \in Kinds : States[kind] \in 64 .. 1024
    BY KindsAre
  <2> QED
    BY <2>1
<1>5. "literal" \in Kinds /\ {"L", "M", "D"} \subseteq Kinds
  BY DEF Kinds
<1> QED
  BY <1>1, <1>2, <1>3, <1>4, <1>5 DEF StatesSound

LEMMA EncoderInit == InitEntropy => EncoderInv
<1> SUFFICES ASSUME InitEntropy PROVE EncoderInv
  OBVIOUS
<1>1. BlockSound
  <2>1. PICK input \in Inputs : block = input[1] /\ room = input[2]
    BY DEF InitEntropy
  <2> QED
    BY <2>1, InputsAssumption, Zenon DEF BlockSound
<1>2. header = EmptyHeader /\ phase = "tables" /\ accum = <<>> /\ dst = <<>>
  BY DEF InitEntropy
<1>3. accum \in Seq(Bit) /\ Len(accum) = 0
  BY <1>2
<1>4. AccumulatorFits
  BY <1>2, <1>3 DEF AccumulatorFits
<1>5. phase \notin CodingPhases
  BY <1>2 DEF CodingPhases, FlushPhases
<1> QED
  BY <1>1, <1>2, <1>3, <1>4, <1>5, EmptyHeaderSound DEF EncoderInv

(* A step that leaves the encoder alone.                                   *)
LEMMA EncoderRests ==
  ASSUME EncoderInv, UNCHANGED encoderVars, phase \notin FlushPhases,
         phase' \notin CodingPhases, phase' # "tables"
  PROVE  EncoderInv'
<1>1. block' = block /\ room' = room /\ header' = header /\ accum' = accum
  BY DEF encoderVars
<1>2. Len(accum) <= 7
  BY DEF EncoderInv, AccumulatorFits, FlushPhases
<1>3. AccumulatorFits'
  BY <1>1, <1>2 DEF AccumulatorFits, CodingPhases, FlushPhases
<1> QED
  BY <1>1, <1>3 DEF EncoderInv, BlockSound, StatesSound

LEMMA DstFullKeeps ==
  ASSUME EncoderInv, DstFull
  PROVE  EncoderInv'
<1>1. UNCHANGED encoderVars /\ phase' = "full" /\ ~HasRoom
  BY DEF DstFull
<1>2. phase \notin FlushPhases
  <2> SUFFICES ASSUME phase \in FlushPhases PROVE FALSE
    OBVIOUS
  <2>1. Needed = 0
    BY DEF Needed, FlushPhases
  <2>2. Size(dst) + 16 <= room /\ dst \in Seq(Bit) /\ room \in Nat
    BY DEF EncoderInv, RoomInv, CodingPhases, BlockSound
  <2>3. PICK l \in Nat : l = Len(dst)
    BY <2>2, LenProperties
  <2>4. PICK x \in Nat : x = Size(dst)
    <3>1. l \div 8 \in Nat
      BY <2>3, QuotientNat
    <3> QED
      BY <2>3, <3>1 DEF Size
  <2>5. x + 16 <= room /\ room \in Nat /\ ~(x + 0 <= room)
    BY <1>1, <2>1, <2>2, <2>4 DEF HasRoom
  <2> QED
    BY <2>4, <2>5
<1>3. phase' \notin CodingPhases /\ phase' # "tables"
  BY <1>1 DEF CodingPhases, FlushPhases
<1> QED
  BY <1>1, <1>2, <1>3, EncoderRests

LEMMA MakeTablesKeeps ==
  ASSUME EncoderInv, MakeTables
  PROVE  EncoderInv'
<1>1. /\ phase = "tables" /\ HasRoom /\ phase' = "literals" /\ i' = Len(block.literals)
      /\ block' = block /\ room' = room /\ accum' = accum /\ accum = <<>> /\ dst = <<>>
  BY DEF MakeTables, EncoderInv
<1>f. PICK freq : freq = Frequencies
  OBVIOUS
<1>2. \E u \in Undefined : table' = [kind \in Kinds |-> EncoderTable(States[kind], freq[kind], u)]
  BY <1>f DEF MakeTables
<1>3. /\ header' = [header EXCEPT
           !.freq = freq, !.matches = Len(block.triples), !.literals = Len(block.literals),
           !.rawBytes = Total([n \in DOMAIN block.triples |-> block.triples[n].L + block.triples[n].M])]
      /\ dst' = Zeros(8 * FixedSize) \o FreqTableBits(freq)
  BY <1>f DEF MakeTables
<1>4. BlockSound /\ BlockSound'
  BY <1>1 DEF EncoderInv, BlockSound
<1>5. FreqSound(freq) /\ AllOccur(freq)
  BY <1>4, <1>f, FrequenciesSound
<1>6. /\ DOMAIN header' = Fields /\ header'.freq = freq /\ header'.literals = Len(block.literals)
      /\ header'.state = header.state /\ header'.lmdState = header.lmdState
  <2>1. DOMAIN header = Fields
    BY DEF EncoderInv
  <2> QED
    BY <1>3, <2>1 DEF Fields
<1>7. StatesSound(header')
  <2>1. StatesSound(header)
    BY DEF EncoderInv
  <2> QED
    BY <1>6, <2>1 DEF StatesSound
<1>8. TablesInv'
  <2>1. FreqSound(header'.freq)
    BY <1>5, <1>6
  <2>2. AllOccur(header.freq)'
    BY <1>1, <1>5, <1>6 DEF AllOccur, Coded, SymbolAt
  <2>3. PICK u \in Undefined : \A kind \in Kinds : table'[kind] = EncoderTable(States[kind], freq[kind], u)
    BY <1>2
  <2> QED
    BY <1>1, <1>6, <2>1, <2>2, <2>3 DEF TablesInv, TablesFor
<1>9. RoomInv'
  <2>1. PICK b \in Seq(Bit) : b = FreqTableBits(freq) /\ Len(b) <= 5047
    BY <1>5, FreqTableBitsAre
  <2>2. PICK z \in Seq(Bit) : z = Zeros(8 * FixedSize) /\ Len(z) = 256
    <3>1. 8 * FixedSize \in Nat /\ 8 * FixedSize = 256
      BY DEF FixedSize
    <3> QED
      BY <3>1, ZerosAre
  <2>3. dst' = z \o b /\ z \o b \in Seq(Bit) /\ Len(z \o b) = Len(z) + Len(b)
    BY <1>3, <2>1, <2>2, BothAre
  <2>4. PICK l \in Nat : l = Len(b)
    BY <2>1, LenProperties
  <2>5. Size(dst') = (256 + l) \div 8
    BY <2>2, <2>3, <2>4 DEF Size
  <2>6. (256 + l) \div 8 \in Nat /\ (256 + l) \div 8 <= 662
    BY <2>1, <2>4
  <2>7. Size(dst) = 0
    BY <1>1, QuotientNat DEF EncoderInv, Size
  <2>8. 752 <= room /\ room \in Nat
    <3>1. Needed = 752
      BY <1>1 DEF Needed, FullHeaderSize, FixedSize
    <3>2. Size(dst) + 752 <= room /\ room \in Nat
      BY <1>1, <1>4, <3>1 DEF HasRoom, BlockSound
    <3> QED
      BY <2>7, <3>2
  <2>9. Size(dst') + 8 <= room
    BY <2>5, <2>6, <2>8
  <2> QED
    BY <1>1, <2>3, <2>9 DEF RoomInv, FlushPhases
<1>10. IndexInv'
  <2>1. Len(block.literals) \in Nat /\ Len(block.literals) % 4 = 0
    BY <1>4, LenProperties DEF BlockSound
  <2>2. Len(block.literals) \in 0 .. Len(block.literals)
    BY <2>1
  <2> QED
    BY <1>1, <2>1, <2>2 DEF IndexInv
<1>11. accum' \in Seq(Bit) /\ AccumulatorFits'
  <2>1. accum' = <<>> /\ accum' \in Seq(Bit) /\ Len(accum') = 0
    BY <1>1
  <2> QED
    BY <1>1, <2>1 DEF AccumulatorFits
<1> QED
  BY <1>1, <1>4, <1>6, <1>7, <1>8, <1>9, <1>10, <1>11 DEF EncoderInv

LEMMA EncodeLiteralSound ==
  ASSUME BlockSound, TablesInv, StatesSound(header),
         NEW j \in 0 .. 3, NEW c \in 1 .. Len(block.literals), NEW acc \in Seq(Bit)
  PROVE  LET r == Encode([table |-> table.literal, state |-> header.state[j], accum |-> acc],
                         block.literals[c])
         IN /\ r.state \in 0 .. States.literal - 1
            /\ r.accum \in Seq(Bit)
            /\ Len(acc) <= Len(r.accum) /\ Len(r.accum) <= Len(acc) + 10
<1>1. "literal" \in Kinds
  BY DEF Kinds
<1>2. c \in 1 .. Coded("literal") /\ block.literals[c] = SymbolAt("literal", c)
  BY DEF Coded, SymbolAt
<1>3. PICK symbol \in 0 .. Symbols["literal"] - 1 : symbol = block.literals[c]
  BY <1>1, <1>2, CodedIs
<1>4. PICK freq : freq = header.freq
  OBVIOUS
<1>5. freq["literal"][symbol + 1] > 0
  BY <1>1, <1>2, <1>3, <1>4 DEF TablesInv, AllOccur
<1>6. freq["literal"] \in [1 .. Symbols["literal"] -> Nat] /\ Total(freq["literal"]) = States["literal"]
  BY <1>1, <1>4 DEF TablesInv, FreqSound
<1>7. PICK u : table["literal"] = EncoderTable(States["literal"], freq["literal"], u)
  BY <1>1, <1>4 DEF TablesInv, TablesFor
<1>8. PICK s \in 0 .. States["literal"] - 1 : s = header.state[j]
  BY DEF StatesSound
<1> DEFINE r == Encode([table |-> EncoderTable(States["literal"], freq["literal"], u),
                        state |-> s, accum |-> acc], symbol)
<1>9. /\ r.state \in 0 .. States["literal"] - 1
      /\ r.accum \in Seq(Bit)
      /\ Len(acc) <= Len(r.accum) /\ Len(r.accum) <= Len(acc) + StateBits["literal"]
  BY <1>1, <1>3, <1>5, <1>6, <1>8, EncodeSound
<1>10. StateBits["literal"] = 10
  BY DEF StateBits
<1>11. Encode([table |-> table.literal, state |-> header.state[j], accum |-> acc], block.literals[c]) = r
  BY <1>3, <1>7, <1>8
<1> HIDE DEF r
<1> QED
  BY <1>9, <1>10, <1>11

LEMMA EncodeLiteralsKeeps ==
  ASSUME EncoderInv, EncodeLiterals
  PROVE  EncoderInv'
<1> DEFINE After(acc, j) ==
      Encode([table |-> table.literal, state |-> header.state[j], accum |-> acc], block.literals[i - 3 + j])
<1>1. /\ phase = "literals" /\ i > 0 /\ HasRoom /\ i' = i - 4 /\ phase' = "flush literals"
      /\ block' = block /\ room' = room /\ table' = table /\ dst' = dst
  BY DEF EncodeLiterals
<1>2. /\ BlockSound /\ DOMAIN header = Fields /\ StatesSound(header) /\ TablesInv /\ RoomInv
      /\ accum \in Seq(Bit) /\ i \in 0 .. Len(block.literals) /\ i % 4 = 0
  BY <1>1 DEF EncoderInv, IndexInv, CodingPhases
<1>3. PICK l \in Nat : l = Len(block.literals)
  BY <1>2, LenProperties DEF BlockSound
<1>4. PICK n \in 0 .. l : n = i /\ n > 0 /\ n % 4 = 0
  BY <1>1, <1>2, <1>3
<1>5. /\ n - 3 + 0 \in 1 .. l /\ n - 3 + 1 \in 1 .. l /\ n - 3 + 2 \in 1 .. l /\ n - 3 + 3 \in 1 .. l
      /\ n - 4 \in 0 .. l /\ (n - 4) % 4 = 0
  BY <1>4
<1>6. ASSUME NEW j \in 0 .. 3, NEW acc \in Seq(Bit), n - 3 + j \in 1 .. l
      PROVE  /\ After(acc, j).state \in 0 .. States.literal - 1
             /\ After(acc, j).accum \in Seq(Bit)
             /\ Len(acc) <= Len(After(acc, j).accum) /\ Len(After(acc, j).accum) <= Len(acc) + 10
  <2>1. PICK c \in 1 .. Len(block.literals) : c = i - 3 + j
    BY <1>3, <1>4, <1>6
  <2> HIDE DEF After
  <2>2. After(acc, j) = Encode([table |-> table.literal, state |-> header.state[j], accum |-> acc], block.literals[c])
    BY <2>1 DEF After
  <2> QED
    BY <1>2, <2>2, EncodeLiteralSound
<1> DEFINE t3 == After(accum, 3)
           t2 == After(t3.accum, 2)
           t1 == After(t2.accum, 1)
           t0 == After(t1.accum, 0)
<1>7. /\ accum' = t0.accum
      /\ header' = [header EXCEPT !.state =
           [j \in 0 .. 3 |-> <<t0.state, t1.state, t2.state, t3.state>>[j + 1]]]
  BY DEF EncodeLiterals
<1> HIDE DEF After
<1>8. /\ t3.state \in 0 .. States.literal - 1 /\ t3.accum \in Seq(Bit)
      /\ Len(t3.accum) <= Len(accum) + 10
  BY <1>2, <1>5, <1>6
<1>9. /\ t2.state \in 0 .. States.literal - 1 /\ t2.accum \in Seq(Bit)
      /\ Len(t2.accum) <= Len(t3.accum) + 10
  <2> HIDE DEF t3
  <2> QED
    BY <1>5, <1>6, <1>8
<1>10. /\ t1.state \in 0 .. States.literal - 1 /\ t1.accum \in Seq(Bit)
       /\ Len(t1.accum) <= Len(t2.accum) + 10
  <2> HIDE DEF t2
  <2> QED
    BY <1>5, <1>6, <1>9
<1>11. /\ t0.state \in 0 .. States.literal - 1 /\ t0.accum \in Seq(Bit)
       /\ Len(t0.accum) <= Len(t1.accum) + 10
  <2> HIDE DEF t1
  <2> QED
    BY <1>5, <1>6, <1>10
<1>12. PICK s0, s1, s2, s3 \in 0 .. States.literal - 1 :
         s0 = t0.state /\ s1 = t1.state /\ s2 = t2.state /\ s3 = t3.state
  BY <1>8, <1>9, <1>10, <1>11, Zenon
<1>13. Len(t0.accum) <= 64
  <2> HIDE DEF t0, t1, t2, t3
  <2>1. Len(accum) <= 7
    BY <1>1 DEF EncoderInv, AccumulatorFits
  <2>2. PICK a, x0, x1, x2, x3 \in Nat :
          a = Len(accum) /\ x0 = Len(t0.accum) /\ x1 = Len(t1.accum) /\ x2 = Len(t2.accum) /\ x3 = Len(t3.accum)
    BY <1>2, <1>8, <1>9, <1>10, <1>11, LenProperties, Zenon
  <2>3. a <= 7 /\ x3 <= a + 10 /\ x2 <= x3 + 10 /\ x1 <= x2 + 10 /\ x0 <= x1 + 10
    BY <1>8, <1>9, <1>10, <1>11, <2>1, <2>2, Zenon
  <2>4. x0 <= 64
    BY SMTT(30), <2>2, <2>3
  <2> QED
    BY <2>2, <2>4, Zenon
<1> HIDE DEF t0, t1, t2, t3
<1>14. /\ DOMAIN header' = Fields
       /\ header'.state = [j \in 0 .. 3 |-> <<s0, s1, s2, s3>>[j + 1]]
       /\ header'.lmdState = header.lmdState /\ header'.freq = header.freq
       /\ header'.literals = header.literals
  BY <1>2, <1>7, <1>12 DEF Fields
<1>15. StatesSound(header')
  <2>1. ASSUME NEW j \in 0 .. 3 PROVE header'.state[j] \in 0 .. States.literal - 1
    <3>1. header'.state[j] = <<s0, s1, s2, s3>>[j + 1]
      BY <1>14
    <3>2. j = 0 \/ j = 1 \/ j = 2 \/ j = 3
      OBVIOUS
    <3> QED
      BY <1>12, <3>1, <3>2
  <2> QED
    BY <1>2, <1>14, <2>1 DEF StatesSound
<1>16. accum' \in Seq(Bit) /\ AccumulatorFits'
  BY <1>1, <1>7, <1>11, <1>13, Zenon DEF AccumulatorFits
<1>17. TablesInv'
  BY <1>1, <1>2, <1>14 DEF TablesInv, AllOccur, TablesFor, Coded, SymbolAt
<1>18. Size(dst) + 16 <= room
  <2>1. phase = "literals" /\ i > 0 /\ HasRoom
    BY <1>1, Zenon
  <2>2. Needed = 16
    BY <2>1 DEF Needed
  <2> QED
    BY <2>1, <2>2 DEF HasRoom
<1>19. RoomInv'
  BY <1>1, <1>2, <1>18, Zenon DEF RoomInv, FlushPhases
<1>20. IndexInv'
  <2>1. i' \in 0 .. Len(block'.literals) /\ i' % 4 = 0
    BY <1>1, <1>3, <1>4, <1>5
  <2> QED
    BY <1>1, <2>1, Zenon DEF IndexInv
<1> QED
  BY <1>1, <1>2, <1>14, <1>15, <1>16, <1>17, <1>19, <1>20, Zenon DEF EncoderInv, BlockSound

LEMMA EncodeMatchKeeps ==
  ASSUME EncoderInv, EncodeMatch
  PROVE  EncoderInv'
<1>1. /\ phase = "matches" /\ i > 0 /\ HasRoom /\ i' = i - 1 /\ phase' = "flush matches"
      /\ block' = block /\ room' = room /\ table' = table /\ dst' = dst
  BY DEF EncodeMatch
<1>2. /\ BlockSound /\ DOMAIN header = Fields /\ StatesSound(header) /\ TablesInv /\ RoomInv
      /\ accum \in Seq(Bit) /\ i \in 0 .. Len(block.triples)
  BY <1>1, Zenon DEF EncoderInv, IndexInv, CodingPhases, FlushPhases
<1>3. PICK freq : freq = header.freq /\ FreqSound(freq) /\ AllOccur(freq) /\ TablesFor(freq)
  BY <1>2 DEF TablesInv
<1>4. PICK k \in Nat : k = Len(block.triples)
  BY <1>2, LenProperties DEF BlockSound
<1>5. PICK n \in 1 .. k : n = i
  <2>1. phase = "matches" /\ i > 0 /\ i \in 0 .. k
    BY <1>1, <1>2, <1>4, Zenon
  <2> QED
    BY <1>4, <2>1
<1>6. PICK value : value = block.triples[n]
  OBVIOUS
<1>7. ASSUME NEW kind \in {"L", "M", "D"}
      PROVE  value[kind] \in 0 .. MaxValue[kind] /\ freq[kind][BaseFromValue(kind, value[kind]) + 1] > 0
  <2>1. kind \in Kinds /\ kind # "literal"
    BY DEF Kinds
  <2>2. Coded(kind) = k
    BY <1>4, <2>1 DEF Coded
  <2>3. SymbolAt(kind, n) = BaseFromValue(kind, value[kind])
    BY <1>6, <2>1 DEF SymbolAt
  <2>4. freq[kind][SymbolAt(kind, n) + 1] > 0
    BY <1>3, <1>5, <2>1, <2>2 DEF AllOccur
  <2>5. block.triples \in [1 .. k -> [L : 0 .. MaxValue.L, M : 0 .. MaxValue.M, D : 0 .. MaxValue.D]]
    BY <1>2, <1>4, LenProperties, Zenon DEF BlockSound
  <2>6. value \in [L : 0 .. MaxValue.L, M : 0 .. MaxValue.M, D : 0 .. MaxValue.D]
    BY <1>5, <1>6, <2>5, Zenon
  <2>7. value.L \in 0 .. MaxValue.L /\ value.M \in 0 .. MaxValue.M /\ value.D \in 0 .. MaxValue.D
    BY <2>6, Zenon
  <2>8. value[kind] \in 0 .. MaxValue[kind]
    BY <2>7, Zenon
  <2> QED
    BY <2>3, <2>4, <2>8
<1>8. ASSUME NEW kind \in {"L", "M", "D"}, NEW acc \in Seq(Bit)
      PROVE  LET r == EncodeValue(kind, value[kind], acc)
             IN /\ r.state \in 0 .. States[kind] - 1
                /\ r.accum \in Seq(Bit)
                /\ Len(acc) <= Len(r.accum)
                /\ Len(r.accum) <= Len(acc) + (MostExtra[kind] + StateBits[kind])
  <2>1. header.lmdState[kind] \in 0 .. States[kind] - 1
    BY <1>2 DEF StatesSound
  <2>2. PICK v \in 0 .. MaxValue[kind] : v = value[kind] /\ freq[kind][BaseFromValue(kind, v) + 1] > 0
    BY <1>7
  <2> QED
    BY <1>3, <2>1, <2>2, EncodeValueSound
<1>9. MostExtra["L"] + StateBits["L"] = 14 /\ MostExtra["M"] + StateBits["M"] = 17
      /\ MostExtra["D"] + StateBits["D"] = 23
  BY DEF MostExtra, StateBits
<1> DEFINE d == EncodeValue("D", block.triples[i].D, accum)
           m == EncodeValue("M", block.triples[i].M, d.accum)
           l == EncodeValue("L", block.triples[i].L, m.accum)
<1>10. /\ accum' = l.accum
       /\ header' = [header EXCEPT !.lmdState = [L |-> l.state, M |-> m.state, D |-> d.state]]
  BY DEF EncodeMatch
<1>11. block.triples[i].L = value["L"] /\ block.triples[i].M = value["M"] /\ block.triples[i].D = value["D"]
  BY <1>5, <1>6, Zenon
<1>12. /\ d.state \in 0 .. States["D"] - 1 /\ d.accum \in Seq(Bit)
       /\ Len(d.accum) <= Len(accum) + 23
  <2>1. d = EncodeValue("D", value["D"], accum)
    BY <1>11
  <2> HIDE DEF d
  <2> QED
    BY <1>2, <1>8, <1>9, <2>1
<1>13. /\ m.state \in 0 .. States["M"] - 1 /\ m.accum \in Seq(Bit)
       /\ Len(m.accum) <= Len(d.accum) + 17
  <2> HIDE DEF d
  <2>1. m = EncodeValue("M", value["M"], d.accum)
    BY <1>11
  <2> HIDE DEF m
  <2> QED
    BY <1>8, <1>9, <1>12, <2>1
<1>14. /\ l.state \in 0 .. States["L"] - 1 /\ l.accum \in Seq(Bit)
       /\ Len(l.accum) <= Len(m.accum) + 14
  <2> HIDE DEF m
  <2>1. l = EncodeValue("L", value["L"], m.accum)
    BY <1>11
  <2> HIDE DEF l
  <2> QED
    BY <1>8, <1>9, <1>13, <2>1
<1> HIDE DEF d, m, l
<1>15. Len(l.accum) <= 64
  <2>1. Len(accum) <= 7
    BY <1>1 DEF EncoderInv, AccumulatorFits
  <2>2. PICK a, x0, x1, x2 \in Nat : a = Len(accum) /\ x0 = Len(l.accum) /\ x1 = Len(m.accum) /\ x2 = Len(d.accum)
    BY <1>2, <1>12, <1>13, <1>14, LenProperties, Zenon
  <2>3. a <= 7 /\ x2 <= a + 23 /\ x1 <= x2 + 17 /\ x0 <= x1 + 14
    BY <1>12, <1>13, <1>14, <2>1, <2>2, Zenon
  <2>4. x0 <= 64
    BY <2>2, <2>3
  <2> QED
    BY <2>2, <2>4, Zenon
<1>16. /\ DOMAIN header' = Fields
       /\ header'.lmdState = [L |-> l.state, M |-> m.state, D |-> d.state]
       /\ header'.state = header.state /\ header'.freq = header.freq
       /\ header'.literals = header.literals
  BY <1>2, <1>10 DEF Fields
<1>17. StatesSound(header')
  <2>1. ASSUME NEW kind \in {"L", "M", "D"} PROVE header'.lmdState[kind] \in 0 .. States[kind] - 1
    <3>1. header'.lmdState["L"] = l.state /\ header'.lmdState["M"] = m.state /\ header'.lmdState["D"] = d.state
      BY <1>16
    <3> QED
      BY <1>12, <1>13, <1>14, <3>1, Zenon
  <2> QED
    BY <1>2, <1>16, <2>1, Zenon DEF StatesSound
<1>18. accum' \in Seq(Bit) /\ AccumulatorFits'
  BY <1>1, <1>10, <1>14, <1>15, Zenon DEF AccumulatorFits
<1>19. TablesInv'
  BY <1>1, <1>2, <1>16, Zenon DEF TablesInv, AllOccur, TablesFor, Coded, SymbolAt
<1>20. Size(dst) + 16 <= room
  <2>1. phase = "matches" /\ i > 0 /\ HasRoom
    BY <1>1, Zenon
  <2>2. Needed = 16
    BY <2>1 DEF Needed
  <2> QED
    BY <2>1, <2>2 DEF HasRoom
<1>21. RoomInv'
  BY <1>1, <1>2, <1>20, Zenon DEF RoomInv, FlushPhases
<1>22. IndexInv'
  <2>1. n - 1 \in 0 .. k
    BY <1>5
  <2>2. i' \in 0 .. Len(block'.triples)
    BY <1>1, <1>4, <1>5, <2>1, Zenon
  <2> QED
    BY <1>1, <2>2, Zenon DEF IndexInv
<1> QED
  BY <1>1, <1>2, <1>16, <1>17, <1>18, <1>19, <1>21, <1>22, Zenon DEF EncoderInv, BlockSound

LEMMA FieldIs ==
  ASSUME NEW T, NEW s \in Seq(T), NEW a \in Nat, NEW n \in Nat, a + n <= Len(s)
  PROVE  Field(s, a, n) \in Seq(T) /\ Len(Field(s, a, n)) = n
<1>1. PICK l \in Nat : l = Len(s)
  BY LenProperties
<1>2. s \in [1 .. l -> T]
  BY <1>1, LenProperties
<1>3. PICK lo \in Int, hi \in Int : lo = a + 1 /\ hi = a + n /\ (lo <= hi \/ n = 0)
  OBVIOUS
<1>4. ASSUME NEW x \in lo .. hi PROVE s[x] \in T
  <2>1. x \in 1 .. l
    BY <1>1, <1>3
  <2> QED
    BY <1>2, <2>1
<1>5. /\ SubSeq(s, lo, hi) \in Seq(T)
      /\ Len(SubSeq(s, lo, hi)) = IF lo <= hi THEN hi - lo + 1 ELSE 0
  BY <1>4, SubSeqProperties
<1>6. (IF lo <= hi THEN hi - lo + 1 ELSE 0) = n
  BY <1>3
<1>7. Field(s, a, n) = SubSeq(s, lo, hi)
  BY <1>3 DEF Field
<1> QED
  BY <1>5, <1>6, <1>7

LEMMA WholeBytesAre ==
  ASSUME NEW n \in Nat
  PROVE  /\ WholeBytes(n) \in Nat /\ WholeBytes(n) % 8 = 0 /\ n % 8 \in 0 .. 7
         /\ WholeBytes(n) + (n % 8) = n
BY DEF WholeBytes

LEMMA FlushedIs ==
  ASSUME NEW acc \in Seq(Bit)
  PROVE  /\ Flushed(acc) \in Seq(Bit) /\ Len(Flushed(acc)) <= Len(acc)
         /\ Kept(acc) \in Seq(Bit) /\ Len(Kept(acc)) <= 7
<1>1. PICK n \in Nat : n = Len(acc)
  BY LenProperties
<1>2. PICK w \in Nat, k \in 0 .. 7 : w = WholeBytes(n) /\ k = n % 8 /\ w + k = n
  BY WholeBytesAre
<1>3. /\ 0 \in Nat /\ k \in Nat /\ 0 + w <= n /\ w + k <= n
  BY <1>2
<1>4. Field(acc, 0, w) \in Seq(Bit) /\ Len(Field(acc, 0, w)) = w
  BY <1>1, <1>3, FieldIs
<1>5. Field(acc, w, k) \in Seq(Bit) /\ Len(Field(acc, w, k)) = k
  BY SMTT(30), <1>1, <1>3, FieldIs
<1>6. Flushed(acc) = Field(acc, 0, w) /\ Kept(acc) = Field(acc, w, k)
  BY <1>1, <1>2 DEF Flushed, Kept
<1> QED
  BY <1>1, <1>2, <1>4, <1>5, <1>6

LEMMA SizeIs ==
  ASSUME NEW bits \in Seq(Bit)
  PROVE  /\ Size(bits) \in Nat
         /\ \A t \in Seq(Bit) : Len(t) <= 64 => Size(bits \o t) <= Size(bits) + 8
         /\ \A t \in Seq(Bit) : Len(t) % 8 = 0 => Size(bits \o t) = Size(bits) + Size(t)
<1>1. PICK n \in Nat : n = Len(bits)
  BY LenProperties
<1>2. Size(bits) = n \div 8 /\ n \div 8 \in Nat
  BY <1>1, QuotientNat DEF Size
<1>3. ASSUME NEW t \in Seq(Bit)
      PROVE  \E k \in Nat : k = Len(t) /\ Size(bits \o t) = (n + k) \div 8 /\ Size(t) = k \div 8
  <2>1. PICK k \in Nat : k = Len(t)
    BY LenProperties
  <2>2. Len(bits \o t) = n + k
    BY <1>1, <2>1, BothAre
  <2> QED
    BY <2>1, <2>2 DEF Size
<1>4. ASSUME NEW t \in Seq(Bit), Len(t) <= 64 PROVE Size(bits \o t) <= Size(bits) + 8
  <2>1. PICK k \in Nat : k = Len(t) /\ Size(bits \o t) = (n + k) \div 8 /\ Size(t) = k \div 8
    BY <1>3
  <2>2. k <= 64
    BY <1>4, <2>1
  <2>3. (n + k) \div 8 <= (n \div 8) + 8
    BY <2>2
  <2> QED
    BY <1>2, <2>1, <2>3
<1>5. ASSUME NEW t \in Seq(Bit), Len(t) % 8 = 0 PROVE Size(bits \o t) = Size(bits) + Size(t)
  <2>1. PICK k \in Nat : k = Len(t) /\ Size(bits \o t) = (n + k) \div 8 /\ Size(t) = k \div 8
    BY <1>3
  <2>2. k % 8 = 0
    BY <1>5, <2>1
  <2>3. (n + k) \div 8 = (n \div 8) + (k \div 8)
    BY <2>2
  <2> QED
    BY <1>2, <2>1, <2>3
<1> QED
  BY <1>2, <1>4, <1>5

LEMMA FlushOutKeeps ==
  ASSUME EncoderInv, FlushOut
  PROVE  EncoderInv'
<1>1. /\ phase \in FlushPhases /\ dst' = dst \o Flushed(accum) /\ accum' = Kept(accum)
      /\ phase' = (IF phase = "flush literals" THEN "literals" ELSE "matches")
      /\ block' = block /\ room' = room /\ i' = i /\ header' = header /\ table' = table
  BY DEF FlushOut, FlushPhases
<1>2. /\ BlockSound /\ DOMAIN header = Fields /\ StatesSound(header) /\ TablesInv
      /\ accum \in Seq(Bit) /\ dst \in Seq(Bit) /\ IndexInv /\ Size(dst) + 16 <= room /\ room \in Nat
  BY <1>1, Zenon DEF EncoderInv, RoomInv, CodingPhases, BlockSound
<1>3. Len(accum) <= 64
  BY <1>1, Zenon DEF EncoderInv, AccumulatorFits, FlushPhases
<1>4. PICK t \in Seq(Bit), k \in Seq(Bit) :
        t = Flushed(accum) /\ k = Kept(accum) /\ Len(t) <= Len(accum) /\ Len(k) <= 7
  BY <1>2, FlushedIs
<1>5. Len(t) <= 64
  <2>1. Len(t) \in Nat /\ Len(accum) \in Nat
    BY <1>2, <1>4, LenProperties
  <2> QED
    BY <1>3, <1>4, <2>1
<1>6. dst' \in Seq(Bit) /\ Size(dst') <= Size(dst) + 8 /\ Size(dst') \in Nat /\ Size(dst) \in Nat
  <2>1. dst \o t \in Seq(Bit)
    BY <1>2, <1>4, BothAre
  <2>2. Size(dst \o t) <= Size(dst) + 8 /\ Size(dst \o t) \in Nat /\ Size(dst) \in Nat
    BY <1>2, <1>4, <1>5, <2>1, SizeIs
  <2> QED
    BY <1>1, <1>4, <2>1, <2>2, Zenon
<1>7. Size(dst') + 8 <= room /\ Size(dst') <= room
  <2>1. PICK x \in Nat, y \in Nat, z \in Nat : x = Size(dst') /\ y = Size(dst) /\ z = room
    BY <1>2, <1>6
  <2>2. x <= y + 8 /\ y + 16 <= z
    BY <1>2, <1>6, <2>1, Zenon
  <2>3. x + 8 <= z /\ x <= z
    BY <2>1, <2>2
  <2> QED
    BY <2>1, <2>3, Zenon
<1>8. phase' \notin FlushPhases /\ phase' \in {"literals", "matches"}
  BY <1>1, Zenon DEF FlushPhases
<1>9. RoomInv'
  BY <1>1, <1>6, <1>7, <1>8, Zenon DEF RoomInv
<1>10. IndexInv'
  BY <1>1, <1>2, Zenon DEF IndexInv, FlushPhases
<1>11. accum' \in Seq(Bit) /\ AccumulatorFits'
  BY <1>1, <1>4, <1>8, Zenon DEF AccumulatorFits, FlushPhases
<1>12. TablesInv'
  BY <1>1, <1>2, Zenon DEF TablesInv, AllOccur, TablesFor, Coded, SymbolAt
<1>13. phase' # "tables"
  BY <1>8, Zenon
<1> QED
  BY <1>1, <1>2, <1>9, <1>10, <1>11, <1>12, <1>13, Zenon DEF EncoderInv, BlockSound, StatesSound

LEMMA NonemptyIs ==
  ASSUME NEW T, NEW s \in Seq(T), s # <<>>
  PROVE  Len(s) \in Nat \ {0}
<1>1. Len(s) \in Nat
  BY LenProperties
<1>2. Len(s) # 0
  BY EmptySeq
<1> QED
  BY <1>1, <1>2

LEMMA RoomLeft ==
  ASSUME NEW x \in Nat, NEW y \in Nat, NEW v \in Nat, NEW w \in Nat, NEW r \in Nat,
         x <= v + 8, v = y + w, y + (w + 8) <= r
  PROVE  x <= r
OBVIOUS

LEMMA FinishLiteralsKeeps ==
  ASSUME EncoderInv, FinishLiterals
  PROVE  EncoderInv'
<1>1. /\ phase = "literals" /\ i = 0 /\ HasRoom /\ accum' = <<>> /\ i' = Len(block.triples)
      /\ phase' = "matches" /\ block' = block /\ room' = room /\ table' = table
      /\ dst' = (dst \o Finished(accum)) \o Zeros(64)
  BY DEF FinishLiterals
<1>2. /\ BlockSound /\ DOMAIN header = Fields /\ StatesSound(header) /\ TablesInv
      /\ accum \in Seq(Bit) /\ dst \in Seq(Bit) /\ room \in Nat
  BY <1>1, Zenon DEF EncoderInv, RoomInv, CodingPhases, BlockSound
<1>3. PICK bits, bytes :
        header' = [header EXCEPT !.literalBits = bits, !.literalBytes = bytes]
  BY DEF FinishLiterals
<1>4. /\ DOMAIN header' = Fields /\ header'.freq = header.freq /\ header'.state = header.state
      /\ header'.lmdState = header.lmdState /\ header'.literals = header.literals
  BY <1>2, <1>3 DEF Fields
<1>5. PICK f \in Seq(Bit) : f = Finished(accum) /\ Len(f) % 8 = 0
  BY <1>2, FinishedIs
<1>6. PICK z \in Seq(Bit) : z = Zeros(64) /\ Len(z) <= 64
  <2>1. PICK n \in Nat : n = 64 /\ n <= 64
    OBVIOUS
  <2>2. Zeros(n) \in Seq(Bit) /\ Len(Zeros(n)) = n
    BY ZerosAre
  <2> QED
    BY <2>1, <2>2, Zenon
<1>7. PICK w \in Seq(Bit) : w = dst \o f /\ Size(w) = Size(dst) + Size(f)
  BY <1>2, <1>5, BothAre, SizeIs
<1>8. dst' = w \o z /\ dst' \in Seq(Bit) /\ Size(dst') <= Size(w) + 8
  <2>1. dst' = w \o z
    BY <1>1, <1>5, <1>6, <1>7, Zenon
  <2>2. w \o z \in Seq(Bit)
    BY <1>6, <1>7, BothAre
  <2>3. Size(w \o z) <= Size(w) + 8
    BY <1>6, <1>7, SizeIs
  <2> QED
    BY <2>1, <2>2, <2>3, Zenon
<1>9. Size(dst) + (Size(f) + 8) <= room
  <2>1. phase = "literals" /\ i = 0 /\ HasRoom
    BY <1>1, Zenon
  <2>2. Needed = Size(Finished(accum)) + 8
    BY <2>1 DEF Needed
  <2> QED
    BY <1>5, <2>1, <2>2 DEF HasRoom
<1>10. Size(dst') <= room
  <2>1. Size(dst') \in Nat /\ Size(dst) \in Nat /\ Size(w) \in Nat /\ Size(f) \in Nat
    BY <1>2, <1>5, <1>7, <1>8, SizeIs, Zenon
  <2> QED
    BY <1>2, <1>7, <1>8, <1>9, <2>1, RoomLeft, Zenon
<1>11. i' \in 0 .. Len(block.triples) /\ i' # 0
  <2>1. block.triples \in Seq([L : 0 .. MaxValue.L, M : 0 .. MaxValue.M, D : 0 .. MaxValue.D]) /\ block.triples # <<>>
    BY <1>2, Zenon DEF BlockSound
  <2>2. PICK n \in Nat \ {0} : n = Len(block.triples)
    BY <2>1, NonemptyIs, Zenon
  <2>3. n \in 0 .. n /\ n # 0
    OBVIOUS
  <2> QED
    BY <1>1, <2>2, <2>3, Zenon
<1>12. RoomInv'
  BY <1>1, <1>8, <1>10, <1>11, Zenon DEF RoomInv, FlushPhases
<1>13. IndexInv'
  BY <1>1, <1>11, Zenon DEF IndexInv
<1>14. accum' \in Seq(Bit) /\ AccumulatorFits'
  <2>1. accum' = <<>> /\ phase' = "matches"
    BY <1>1, Zenon
  <2>2. accum' \in Seq(Bit) /\ Len(accum') <= 7
    BY <2>1
  <2> QED
    BY <2>1, <2>2, Zenon DEF AccumulatorFits
<1>15. TablesInv'
  BY <1>1, <1>2, <1>4, Zenon DEF TablesInv, AllOccur, TablesFor, Coded, SymbolAt
<1> QED
  BY <1>1, <1>2, <1>4, <1>12, <1>13, <1>14, <1>15, Zenon DEF EncoderInv, BlockSound, StatesSound

LEMMA FinishMatchesKeeps ==
  ASSUME EncoderInv, FinishMatches
  PROVE  EncoderInv'
<1>1. /\ accum' = <<>> /\ phase' = "encoded" /\ block' = block /\ room' = room
  BY DEF FinishMatches
<1>2. BlockSound /\ DOMAIN header = Fields /\ StatesSound(header)
  BY DEF EncoderInv
<1>3. PICK bits, bytes : header' = [header EXCEPT !.lmdBits = bits, !.lmdBytes = bytes]
  BY DEF FinishMatches
<1>4. DOMAIN header' = Fields /\ header'.state = header.state /\ header'.lmdState = header.lmdState
  BY <1>2, <1>3 DEF Fields
<1>5. accum' \in Seq(Bit) /\ AccumulatorFits'
  <2>1. accum' \in Seq(Bit) /\ Len(accum') <= 7
    BY <1>1
  <2> QED
    BY <1>1, <2>1, Zenon DEF AccumulatorFits
<1> QED
  BY <1>1, <1>2, <1>4, <1>5, Zenon DEF EncoderInv, BlockSound, StatesSound, CodingPhases, FlushPhases

----------------------------------------------------------------------------
(* The encoder, then the decoder with any source of whole bytes that holds *)
(* the fixed part of a header.                                             *)

Sources == {s \in Seq(Bit) : Len(s) % 8 = 0 /\ Len(s) >= 8 * FixedSize}
GiveAny == Given(Sources)

AnySpec ==
  InitEntropy /\ [][NextEncode \/ NextDecode \/ GiveAny]_<<encoderVars, decoderVars, phase>>

DecoderPhases ==
  {"given", "flush in literals", "pull literals", "flush in matches", "pull match", "decoded", "error"}

LEMMA DecoderLeavesEncoder ==
  ASSUME NextDecode
  PROVE  UNCHANGED encoderVars /\ phase \in DecoderPhases /\ phase' \in DecoderPhases
<1>1. CASE ReadHeader
  BY <1>1, Zenon DEF ReadHeader, Fails, DecoderPhases
<1>2. CASE FlushIn
  BY <1>2, Zenon DEF FlushIn, Fails, DecoderPhases
<1>3. CASE DecodeLiterals
  BY <1>3, Zenon DEF DecodeLiterals, DecoderPhases
<1>4. CASE StartMatches
  BY <1>4, Zenon DEF StartMatches, Fails, DecoderPhases
<1>5. CASE DecodeMatch
  BY <1>5, Zenon DEF DecodeMatch, DecoderPhases
<1>6. CASE DecodedBlock
  BY <1>6, Zenon DEF DecodedBlock, DecoderPhases
<1> QED
  BY <1>1, <1>2, <1>3, <1>4, <1>5, <1>6, Zenon DEF NextDecode

LEMMA EncoderStep ==
  ASSUME EncoderInv, [NextEncode \/ NextDecode \/ GiveAny]_<<encoderVars, decoderVars, phase>>
  PROVE  EncoderInv'
<1>1. CASE NextEncode
  BY <1>1, DstFullKeeps, MakeTablesKeeps, EncodeLiteralsKeeps, EncodeMatchKeeps, FlushOutKeeps,
     FinishLiteralsKeeps, FinishMatchesKeeps, Zenon DEF NextEncode
<1>2. CASE NextDecode
  <2>1. UNCHANGED encoderVars /\ phase \in DecoderPhases /\ phase' \in DecoderPhases
    BY <1>2, DecoderLeavesEncoder
  <2>2. phase \notin FlushPhases /\ phase' \notin CodingPhases /\ phase' # "tables"
    BY <2>1, Zenon DEF DecoderPhases, CodingPhases, FlushPhases
  <2> QED
    BY <2>1, <2>2, EncoderRests
<1>3. CASE GiveAny
  <2>1. UNCHANGED encoderVars /\ phase = "encoded" /\ phase' = "given"
    BY <1>3, Zenon DEF GiveAny, Given
  <2>2. phase \notin FlushPhases /\ phase' \notin CodingPhases /\ phase' # "tables"
    BY <2>1, Zenon DEF CodingPhases, FlushPhases
  <2> QED
    BY <2>1, <2>2, EncoderRests
<1>4. CASE UNCHANGED <<encoderVars, decoderVars, phase>>
  <2>1. /\ block' = block /\ room' = room /\ i' = i /\ header' = header /\ table' = table
        /\ accum' = accum /\ dst' = dst /\ phase' = phase
    BY <1>4 DEF encoderVars
  <2> QED
    BY <2>1, Zenon DEF EncoderInv, BlockSound, StatesSound, AccumulatorFits, TablesInv, IndexInv, RoomInv,
      AllOccur, TablesFor, Coded, SymbolAt
<1> QED
  BY <1>1, <1>2, <1>3, <1>4

(* The encoder's invariant holds for every block: its states are in their  *)
(* tables, the accumulator has at most 7 bits between two turns of a loop  *)
(* and 64 in one, and what the next turn stores has room                   *)
(* (lzfse_encode_matches).                                                 *)
THEOREM EncoderIsSound == AnySpec => []EncoderInv
<1>1. InitEntropy => EncoderInv
  BY EncoderInit
<1>2. EncoderInv /\ [NextEncode \/ NextDecode \/ GiveAny]_<<encoderVars, decoderVars, phase>> => EncoderInv'
  BY EncoderStep
<1> QED
  BY <1>1, <1>2, PTL DEF AnySpec

(* The frequencies in a block's header add up to the number of states, and *)
(* every symbol of the block keeps one of them, so that fse_encode never   *)
(* meets a symbol without an entry (fse_normalize_freq).                   *)
THEOREM FrequenciesStayNormalized == AnySpec => []NormalizedFrequencies
<1>1. EncoderInv => NormalizedFrequencies
  <2> SUFFICES ASSUME EncoderInv PROVE NormalizedFrequencies
    OBVIOUS
  <2>1. CASE phase = "literals"
    <3>1. BlockSound /\ FreqSound(header.freq) /\ AllOccur(header.freq)
      BY <2>1, Zenon DEF EncoderInv, TablesInv, CodingPhases
    <3> QED
      BY <3>1, SoundIsNormalized
  <2>2. CASE phase # "literals"
    BY <2>2, Zenon DEF NormalizedFrequencies
  <2> QED
    BY <2>1, <2>2
<1> QED
  BY <1>1, EncoderIsSound, PTL

LEMMA EncoderStoresInBounds ==
  ASSUME EncoderInv
  PROVE  StoresInBounds
<1> SUFFICES ASSUME phase \in CodingPhases
             PROVE  /\ Size(dst) <= room
                    /\ phase \in FlushPhases \/ i = 0 => Size(dst) + 8 <= room
  BY Zenon DEF StoresInBounds, CodingPhases, FlushPhases
<1>1. BlockSound /\ RoomInv /\ dst \in Seq(Bit) /\ room \in Nat
  BY DEF EncoderInv, RoomInv, BlockSound
<1>2. PICK x \in Nat, r \in Nat : x = Size(dst) /\ r = room
  BY <1>1, SizeIs
<1>3. (x + 16 <= r => x + 8 <= r) /\ (x + 8 <= r => x <= r)
  BY <1>2
<1>4. CASE phase \in FlushPhases
  BY <1>1, <1>2, <1>3, <1>4, Zenon DEF RoomInv
<1>5. CASE phase = "literals"
  BY <1>1, <1>2, <1>3, <1>5, Zenon DEF RoomInv
<1>6. CASE phase = "matches"
  <2>1. phase \notin FlushPhases
    BY <1>6, Zenon DEF FlushPhases
  <2> QED
    BY <1>1, <1>2, <1>3, <1>6, <2>1, Zenon DEF RoomInv
<1> QED
  BY <1>4, <1>5, <1>6, Zenon DEF CodingPhases

----------------------------------------------------------------------------
(* The number bits make.                                                   *)

LEMMA PowersAdd ==
  ASSUME NEW k \in 0 .. 15, NEW e \in 0 .. 16
  PROVE  2^(k + e) = 2^k * 2^e
<1> DEFINE B == {x \in 0 .. 16 : ~(2^(k + x) = 2^k * 2^x)}
<1>1. SUFFICES ASSUME B # {} PROVE FALSE
  OBVIOUS
<1>2. B \in SUBSET Nat
  OBVIOUS
<1>3. PICK x \in B : \A y \in B : x <= y
  BY <1>1, <1>2, LeastElement
<1>4. x \in 0 .. 16 /\ ~(2^(k + x) = 2^k * 2^x)
  OBVIOUS
<1>5. PICK p \in Nat \ {0} : p = 2^k
  <2>1. k \in 0 .. 31
    OBVIOUS
  <2> QED
    BY <2>1, PowerPositive
<1>6. x # 0
  <2>1. 2^0 = 1 /\ k + 0 = k
    OBVIOUS
  <2>2. 2^(k + 0) = 2^k * 2^0
    BY <1>5, <2>1
  <2> QED
    BY <1>4, <2>2
<1>7. PICK y \in 0 .. 15 : y = x - 1 /\ y \notin B
  <2>1. x - 1 \in 0 .. 15 /\ ~(x <= x - 1)
    BY <1>4, <1>6
  <2> HIDE DEF B
  <2> QED
    BY <1>3, <2>1
<1>8. 2^(k + y) = 2^k * 2^y
  BY <1>7
<1>9. 2^x = 2 * 2^y /\ 2^y \in Nat
  <2>1. x \in 1 .. 31 /\ x - 1 = y
    BY <1>4, <1>6, <1>7
  <2> QED
    BY <2>1, PowerDoubles
<1>10. 2^(k + x) = 2 * 2^(k + y)
  <2>1. PICK z \in 1 .. 31 : z = k + x
    BY <1>4, <1>6
  <2>2. z - 1 = k + y
    BY <1>4, <1>7, <2>1
  <2>3. 2^z = 2 * 2^(z - 1)
    BY PowerDoubles
  <2> QED
    BY <2>1, <2>2, <2>3
<1>11. PICK q \in Nat : q = 2^y
  BY <1>9
<1>12. 2 * (p * q) = p * (2 * q)
  OBVIOUS
<1> QED
  BY <1>4, <1>5, <1>8, <1>9, <1>10, <1>11, <1>12

LEMMA NumberIs ==
  ASSUME NEW bits, NEW n \in 0 .. 32, Len(bits) = n
  PROVE  Number(bits) \in Nat /\ (n <= 31 => Number(bits) < 2^n)
<1> DEFINE value == [c \in 1 .. n |-> IF bits[c] = 0 THEN 0 ELSE 2^(c - 1)]
           Unfold(g) == [c \in 0 .. n |-> IF c = 0 THEN 0 ELSE g[c - 1] + (IF bits[c] = 0 THEN 0 ELSE 2^(c - 1))]
           sum == CHOOSE g : g = Unfold(g)
<1>1. Number(bits) = sum[n]
  BY DEF Number
<1>2. ASSUME NEW c \in 1 .. n
      PROVE  value[c] = (IF bits[c] = 0 THEN 0 ELSE 2^(c - 1)) /\ value[c] \in Nat /\ value[c] <= 2^(c - 1)
             /\ 2^(c - 1) \in Nat
  <2>1. PICK k \in 0 .. 31 : k = c - 1
    OBVIOUS
  <2>2. PICK p \in Nat \ {0} : p = 2^k
    BY PowerPositive
  <2> QED
    BY <2>1, <2>2
<1>3. value \in [1 .. n -> Int]
  <2>1. \A c \in 1 .. n : value[c] \in Int
    BY <1>2
  <2>2. value = [c \in 1 .. n |-> value[c]]
    OBVIOUS
  <2> HIDE DEF value
  <2> QED
    BY <2>1, <2>2
<1> HIDE DEF value
<1>4. PICK S : Sums(value, n, S)
  <2>1. n \in Nat
    OBVIOUS
  <2> QED
    BY <1>3, <2>1, SumsExist
<1>5. S \in [0 .. n -> Int] /\ S[0] = 0 /\ \A c \in 1 .. n : S[c] = S[c - 1] + value[c]
  BY <1>4 DEF Sums
<1>6. S = Unfold(S)
  <2>1. ASSUME NEW c \in 0 .. n PROVE S[c] = Unfold(S)[c]
    <3>1. Unfold(S)[c] = IF c = 0 THEN 0 ELSE S[c - 1] + (IF bits[c] = 0 THEN 0 ELSE 2^(c - 1))
      OBVIOUS
    <3> HIDE DEF Unfold
    <3>2. CASE c = 0
      BY <1>5, <3>1, <3>2
    <3>3. CASE c # 0
      <4>1. c \in 1 .. n
        BY <3>3
      <4>2. S[c] = S[c - 1] + value[c] /\ value[c] = (IF bits[c] = 0 THEN 0 ELSE 2^(c - 1))
        BY <1>2, <1>5, <4>1
      <4> QED
        BY <3>1, <3>3, <4>2
    <3> QED
      BY <3>2, <3>3
  <2>2. S = [c \in 0 .. n |-> S[c]]
    BY <1>5
  <2>3. Unfold(S) = [c \in 0 .. n |-> Unfold(S)[c]]
    OBVIOUS
  <2> HIDE DEF Unfold
  <2> QED
    BY <2>1, <2>2, <2>3
<1>7. sum = Unfold(sum)
  <2> HIDE DEF Unfold
  <2> QED
    BY <1>6
<1> HIDE DEF sum
<1>8. ASSUME NEW c \in 0 .. n
      PROVE  sum[c] = IF c = 0 THEN 0 ELSE sum[c - 1] + (IF bits[c] = 0 THEN 0 ELSE 2^(c - 1))
  <2>1. Unfold(sum)[c] = IF c = 0 THEN 0 ELSE sum[c - 1] + (IF bits[c] = 0 THEN 0 ELSE 2^(c - 1))
    OBVIOUS
  <2> HIDE DEF Unfold
  <2> QED
    BY <1>7, <2>1
<1> HIDE DEF Unfold
<1> DEFINE Good(c) == sum[c] \in Nat /\ (c <= 31 => sum[c] < 2^c)
           B == {c \in 0 .. n : ~Good(c)}
<1>9. B = {}
  <2>1. SUFFICES ASSUME B # {} PROVE FALSE
    OBVIOUS
  <2>2. B \in SUBSET Nat
    OBVIOUS
  <2>3. PICK x \in B : \A y \in B : x <= y
    BY <2>1, <2>2, LeastElement
  <2>4. x \in 0 .. n /\ ~Good(x)
    OBVIOUS
  <2>5. x # 0
    <3>1. 0 \in 0 .. n /\ 2^0 = 1
      OBVIOUS
    <3>2. sum[0] = 0
      BY <1>8, <3>1
    <3>3. Good(0)
      BY <3>1, <3>2
    <3> HIDE DEF Good
    <3> QED
      BY <2>4, <3>3
  <2>6. PICK y \in 0 .. 31 : y = x - 1 /\ y \in 0 .. n /\ y \notin B
    <3>1. x - 1 \in 0 .. 31 /\ x - 1 \in 0 .. n /\ ~(x <= x - 1)
      BY <2>4, <2>5
    <3> HIDE DEF B
    <3> QED
      BY <2>3, <3>1
  <2>7. Good(y)
    BY <2>6
  <2>8. sum[y] \in Nat /\ sum[y] < 2^y
    BY <2>6, <2>7
  <2>9. x \in 1 .. n
    BY <2>4, <2>5
  <2>10. sum[x] = sum[y] + value[x] /\ value[x] \in Nat /\ value[x] <= 2^y
    BY <1>2, <1>8, <2>4, <2>5, <2>6, <2>9
  <2>11. sum[x] \in Nat
    BY <2>8, <2>10
  <2>12. ASSUME x <= 31 PROVE sum[x] < 2^x
    <3>1. x \in 1 .. 31 /\ x - 1 = y
      BY <2>6, <2>9, <2>12
    <3>2. 2^x = 2 * 2^y /\ 2^y \in Nat
      BY <3>1, PowerDoubles
    <3> QED
      BY <2>8, <2>10, <3>2
  <2> QED
    BY <2>4, <2>11, <2>12
<1>10. n \in 0 .. n
  OBVIOUS
<1>11. Good(n)
  <2> HIDE DEF Good
  <2> QED
    BY <1>9, <1>10
<1> QED
  BY <1>1, <1>11

----------------------------------------------------------------------------
(* The tables of a header, read.                                           *)

LEMMA FreqValueIs ==
  ASSUME NEW b \in Nat
  PROVE  DecodeFreqValue(b).nbits \in 2 .. 14 /\ DecodeFreqValue(b).value \in Nat
<1>1. PICK x \in 0 .. 31 : x = b % 32
  OBVIOUS
<1>2. b % 16 = x % 16 /\ (b % 16) + 1 \in 1 .. 16
  BY <1>1
<1>3. PICK n : n = FreqBitsTable[(x % 16) + 1]
  OBVIOUS
<1>4. PICK v : v = FreqValueTable[x + 1]
  OBVIOUS
<1>5. n \in 2 .. 14 /\ (n = 8 \/ n = 14 \/ v \in Nat)
  <2>1. CASE x \in 0 .. 7
    BY <1>3, <1>4, <2>1 DEF FreqBitsTable, FreqValueTable
  <2>2. CASE x \in 8 .. 15
    BY <1>3, <1>4, <2>2 DEF FreqBitsTable, FreqValueTable
  <2>3. CASE x \in 16 .. 23
    BY <1>3, <1>4, <2>3 DEF FreqBitsTable, FreqValueTable
  <2>4. CASE x \in 24 .. 31
    BY <1>3, <1>4, <2>4 DEF FreqBitsTable, FreqValueTable
  <2> QED
    BY <2>1, <2>2, <2>3, <2>4
<1>6. PICK q \in Nat : q = b \div 16
  BY QuotientNat
<1>7. 8 + (q % 16) \in Nat /\ 24 + (q % 1024) \in Nat
  OBVIOUS
<1>8. DecodeFreqValue(b) =
        [nbits |-> n, value |-> CASE n = 8 -> 8 + (q % 16) [] n = 14 -> 24 + (q % 1024) [] OTHER -> v]
  BY <1>1, <1>2, <1>3, <1>4, <1>6 DEF DecodeFreqValue
<1>9. (CASE n = 8 -> 8 + (q % 16) [] n = 14 -> 24 + (q % 1024) [] OTHER -> v) \in Nat
  <2>1. CASE n = 8
    BY <1>7, <2>1
  <2>2. CASE n = 14
    BY <1>7, <2>2
  <2>3. CASE n # 8 /\ n # 14
    BY <1>5, <2>3
  <2> QED
    BY <2>1, <2>2, <2>3
<1> QED
  BY <1>5, <1>8, <1>9

(* What has been read of the bits, and how a code is read.                 *)
Reads(bits) == [used : -1 .. Len(bits), freqs : Seq(Nat)]
CodeAt(bits, used) == DecodeFreqValue(Number(Field(bits, used, Lower(Len(bits) - used, 24))))
ReadOne(bits) ==
  [t \in Reads(bits) |->
     IF t.used < 0 \/ CodeAt(bits, t.used).nbits > Len(bits) - t.used THEN [t EXCEPT !.used = -1]
     ELSE [used |-> t.used + CodeAt(bits, t.used).nbits,
           freqs |-> Append(t.freqs, CodeAt(bits, t.used).value)]]

(* f reads k codes.                                                        *)
ReadsCodes(bits, f, k) ==
  /\ f \in [Reads(bits) -> Reads(bits)]
  /\ \A t \in Reads(bits) :
       f[t].used >= 0 => t.used >= 0 /\ Len(f[t].freqs) = Len(t.freqs) + k

LEMMA ReadLength ==
  ASSUME NEW l \in Nat, NEW u \in Int, u <= l, ~(u < 0)
  PROVE  /\ u \in Nat
         /\ \E m \in Nat : m = Lower(l - u, 24) /\ u + m <= l /\ m \in 0 .. 32
         /\ \A n \in 2 .. 14 : ~(n > l - u) => u + n \in -1 .. l
<1>1. u \in Nat /\ l - u \in Nat
  OBVIOUS
<1>2. PICK d \in Nat : d = l - u /\ u + d = l
  BY <1>1
<1>3. \E m \in Nat : m = Lower(d, 24) /\ m <= d /\ m \in 0 .. 32
  <2>1. CASE d <= 24
    <3>1. Lower(d, 24) = d /\ d \in 0 .. 32
      BY <2>1 DEF Lower
    <3> QED
      BY <3>1
  <2>2. CASE ~(d <= 24)
    <3>1. Lower(d, 24) = 24 /\ 24 \in 0 .. 32 /\ 24 <= d
      BY <2>2 DEF Lower
    <3> QED
      BY <3>1
  <2> QED
    BY <2>1, <2>2
<1>4. \E m \in Nat : m = Lower(l - u, 24) /\ u + m <= l /\ m \in 0 .. 32
  <2>1. PICK m \in Nat : m = Lower(d, 24) /\ m <= d /\ m \in 0 .. 32
    BY <1>3
  <2>2. u + m <= l
    BY <1>1, <1>2, <2>1
  <2> QED
    BY <1>2, <2>1, <2>2
<1>5. ASSUME NEW n \in 2 .. 14, ~(n > l - u) PROVE u + n \in -1 .. l
  BY <1>1, <1>5
<1> QED
  BY <1>1, <1>4, <1>5

LEMMA ReadOneIs ==
  ASSUME NEW bits \in Seq(Bit)
  PROVE  ReadsCodes(bits, ReadOne(bits), 1)
<1>1. PICK l \in Nat : l = Len(bits)
  BY LenProperties
<1>2. ASSUME NEW t \in Reads(bits)
      PROVE  /\ ReadOne(bits)[t] \in Reads(bits)
             /\ ReadOne(bits)[t].used >= 0 =>
                  t.used >= 0 /\ Len(ReadOne(bits)[t].freqs) = Len(t.freqs) + 1
  <2>1. PICK u \in Int, f \in Seq(Nat) : t = [used |-> u, freqs |-> f] /\ -1 <= u /\ u <= l
    BY <1>1 DEF Reads
  <2>2. t.used = u /\ t.freqs = f
    BY <2>1
  <2>3. PICK v : v = CodeAt(bits, u)
    OBVIOUS
  <2>c. ReadOne(bits)[t] = IF u < 0 \/ v.nbits > l - u THEN [used |-> -1, freqs |-> f]
                           ELSE [used |-> u + v.nbits, freqs |-> Append(f, v.value)]
    <3>1. ReadOne(bits)[t] =
            IF t.used < 0 \/ CodeAt(bits, t.used).nbits > Len(bits) - t.used THEN [t EXCEPT !.used = -1]
            ELSE [used |-> t.used + CodeAt(bits, t.used).nbits,
                  freqs |-> Append(t.freqs, CodeAt(bits, t.used).value)]
      BY Zenon DEF ReadOne
    <3>2. [t EXCEPT !.used = -1] = [used |-> -1, freqs |-> f]
      BY <2>1
    <3> QED
      BY <1>1, <2>2, <2>3, <3>1, <3>2, Zenon
  <2>4. CASE u < 0 \/ v.nbits > l - u
    <3>1. ReadOne(bits)[t] = [used |-> -1, freqs |-> f]
      BY <2>4, <2>c
    <3>2. -1 \in -1 .. Len(bits)
      BY <1>1
    <3> QED
      BY <2>1, <3>1, <3>2 DEF Reads
  <2>5. CASE ~(u < 0 \/ v.nbits > l - u)
    <3>1. PICK m \in Nat : m = Lower(l - u, 24) /\ u + m <= l /\ m \in 0 .. 32 /\ u \in Nat
      BY <2>1, <2>5, ReadLength, Zenon
    <3>2. v.nbits \in 2 .. 14 /\ v.value \in Nat
      <4>1. Len(Field(bits, u, m)) = m
        <5>1. m \in Nat /\ u \in Nat /\ u + m <= Len(bits)
          BY <1>1, <3>1, Zenon
        <5> QED
          BY <5>1, FieldIs
      <4>2. Number(Field(bits, u, m)) \in Nat
        BY <3>1, <4>1, NumberIs
      <4> QED
        BY <1>1, <2>3, <3>1, <4>2, FreqValueIs DEF CodeAt
    <3>3. PICK n \in 2 .. 14, w \in Nat : n = v.nbits /\ w = v.value
      BY <3>2
    <3>4. ReadOne(bits)[t] = [used |-> u + n, freqs |-> Append(f, w)]
      BY <2>5, <2>c, <3>3
    <3>5. u + n \in -1 .. Len(bits)
      <4>1. ~(n > l - u)
        BY <2>5, <3>3, Zenon
      <4>2. u + n \in -1 .. l
        BY <2>1, <2>5, <3>3, <4>1, ReadLength, Zenon
      <4> QED
        BY <1>1, <4>2
    <3>6. Append(f, w) \in Seq(Nat) /\ Len(Append(f, w)) = Len(f) + 1
      BY <2>1, <3>3, AppendProperties
    <3> QED
      BY <2>2, <3>1, <3>4, <3>5, <3>6 DEF Reads
  <2> QED
    BY <2>4, <2>5
<1>3. ReadOne(bits) \in [Reads(bits) -> Reads(bits)]
  <2>1. ReadOne(bits) = [t \in Reads(bits) |-> ReadOne(bits)[t]]
    BY DEF ReadOne
  <2> QED
    BY <1>2, <2>1
<1> QED
  BY <1>2, <1>3 DEF ReadsCodes

LEMMA ReadsCompose ==
  ASSUME NEW bits, NEW f, NEW g, NEW k \in Nat, NEW l \in Nat,
         ReadsCodes(bits, f, k), ReadsCodes(bits, g, l)
  PROVE  ReadsCodes(bits, [t \in Reads(bits) |-> g[f[t]]], k + l)
<1> DEFINE h == [t \in Reads(bits) |-> g[f[t]]]
<1>1. ASSUME NEW t \in Reads(bits)
      PROVE  /\ h[t] = g[f[t]] /\ h[t] \in Reads(bits)
             /\ h[t].used >= 0 => t.used >= 0 /\ Len(h[t].freqs) = Len(t.freqs) + (k + l)
  <2>1. PICK x \in Reads(bits) : x = f[t] /\ (x.used >= 0 => t.used >= 0 /\ Len(x.freqs) = Len(t.freqs) + k)
    BY DEF ReadsCodes
  <2>2. PICK y \in Reads(bits) : y = g[x] /\ (y.used >= 0 => x.used >= 0 /\ Len(y.freqs) = Len(x.freqs) + l)
    BY <2>1 DEF ReadsCodes
  <2>3. h[t] = y
    BY <2>1, <2>2
  <2>4. t.freqs \in Seq(Nat)
    BY DEF Reads
  <2>5. PICK n \in Nat : n = Len(t.freqs)
    BY <2>4, LenProperties
  <2>6. (n + k) + l = n + (k + l)
    OBVIOUS
  <2> HIDE DEF h
  <2> QED
    BY <2>1, <2>2, <2>3, <2>5, <2>6
<1>2. h \in [Reads(bits) -> Reads(bits)]
  BY <1>1
<1> HIDE DEF h
<1>3. ReadsCodes(bits, h, k + l)
  BY <1>1, <1>2 DEF ReadsCodes
<1> QED
  BY <1>3 DEF h

(* All codes of a header.                                                  *)
LEMMA CodesRead ==
  ASSUME NEW bits \in Seq(Bit), NEW n \in Nat \ {0}
  PROVE  ReadsCodes(bits,
           Joined(LAMBDA f, g : [t \in Reads(bits) |-> g[f[t]]], LAMBDA c : ReadOne(bits), ReadOne(bits), n), n)
<1> DEFINE R == Reads(bits)
           T == [R -> R]
           one == ReadOne(bits)
           D == (1 .. n) \X (1 .. n)
           Unfold(g) == [r \in D |->
             IF r[1] = r[2] THEN one
             ELSE [t \in R |-> g[<<(r[1] + r[2]) \div 2 + 1, r[2]>>][g[<<r[1], (r[1] + r[2]) \div 2>>][t]]]]
           part == CHOOSE g : g = Unfold(g)
           all == Joined(LAMBDA f, g : [t \in R |-> g[f[t]]], LAMBDA c : one, one, n)
           op == [p \in T \X T |-> [t \in R |-> p[2][p[1][t]]]]
           none == [t \in R |-> t]
           items == [c \in 1 .. n |-> one]
<1>1. n # 0 /\ n \in Nat
  OBVIOUS
<1>2. all = part[<<1, n>>]
  BY <1>1 DEF Joined
<1>3. one \in T /\ ReadsCodes(bits, one, 1)
  BY ReadOneIs DEF ReadsCodes
<1> HIDE DEF one, R
<1>4. \A f, g \in T : op[<<f, g>>] = [t \in R |-> g[f[t]]]
  OBVIOUS
<1>5. op \in [T \X T -> T]
  <2>1. ASSUME NEW p \in T \X T PROVE [t \in R |-> p[2][p[1][t]]] \in T
    OBVIOUS
  <2> HIDE DEF T
  <2> QED
    BY <2>1
<1>6. none \in T /\ op[<<none, none>>] = none
  <2>1. none \in T
    OBVIOUS
  <2>2. op[<<none, none>>] = [t \in R |-> none[none[t]]]
    BY <1>4, <2>1
  <2> QED
    BY <2>1, <2>2
<1>7. items \in [1 .. n -> T]
  <2> HIDE DEF T
  <2> QED
    BY <1>3
<1> HIDE DEF op, none, items
<1>8. PICK P : Parts(n, T, op, items, P)
  <2> HIDE DEF T
  <2> QED
    BY <1>1, <1>5, <1>6, <1>7, PartsExist
<1>9. P \in [D -> T]
  BY <1>8 DEF Parts
<1>10. ASSUME NEW lo \in 1 .. n, NEW hi \in 1 .. n
       PROVE  P[<<lo, hi>>] = IF lo = hi THEN one
                ELSE [t \in R |-> P[<<(lo + hi) \div 2 + 1, hi>>][P[<<lo, (lo + hi) \div 2>>][t]]]
  <2>1. P[<<lo, hi>>] = IF lo = hi THEN items[lo]
          ELSE op[<<P[<<lo, (lo + hi) \div 2>>], P[<<(lo + hi) \div 2 + 1, hi>>]>>]
    BY <1>8 DEF Parts
  <2>2. CASE lo = hi
    BY <2>1, <2>2 DEF items
  <2>3. CASE lo # hi
    <3>1. PICK mid \in 1 .. n : mid = (lo + hi) \div 2 /\ mid + 1 \in 1 .. n
      <4>1. CASE lo < hi
        BY <4>1, Middle
      <4>2. CASE hi < lo
        BY <4>2, Middle
      <4> QED
        BY <2>3, <4>1, <4>2
    <3>2. PICK f \in T, g \in T : f = P[<<lo, mid>>] /\ g = P[<<mid + 1, hi>>]
      <4>1. <<lo, mid>> \in D /\ <<mid + 1, hi>> \in D
        BY <3>1
      <4> HIDE DEF D, T
      <4> QED
        BY <1>9, <4>1
    <3>3. op[<<f, g>>] = [t \in R |-> g[f[t]]]
      BY <1>4, <3>2
    <3> HIDE DEF T
    <3>4. P[<<lo, hi>>] = op[<<f, g>>]
      BY <2>1, <2>3, <3>1, <3>2
    <3> QED
      BY <2>3, <3>1, <3>2, <3>3, <3>4
  <2> QED
    BY <2>2, <2>3
<1>11. P = Unfold(P)
  <2>1. \A r \in D : P[r] = Unfold(P)[r]
    <3> SUFFICES ASSUME NEW r \in D PROVE P[r] = Unfold(P)[r]
      OBVIOUS
    <3>1. PICK lo \in 1 .. n, hi \in 1 .. n : r = <<lo, hi>>
      OBVIOUS
    <3>2. r[1] = lo /\ r[2] = hi
      BY <3>1
    <3>3. Unfold(P)[r] = IF lo = hi THEN one
            ELSE [t \in R |-> P[<<(lo + hi) \div 2 + 1, hi>>][P[<<lo, (lo + hi) \div 2>>][t]]]
      <4> HIDE DEF D
      <4> QED
        BY <3>2
    <3> HIDE DEF D, Unfold
    <3> QED
      BY <1>10, <3>1, <3>3
  <2> HIDE DEF Unfold
  <2>2. P = [r \in D |-> P[r]]
    BY <1>9
  <2>3. Unfold(P) = [r \in D |-> Unfold(P)[r]]
    BY DEF Unfold
  <2> HIDE DEF D
  <2> QED
    BY <2>1, <2>2, <2>3
<1>12. part = Unfold(part)
  <2> HIDE DEF Unfold
  <2> QED
    BY <1>11
<1> HIDE DEF part
<1>13. ASSUME NEW lo \in 1 .. n, NEW hi \in 1 .. n
       PROVE  part[<<lo, hi>>] = IF lo = hi THEN one
                ELSE [t \in R |-> part[<<(lo + hi) \div 2 + 1, hi>>][part[<<lo, (lo + hi) \div 2>>][t]]]
  <2>1. <<lo, hi>> \in D /\ <<lo, hi>>[1] = lo /\ <<lo, hi>>[2] = hi
    OBVIOUS
  <2>2. Unfold(part)[<<lo, hi>>] = IF lo = hi THEN one
          ELSE [t \in R |-> part[<<(lo + hi) \div 2 + 1, hi>>][part[<<lo, (lo + hi) \div 2>>][t]]]
    <3> HIDE DEF D
    <3> QED
      BY <2>1
  <2> HIDE DEF Unfold
  <2> QED
    BY <1>12, <2>2
<1> HIDE DEF Unfold
<1> DEFINE G == {r \in D : ReadsCodes(bits, part[r], r[2] - r[1] + 1)}
<1>14. \A lo, hi \in 1 .. n : <<lo, hi>> \in G <=> ReadsCodes(bits, part[<<lo, hi>>], hi - lo + 1)
  OBVIOUS
<1> HIDE DEF G, D
<1>15. ASSUME NEW lo \in 1 .. n PROVE <<lo, lo>> \in G
  <2>1. part[<<lo, lo>>] = one
    BY <1>13
  <2>2. lo - lo + 1 = 1
    OBVIOUS
  <2> QED
    BY <1>3, <1>14, <2>1, <2>2
<1>16. ASSUME NEW lo \in 1 .. n, NEW hi \in 1 .. n, lo < hi,
              <<lo, (lo + hi) \div 2>> \in G, <<(lo + hi) \div 2 + 1, hi>> \in G
       PROVE  <<lo, hi>> \in G
  <2>1. PICK mid \in Nat : mid = (lo + hi) \div 2 /\ lo <= mid /\ mid < hi
    BY <1>16, Middle
  <2>2. mid \in 1 .. n /\ mid + 1 \in 1 .. n
    BY <2>1
  <2>3. PICK k \in Nat, l \in Nat : k = mid - lo + 1 /\ l = hi - (mid + 1) + 1 /\ k + l = hi - lo + 1
    <3>1. mid - lo + 1 \in Nat /\ hi - (mid + 1) + 1 \in Nat
          /\ (mid - lo + 1) + (hi - (mid + 1) + 1) = hi - lo + 1
      BY <2>1
    <3> QED
      BY <3>1
  <2>4. PICK f, g : f = part[<<lo, mid>>] /\ g = part[<<mid + 1, hi>>]
    OBVIOUS
  <2>5. ReadsCodes(bits, f, k) /\ ReadsCodes(bits, g, l)
    BY <1>14, <1>16, <2>1, <2>2, <2>3, <2>4
  <2>6. ReadsCodes(bits, [t \in R |-> g[f[t]]], k + l)
    BY <2>3, <2>5, ReadsCompose DEF R
  <2>7. part[<<lo, hi>>] = [t \in R |-> g[f[t]]]
    <3>1. lo # hi
      BY <1>16
    <3>2. part[<<lo, hi>>] = IF lo = hi THEN one
            ELSE [t \in R |-> part[<<(lo + hi) \div 2 + 1, hi>>][part[<<lo, (lo + hi) \div 2>>][t]]]
      BY <1>13, Zenon
    <3>3. part[<<lo, hi>>] = [t \in R |-> part[<<mid + 1, hi>>][part[<<lo, mid>>][t]]]
      BY <2>1, <3>1, <3>2, Zenon
    <3> QED
      BY <2>4, <3>3
  <2> QED
    BY <1>14, <2>3, <2>6, <2>7
<1>17. \A lo, hi \in 1 .. n : lo <= hi => <<lo, hi>> \in G
  BY <1>1, <1>15, <1>16, ByHalves
<1>18. 1 \in 1 .. n /\ n \in 1 .. n /\ 1 <= n /\ n - 1 + 1 = n
  BY <1>1
<1>19. ReadsCodes(bits, part[<<1, n>>], n)
  BY <1>14, <1>17, <1>18
<1> HIDE DEF all
<1>20. ReadsCodes(bits, all, n)
  BY <1>2, <1>19
<1> QED
  BY <1>20 DEF all, R, one

(* The frequencies of m symbols.                                           *)
Freqs(m) == [1 .. m -> Nat]

LEMMA TableIs ==
  ASSUME NEW s \in Seq(Nat), NEW k \in Nat, NEW m \in Nat, NEW lo, NEW hi,
         lo = k + 1, hi = k + m, hi <= Len(s)
  PROVE  SubSeq(s, lo, hi) \in Freqs(m)
<1>1. k + m <= Len(s)
  OBVIOUS
<1>2. PICK t \in Seq(Nat) : t = Field(s, k, m) /\ Len(t) = m
  BY <1>1, FieldIs
<1>3. t \in Freqs(m)
  BY <1>2, LenProperties DEF Freqs
<1> QED
  BY <1>2, <1>3 DEF Field

LEMMA FourTables ==
  ASSUME NEW s \in Seq(Nat), Len(s) = 360
  PROVE  /\ SubSeq(s, 1, 20) \in Freqs(20) /\ SubSeq(s, 21, 40) \in Freqs(20)
         /\ SubSeq(s, 41, 104) \in Freqs(64) /\ SubSeq(s, 105, 360) \in Freqs(256)
<1>1. SubSeq(s, 1, 20) \in Freqs(20)
  <2>1. PICK k \in Nat : k = 0
    OBVIOUS
  <2>2. PICK m \in Nat : m = 20
    OBVIOUS
  <2>3. PICK lo \in Nat : lo = 1
    OBVIOUS
  <2>4. PICK hi \in Nat : hi = 20
    OBVIOUS
  <2>5. lo = k + 1 /\ hi = k + m /\ hi <= Len(s)
    BY <2>1, <2>2, <2>3, <2>4
  <2>6. SubSeq(s, lo, hi) \in Freqs(m)
    BY <2>5, TableIs, Zenon
  <2> QED
    BY <2>2, <2>3, <2>4, <2>6
<1>2. SubSeq(s, 21, 40) \in Freqs(20)
  <2>1. PICK k \in Nat : k = 20
    OBVIOUS
  <2>2. PICK m \in Nat : m = 20
    OBVIOUS
  <2>3. PICK lo \in Nat : lo = 21
    OBVIOUS
  <2>4. PICK hi \in Nat : hi = 40
    OBVIOUS
  <2>5. lo = k + 1 /\ hi = k + m /\ hi <= Len(s)
    BY <2>1, <2>2, <2>3, <2>4
  <2>6. SubSeq(s, lo, hi) \in Freqs(m)
    BY <2>5, TableIs, Zenon
  <2> QED
    BY <2>2, <2>3, <2>4, <2>6
<1>3. SubSeq(s, 41, 104) \in Freqs(64)
  <2>1. PICK k \in Nat : k = 40
    OBVIOUS
  <2>2. PICK m \in Nat : m = 64
    OBVIOUS
  <2>3. PICK lo \in Nat : lo = 41
    OBVIOUS
  <2>4. PICK hi \in Nat : hi = 104
    OBVIOUS
  <2>5. lo = k + 1 /\ hi = k + m /\ hi <= Len(s)
    BY <2>1, <2>2, <2>3, <2>4
  <2>6. SubSeq(s, lo, hi) \in Freqs(m)
    BY <2>5, TableIs, Zenon
  <2> QED
    BY <2>2, <2>3, <2>4, <2>6
<1>4. SubSeq(s, 105, 360) \in Freqs(256)
  <2>1. PICK k \in Nat : k = 104
    OBVIOUS
  <2>2. PICK m \in Nat : m = 256
    OBVIOUS
  <2>3. PICK lo \in Nat : lo = 105
    OBVIOUS
  <2>4. PICK hi \in Nat : hi = 360
    OBVIOUS
  <2>5. lo = k + 1 /\ hi = k + m /\ hi <= Len(s)
    BY <2>1, <2>2, <2>3, <2>4
  <2>6. SubSeq(s, lo, hi) \in Freqs(m)
    BY <2>5, TableIs, Zenon
  <2> QED
    BY <2>2, <2>3, <2>4, <2>6
<1> QED
  BY <1>1, <1>2, <1>3, <1>4, Zenon

LEMMA FreqTableRead ==
  ASSUME NEW bits \in Seq(Bit), NEW freq, freq = DecodeFreqTable(bits), freq # <<>>
  PROVE  \A kind \in Kinds : freq[kind] \in [1 .. Symbols[kind] -> Nat]
<1> DEFINE n == 20 + 20 + 64 + 256
           codes == Joined(LAMBDA f, g : [t \in Reads(bits) |-> g[f[t]]],
                           LAMBDA c : ReadOne(bits), ReadOne(bits), n)
           all == IF bits = <<>> THEN [used |-> 0, freqs |-> Zeros(n)]
                  ELSE codes[[used |-> 0, freqs |-> <<>>]]
<1>1. n = 360 /\ n \in Nat \ {0}
  OBVIOUS
<1>2. freq = IF all.used < 0 \/ Len(bits) - all.used >= 8 THEN <<>>
             ELSE [L |-> SubSeq(all.freqs, 1, 20), M |-> SubSeq(all.freqs, 21, 40),
                   D |-> SubSeq(all.freqs, 41, 104), literal |-> SubSeq(all.freqs, 105, n)]
  BY Zenon DEF DecodeFreqTable, Reads, ReadOne, CodeAt
<1> HIDE DEF n
<1>3. ReadsCodes(bits, codes, n)
  BY <1>1, CodesRead, ZenonT(60)
<1> HIDE DEF codes
<1>4. PICK z \in Seq(Nat) : z = Zeros(n) /\ Len(z) = n
  <2>1. n \in Nat
    BY <1>1
  <2>2. Zeros(n) \in [1 .. n -> Nat]
    BY <2>1 DEF Zeros
  <2> QED
    BY <2>1, <2>2, ListedIs
<1>5. ~(all.used < 0) => all.freqs \in Seq(Nat) /\ Len(all.freqs) = 360
  <2>1. CASE bits = <<>>
    <3>1. all = [used |-> 0, freqs |-> z]
      BY <1>4, <2>1
    <3> HIDE DEF all
    <3> QED
      BY <1>1, <1>4, <3>1
  <2>2. CASE bits # <<>>
    <3> DEFINE start == [used |-> 0, freqs |-> <<>>]
    <3>1. start \in Reads(bits)
      <4>1. Len(bits) \in Nat
        BY LenProperties
      <4>2. 0 \in -1 .. Len(bits) /\ <<>> \in Seq(Nat)
        BY <4>1
      <4> QED
        BY <4>2 DEF Reads
    <3>2. all = codes[start]
      BY <2>2
    <3>3. start.freqs = <<>> /\ Len(<<>>) = 0
      BY EmptySeq
    <3> HIDE DEF start, all
    <3>4. PICK t \in Reads(bits) : t = all /\ (t.used >= 0 => Len(t.freqs) = Len(start.freqs) + n)
      BY <1>3, <3>1, <3>2 DEF ReadsCodes
    <3>5. t.used \in Int /\ t.freqs \in Seq(Nat)
      <4>1. Len(bits) \in Nat
        BY LenProperties
      <4> QED
        BY <4>1 DEF Reads
    <3>6. 0 + 360 = 360
      OBVIOUS
    <3>7. ~(t.used < 0) => t.used >= 0
      BY <3>5
    <3> QED
      BY <1>1, <3>3, <3>4, <3>5, <3>6, <3>7
  <2> QED
    BY <2>1, <2>2
<1> HIDE DEF all
<1>6. PICK s \in Seq(Nat) : s = all.freqs /\ Len(s) = 360
  BY <1>2, <1>5
<1>7. freq = [L |-> SubSeq(s, 1, 20), M |-> SubSeq(s, 21, 40),
              D |-> SubSeq(s, 41, 104), literal |-> SubSeq(s, 105, 360)]
  BY <1>1, <1>2, <1>6
<1>8. /\ SubSeq(s, 1, 20) \in Freqs(20) /\ SubSeq(s, 21, 40) \in Freqs(20)
      /\ SubSeq(s, 41, 104) \in Freqs(64) /\ SubSeq(s, 105, 360) \in Freqs(256)
  BY <1>6, FourTables
<1>9. Symbols.L = 20 /\ Symbols.M = 20 /\ Symbols.D = 64 /\ Symbols.literal = 256
  BY DEF Symbols
<1>10. PICK l \in Freqs(20), m \in Freqs(20) : l = SubSeq(s, 1, 20) /\ m = SubSeq(s, 21, 40)
  BY <1>8, Zenon
<1>11. PICK d \in Freqs(64), b \in Freqs(256) :
         d = SubSeq(s, 41, 104) /\ b = SubSeq(s, 105, 360)
  BY <1>8, Zenon
<1>12. freq = [L |-> l, M |-> m, D |-> d, literal |-> b]
  BY <1>7, <1>10, <1>11, Zenon
<1>13. freq.L = l /\ freq.M = m /\ freq.D = d /\ freq.literal = b
  BY <1>12
<1>14. l \in Freqs(20) /\ m \in Freqs(20) /\ d \in Freqs(64) /\ b \in Freqs(256)
  BY <1>10, <1>11, Zenon
<1>15. freq["L"] \in Freqs(Symbols["L"])
  <2>1. freq["L"] = l /\ Symbols["L"] = 20
    BY <1>9, <1>13
  <2> QED
    BY <1>14, <2>1
<1>16. freq["M"] \in Freqs(Symbols["M"])
  <2>1. freq["M"] = m /\ Symbols["M"] = 20
    BY <1>9, <1>13
  <2> QED
    BY <1>14, <2>1
<1>17. freq["D"] \in Freqs(Symbols["D"])
  <2>1. freq["D"] = d /\ Symbols["D"] = 64
    BY <1>9, <1>13
  <2> QED
    BY <1>14, <2>1
<1>18. freq["literal"] \in Freqs(Symbols["literal"])
  <2>1. freq["literal"] = b /\ Symbols["literal"] = 256
    BY <1>9, <1>13
  <2> QED
    BY <1>14, <2>1
<1> QED
  BY <1>15, <1>16, <1>17, <1>18, Zenon DEF Kinds, Freqs

(* The states of one symbol.                                               *)
LEMMA SymbolStates ==
  ASSUME NEW k \in 0 .. 15, NEW m \in Nat, NEW c \in 1 .. m, NEW f \in Nat, f <= 2^k
  PROVE  [j \in 1 .. f |->
            LET e == DecoderEntry(2^k, f, j - 1)
            IN [symbol |-> c - 1, span |-> e.span, delta |-> e.delta]] \in Seq(Entries(k, m))
<1> DEFINE n == 2^k
           E(j) == [symbol |-> c - 1, span |-> DecoderEntry(n, f, j - 1).span,
                    delta |-> DecoderEntry(n, f, j - 1).delta]
<1>1. ASSUME NEW j \in 1 .. f PROVE E(j) \in Entries(k, m)
  <2>1. k \in 0 .. 31 /\ n \in Nat
    <3>1. k \in 0 .. 31
      OBVIOUS
    <3> QED
      BY <3>1, PowerPositive
  <2>2. f \in 1 .. n /\ j - 1 \in 0 .. f - 1 /\ c - 1 \in 0 .. m - 1
    <3> HIDE DEF n
    <3>1. f <= n
      BY DEF n
    <3> QED
      BY <2>1, <3>1
  <2>3. /\ DecoderEntry(n, f, j - 1).span \in Spans(k) /\ DecoderEntry(n, f, j - 1).delta \in Nat
        /\ DecoderEntry(n, f, j - 1).delta + DecoderEntry(n, f, j - 1).span <= n
    BY <2>2, DecoderEntrySound
  <2> HIDE DEF n
  <2>4. E(j) \in [symbol : 0 .. m - 1, span : Spans(k), delta : Nat]
    BY <2>2, <2>3
  <2>5. E(j).delta + E(j).span <= n
    BY <2>3
  <2> QED
    BY <2>4, <2>5 DEF Entries, n
<1>2. [j \in 1 .. f |-> E(j)] \in [1 .. f -> Entries(k, m)]
  <2> HIDE DEF E
  <2> QED
    BY <1>1
<1>3. [j \in 1 .. f |-> E(j)] \in Seq(Entries(k, m))
  <2> HIDE DEF E
  <2> QED
    BY <1>2, FunctionSeq
<1> QED
  BY <1>3

(* Every state has an entry that leads back to one of the states.          *)
LEMMA DecoderTableSound ==
  ASSUME NEW k \in 0 .. 15, NEW m \in Nat \ {0}, NEW freq \in [1 .. m -> Nat], Total(freq) <= 2^k
  PROVE  DecoderTable(2^k, freq) \in Seq(Entries(k, m)) /\ Len(DecoderTable(2^k, freq)) >= 2^k
<1> DEFINE n == 2^k
           T == Entries(k, m)
           D == (1 .. m) \X (1 .. m)
           item(c) == [j \in 1 .. freq[c] |->
             LET e == DecoderEntry(n, freq[c], j - 1)
             IN [symbol |-> c - 1, span |-> e.span, delta |-> e.delta]]
           Unfold(g) == [r \in D |->
             IF r[1] = r[2] THEN item(r[1])
             ELSE g[<<r[1], (r[1] + r[2]) \div 2>>] \o g[<<(r[1] + r[2]) \div 2 + 1, r[2]>>]]
           part == CHOOSE g : g = Unfold(g)
           codes == [c \in 1 .. m |-> item(c)]
           used == part[<<1, m>>]
           rest == [s \in 1 .. n - Len(used) |-> [symbol |-> 0, span |-> 1, delta |-> 0]]
<1>1. n \in Nat \ {0}
  <2>1. k \in 0 .. 31
    OBVIOUS
  <2> QED
    BY <2>1, PowerPositive
<1>2. m \in Nat /\ m # 0 /\ Len(freq) = m
  <2>1. m \in Nat /\ m # 0
    OBVIOUS
  <2>2. freq \in Seq(Nat) /\ Len(freq) = m
    BY <2>1, ListedIs
  <2> QED
    BY <2>1, <2>2
<1>3. DecoderTable(n, freq) = used \o rest
  <2> HIDE DEF n
  <2> QED
    BY <1>2, Zenon DEF DecoderTable, Joined
<1>4. \A c \in 1 .. m : freq[c] \in Nat /\ freq[c] <= n
  <2>1. freq \in [1 .. m -> Int] /\ m \in Nat
    BY <1>2
  <2>2. PICK S : Sums(freq, m, S)
    BY <2>1, SumsExist
  <2>3. Total(freq) = S[m]
    BY <1>2, <2>2, SumsTotal
  <2>4. S \in [0 .. m -> Nat] /\ \A c \in 1 .. m : freq[c] <= S[m]
    BY <1>2, <2>2, SumsGrow
  <2>5. PICK t \in Nat : t = S[m] /\ t <= n
    <3>1. m \in 0 .. m
      BY <1>2
    <3>2. S[m] <= n
      BY <2>3
    <3> HIDE DEF n
    <3> QED
      BY <2>4, <3>1, <3>2
  <2> HIDE DEF n
  <2> QED
    BY <1>1, <2>4, <2>5
<1>5. codes \in [1 .. m -> Seq(T)]
  <2>1. ASSUME NEW c \in 1 .. m PROVE item(c) \in Seq(T)
    <3>1. PICK f \in Nat : f = freq[c] /\ f <= 2^k
      BY <1>4
    <3>2. [j \in 1 .. f |->
            LET e == DecoderEntry(2^k, f, j - 1)
            IN [symbol |-> c - 1, span |-> e.span, delta |-> e.delta]] \in Seq(Entries(k, m))
      BY <1>2, <3>1, SymbolStates
    <3> QED
      BY <3>1, <3>2, Zenon
  <2> HIDE DEF item, T
  <2> QED
    BY <2>1
<1> HIDE DEF T
<1>6. PICK P \in [D -> Seq(T)] : JoinsSeqs(m, codes, P)
  <2> HIDE DEF item, codes
  <2> QED
    BY <1>2, <1>5, JoinExists
<1> HIDE DEF item
<1>7. P = Unfold(P)
  <2>1. ASSUME NEW lo \in 1 .. m, NEW hi \in 1 .. m
        PROVE  P[<<lo, hi>>] = IF lo = hi THEN item(lo)
                 ELSE P[<<lo, (lo + hi) \div 2>>] \o P[<<(lo + hi) \div 2 + 1, hi>>]
    BY <1>6 DEF JoinsSeqs
  <2>2. \A r \in D : P[r] = Unfold(P)[r]
    <3> SUFFICES ASSUME NEW r \in D PROVE P[r] = Unfold(P)[r]
      OBVIOUS
    <3>1. PICK lo \in 1 .. m, hi \in 1 .. m : r = <<lo, hi>>
      OBVIOUS
    <3>2. r[1] = lo /\ r[2] = hi
      BY <3>1
    <3>3. Unfold(P)[r] = IF lo = hi THEN item(lo)
            ELSE P[<<lo, (lo + hi) \div 2>>] \o P[<<(lo + hi) \div 2 + 1, hi>>]
      <4> HIDE DEF D
      <4> QED
        BY <3>2
    <3> HIDE DEF D, Unfold
    <3> QED
      BY <2>1, <3>1, <3>3
  <2> HIDE DEF Unfold
  <2>3. P = [r \in D |-> P[r]]
    BY <1>6
  <2>4. Unfold(P) = [r \in D |-> Unfold(P)[r]]
    BY DEF Unfold
  <2> HIDE DEF D
  <2> QED
    BY <2>2, <2>3, <2>4
<1>8. part = Unfold(part)
  <2> HIDE DEF Unfold
  <2> QED
    BY <1>7
<1> HIDE DEF part
<1>9. JoinsSeqs(m, codes, part)
  <2> SUFFICES ASSUME NEW lo \in 1 .. m, NEW hi \in 1 .. m
      PROVE  part[<<lo, hi>>] = IF lo = hi THEN codes[lo]
               ELSE part[<<lo, (lo + hi) \div 2>>] \o part[<<(lo + hi) \div 2 + 1, hi>>]
    BY DEF JoinsSeqs
  <2>1. <<lo, hi>> \in D /\ <<lo, hi>>[1] = lo /\ <<lo, hi>>[2] = hi
    OBVIOUS
  <2>2. Unfold(part)[<<lo, hi>>] = IF lo = hi THEN item(lo)
               ELSE part[<<lo, (lo + hi) \div 2>>] \o part[<<(lo + hi) \div 2 + 1, hi>>]
    <3> HIDE DEF D
    <3> QED
      BY <2>1
  <2>3. codes[lo] = item(lo)
    OBVIOUS
  <2> HIDE DEF Unfold, codes
  <2> QED
    BY <1>8, <2>2, <2>3
<1> HIDE DEF codes, Unfold, D
<1>10. used \in Seq(T)
  BY <1>5, <1>9, JoinIs
<1> HIDE DEF used
<1>11. PICK u \in Nat : u = Len(used)
  BY <1>10, LenProperties
<1>12. PICK x \in Nat : (u <= n => x = n - u) /\ (u > n => x = 0)
  <2> HIDE DEF n
  <2>1. CASE u <= n
    <3>1. n - u \in Nat
      BY <1>1, <2>1
    <3> QED
      BY <1>1, <2>1, <3>1
  <2>2. CASE u > n
    BY <1>1, <2>2
  <2> QED
    BY <1>1, <2>1, <2>2
<1>13. 1 .. n - Len(used) = 1 .. x
  <2> HIDE DEF n
  <2> QED
    BY <1>1, <1>11, <1>12
<1>14. rest \in [1 .. x -> T]
  <2> DEFINE e == [symbol |-> 0, span |-> 1, delta |-> 0]
  <2>1. e \in T
    <3>1. 1 \in Spans(k)
      <4>1. 0 \in 0 .. k /\ 2^0 = 1
        OBVIOUS
      <4> QED
        BY <4>1 DEF Spans
    <3>2. 0 \in 0 .. m - 1
      BY <1>2
    <3>3. e \in [symbol : 0 .. m - 1, span : Spans(k), delta : Nat]
      BY <3>1, <3>2
    <3>4. e.delta + e.span <= n
      <4> HIDE DEF n
      <4> QED
        BY <1>1
    <3> QED
      BY <3>3, <3>4 DEF T, Entries
  <2> HIDE DEF e
  <2>2. rest = [s \in 1 .. x |-> e]
    BY <1>13, Zenon DEF e
  <2> QED
    BY <2>1, <2>2
<1> HIDE DEF rest
<1>15. rest \in Seq(T) /\ Len(rest) = x
  BY <1>12, <1>14, ListedIs
<1>16. used \o rest \in Seq(T) /\ Len(used \o rest) = u + x
  <2>1. used \o rest \in Seq(T)
    BY <1>10, <1>15, BothAre
  <2>2. Len(used \o rest) = Len(used) + Len(rest)
    BY <1>10, <1>15, ConcatProperties
  <2> QED
    BY <1>11, <1>15, <2>1, <2>2
<1>17. u + x >= n
  <2> HIDE DEF n
  <2> QED
    BY <1>1, <1>11, <1>12
<1> QED
  BY <1>3, <1>16, <1>17 DEF T

----------------------------------------------------------------------------
(* The input stream.                                                       *)

(* A stream that holds at least so many bits.                              *)
HeldStream(t, least) ==
  /\ DOMAIN t = {"pos", "bits"} /\ t.pos \in Nat
  /\ t.bits \in Seq(Bit) /\ least <= Len(t.bits) /\ Len(t.bits) <= 63

LEMMA HeldLess ==
  ASSUME NEW t, NEW a \in Nat, NEW b \in Nat, b <= a, HeldStream(t, a)
  PROVE  HeldStream(t, b)
<1>1. PICK n \in Nat : n = Len(t.bits)
  BY LenProperties DEF HeldStream
<1>2. b <= n
  BY <1>1 DEF HeldStream
<1> QED
  BY <1>1, <1>2 DEF HeldStream

(* What a pull gives and what it leaves.                                   *)
LEMMA PullIs ==
  ASSUME NEW t, NEW least \in Nat, HeldStream(t, least), NEW n \in 0 .. 31, n <= least
  PROVE  /\ HeldStream(AfterPull(t, n), least - n) /\ AfterPull(t, n).pos = t.pos
         /\ Pulled(t, n) \in Nat /\ Pulled(t, n) < 2^n
<1>1. PICK bits \in Seq(Bit) : bits = t.bits
  BY DEF HeldStream
<1>2. PICK l \in Nat : l = Len(bits) /\ least <= l /\ l <= 63
  <2>1. Len(bits) \in Nat
    BY LenProperties
  <2> QED
    BY <1>1, <2>1 DEF HeldStream
<1>3. PICK r \in Nat : r = l - n
  <2>1. l - n \in Nat
    <3>1. PICK x \in Nat : x = n /\ x <= least
      OBVIOUS
    <3>2. x <= l
      BY <1>2, <3>1
    <3> QED
      BY <1>2, <3>1, <3>2
  <2> QED
    BY <2>1
<1>4. least - n \in Nat /\ least - n <= r /\ r <= 63 /\ r + n <= l /\ 0 + r <= l
  BY <1>2, <1>3
<1>5. n \in Nat /\ 0 \in Nat /\ n \in 0 .. 32 /\ n <= 31
  OBVIOUS
<1>6. Field(bits, 0, r) \in Seq(Bit) /\ Len(Field(bits, 0, r)) = r
  BY <1>2, <1>4, <1>5, FieldIs
<1>7. Field(bits, r, n) \in Seq(Bit) /\ Len(Field(bits, r, n)) = n
  <2>1. r + n <= Len(bits)
    BY <1>2, <1>4
  <2> QED
    BY <1>5, <2>1, FieldIs, ZenonT(40)
<1>8. AfterPull(t, n) = [t EXCEPT !.bits = Field(bits, 0, r)]
  BY <1>1, <1>2, <1>3 DEF AfterPull
<1>9. Pulled(t, n) = Number(Field(bits, r, n))
  BY <1>1, <1>2, <1>3 DEF Pulled
<1>10. Pulled(t, n) \in Nat /\ Pulled(t, n) < 2^n
  BY <1>5, <1>7, <1>9, NumberIs
<1>11. DOMAIN t = {"pos", "bits"} /\ t.pos \in Nat
  BY DEF HeldStream
<1>12. /\ DOMAIN AfterPull(t, n) = {"pos", "bits"} /\ AfterPull(t, n).pos = t.pos
       /\ AfterPull(t, n).bits = Field(bits, 0, r)
  BY <1>8, <1>11
<1>13. HeldStream(AfterPull(t, n), least - n)
  BY <1>4, <1>6, <1>11, <1>12 DEF HeldStream
<1> QED
  BY <1>10, <1>12, <1>13

(* A stream begins with at least 56 bits, and the bytes it is loaded from  *)
(* end at most one behind its end.                                         *)
LEMMA InInitIs ==
  ASSUME NEW s \in Seq(Bit), NEW n \in -7 .. 0, NEW end \in Nat, NEW start \in Nat,
         8 * end <= Len(s), NEW t, t = InInit(s, n, end, start), t # NoStream
  PROVE  HeldStream(t, 56) /\ t.pos + 8 <= end + 1
<1> DEFINE size == IF n # 0 THEN 8 ELSE 7
           held == IF n # 0 THEN n + 64 ELSE 56
           bits == Field(s, 8 * (end - size), 8 * size)
<1>1. ~(end < start + size) /\ t = [pos |-> end - size, bits |-> Field(bits, 0, held)]
  BY DEF InInit
<1>2. PICK z \in Nat, h \in Nat :
        z = size /\ h = held /\ z \in 7 .. 8 /\ h >= 56 /\ h <= 63 /\ h <= 8 * z
  <2>1. CASE n = 0
    <3>1. size = 7 /\ held = 56
      BY <2>1
    <3>2. 7 \in Nat /\ 56 \in Nat /\ 56 <= 8 * 7
      OBVIOUS
    <3> QED
      BY <3>1, <3>2
  <2>2. CASE n # 0
    <3>1. size = 8 /\ held = n + 64
      BY <2>2
    <3>2. n + 64 \in 57 .. 63
      BY <2>2
    <3>3. n + 64 \in Nat /\ n + 64 >= 56 /\ n + 64 <= 63 /\ n + 64 <= 8 * 8 /\ 8 \in Nat
      BY <3>2
    <3> QED
      BY <3>1, <3>3
  <2> QED
    BY <2>1, <2>2
<1>3. h = held /\ h >= 56 /\ h <= 63 /\ h <= 8 * z
  BY <1>2
<1>4. PICK p \in Nat : p = end - z
  <2> HIDE DEF size
  <2> QED
    BY <1>1, <1>2
<1>5. PICK l \in Nat : l = Len(s)
  BY LenProperties
<1>6. 8 * p \in Nat /\ 8 * z \in Nat /\ 8 * p + 8 * z <= l
  BY <1>4, <1>5
<1> HIDE DEF size, held
<1>7. bits = Field(s, 8 * p, 8 * z)
  BY <1>2, <1>4
<1> HIDE DEF bits
<1>8. bits \in Seq(Bit) /\ Len(bits) = 8 * z
  BY <1>5, <1>6, <1>7, FieldIs
<1>9. 0 \in Nat /\ 0 + h <= 8 * z
  BY <1>3
<1>10. PICK b \in Seq(Bit) : b = Field(bits, 0, h) /\ Len(b) = h
  BY <1>8, <1>9, FieldIs
<1>11. t = [pos |-> p, bits |-> b]
  BY <1>1, <1>2, <1>3, <1>4, <1>10
<1>12. t.pos = p /\ t.bits = b /\ DOMAIN t = {"pos", "bits"}
  BY <1>11
<1>13. HeldStream(t, 56)
  BY <1>3, <1>10, <1>12 DEF HeldStream
<1>14. p + 8 <= end + 1
  BY <1>2, <1>4
<1> QED
  BY <1>12, <1>13, <1>14

(* A flush fills the accumulator up to at least 56 bits.                   *)
LEMMA InFlushIs ==
  ASSUME NEW s \in Seq(Bit), NEW t, HeldStream(t, 0), 8 * t.pos <= Len(s),
         NEW r, r = InFlush(s, t, 0), r # NoStream
  PROVE  HeldStream(r, 56) /\ r.pos <= t.pos
<1>1. PICK p \in Nat : p = t.pos
  BY DEF HeldStream
<1>2. PICK bits \in Seq(Bit) : bits = t.bits
  BY DEF HeldStream
<1>3. PICK l \in Nat : l = Len(bits) /\ l <= 63
  <2>1. Len(bits) \in Nat
    BY LenProperties
  <2> QED
    BY <1>2, <2>1 DEF HeldStream
<1>4. PICK m \in Nat : m = 63 - l
  BY <1>3
<1>5. PICK w \in Nat, k \in 0 .. 7 : w = WholeBytes(m) /\ w % 8 = 0 /\ w + k = m
  BY WholeBytesAre
<1>6. PICK c \in Nat : c = w \div 8 /\ 8 * c = w
  <2>1. PICK x \in Nat : x = w /\ x % 8 = 0
    BY <1>5
  <2>2. x \div 8 \in Nat
    BY QuotientNat
  <2>3. 8 * (x \div 8) = x
    BY <2>1
  <2> QED
    BY <2>1, <2>2, <2>3
<1>7. /\ ~(p - c < 0)
      /\ r = [pos |-> p - c, bits |-> Field(s, 8 * (p - c), w) \o bits]
  BY <1>1, <1>2, <1>3, <1>4, <1>5, <1>6, ZenonT(60) DEF InFlush
<1>8. PICK q \in Nat : q = p - c
  BY <1>7
<1>9. PICK n \in Nat : n = Len(s)
  BY LenProperties
<1>10. 8 * q \in Nat /\ 8 * q + w <= n
  <2>1. 8 * p <= n
    BY <1>1, <1>9
  <2>2. 8 * q + w = 8 * p
    BY <1>6, <1>8
  <2> QED
    BY <2>1, <2>2
<1>11. PICK f \in Seq(Bit) : f = Field(s, 8 * q, w) /\ Len(f) = w
  BY <1>9, <1>10, FieldIs
<1>12. PICK b \in Seq(Bit) : b = f \o bits /\ Len(b) = w + l
  <2>1. f \o bits \in Seq(Bit) /\ Len(f \o bits) = Len(f) + Len(bits)
    BY BothAre
  <2> QED
    BY <1>3, <1>11, <2>1
<1>13. r = [pos |-> q, bits |-> b]
  BY <1>7, <1>8, <1>11, <1>12
<1>14. r.pos = q /\ r.bits = b /\ DOMAIN r = {"pos", "bits"}
  BY <1>13
<1>15. 56 <= w + l /\ w + l <= 63 /\ q <= p
  <2>1. w + k = 63 - l /\ k <= 7
    BY <1>4, <1>5
  <2>2. 56 <= w + l /\ w + l <= 63
    BY <1>3, <2>1
  <2> QED
    BY <1>6, <1>8, <2>2
<1>16. HeldStream(r, 56)
  BY <1>12, <1>14, <1>15 DEF HeldStream
<1> QED
  BY <1>1, <1>14, <1>15, <1>16

(* Every state of a symbol's table has an entry.                           *)
DecoderTables(d) ==
  \A kind \in Kinds :
    /\ d[kind] \in Seq(Entries(StateBits[kind], Symbols[kind]))
    /\ Len(d[kind]) >= States[kind]

LEMMA StepIs ==
  ASSUME NEW d, DecoderTables(d), NEW kind \in Kinds, NEW s \in 0 .. States[kind] - 1
  PROVE  /\ d[kind][s + 1] \in Entries(StateBits[kind], Symbols[kind])
         /\ BitCount(d[kind][s + 1].span) \in 0 .. StateBits[kind]
         /\ d[kind][s + 1].span = 2^BitCount(d[kind][s + 1].span)
         /\ d[kind][s + 1].symbol \in 0 .. Symbols[kind] - 1
<1>1. PICK k \in 0 .. 15 : k = StateBits[kind]
  <2>1. StateBits[kind] \in 0 .. 10
    BY StatesArePowers
  <2>2. StateBits[kind] \in 0 .. 15
    BY <2>1
  <2> QED
    BY <2>2
<1>2. PICK T : T = Entries(k, Symbols[kind])
  OBVIOUS
<1>3. PICK tab \in Seq(T) : tab = d[kind]
  BY <1>1, <1>2 DEF DecoderTables
<1>4. PICK l \in Nat : l = Len(tab) /\ States[kind] <= l
  <2>1. Len(tab) \in Nat
    BY LenProperties
  <2> QED
    BY <1>3, <2>1 DEF DecoderTables
<1>5. s + 1 \in 1 .. l
  <2>1. States[kind] \in Nat
    BY KindsAre
  <2> QED
    BY <1>4, <2>1
<1>6. tab[s + 1] \in T
  <2>1. tab \in [1 .. l -> T]
    BY <1>4, LenProperties
  <2> QED
    BY <1>5, <2>1
<1>7. PICK e \in Entries(k, Symbols[kind]) : e = d[kind][s + 1]
  BY <1>2, <1>3, <1>6
<1>8. e.symbol \in 0 .. Symbols[kind] - 1 /\ e.span \in Spans(k)
  BY DEF Entries
<1>9. BitCount(e.span) \in 0 .. k /\ e.span = 2^BitCount(e.span)
  BY <1>8, SpanBits
<1> QED
  BY <1>1, <1>7, <1>8, <1>9

(* fse_decode: the state stays in the table, for at most as many bits as   *)
(* the number of states has.                                               *)
LEMMA DecodeSymbolSound ==
  ASSUME NEW d, DecoderTables(d), NEW kind \in Kinds, NEW s \in 0 .. States[kind] - 1,
         NEW x, NEW least \in Nat, StateBits[kind] <= least, HeldStream(x, least), NEW v
  PROVE  LET r == DecodeSymbol([table |-> d[kind], state |-> s, in |-> x, value |-> v])
         IN /\ r.state \in 0 .. States[kind] - 1
            /\ HeldStream(r.in, least - StateBits[kind]) /\ r.in.pos = x.pos
<1> DEFINE t == [table |-> d[kind], state |-> s, in |-> x, value |-> v]
           r == DecodeSymbol(t)
<1>1. PICK k \in 0 .. 10 : k = StateBits[kind] /\ States[kind] = 2^k
  BY StatesArePowers, ZenonT(60)
<1>2. PICK e : e = d[kind][s + 1]
  OBVIOUS
<1>3. /\ e \in Entries(k, Symbols[kind]) /\ BitCount(e.span) \in 0 .. k
      /\ e.span = 2^BitCount(e.span)
  BY <1>1, <1>2, StepIs
<1>4. PICK b \in 0 .. k : b = BitCount(e.span)
  BY <1>3
<1>5. b \in 0 .. 31 /\ b <= least /\ k \in 0 .. 15 /\ least - b \in Nat /\ least - k \in Nat
      /\ least - k <= least - b
  BY <1>1
<1>6. /\ HeldStream(AfterPull(x, b), least - b) /\ AfterPull(x, b).pos = x.pos
      /\ Pulled(x, b) \in Nat /\ Pulled(x, b) < 2^b
  BY <1>5, PullIs
<1>7. HeldStream(AfterPull(x, b), least - k)
  BY <1>5, <1>6, HeldLess
<1>8. PICK w \in 0 .. e.span - 1 : w = Pulled(x, b)
  <2>1. 2^b \in Nat \ {0} /\ e.span = 2^b
    BY <1>3, <1>4, <1>5, PowerPositive
  <2>2. PICK p \in Nat : p = e.span /\ Pulled(x, b) < p
    BY <1>6, <2>1
  <2>3. Pulled(x, b) \in 0 .. p - 1
    BY <1>6, <2>2
  <2> QED
    BY <2>2, <2>3
<1>9. e.delta + w \in 0 .. 2^k - 1
  BY <1>3, <1>5, EntryStays
<1>10. r.state = e.delta + w /\ r.in = AfterPull(x, b)
  <2>1. Step(t) = e
    BY <1>2 DEF Step
  <2>2. r = [t EXCEPT !.state = e.delta + Pulled(x, b), !.in = AfterPull(x, b), !.value = e.symbol]
    <3>1. t.in = x
      OBVIOUS
    <3> HIDE DEF t
    <3> QED
      BY <1>4, <2>1, <3>1, Zenon DEF DecodeSymbol
  <2> QED
    BY <1>8, <2>2
<1> HIDE DEF r
<1> QED
  BY <1>1, <1>6, <1>7, <1>9, <1>10 DEF r

(* The bits a value may take: those of its state and of its symbol.        *)
MostBits == [L |-> 14, M |-> 17, D |-> 23]

LEMMA ValueBitsAre ==
  ASSUME DecoderTables(decoder), StatesSound(found), NEW kind \in {"L", "M", "D"}
  PROVE  LET t == [table |-> decoder[kind], state |-> found.lmdState[kind]]
         IN /\ ValueBits(kind, t) \in 0 .. MostBits[kind]
            /\ ValueBits(kind, t) = BitCount(Step(t).span) + ExtraBits[kind][Step(t).symbol]
            /\ BitCount(Step(t).span) \in 0 .. StateBits[kind]
            /\ ExtraBits[kind][Step(t).symbol] \in 0 .. MostExtra[kind]
            /\ Step(t).span = 2^BitCount(Step(t).span)
            /\ Step(t) \in Entries(StateBits[kind], Symbols[kind])
<1> DEFINE t == [table |-> decoder[kind], state |-> found.lmdState[kind]]
<1>1. kind \in Kinds
  BY DEF Kinds
<1>2. PICK s \in 0 .. States[kind] - 1 : s = found.lmdState[kind]
  BY DEF StatesSound
<1>3. Step(t) = decoder[kind][s + 1]
  BY <1>2 DEF Step
<1>4. /\ Step(t) \in Entries(StateBits[kind], Symbols[kind])
      /\ BitCount(Step(t).span) \in 0 .. StateBits[kind]
      /\ Step(t).span = 2^BitCount(Step(t).span)
      /\ Step(t).symbol \in 0 .. Symbols[kind] - 1
  BY <1>1, <1>3, StepIs
<1> HIDE DEF t
<1>5. ExtraBits[kind][Step(t).symbol] \in 0 .. MostExtra[kind]
  BY <1>4, BaseIsNat
<1>6. ValueBits(kind, t) = BitCount(Step(t).span) + ExtraBits[kind][Step(t).symbol]
  BY DEF ValueBits
<1>7. /\ StateBits[kind] \in 0 .. 8 /\ MostExtra[kind] \in 0 .. 15
      /\ MostBits[kind] = StateBits[kind] + MostExtra[kind]
  BY DEF StateBits, MostExtra, MostBits
<1>8. PICK b \in Nat : b = BitCount(Step(t).span) /\ b <= StateBits[kind]
  BY <1>4, <1>7
<1>9. PICK e \in Nat : e = ExtraBits[kind][Step(t).symbol] /\ e <= MostExtra[kind]
  BY <1>5, <1>7
<1>10. PICK n \in Nat, m \in Nat : n = StateBits[kind] /\ m = MostExtra[kind]
  BY <1>7
<1>11. b + e \in 0 .. n + m
  BY <1>8, <1>9, <1>10
<1> QED
  BY <1>4, <1>5, <1>6, <1>7, <1>8, <1>9, <1>10, <1>11 DEF t

(* fse_value_decode: what is left of the pulled bits when the extra ones   *)
(* are taken off is below the entry's span.                                *)
LEMMA DecodeValueSound ==
  ASSUME DecoderTables(decoder), StatesSound(found), NEW kind \in {"L", "M", "D"},
         NEW x, NEW least \in Nat, MostBits[kind] <= least, HeldStream(x, least)
  PROVE  LET r == DecodeValue(kind, x)
         IN /\ r.state \in 0 .. States[kind] - 1
            /\ HeldStream(r.in, least - MostBits[kind]) /\ r.in.pos = x.pos
<1> DEFINE t == [table |-> decoder[kind], state |-> found.lmdState[kind]]
           r == DecodeValue(kind, x)
<1>1. kind \in Kinds
  BY DEF Kinds
<1>2. PICK k \in 0 .. 10 : k = StateBits[kind] /\ States[kind] = 2^k
  BY <1>1, StatesArePowers, ZenonT(60)
<1>3. PICK e : e = Step(t)
  OBVIOUS
<1>4. /\ ValueBits(kind, t) \in 0 .. MostBits[kind]
      /\ ValueBits(kind, t) = BitCount(e.span) + ExtraBits[kind][e.symbol]
      /\ BitCount(e.span) \in 0 .. k /\ e.span = 2^BitCount(e.span)
      /\ ExtraBits[kind][e.symbol] \in 0 .. MostExtra[kind]
      /\ e \in Entries(k, Symbols[kind])
  BY <1>2, <1>3, ValueBitsAre
<1>5. PICK m \in 0 .. 23 : m = MostBits[kind]
  BY DEF MostBits
<1>6. PICK extra \in 0 .. 15 : extra = ExtraBits[kind][e.symbol]
  <2>1. MostExtra[kind] \in 0 .. 15
    BY DEF MostExtra
  <2> QED
    BY <1>4, <2>1
<1>7. PICK b \in 0 .. k : b = BitCount(e.span)
  BY <1>4
<1>8. PICK n \in 0 .. m : n = ValueBits(kind, t)
  BY <1>4, <1>5
<1>9. n = b + extra
  BY <1>4, <1>6, <1>7, <1>8
<1>10. /\ n \in 0 .. 31 /\ n <= least /\ least - n \in Nat /\ least - m \in Nat
       /\ least - m <= least - n /\ b \in 0 .. 15 /\ b \in 0 .. 31 /\ extra \in 0 .. 16
       /\ extra \in 0 .. 31 /\ k \in 0 .. 15
  BY <1>5
<1>11. /\ HeldStream(AfterPull(x, n), least - n) /\ AfterPull(x, n).pos = x.pos
       /\ Pulled(x, n) \in Nat /\ Pulled(x, n) < 2^n
  BY <1>10, PullIs
<1>12. HeldStream(AfterPull(x, n), least - m)
  BY <1>10, <1>11, HeldLess
<1>13. 2^n = 2^b * 2^extra
  BY <1>9, <1>10, PowersAdd
<1>14. PICK p \in Nat \ {0}, q \in Nat \ {0} : p = 2^b /\ q = 2^extra
  BY <1>10, PowerPositive, Zenon
<1>15. PICK u \in Nat : u = Pulled(x, n) /\ u < p * q
  BY <1>11, <1>13, <1>14
<1>16. PICK w \in Nat : w = u \div q /\ w < p
  <2>1. p \in Nat
    OBVIOUS
  <2>2. u \div q < p
    BY <1>15, <2>1, QuotientBelow
  <2>3. u \div q \in Nat
    BY QuotientNat
  <2> QED
    BY <2>2, <2>3
<1>17. w \in 0 .. e.span - 1
  <2>1. e.span = p
    BY <1>4, <1>7, <1>14
  <2>2. w \in 0 .. p - 1
    BY <1>16
  <2> QED
    BY <2>1, <2>2
<1>18. e.delta + w \in 0 .. 2^k - 1
  BY <1>4, <1>10, <1>17, EntryStays
<1>19. r.state = e.delta + w /\ r.in = AfterPull(x, n)
  <2>1. /\ r.state = e.delta + (Pulled(x, n) \div 2^extra)
        /\ r.in = AfterPull(x, n)
    BY <1>3, <1>6, <1>8 DEF DecodeValue
  <2> HIDE DEF r, t
  <2> QED
    BY <1>14, <1>15, <1>16, <2>1
<1> HIDE DEF r
<1> QED
  BY <1>2, <1>5, <1>11, <1>12, <1>18, <1>19 DEF r

----------------------------------------------------------------------------
(* The header.                                                             *)

LEMMA FieldNumber ==
  ASSUME NEW s \in Sources, NEW a \in Nat, NEW n \in 0 .. 32, a + n <= 256
  PROVE  Number(Field(s, a, n)) \in Nat /\ (n <= 31 => Number(Field(s, a, n)) < 2^n)
<1>1. s \in Seq(Bit) /\ Len(s) >= 256
  BY DEF Sources, FixedSize
<1>2. n \in Nat /\ a + n <= Len(s)
  <2>1. Len(s) \in Nat
    BY <1>1, LenProperties
  <2> QED
    BY <1>1, <2>1
<1>3. Len(Field(s, a, n)) = n
  BY <1>1, <1>2, FieldIs
<1> QED
  BY <1>3, NumberIs

LEMMA FieldsAre ==
  ASSUME NEW s \in Sources, NEW h, h = DecodeHeader(s)
  PROVE  /\ DOMAIN h = Fields /\ HeaderSize(s) \in Nat
         /\ h.literalBytes \in Nat /\ h.lmdBytes \in Nat
         /\ h.literalBits \in -7 .. 0 /\ h.lmdBits \in -7 .. 0
         /\ \A j \in 0 .. 3 : h.state[j] \in Nat
         /\ \A kind \in {"L", "M", "D"} : h.lmdState[kind] \in Nat
         /\ h.freq = DecodeFreqTable(Field(s, 256, 8 * (HeaderSize(s) - FixedSize)))
<1> DEFINE N(a, n) == Number(Field(s, a, n))
<1>1. \A a \in 0 .. 256 : \A n \in 0 .. 32 : a + n <= 256 => N(a, n) \in Nat
  <2> SUFFICES ASSUME NEW a \in 0 .. 256, NEW n \in 0 .. 32, a + n <= 256 PROVE N(a, n) \in Nat
    OBVIOUS
  <2>1. a \in Nat
    OBVIOUS
  <2> QED
    BY <2>1, FieldNumber
<1>2. N(64 * 1 + 60, 3) \in 0 .. 7 /\ N(64 * 2 + 60, 3) \in 0 .. 7
  <2>1. /\ 64 * 1 + 60 \in Nat /\ 64 * 2 + 60 \in Nat /\ 3 \in 0 .. 32 /\ 2^3 = 8 /\ 3 <= 31
        /\ 64 * 1 + 60 + 3 <= 256 /\ 64 * 2 + 60 + 3 <= 256
    OBVIOUS
  <2>2. N(64 * 1 + 60, 3) \in Nat /\ N(64 * 1 + 60, 3) < 8
    BY <2>1, FieldNumber
  <2>3. N(64 * 2 + 60, 3) \in Nat /\ N(64 * 2 + 60, 3) < 8
    BY <2>1, FieldNumber
  <2> QED
    BY <2>2, <2>3
<1> HIDE DEF N
<1>3. h = [rawBytes |-> N(64 * 0 + 32, 32),
           literals |-> N(64 * 1 + 0, 20), literalBytes |-> N(64 * 1 + 20, 20), matches |-> N(64 * 1 + 40, 20),
           literalBits |-> N(64 * 1 + 60, 3) - 7,
           state |-> [j \in 0 .. 3 |-> N(64 * 2 + 10 * j, 10)],
           lmdBytes |-> N(64 * 2 + 40, 20), lmdBits |-> N(64 * 2 + 60, 3) - 7,
           lmdState |-> [L |-> N(64 * 3 + 32, 10), M |-> N(64 * 3 + 42, 10), D |-> N(64 * 3 + 52, 10)],
           freq |-> DecodeFreqTable(Field(s, 256, 8 * (HeaderSize(s) - FixedSize)))]
  BY Zenon DEF N, DecodeHeader
<1>4. DOMAIN h = Fields
  BY <1>3 DEF Fields
<1>5. HeaderSize(s) \in Nat
  <2>1. 192 \in Nat /\ 32 \in 0 .. 32 /\ 192 + 32 <= 256
    OBVIOUS
  <2> QED
    BY <2>1, FieldNumber DEF HeaderSize
<1>6. h.literalBytes \in Nat /\ h.lmdBytes \in Nat
  <2>1. h.literalBytes = N(64 * 1 + 20, 20) /\ h.lmdBytes = N(64 * 2 + 40, 20)
    BY <1>3
  <2>2. N(64 * 1 + 20, 20) \in Nat /\ N(64 * 2 + 40, 20) \in Nat
    BY SMTT(30), <1>1
  <2> QED
    BY <2>1, <2>2
<1>7. h.literalBits \in -7 .. 0 /\ h.lmdBits \in -7 .. 0
  <2>1. h.literalBits = N(64 * 1 + 60, 3) - 7 /\ h.lmdBits = N(64 * 2 + 60, 3) - 7
    BY <1>3
  <2> QED
    BY <1>2, <2>1
<1>8. \A j \in 0 .. 3 : h.state[j] \in Nat
  <2> SUFFICES ASSUME NEW j \in 0 .. 3 PROVE h.state[j] \in Nat
    OBVIOUS
  <2>1. h.state[j] = N(64 * 2 + 10 * j, 10)
    BY <1>3
  <2>2. 64 * 2 + 10 * j \in 0 .. 256 /\ 10 \in 0 .. 32 /\ 64 * 2 + 10 * j + 10 <= 256
    OBVIOUS
  <2> QED
    BY <1>1, <2>1, <2>2
<1>9. \A kind \in {"L", "M", "D"} : h.lmdState[kind] \in Nat
  <2>1. h.lmdState = [L |-> N(64 * 3 + 32, 10), M |-> N(64 * 3 + 42, 10), D |-> N(64 * 3 + 52, 10)]
    BY <1>3
  <2>2. N(64 * 3 + 32, 10) \in Nat /\ N(64 * 3 + 42, 10) \in Nat /\ N(64 * 3 + 52, 10) \in Nat
    BY SMTT(30), <1>1
  <2> QED
    BY <2>1, <2>2
<1>10. h.freq = DecodeFreqTable(Field(s, 256, 8 * (HeaderSize(s) - FixedSize)))
  BY <1>3
<1> QED
  BY <1>4, <1>5, <1>6, <1>7, <1>8, <1>9, <1>10

(* What a header that the decoder takes gives it.                          *)
LEMMA HeaderSound ==
  ASSUME NEW s \in Sources, NEW h, h = DecodeHeader(s), h.freq # <<>>, Sound(h),
         FixedSize <= HeaderSize(s), HeaderSize(s) <= Size(s)
  PROVE  StatesSound(h) /\ DecoderTables([kind \in Kinds |-> DecoderTable(States[kind], h.freq[kind])])
<1>1. StatesSound(h)
  <2>1. \A j \in 0 .. 3 : h.state[j] \in Nat
    BY FieldsAre
  <2>2. \A kind \in {"L", "M", "D"} : h.lmdState[kind] \in Nat
    BY FieldsAre
  <2>3. /\ \A j \in 0 .. 3 : h.state[j] < States.literal
        /\ \A kind \in {"L", "M", "D"} : h.lmdState[kind] < States[kind]
    BY DEF Sound
  <2>4. \A kind \in Kinds : States[kind] \in Nat
    BY KindsAre
  <2>5. "literal" \in Kinds /\ {"L", "M", "D"} \subseteq Kinds
    BY DEF Kinds
  <2>6. States.literal \in Nat
    BY <2>4, <2>5
  <2>7. \A kind \in {"L", "M", "D"} : h.lmdState[kind] \in 0 .. States[kind] - 1
    BY <2>2, <2>3, <2>4, <2>5
  <2>8. \A j \in 0 .. 3 : h.state[j] \in 0 .. States.literal - 1
    BY <2>1, <2>3, <2>6
  <2> QED
    BY <2>7, <2>8 DEF StatesSound
<1>2. PICK l \in Nat : l = Len(s) /\ s \in Seq(Bit)
  BY LenProperties DEF Sources
<1>3. PICK n \in Nat : n = HeaderSize(s) /\ 32 <= n /\ 8 * n <= l
  <2>1. PICK n \in Nat : n = HeaderSize(s)
    BY FieldsAre
  <2>2. 32 <= n /\ n <= l \div 8
    BY <1>2, <2>1 DEF FixedSize, Size
  <2>3. 8 * n <= l
    BY <2>2
  <2> QED
    BY <2>1, <2>2, <2>3
<1>4. PICK bits \in Seq(Bit) : bits = Field(s, 256, 8 * (HeaderSize(s) - FixedSize))
  <2>1. 256 \in Nat /\ 8 * (n - 32) \in Nat /\ 256 + 8 * (n - 32) <= Len(s)
    BY <1>2, <1>3
  <2>2. Field(s, 256, 8 * (n - 32)) \in Seq(Bit)
    BY <1>2, <2>1, FieldIs
  <2> QED
    BY <1>3, <2>2 DEF FixedSize
<1>5. PICK freq : freq = h.freq /\ freq = DecodeFreqTable(bits) /\ freq # <<>>
  BY <1>4, FieldsAre
<1>6. \A kind \in Kinds : freq[kind] \in [1 .. Symbols[kind] -> Nat]
  BY <1>5, FreqTableRead
<1>7. ASSUME NEW kind \in Kinds
      PROVE  /\ DecoderTable(States[kind], freq[kind]) \in Seq(Entries(StateBits[kind], Symbols[kind]))
             /\ Len(DecoderTable(States[kind], freq[kind])) >= States[kind]
  <2>1. PICK k \in 0 .. 10 : k = StateBits[kind] /\ States[kind] = 2^k
    BY StatesArePowers, ZenonT(60)
  <2>2. PICK m \in Nat \ {0} : m = Symbols[kind]
    <3>1. PICK m \in 20 .. 256 : m = Symbols[kind]
      BY KindsAre
    <3>2. m \in Nat \ {0}
      OBVIOUS
    <3> QED
      BY <3>1, <3>2
  <2>3. PICK f \in [1 .. m -> Nat] : f = freq[kind]
    BY <1>6, <2>2
  <2>4. Total(f) <= 2^k
    BY <1>5, <2>1, <2>3 DEF Sound
  <2>5. k \in 0 .. 15
    OBVIOUS
  <2>6. DecoderTable(2^k, f) \in Seq(Entries(k, m)) /\ Len(DecoderTable(2^k, f)) >= 2^k
    BY <2>4, <2>5, DecoderTableSound
  <2> QED
    BY <2>1, <2>2, <2>3, <2>6
<1>8. DecoderTables([kind \in Kinds |-> DecoderTable(States[kind], freq[kind])])
  BY <1>7 DEF DecoderTables
<1> QED
  BY <1>1, <1>5, <1>8

----------------------------------------------------------------------------
(* The invariant of the decoder.                                           *)

PullPhases == {"pull literals", "pull match"}
AfterHeader == DecoderPhases \ {"given"}

(* A block whose header has been taken, and its stream.                    *)
BlockRead ==
  /\ source \in Seq(Bit) /\ HeaderSize(source) \in Nat
  /\ found.literalBytes \in Nat /\ found.lmdBytes \in Nat /\ found.lmdBits \in -7 .. 0
  /\ 8 * BlockEnd <= Len(source)
  /\ DecoderTables(decoder)
  /\ HeldStream(in, 0) /\ in.pos + 8 <= BlockEnd + 1

DecoderInv ==
  /\ DOMAIN found = Fields /\ StatesSound(found)
  /\ phase = "given" => source \in Sources
  /\ in # NoStream => BlockRead
  /\ phase \in DecoderPhases \ {"given", "error"} => in # NoStream
  /\ phase \in PullPhases => HeldStream(in, 56)
  /\ phase \notin AfterHeader => in = NoStream

LEMMA DecoderInit == InitEntropy => DecoderInv
<1> SUFFICES ASSUME InitEntropy PROVE DecoderInv
  OBVIOUS
<1>1. found = EmptyHeader /\ phase = "tables" /\ in = NoStream
  BY DEF InitEntropy
<1>2. phase \notin DecoderPhases /\ phase \notin PullPhases /\ phase # "given"
  BY <1>1 DEF DecoderPhases, PullPhases
<1> QED
  BY <1>1, <1>2, EmptyHeaderSound, Zenon DEF DecoderInv

LEMMA ReadHeaderKeeps ==
  ASSUME DecoderInv, ReadHeader
  PROVE  DecoderInv'
<1>1. PICK h : h = DecodeHeader(source)
  OBVIOUS
<1>2. PICK end : end = HeaderSize(source) + h.literalBytes
  OBVIOUS
<1>3. PICK stream : stream = InInit(source, h.literalBits, end, 0)
  OBVIOUS
<1>4. /\ phase = "given"
      /\ IF \/ HeaderSize(source) < FixedSize \/ HeaderSize(source) > Size(source)
            \/ h.freq = <<>> \/ end + h.lmdBytes > Size(source)
            \/ ~Sound(h) \/ stream = NoStream
           THEN Fails
           ELSE /\ found' = h
                /\ decoder' = [kind \in Kinds |-> DecoderTable(States[kind], h.freq[kind])]
                /\ in' = stream
                /\ phase' = "flush in literals"
                /\ UNCHANGED <<encoderVars, source, literals, triples>>
  BY <1>1, <1>2, <1>3, Zenon DEF ReadHeader
<1>5. in = NoStream /\ source \in Sources /\ DOMAIN found = Fields /\ StatesSound(found)
  <2>1. phase \notin AfterHeader
    BY <1>4 DEF AfterHeader
  <2> QED
    BY <1>4, <2>1, Zenon DEF DecoderInv
<1>6. CASE Fails
  <2>1. phase' = "error" /\ found' = found /\ in' = in
    BY <1>6, Zenon DEF Fails, decoderVars
  <2>2. phase' # "given" /\ phase' \notin PullPhases /\ phase' \in AfterHeader
        /\ phase' \notin DecoderPhases \ {"given", "error"}
    BY <2>1, Zenon DEF PullPhases, AfterHeader, DecoderPhases
  <2> QED
    BY <1>5, <2>1, <2>2, Zenon DEF DecoderInv, StatesSound, NoStream
<1>7. CASE ~Fails
  <2>1. /\ ~(HeaderSize(source) < FixedSize) /\ ~(HeaderSize(source) > Size(source))
        /\ h.freq # <<>> /\ ~(end + h.lmdBytes > Size(source)) /\ Sound(h) /\ stream # NoStream
        /\ found' = h /\ in' = stream /\ phase' = "flush in literals" /\ source' = source
        /\ decoder' = [kind \in Kinds |-> DecoderTable(States[kind], h.freq[kind])]
    BY <1>4, <1>7, Zenon
  <2>2. /\ DOMAIN h = Fields /\ HeaderSize(source) \in Nat
        /\ h.literalBytes \in Nat /\ h.lmdBytes \in Nat
        /\ h.literalBits \in -7 .. 0 /\ h.lmdBits \in -7 .. 0
    BY <1>1, <1>5, FieldsAre
  <2>3. PICK s \in Seq(Bit) : s = source
    BY <1>5 DEF Sources
  <2>4. PICK l \in Nat : l = Len(s)
    BY LenProperties
  <2>5. PICK z \in Nat, a \in Nat, b \in Nat :
          z = HeaderSize(source) /\ a = h.literalBytes /\ b = h.lmdBytes
    BY <2>2, Zenon
  <2>6. Size(source) = l \div 8
    BY <2>3, <2>4 DEF Size
  <2>7. PICK e \in Nat : e = z + a /\ e = end
    BY <1>2, <2>5
  <2>8. PICK c \in Nat : c = e + b /\ 8 * c <= l /\ 8 * e <= l /\ e <= c
    <3>1. PICK y \in Nat : y = l \div 8 /\ 8 * y <= l
      <4>1. l \div 8 \in Nat
        BY QuotientNat
      <4>2. 8 * (l \div 8) <= l
        OBVIOUS
      <4> QED
        BY <4>1, <4>2
    <3>2. ~(e + b > y)
      BY <2>1, <2>5, <2>6, <2>7, <3>1, Zenon
    <3> QED
      BY <3>1, <3>2
  <2>9. FixedSize <= HeaderSize(source) /\ HeaderSize(source) <= Size(source)
    <3>1. PICK f \in Nat : f = FixedSize
      BY DEF FixedSize
    <3>2. l \div 8 \in Nat
      BY QuotientNat
    <3>3. PICK y \in Nat : y = l \div 8
      BY <3>2
    <3>4. ~(z < f) /\ ~(z > y)
      BY <2>1, <2>5, <2>6, <3>1, <3>3, Zenon
    <3>5. f <= z /\ z <= y
      BY <3>4
    <3> QED
      BY <2>5, <2>6, <3>1, <3>3, <3>5, Zenon
  <2>10. StatesSound(h) /\ DecoderTables([kind \in Kinds |-> DecoderTable(States[kind], h.freq[kind])])
    BY <1>1, <1>5, <2>1, <2>9, HeaderSound
  <2>11. HeldStream(stream, 56) /\ stream.pos + 8 <= e + 1
    <3>1. 0 \in Nat
      OBVIOUS
    <3>2. stream = InInit(s, h.literalBits, e, 0)
      BY <1>3, <2>3, <2>7
    <3>3. PICK n \in -7 .. 0 : n = h.literalBits
      BY <2>2
    <3>4. 8 * e <= Len(s)
      BY <2>4, <2>8
    <3> QED
      BY <2>1, <3>1, <3>2, <3>3, <3>4, InInitIs
  <2>12. HeldStream(stream, 0)
    <3>1. 56 \in Nat /\ 0 \in Nat /\ 0 <= 56
      OBVIOUS
    <3> QED
      BY <2>11, <3>1, HeldLess
  <2>13. stream.pos + 8 <= c + 1
    <3>1. PICK p \in Nat : p = stream.pos
      BY <2>12 DEF HeldStream
    <3> QED
      BY <2>8, <2>11, <3>1
  <2>14. BlockEnd' = c
    <3>1. BlockEnd' = HeaderSize(source) + h.literalBytes + h.lmdBytes
      BY <2>1 DEF BlockEnd
    <3> QED
      BY <2>5, <2>7, <2>8, <3>1
  <2>15. BlockRead'
    <3>1. 8 * BlockEnd' <= Len(source')
      BY <2>1, <2>3, <2>4, <2>8, <2>14
    <3>2. in'.pos + 8 <= BlockEnd' + 1
      BY <2>1, <2>13, <2>14
    <3> QED
      BY <2>1, <2>2, <2>3, <2>10, <2>12, <3>1, <3>2, Zenon DEF BlockRead
  <2>16. phase' # "given" /\ phase' \notin PullPhases /\ phase' \in AfterHeader
    BY <2>1, Zenon DEF PullPhases, AfterHeader, DecoderPhases
  <2>17. in' # NoStream /\ DOMAIN found' = Fields /\ StatesSound(found)'
    <3>1. StatesSound(found') /\ DOMAIN found' = Fields /\ in' # NoStream
      BY <2>1, <2>2, <2>10
    <3> QED
      BY <3>1, Zenon DEF StatesSound
  <2> QED
    BY <2>15, <2>16, <2>17, Zenon DEF DecoderInv, NoStream
<1> QED
  BY <1>6, <1>7

LEMMA StreamExists ==
  ASSUME NEW t, NEW least, HeldStream(t, least)
  PROVE  t # NoStream
<1>1. t.pos \in Nat
  BY DEF HeldStream
<1>2. NoStream.pos = -1
  BY DEF NoStream
<1> QED
  BY <1>1, <1>2

(* A step that leaves the block and comes down in its stream, or stays.    *)
LEMMA BlockStays ==
  ASSUME BlockRead, source' = source, decoder' = decoder,
         found'.literalBytes = found.literalBytes, found'.lmdBytes = found.lmdBytes,
         found'.lmdBits = found.lmdBits,
         HeldStream(in', 0), in'.pos <= in.pos
  PROVE  BlockRead'
<1>1. BlockEnd' = BlockEnd /\ HeaderSize(source)' = HeaderSize(source)
  BY DEF BlockEnd, HeaderSize
<1>2. in.pos \in Nat /\ in'.pos \in Nat
  BY DEF BlockRead, HeldStream
<1>3. PICK c \in Nat : c = BlockEnd
  BY DEF BlockRead, BlockEnd
<1>4. in.pos + 8 <= c + 1
  BY <1>3 DEF BlockRead
<1>5. in'.pos + 8 <= c + 1
  BY <1>2, <1>4
<1>6. in'.pos + 8 <= BlockEnd' + 1
  BY <1>1, <1>3, <1>5
<1>7. 8 * BlockEnd' <= Len(source')
  BY <1>1 DEF BlockRead
<1> QED
  BY <1>1, <1>6, <1>7, Zenon DEF BlockRead, HeldStream, DecoderTables, HeaderSize

(* A step that changes nothing the decoder has but the phase.              *)
LEMMA DecoderRests ==
  ASSUME DecoderInv, phase \in AfterHeader, phase' \in AfterHeader,
         phase' \in DecoderPhases \ {"given", "error"} => in # NoStream,
         phase' \notin PullPhases,
         source' = source, found' = found, decoder' = decoder, in' = in
  PROVE  DecoderInv'
<1>1. phase' # "given"
  BY DEF AfterHeader
<1>2. in # NoStream => BlockRead'
  <2> SUFFICES ASSUME in # NoStream PROVE BlockRead'
    OBVIOUS
  <2>1. BlockRead
    BY Zenon DEF DecoderInv
  <2> QED
    BY <2>1, Zenon DEF BlockRead, BlockEnd, HeldStream, DecoderTables, HeaderSize
<1> QED
  BY <1>1, <1>2, Zenon DEF DecoderInv, StatesSound, NoStream

LEMMA DecodedBlockKeeps ==
  ASSUME DecoderInv, DecodedBlock
  PROVE  DecoderInv'
<1>1. /\ phase = "flush in matches" /\ phase' = "decoded"
      /\ source' = source /\ found' = found /\ decoder' = decoder /\ in' = in
  BY Zenon DEF DecodedBlock, decoderVars
<1>2. phase \in AfterHeader /\ phase' \in AfterHeader /\ phase' \notin PullPhases
  BY <1>1, Zenon DEF AfterHeader, DecoderPhases, PullPhases
<1>3. in # NoStream
  BY <1>1, Zenon DEF DecoderInv, DecoderPhases
<1> QED
  BY <1>1, <1>2, <1>3, DecoderRests, Zenon

LEMMA FailsKeeps ==
  ASSUME DecoderInv, Fails, phase \in AfterHeader
  PROVE  DecoderInv'
<1>1. phase' = "error" /\ source' = source /\ found' = found /\ decoder' = decoder /\ in' = in
  BY Zenon DEF Fails, decoderVars
<1>2. /\ phase' \in AfterHeader /\ phase' \notin PullPhases
      /\ phase' \notin DecoderPhases \ {"given", "error"}
  BY <1>1, Zenon DEF AfterHeader, DecoderPhases, PullPhases
<1> QED
  BY <1>1, <1>2, DecoderRests, Zenon

LEMMA FlushInKeeps ==
  ASSUME DecoderInv, FlushIn
  PROVE  DecoderInv'
<1>1. PICK stream : stream = InFlush(source, in, 0)
  OBVIOUS
<1>2. /\ phase = "flush in literals" \/ phase = "flush in matches"
      /\ IF stream = NoStream THEN Fails
         ELSE /\ in' = stream
              /\ phase' = IF phase = "flush in literals" THEN "pull literals" ELSE "pull match"
              /\ UNCHANGED <<encoderVars, source, found, decoder, literals, triples>>
  BY <1>1, Zenon DEF FlushIn
<1>3. phase \in AfterHeader /\ phase \in DecoderPhases \ {"given", "error"}
  BY <1>2, Zenon DEF AfterHeader, DecoderPhases
<1>4. BlockRead /\ DOMAIN found = Fields /\ StatesSound(found)
  BY <1>3, Zenon DEF DecoderInv
<1>5. CASE stream = NoStream
  BY <1>2, <1>3, <1>5, FailsKeeps, Zenon
<1>6. CASE stream # NoStream
  <2>1. /\ in' = stream /\ phase' \in PullPhases
        /\ source' = source /\ found' = found /\ decoder' = decoder
    BY <1>2, <1>6, Zenon DEF PullPhases
  <2>2. HeldStream(stream, 56) /\ stream.pos <= in.pos
    <3> DEFINE end == BlockEnd
    <3>7. end \in Nat
      BY <1>4 DEF BlockRead, BlockEnd
    <3>8. PICK s \in Seq(Bit) : s = source
      BY <1>4, Zenon DEF BlockRead
    <3>9. PICK p \in Nat : p = in.pos
      BY <1>4, Zenon DEF BlockRead, HeldStream
    <3>10. 8 * end <= Len(source) /\ in.pos + 8 <= end + 1
      BY <1>4, Zenon DEF BlockRead
    <3> HIDE DEF end
    <3>11. PICK c \in Nat : c = end
      BY <3>7
    <3>1. 8 * c <= Len(s) /\ p + 8 <= c + 1
      BY <3>8, <3>9, <3>10, <3>11, Zenon
    <3>2. PICK l \in Nat : l = Len(s)
      BY LenProperties
    <3>3. 8 * p <= Len(s)
      BY <3>1, <3>2
    <3>4. HeldStream(in, 0)
      BY <1>4, Zenon DEF BlockRead
    <3>5. stream = InFlush(s, in, 0)
      BY <1>1, <3>8
    <3>6. 8 * in.pos <= Len(s)
      BY <3>3, <3>9
    <3> QED
      BY <1>6, <3>4, <3>5, <3>6, InFlushIs
  <2>3. HeldStream(in', 0) /\ HeldStream(in', 56)
    <3>1. 56 \in Nat /\ 0 \in Nat /\ 0 <= 56
      OBVIOUS
    <3> QED
      BY <2>1, <2>2, <3>1, HeldLess
  <2>4. in' # NoStream
    BY <1>6, <2>1
  <2>5. BlockRead'
    <3>1. in'.pos <= in.pos
      BY <2>1, <2>2, Zenon
    <3> QED
      BY <1>4, <2>1, <2>3, <3>1, BlockStays, Zenon
  <2>6. phase' # "given" /\ phase' \in AfterHeader
    BY <2>1, Zenon DEF PullPhases, AfterHeader, DecoderPhases
  <2> QED
    BY <1>4, <2>1, <2>3, <2>4, <2>5, <2>6, Zenon DEF DecoderInv, StatesSound, HeldStream, NoStream
<1> QED
  BY <1>5, <1>6

LEMMA StartMatchesKeeps ==
  ASSUME DecoderInv, StartMatches
  PROVE  DecoderInv'
<1>1. PICK start : start = HeaderSize(source) + found.literalBytes
  OBVIOUS
<1>2. PICK stream : stream = InInit(source, found.lmdBits, start + found.lmdBytes, start)
  OBVIOUS
<1>3. /\ phase = "flush in literals"
      /\ IF stream = NoStream THEN Fails
         ELSE /\ in' = stream
              /\ phase' = "flush in matches"
              /\ UNCHANGED <<encoderVars, source, found, decoder, literals, triples>>
  BY <1>1, <1>2, Zenon DEF StartMatches
<1>4. phase \in AfterHeader /\ phase \in DecoderPhases \ {"given", "error"}
  BY <1>3, Zenon DEF AfterHeader, DecoderPhases
<1>5. BlockRead /\ DOMAIN found = Fields /\ StatesSound(found)
  BY <1>4, Zenon DEF DecoderInv
<1>6. CASE stream = NoStream
  BY <1>3, <1>4, <1>6, FailsKeeps, Zenon
<1>7. CASE stream # NoStream
  <2>1. /\ in' = stream /\ phase' = "flush in matches"
        /\ source' = source /\ found' = found /\ decoder' = decoder
    BY <1>3, <1>7, Zenon
  <2>2. PICK z \in Nat, a \in Nat, b \in Nat, n \in -7 .. 0 :
          z = HeaderSize(source) /\ a = found.literalBytes /\ b = found.lmdBytes /\ n = found.lmdBits
    BY <1>5, Zenon DEF BlockRead
  <2>3. PICK y \in Nat, c \in Nat : y = start /\ c = start + found.lmdBytes /\ c = BlockEnd
    <3>1. z + a \in Nat /\ z + a + b \in Nat
      OBVIOUS
    <3> QED
      BY <1>1, <2>2, <3>1, Zenon DEF BlockEnd
  <2>4. PICK s \in Seq(Bit) : s = source /\ 8 * c <= Len(s)
    BY <1>5, <2>3, Zenon DEF BlockRead
  <2>5. HeldStream(stream, 56) /\ stream.pos + 8 <= c + 1
    <3>1. stream = InInit(s, n, c, y)
      BY <1>2, <2>2, <2>3, <2>4, Zenon
    <3> QED
      BY <1>7, <2>4, <3>1, InInitIs
  <2>6. HeldStream(in', 0)
    <3>1. 56 \in Nat /\ 0 \in Nat /\ 0 <= 56
      OBVIOUS
    <3> QED
      BY <2>1, <2>5, <3>1, HeldLess
  <2>7. BlockEnd' = BlockEnd
    BY <2>1 DEF BlockEnd
  <2>8. BlockRead'
    <3>1. in'.pos + 8 <= BlockEnd' + 1 /\ 8 * BlockEnd' <= Len(source')
      BY <2>1, <2>3, <2>4, <2>5, <2>7, Zenon
    <3> QED
      BY <1>5, <2>1, <2>6, <3>1, Zenon DEF BlockRead, DecoderTables, HeaderSize
  <2>9. phase' # "given" /\ phase' \in AfterHeader /\ phase' \notin PullPhases /\ in' # NoStream
    BY <1>7, <2>1, Zenon DEF PullPhases, AfterHeader, DecoderPhases
  <2> QED
    BY <1>5, <2>1, <2>8, <2>9, Zenon DEF DecoderInv, StatesSound, NoStream
<1> QED
  BY <1>6, <1>7

LEMMA LiteralDecoded ==
  ASSUME DecoderTables(decoder), StatesSound(found), NEW j \in 0 .. 3,
         NEW x, NEW least \in Nat, NEW rest \in Nat, rest + 10 = least, HeldStream(x, least)
  PROVE  LET r == DecodeSymbol([table |-> decoder.literal, state |-> found.state[j],
                                in |-> x, value |-> 0])
         IN /\ r.state \in 0 .. States.literal - 1
            /\ HeldStream(r.in, rest) /\ r.in.pos = x.pos
<1>1. PICK s \in 0 .. States["literal"] - 1 : s = found.state[j]
  BY DEF StatesSound
<1>2. "literal" \in Kinds /\ StateBits["literal"] = 10
  BY DEF Kinds, StateBits
<1>3. StateBits["literal"] <= least /\ least - StateBits["literal"] = rest
  BY <1>2
<1> DEFINE r == DecodeSymbol([table |-> decoder["literal"], state |-> s, in |-> x, value |-> 0])
<1>4. /\ r.state \in 0 .. States["literal"] - 1
      /\ HeldStream(r.in, rest) /\ r.in.pos = x.pos
  <2>1. /\ r.state \in 0 .. States["literal"] - 1
        /\ HeldStream(r.in, least - StateBits["literal"]) /\ r.in.pos = x.pos
    BY <1>2, <1>3, DecodeSymbolSound
  <2> HIDE DEF r
  <2> QED
    BY <1>3, <2>1
<1>5. DecodeSymbol([table |-> decoder.literal, state |-> found.state[j], in |-> x, value |-> 0]) = r
  BY <1>1
<1> HIDE DEF r
<1> QED
  BY <1>4, <1>5

LEMMA DecodeLiteralsKeeps ==
  ASSUME DecoderInv, DecodeLiterals
  PROVE  DecoderInv'
<1> DEFINE After(x, j) == DecodeSymbol([table |-> decoder.literal, state |-> found.state[j],
                                        in |-> x, value |-> 0])
           t0 == After(in, 0)
           t1 == After(t0.in, 1)
           t2 == After(t1.in, 2)
           t3 == After(t2.in, 3)
<1>1. /\ phase = "pull literals" /\ phase' = "flush in literals"
      /\ in' = t3.in /\ source' = source /\ decoder' = decoder
      /\ found' = [found EXCEPT !.state =
           [j \in 0 .. 3 |-> <<t0.state, t1.state, t2.state, t3.state>>[j + 1]]]
  BY Zenon DEF DecodeLiterals
<1>2. /\ phase \in DecoderPhases \ {"given", "error"} /\ phase \in PullPhases
      /\ phase' # "given" /\ phase' \in AfterHeader /\ phase' \notin PullPhases
  BY <1>1, Zenon DEF AfterHeader, DecoderPhases, PullPhases
<1>3. BlockRead /\ DOMAIN found = Fields /\ StatesSound(found) /\ HeldStream(in, 56)
  BY <1>2, Zenon DEF DecoderInv
<1>4. 46 + 10 = 56 /\ 36 + 10 = 46 /\ 26 + 10 = 36 /\ 16 + 10 = 26
  OBVIOUS
<1>5. DecoderTables(decoder) /\ StatesSound(found)
  BY <1>3, Zenon DEF BlockRead
<1>6. 0 \in 0 .. 3 /\ 1 \in 0 .. 3 /\ 2 \in 0 .. 3 /\ 3 \in 0 .. 3
  OBVIOUS
<1>7. t0.state \in 0 .. States.literal - 1 /\ HeldStream(t0.in, 46) /\ t0.in.pos = in.pos
  <2>1. PICK c \in 0 .. 3 : c = 0
    BY <1>6
  <2>2. PICK x : x = in
    OBVIOUS
  <2>3. PICK least \in Nat, rest \in Nat : least = 56 /\ rest = 46 /\ rest + 10 = least
    BY <1>4
  <2>4. HeldStream(x, least)
    BY <1>3, <2>2, <2>3, Zenon
  <2> DEFINE r == DecodeSymbol([table |-> decoder.literal, state |-> found.state[c], in |-> x, value |-> 0])
  <2>5. r.state \in 0 .. States.literal - 1 /\ HeldStream(r.in, rest) /\ r.in.pos = x.pos
    BY <1>5, <2>3, <2>4, LiteralDecoded
  <2>6. t0 = r
    BY <2>1, <2>2, Zenon
  <2> HIDE DEF r, t0
  <2> QED
    BY <2>3, <2>5, <2>6, <2>2, Zenon
<1> HIDE DEF t0
<1>8. t1.state \in 0 .. States.literal - 1 /\ HeldStream(t1.in, 36) /\ t1.in.pos = t0.in.pos
  <2>1. PICK c \in 0 .. 3 : c = 1
    BY <1>6
  <2>2. PICK x : x = t0.in
    OBVIOUS
  <2>3. PICK least \in Nat, rest \in Nat : least = 46 /\ rest = 36 /\ rest + 10 = least
    BY <1>4
  <2>4. HeldStream(x, least)
    BY <1>7, <2>2, <2>3, Zenon
  <2> DEFINE r == DecodeSymbol([table |-> decoder.literal, state |-> found.state[c], in |-> x, value |-> 0])
  <2>5. r.state \in 0 .. States.literal - 1 /\ HeldStream(r.in, rest) /\ r.in.pos = x.pos
    BY <1>5, <2>3, <2>4, LiteralDecoded
  <2>6. t1 = r
    BY <2>1, <2>2, Zenon
  <2> HIDE DEF r, t1
  <2> QED
    BY <2>3, <2>5, <2>6, <2>2, Zenon
<1> HIDE DEF t1
<1>9. t2.state \in 0 .. States.literal - 1 /\ HeldStream(t2.in, 26) /\ t2.in.pos = t1.in.pos
  <2>1. PICK c \in 0 .. 3 : c = 2
    BY <1>6
  <2>2. PICK x : x = t1.in
    OBVIOUS
  <2>3. PICK least \in Nat, rest \in Nat : least = 36 /\ rest = 26 /\ rest + 10 = least
    BY <1>4
  <2>4. HeldStream(x, least)
    BY <1>8, <2>2, <2>3, Zenon
  <2> DEFINE r == DecodeSymbol([table |-> decoder.literal, state |-> found.state[c], in |-> x, value |-> 0])
  <2>5. r.state \in 0 .. States.literal - 1 /\ HeldStream(r.in, rest) /\ r.in.pos = x.pos
    BY <1>5, <2>3, <2>4, LiteralDecoded
  <2>6. t2 = r
    BY <2>1, <2>2, Zenon
  <2> HIDE DEF r, t2
  <2> QED
    BY <2>3, <2>5, <2>6, <2>2, Zenon
<1> HIDE DEF t2
<1>10. t3.state \in 0 .. States.literal - 1 /\ HeldStream(t3.in, 16) /\ t3.in.pos = t2.in.pos
  <2>1. PICK c \in 0 .. 3 : c = 3
    BY <1>6
  <2>2. PICK x : x = t2.in
    OBVIOUS
  <2>3. PICK least \in Nat, rest \in Nat : least = 26 /\ rest = 16 /\ rest + 10 = least
    BY <1>4
  <2>4. HeldStream(x, least)
    BY <1>9, <2>2, <2>3, Zenon
  <2> DEFINE r == DecodeSymbol([table |-> decoder.literal, state |-> found.state[c], in |-> x, value |-> 0])
  <2>5. r.state \in 0 .. States.literal - 1 /\ HeldStream(r.in, rest) /\ r.in.pos = x.pos
    BY <1>5, <2>3, <2>4, LiteralDecoded
  <2>6. t3 = r
    BY <2>1, <2>2, Zenon
  <2> HIDE DEF r, t3
  <2> QED
    BY <2>3, <2>5, <2>6, <2>2, Zenon
<1> HIDE DEF t3
<1>11. PICK s0, s1, s2, s3 \in 0 .. States.literal - 1 :
         s0 = t0.state /\ s1 = t1.state /\ s2 = t2.state /\ s3 = t3.state
  BY <1>7, <1>8, <1>9, <1>10, Zenon
<1>12. found' = [found EXCEPT !.state = [j \in 0 .. 3 |-> <<s0, s1, s2, s3>>[j + 1]]]
  BY <1>1, <1>11, Zenon
<1>13. /\ DOMAIN found' = Fields
       /\ found'.state = [j \in 0 .. 3 |-> <<s0, s1, s2, s3>>[j + 1]]
       /\ found'.lmdState = found.lmdState /\ found'.literalBytes = found.literalBytes
       /\ found'.lmdBytes = found.lmdBytes /\ found'.lmdBits = found.lmdBits
  BY <1>3, <1>12 DEF Fields
<1>14. StatesSound(found')
  <2>1. ASSUME NEW j \in 0 .. 3 PROVE found'.state[j] \in 0 .. States.literal - 1
    <3>1. found'.state[j] = <<s0, s1, s2, s3>>[j + 1]
      BY <1>13
    <3>2. j = 0 \/ j = 1 \/ j = 2 \/ j = 3
      OBVIOUS
    <3> QED
      BY <1>11, <3>1, <3>2
  <2> QED
    BY <1>3, <1>13, <2>1 DEF StatesSound
<1>15. HeldStream(in', 0) /\ in'.pos = in.pos
  <2>1. 16 \in Nat /\ 0 \in Nat /\ 0 <= 16
    OBVIOUS
  <2>2. HeldStream(t3.in, 0)
    BY <1>10, <2>1, HeldLess
  <2>3. t3.in.pos = in.pos
    BY <1>7, <1>8, <1>9, <1>10, Zenon
  <2> QED
    BY <1>1, <2>2, <2>3, Zenon
<1>16. in' # NoStream
  BY <1>15, StreamExists
<1>17. BlockRead'
  <2>1. in'.pos <= in.pos
    <3>1. PICK p \in Nat : p = in.pos
      BY <1>3 DEF HeldStream
    <3> QED
      BY <1>15, <3>1
  <2> QED
    BY <1>1, <1>3, <1>13, <1>15, <2>1, BlockStays, Zenon
<1> QED
  BY <1>2, <1>13, <1>14, <1>16, <1>17, Zenon DEF DecoderInv, StatesSound, NoStream

LEMMA DecodeMatchKeeps ==
  ASSUME DecoderInv, DecodeMatch
  PROVE  DecoderInv'
<1> DEFINE l == DecodeValue("L", in)
           m == DecodeValue("M", l.in)
           d == DecodeValue("D", m.in)
<1>1. /\ phase = "pull match" /\ phase' = "flush in matches"
      /\ in' = d.in /\ source' = source /\ decoder' = decoder
      /\ found' = [found EXCEPT !.lmdState = [L |-> l.state, M |-> m.state, D |-> d.state]]
  BY Zenon DEF DecodeMatch
<1>2. /\ phase \in DecoderPhases \ {"given", "error"} /\ phase \in PullPhases
      /\ phase' # "given" /\ phase' \in AfterHeader /\ phase' \notin PullPhases
  BY <1>1, Zenon DEF AfterHeader, DecoderPhases, PullPhases
<1>3. BlockRead /\ DOMAIN found = Fields /\ StatesSound(found) /\ HeldStream(in, 56)
  BY <1>2, Zenon DEF DecoderInv
<1>4. DecoderTables(decoder)
  BY <1>3, Zenon DEF BlockRead
<1>5. "L" \in {"L", "M", "D"} /\ "M" \in {"L", "M", "D"} /\ "D" \in {"L", "M", "D"}
  OBVIOUS
<1>6. MostBits["L"] = 14 /\ MostBits["M"] = 17 /\ MostBits["D"] = 23
  BY DEF MostBits
<1>7. l.state \in 0 .. States["L"] - 1 /\ HeldStream(l.in, 42) /\ l.in.pos = in.pos
  <2>1. 56 \in Nat /\ MostBits["L"] <= 56 /\ 56 - MostBits["L"] = 42
    BY <1>6
  <2> QED
    BY <1>3, <1>4, <1>5, <2>1, DecodeValueSound
<1> HIDE DEF l
<1>8. m.state \in 0 .. States["M"] - 1 /\ HeldStream(m.in, 25) /\ m.in.pos = l.in.pos
  <2>1. 42 \in Nat /\ MostBits["M"] <= 42 /\ 42 - MostBits["M"] = 25
    BY <1>6
  <2> QED
    BY <1>3, <1>4, <1>5, <1>7, <2>1, DecodeValueSound
<1> HIDE DEF m
<1>9. d.state \in 0 .. States["D"] - 1 /\ HeldStream(d.in, 2) /\ d.in.pos = m.in.pos
  <2>1. 25 \in Nat /\ MostBits["D"] <= 25 /\ 25 - MostBits["D"] = 2
    BY <1>6
  <2> QED
    BY <1>3, <1>4, <1>5, <1>8, <2>1, DecodeValueSound
<1> HIDE DEF d
<1>10. /\ DOMAIN found' = Fields /\ found'.state = found.state
       /\ found'.lmdState = [L |-> l.state, M |-> m.state, D |-> d.state]
       /\ found'.literalBytes = found.literalBytes
       /\ found'.lmdBytes = found.lmdBytes /\ found'.lmdBits = found.lmdBits
  <2>1. found' = [found EXCEPT !.lmdState = [L |-> l.state, M |-> m.state, D |-> d.state]]
    BY <1>1, Zenon
  <2> QED
    BY <1>3, <2>1 DEF Fields
<1>11. StatesSound(found')
  <2>1. ASSUME NEW kind \in {"L", "M", "D"} PROVE found'.lmdState[kind] \in 0 .. States[kind] - 1
    <3>1. /\ found'.lmdState["L"] = l.state /\ found'.lmdState["M"] = m.state
          /\ found'.lmdState["D"] = d.state
      BY <1>10
    <3> QED
      BY <1>7, <1>8, <1>9, <3>1
  <2> QED
    BY <1>3, <1>10, <2>1 DEF StatesSound
<1>12. HeldStream(in', 0) /\ in'.pos = in.pos
  <2>1. 2 \in Nat /\ 0 \in Nat /\ 0 <= 2
    OBVIOUS
  <2>2. HeldStream(d.in, 0)
    BY <1>9, <2>1, HeldLess
  <2>3. d.in.pos = in.pos
    BY <1>7, <1>8, <1>9, Zenon
  <2> QED
    BY <1>1, <2>2, <2>3, Zenon
<1>13. in' # NoStream
  BY <1>12, StreamExists
<1>14. BlockRead'
  <2>1. in'.pos <= in.pos
    <3>1. PICK p \in Nat : p = in.pos
      BY <1>3 DEF HeldStream
    <3> QED
      BY <1>12, <3>1
  <2> QED
    BY <1>1, <1>3, <1>10, <1>12, <2>1, BlockStays, Zenon
<1> QED
  BY <1>2, <1>10, <1>11, <1>13, <1>14, Zenon DEF DecoderInv, StatesSound, NoStream

LEMMA EncoderLeavesDecoder ==
  ASSUME NextEncode
  PROVE  UNCHANGED decoderVars /\ phase \notin DecoderPhases /\ phase' \notin DecoderPhases
<1>1. CASE DstFull
  BY <1>1, Zenon DEF DstFull, DecoderPhases
<1>2. CASE MakeTables
  BY <1>2, Zenon DEF MakeTables, DecoderPhases
<1>3. CASE EncodeLiterals
  BY <1>3, Zenon DEF EncodeLiterals, DecoderPhases
<1>4. CASE EncodeMatch
  BY <1>4, Zenon DEF EncodeMatch, DecoderPhases
<1>5. CASE FlushOut
  BY <1>5, Zenon DEF FlushOut, DecoderPhases
<1>6. CASE FinishLiterals
  BY <1>6, Zenon DEF FinishLiterals, DecoderPhases
<1>7. CASE FinishMatches
  BY <1>7, Zenon DEF FinishMatches, DecoderPhases
<1> QED
  BY <1>1, <1>2, <1>3, <1>4, <1>5, <1>6, <1>7, Zenon DEF NextEncode

LEMMA DecoderStep ==
  ASSUME DecoderInv, [NextEncode \/ NextDecode \/ GiveAny]_<<encoderVars, decoderVars, phase>>
  PROVE  DecoderInv'
<1>1. CASE NextEncode
  <2>1. /\ source' = source /\ found' = found /\ decoder' = decoder /\ in' = in
        /\ phase \notin DecoderPhases /\ phase' \notin DecoderPhases
    BY <1>1, EncoderLeavesDecoder, Zenon DEF decoderVars
  <2>2. phase \notin AfterHeader /\ phase' \notin AfterHeader
    BY <2>1, Zenon DEF AfterHeader
  <2>3. in = NoStream
    BY <2>2, Zenon DEF DecoderInv
  <2>4. phase' # "given" /\ phase' \notin PullPhases
    BY <2>1, Zenon DEF DecoderPhases, PullPhases
  <2> QED
    BY <2>1, <2>2, <2>3, <2>4, Zenon DEF DecoderInv, StatesSound, NoStream
<1>2. CASE NextDecode
  BY <1>2, ReadHeaderKeeps, FlushInKeeps, DecodeLiteralsKeeps, StartMatchesKeeps, DecodeMatchKeeps,
     DecodedBlockKeeps, Zenon DEF NextDecode
<1>3. CASE GiveAny
  <2>1. /\ phase = "encoded" /\ phase' = "given" /\ source' \in Sources
        /\ found' = found /\ decoder' = decoder /\ in' = in
    BY <1>3, Zenon DEF GiveAny, Given
  <2>2. /\ phase \notin AfterHeader /\ phase' \notin AfterHeader /\ phase' \notin PullPhases
        /\ phase' \notin DecoderPhases \ {"given", "error"}
    BY <2>1, Zenon DEF AfterHeader, DecoderPhases, PullPhases
  <2>3. in = NoStream
    BY <2>2, Zenon DEF DecoderInv
  <2> QED
    BY <2>1, <2>2, <2>3, Zenon DEF DecoderInv, StatesSound, Sources, NoStream
<1>4. CASE UNCHANGED <<encoderVars, decoderVars, phase>>
  <2>1. source' = source /\ found' = found /\ decoder' = decoder /\ in' = in /\ phase' = phase
    BY <1>4 DEF decoderVars
  <2> QED
    BY <2>1, Zenon DEF DecoderInv, StatesSound, BlockRead, BlockEnd, HeldStream, DecoderTables,
      HeaderSize, NoStream
<1> QED
  BY <1>1, <1>2, <1>3, <1>4

(* The decoder's invariant holds for every source of whole bytes: once a   *)
(* header is taken, every state of its tables has an entry, the stream     *)
(* lies in the block, and a flush leaves at least 56 bits to pull from     *)
(* (lzfse_decode, lzfse_decode_literals, lzfse_decode_lmd).                *)
THEOREM DecoderIsSound == AnySpec => []DecoderInv
<1>1. InitEntropy => DecoderInv
  BY DecoderInit
<1>2. DecoderInv /\ [NextEncode \/ NextDecode \/ GiveAny]_<<encoderVars, decoderVars, phase>> => DecoderInv'
  BY DecoderStep
<1> QED
  BY <1>1, <1>2, PTL DEF AnySpec

(* No state of the encoder or the decoder leaves its table, whatever block *)
(* is coded and whatever source is decoded: also where a header's          *)
(* frequencies leave states to no symbol.                                  *)
THEOREM StatesStayInRange == AnySpec => []StatesInRange
<1>1. EncoderInv /\ DecoderInv => StatesInRange
  <2> SUFFICES ASSUME StatesSound(header), StatesSound(found) PROVE StatesInRange
    BY Zenon DEF EncoderInv, DecoderInv
  <2> QED
    BY DEF StatesInRange, StatesSound
<1> QED
  BY <1>1, EncoderIsSound, DecoderIsSound, PTL

LEMMA FewBits ==
  ASSUME NEW n \in Nat, 56 <= n
  PROVE  /\ \A a, b, c, d \in 0 .. 10 : a + b + c + d <= n
         /\ \A a \in 0 .. 14 : \A b \in 0 .. 17 : \A c \in 0 .. 23 : a + b + c <= n
BY SMTT(60)

(* The bits one turn pulls.                                                *)
LEMMA PullsStayInStream ==
  ASSUME DecoderInv
  PROVE  PullsFit
<1>1. ASSUME phase = "pull literals"
      PROVE  LET k(j) == BitCount(Step([table |-> decoder.literal, state |-> found.state[j]]).span)
             IN k(0) + k(1) + k(2) + k(3) <= Len(in.bits)
  <2> DEFINE k(j) == BitCount(Step([table |-> decoder.literal, state |-> found.state[j]]).span)
  <2>1. HeldStream(in, 56) /\ DecoderTables(decoder) /\ StatesSound(found)
    BY <1>1, Zenon DEF DecoderInv, BlockRead, DecoderPhases, PullPhases
  <2>2. ASSUME NEW j \in 0 .. 3 PROVE k(j) \in 0 .. 10
    <3>1. PICK s \in 0 .. States["literal"] - 1 : s = found.state[j]
      BY <2>1 DEF StatesSound
    <3>2. "literal" \in Kinds /\ StateBits["literal"] = 10
      BY DEF Kinds, StateBits
    <3>3. BitCount(decoder["literal"][s + 1].span) \in 0 .. 10
      BY <2>1, <3>2, StepIs
    <3>4. k(j) = BitCount(decoder["literal"][s + 1].span)
      BY <3>1 DEF Step
    <3> QED
      BY <3>3, <3>4
  <2> HIDE DEF k
  <2>3. k(0) \in 0 .. 10 /\ k(1) \in 0 .. 10 /\ k(2) \in 0 .. 10 /\ k(3) \in 0 .. 10
    <3>1. 0 \in 0 .. 3 /\ 1 \in 0 .. 3 /\ 2 \in 0 .. 3 /\ 3 \in 0 .. 3
      OBVIOUS
    <3> QED
      BY <2>2, <3>1
  <2>4. PICK n \in Nat : n = Len(in.bits) /\ 56 <= n
    BY <2>1, LenProperties DEF HeldStream
  <2>5. k(0) + k(1) + k(2) + k(3) <= n
    BY <2>3, <2>4, FewBits, Zenon
  <2> QED
    BY <2>4, <2>5 DEF k
<1>2. ASSUME phase = "pull match"
      PROVE  LET k(kind) == ValueBits(kind, [table |-> decoder[kind], state |-> found.lmdState[kind]])
             IN k("L") + k("M") + k("D") <= Len(in.bits)
  <2> DEFINE k(kind) == ValueBits(kind, [table |-> decoder[kind], state |-> found.lmdState[kind]])
  <2>1. HeldStream(in, 56) /\ DecoderTables(decoder) /\ StatesSound(found)
    BY <1>2, Zenon DEF DecoderInv, BlockRead, DecoderPhases, PullPhases
  <2>2. \A kind \in {"L", "M", "D"} : k(kind) \in 0 .. MostBits[kind]
    BY <2>1, ValueBitsAre
  <2> HIDE DEF k
  <2>3. k("L") \in 0 .. 14 /\ k("M") \in 0 .. 17 /\ k("D") \in 0 .. 23
    BY <2>2 DEF MostBits
  <2>4. PICK n \in Nat : n = Len(in.bits) /\ 56 <= n
    BY <2>1, LenProperties DEF HeldStream
  <2>5. k("L") + k("M") + k("D") <= n
    BY <2>3, <2>4, FewBits, Zenon
  <2> QED
    BY <2>4, <2>5 DEF k
<1> QED
  BY <1>1, <1>2, Zenon DEF PullsFit

(* One flush per turn of a loop is enough in both directions: what a turn  *)
(* pushes fits the 64 bits of the accumulator, and what a turn pulls is in *)
(* it, 40 bits at most for four literals and 54 for a triple.              *)
THEOREM OneFlushIsEnough == AnySpec => []BitsFit
<1>1. EncoderInv /\ DecoderInv => BitsFit
  BY PullsStayInStream, Zenon DEF BitsFit, EncoderInv
<1> QED
  BY <1>1, EncoderIsSound, DecoderIsSound, PTL

LEMMA DecoderReadsInSource ==
  ASSUME DecoderInv
  PROVE  ReadsInSource
<1> SUFFICES ASSUME in # NoStream
             PROVE  /\ in.pos >= 0 /\ BlockEnd <= Size(source)
                    /\ in.pos + 8 <= IF BlockEnd = Size(source) THEN Size(source) + 1
                                                               ELSE Size(source)
  BY Zenon DEF ReadsInSource
<1>1. BlockRead
  BY Zenon DEF DecoderInv
<1>2. PICK c \in Nat : c = BlockEnd
  BY <1>1 DEF BlockRead, BlockEnd
<1>3. PICK n \in Nat : n = Len(source) /\ 8 * c <= n
  <2>1. Len(source) \in Nat
    BY <1>1, LenProperties DEF BlockRead
  <2> QED
    BY <1>1, <1>2, <2>1 DEF BlockRead
<1>4. PICK y \in Nat : y = n \div 8 /\ c <= y
  <2>1. n \div 8 \in Nat
    BY QuotientNat
  <2>2. c <= n \div 8
    BY <1>3
  <2> QED
    BY <2>1, <2>2
<1>5. Size(source) = y
  BY <1>3, <1>4 DEF Size
<1>6. PICK p \in Nat : p = in.pos /\ p + 8 <= c + 1
  BY <1>1, <1>2 DEF BlockRead, HeldStream
<1>7. p + 8 <= IF c = y THEN y + 1 ELSE y
  BY <1>4, <1>6
<1> QED
  BY <1>2, <1>4, <1>5, <1>6, <1>7

(* The 8 bytes a flush stores end in the destination, also those of the    *)
(* two stores nothing tests. The 8 bytes that are loaded begin in the      *)
(* source and end in it, whatever the block's header says, if the block is *)
(* not the source's end; if it is, one byte behind it at most.             *)
THEOREM AccessesStayInBounds == AnySpec => []WideAccessesInBounds
<1>1. EncoderInv /\ DecoderInv => WideAccessesInBounds
  BY EncoderStoresInBounds, DecoderReadsInSource, Zenon DEF WideAccessesInBounds
<1> QED
  BY <1>1, EncoderIsSound, DecoderIsSound, PTL
===============================================================================
