-------------------------- MODULE CARWriterProofs --------------------------
(***************************************************************************)
(* What a reader finds in a finished catalog, for every list of renditions *)
(* the compiler may hand over: the trees are sorted by their keys, so that *)
(* a binary search meets every key that was put in, and the blocks it is   *)
(* led to are the ones that were stored.                                   *)
(***************************************************************************)
EXTENDS CARWriter, FiniteSetTheorems, SequenceTheorems, WellFoundedInduction, TLAPS

----------------------------------------------------------------------------
(* The order of keys.                                                      *)

Str == Seq(Nat)

LEMMA LeastElement ==
  ASSUME NEW T \in SUBSET Nat, T # {}
  PROVE  \E x \in T : \A y \in T : x <= y
<1>1. \E x \in T : \A y \in T : ~(<<y, x>> \in OpToRel(<, Nat))
  BY NatLessThanWellFounded, WFMin
<1>2. PICK x \in T : \A y \in T : ~(<<y, x>> \in OpToRel(<, Nat))
  BY <1>1
<1>3. ASSUME NEW y \in T PROVE x <= y
  <2>1. x \in Nat /\ y \in Nat
    OBVIOUS
  <2>2. <<y, x>> \in OpToRel(<, Nat) <=> y < x
    BY <2>1 DEF OpToRel
  <2>3. ~(y < x)
    BY <1>2, <2>2, Zenon
  <2> QED
    BY <2>1, <2>3
<1> QED
  BY <1>3

LEMMA StrFacts ==
  ASSUME NEW a \in Str
  PROVE  Len(a) \in Nat /\ DOMAIN a = 1 .. Len(a) /\ \A k \in 1 .. Len(a) : a[k] \in Nat
BY DEF Str

(* No string of bytes precedes itself.                                     *)
LEMMA LessIrreflexive ==
  ASSUME NEW a \in Str
  PROVE  ~ByteLess(a, a)
<1>1. SUFFICES ASSUME NEW i \in DOMAIN a, i > Len(a) \/ a[i] < a[i] PROVE FALSE
  BY DEF ByteLess
<1>2. i \in 1 .. Len(a) /\ a[i] \in Nat
  BY DEF Str
<1> QED
  BY <1>1, <1>2

LEMMA LessTransitive ==
  ASSUME NEW a \in Str, NEW b \in Str, NEW c \in Str, ByteLess(a, b), ByteLess(b, c)
  PROVE  ByteLess(a, c)
<1>1. PICK i \in DOMAIN b : /\ \A k \in 1 .. i - 1 : k <= Len(a) /\ a[k] = b[k]
                            /\ i > Len(a) \/ a[i] < b[i]
  BY DEF ByteLess
<1>2. PICK j \in DOMAIN c : /\ \A k \in 1 .. j - 1 : k <= Len(b) /\ b[k] = c[k]
                            /\ j > Len(b) \/ b[j] < c[j]
  BY DEF ByteLess
<1>3. /\ Len(a) \in Nat /\ Len(b) \in Nat /\ Len(c) \in Nat
      /\ DOMAIN a = 1 .. Len(a) /\ DOMAIN b = 1 .. Len(b) /\ DOMAIN c = 1 .. Len(c)
      /\ \A k \in 1 .. Len(a) : a[k] \in Nat
      /\ \A k \in 1 .. Len(b) : b[k] \in Nat
      /\ \A k \in 1 .. Len(c) : c[k] \in Nat
  BY StrFacts
<1>4. i \in 1 .. Len(b) /\ j \in 1 .. Len(c)
  BY <1>3
<1>5. CASE i < j
  <2>1. i \in DOMAIN c /\ b[i] = c[i]
    BY SMTT(30), <1>2, <1>3, <1>4, <1>5
  <2>2. \A k \in 1 .. i - 1 : k <= Len(a) /\ a[k] = c[k]
    BY <1>1, <1>2, <1>3, <1>4, <1>5
  <2>3. i > Len(a) \/ a[i] < c[i]
    BY <1>1, <2>1
  <2> QED
    BY <2>1, <2>2, <2>3 DEF ByteLess
<1>6. CASE j <= i
  <2>1. \A k \in 1 .. j - 1 : k <= Len(a) /\ a[k] = c[k]
    BY <1>1, <1>2, <1>3, <1>4, <1>6
  <2>2. j > Len(a) \/ a[j] < c[j]
    <3>1. j \in 1 .. Len(b) /\ b[j] < c[j]
      BY <1>2, <1>4, <1>6
    <3>2. CASE j < i
      BY <1>1, <1>4, <3>1, <3>2
    <3>3. CASE j = i
      <4>1. SUFFICES ASSUME j <= Len(a) PROVE a[j] < c[j]
        BY <1>3, <1>4
      <4>2. a[j] < b[j]
        BY <1>1, <1>3, <1>4, <3>3, <4>1
      <4>3. a[j] \in Nat /\ b[j] \in Nat /\ c[j] \in Nat
        BY <1>3, <1>4, <3>1, <4>1
      <4> QED
        BY <3>1, <4>2, <4>3
    <3> QED
      BY <1>4, <1>6, <3>2, <3>3
  <2> QED
    BY <1>4, <1>3, <2>1, <2>2 DEF ByteLess
<1> QED
  BY <1>4, <1>5, <1>6

(* Two different strings differ first at some place, and that decides.     *)
LEMMA LessTotal ==
  ASSUME NEW a \in Str, NEW b \in Str
  PROVE  a = b \/ ByteLess(a, b) \/ ByteLess(b, a)
<1>1. /\ Len(a) \in Nat /\ Len(b) \in Nat
      /\ DOMAIN a = 1 .. Len(a) /\ DOMAIN b = 1 .. Len(b)
      /\ \A k \in 1 .. Len(a) : a[k] \in Nat
      /\ \A k \in 1 .. Len(b) : b[k] \in Nat
  BY StrFacts
<1> DEFINE Differ == {k \in Nat : 1 <= k /\ (k > Len(a) \/ k > Len(b) \/ a[k] # b[k])}
<1>2. Len(a) + 1 \in Differ
  BY <1>1
<1>3. PICK i \in Differ : \A k \in Differ : i <= k
  <2>1. Differ \in SUBSET Nat /\ Differ # {}
    BY <1>2
  <2> HIDE DEF Differ
  <2> QED
    BY <2>1, LeastElement
<1>4. /\ i \in Nat /\ 1 <= i /\ (i > Len(a) \/ i > Len(b) \/ a[i] # b[i])
  OBVIOUS
<1>5. \A k \in 1 .. i - 1 : k <= Len(a) /\ k <= Len(b) /\ a[k] = b[k]
  <2>1. SUFFICES ASSUME NEW k \in 1 .. i - 1 PROVE k \notin Differ
    BY <1>1, <1>4
  <2>2. ~(i <= k)
    BY <1>4
  <2> HIDE DEF Differ
  <2> QED
    BY <1>3, <2>2
<1> HIDE DEF Differ
<1>6. CASE i > Len(a) /\ i > Len(b)
  <2>1. Len(a) = Len(b)
    <3>1. Len(a) < i /\ Len(b) < i
      BY <1>1, <1>4, <1>6
    <3>2. Len(a) = 0 \/ Len(a) \in 1 .. i - 1
      BY <1>1, <1>4, <3>1
    <3>3. Len(b) = 0 \/ Len(b) \in 1 .. i - 1
      BY <1>1, <1>4, <3>1
    <3>4. Len(a) <= Len(b)
      BY <1>1, <1>5, <3>2
    <3>5. Len(b) <= Len(a)
      BY <1>1, <1>5, <3>3
    <3>6. Len(a) \in Int /\ Len(b) \in Int
      BY <1>1
    <3> QED
      BY <3>4, <3>5, <3>6
  <2>2. \A k \in 1 .. Len(a) : a[k] = b[k]
    BY <1>1, <1>4, <1>5, <1>6
  <2>3. a = b
    BY <2>1, <2>2, SeqEqual DEF Str
  <2> QED
    BY <2>3
<1>7. CASE i <= Len(b) /\ (i > Len(a) \/ a[i] < b[i])
  <2>1. i \in DOMAIN b
    BY <1>1, <1>4, <1>7
  <2> QED
    BY <1>5, <1>7, <2>1 DEF ByteLess
<1>8. CASE i <= Len(a) /\ (i > Len(b) \/ b[i] < a[i])
  <2>1. i \in DOMAIN a
    BY <1>1, <1>4, <1>8
  <2>2. \A k \in 1 .. i - 1 : k <= Len(b) /\ b[k] = a[k]
    BY <1>5
  <2> QED
    BY <1>8, <2>1, <2>2 DEF ByteLess
<1>9. CASE i <= Len(a) /\ i <= Len(b) /\ a[i] # b[i]
  <2>1. a[i] \in Nat /\ b[i] \in Nat
    BY <1>1, <1>4, <1>9
  <2>2. a[i] < b[i] \/ b[i] < a[i]
    BY <1>9, <2>1
  <2> QED
    BY <1>7, <1>8, <1>9, <2>2
<1> QED
  BY <1>1, <1>4, <1>6, <1>7, <1>8, <1>9

(* What does not follow does not follow what precedes it.                  *)
LEMMA LessWeak ==
  ASSUME NEW a \in Str, NEW b \in Str, NEW c \in Str, ~ByteLess(b, a), ~ByteLess(c, b)
  PROVE  ~ByteLess(c, a)
<1>1. SUFFICES ASSUME ByteLess(c, a) PROVE FALSE
  OBVIOUS
<1>2. a = b \/ ByteLess(a, b)
  BY LessTotal
<1>3. b = c \/ ByteLess(b, c)
  BY LessTotal
<1>4. a = c \/ ByteLess(a, c)
  BY <1>2, <1>3, LessTransitive
<1>5. ByteLess(a, a)
  BY <1>1, <1>4, LessTransitive
<1> QED
  BY <1>5, LessIrreflexive

----------------------------------------------------------------------------
(* Sorting.  An element's place is the number of elements before it, in a  *)
(* strict total order of the indices: those of smaller elements, and those *)
(* of equal ones that came earlier.  LT is the set of pairs of indices of  *)
(* which the first element is smaller.                                     *)

Precedes(LT, i, j) == <<i, j>> \in LT \/ (i < j /\ <<j, i>> \notin LT)

PlaceIn(I, LT, i) == 1 + Cardinality({j \in I : Precedes(LT, j, i)})

WeakOrder(I, LT) ==
  /\ \A i \in I : <<i, i>> \notin LT
  /\ \A i, j, k \in I : <<i, j>> \in LT /\ <<j, k>> \in LT => <<i, k>> \in LT
  /\ \A i, j, k \in I : <<i, j>> \notin LT /\ <<j, k>> \notin LT => <<i, k>> \notin LT

LEMMA PrecedesIsTotal ==
  ASSUME NEW I \in SUBSET Int, NEW LT, WeakOrder(I, LT)
  PROVE  /\ \A i \in I : ~Precedes(LT, i, i)
         /\ \A i, j, k \in I : Precedes(LT, i, j) /\ Precedes(LT, j, k) => Precedes(LT, i, k)
         /\ \A i, j \in I : i = j \/ Precedes(LT, i, j) \/ Precedes(LT, j, i)
<1>1. ASSUME NEW i \in I PROVE ~Precedes(LT, i, i)
  <2>1. <<i, i>> \notin LT
    BY DEF WeakOrder
  <2>2. ~(i < i)
    OBVIOUS
  <2> QED
    BY <2>1, <2>2 DEF Precedes
<1>2. ASSUME NEW i \in I, NEW j \in I, NEW k \in I, Precedes(LT, i, j), Precedes(LT, j, k)
      PROVE  Precedes(LT, i, k)
  <2>1. i \in Int /\ j \in Int /\ k \in Int
    OBVIOUS
  <2>2. CASE <<i, j>> \in LT /\ <<j, k>> \in LT
    BY <2>2 DEF Precedes, WeakOrder
  <2>3. CASE <<i, j>> \in LT /\ <<k, j>> \notin LT
    <3>1. <<i, k>> \in LT
      BY <2>3 DEF WeakOrder
    <3> QED
      BY <3>1 DEF Precedes
  <2>4. CASE <<j, i>> \notin LT /\ <<j, k>> \in LT
    <3>1. <<i, k>> \in LT
      BY <2>4 DEF WeakOrder
    <3> QED
      BY <3>1 DEF Precedes
  <2>5. CASE i < j /\ <<j, i>> \notin LT /\ j < k /\ <<k, j>> \notin LT
    <3>1. <<k, i>> \notin LT
      BY <2>5 DEF WeakOrder
    <3>2. i < k
      BY <2>1, <2>5
    <3> QED
      BY <3>1, <3>2 DEF Precedes
  <2> QED
    BY <1>2, <2>2, <2>3, <2>4, <2>5 DEF Precedes
<1>3. ASSUME NEW i \in I, NEW j \in I, i # j
      PROVE  Precedes(LT, i, j) \/ Precedes(LT, j, i)
  <2>1. i < j \/ j < i
    BY <1>3
  <2> QED
    BY <2>1 DEF Precedes
<1> QED
  BY <1>1, <1>2, <1>3

LEMMA Places ==
  ASSUME NEW I \in SUBSET Int, IsFiniteSet(I), NEW LT, WeakOrder(I, LT)
  PROVE  /\ \A i \in I : PlaceIn(I, LT, i) \in 1 .. Cardinality(I)
         /\ \A i, j \in I : Precedes(LT, i, j) => PlaceIn(I, LT, i) < PlaceIn(I, LT, j)
         /\ \A k \in 1 .. Cardinality(I) : \E i \in I : PlaceIn(I, LT, i) = k
<1> DEFINE n == Cardinality(I)
           Before(i) == {j \in I : Precedes(LT, j, i)}
<1>1. n \in Nat
  BY FS_CardinalityType
<1>2. ASSUME NEW i \in I
      PROVE  /\ IsFiniteSet(Before(i)) /\ Cardinality(Before(i)) \in Nat
             /\ Cardinality(Before(i)) + 1 <= n
             /\ IsFiniteSet(Before(i) \cup {i})
             /\ Cardinality(Before(i) \cup {i}) = Cardinality(Before(i)) + 1
  <2>1. i \notin Before(i)
    BY PrecedesIsTotal
  <2>2. Before(i) \in SUBSET I /\ Before(i) \cup {i} \in SUBSET I
    OBVIOUS
  <2> HIDE DEF Before
  <2>3. IsFiniteSet(Before(i))
    BY <2>2, FS_Subset
  <2>4. Cardinality(Before(i)) \in Nat
    BY <2>3, FS_CardinalityType
  <2>5. /\ IsFiniteSet(Before(i) \cup {i})
        /\ Cardinality(Before(i) \cup {i}) = Cardinality(Before(i)) + 1
    BY <2>1, <2>3, FS_AddElement
  <2>6. Cardinality(Before(i) \cup {i}) <= n
    BY <2>2, FS_Subset
  <2> QED
    BY <2>3, <2>4, <2>5, <2>6
<1>3. ASSUME NEW i \in I, NEW j \in I, Precedes(LT, i, j)
      PROVE  Cardinality(Before(i)) < Cardinality(Before(j))
  <2>1. Before(i) \cup {i} \in SUBSET Before(j)
    <3>1. ASSUME NEW k \in Before(i) PROVE k \in Before(j)
      BY <1>3, PrecedesIsTotal
    <3> QED
      BY <1>3, <3>1
  <2> HIDE DEF Before
  <2>2. Cardinality(Before(i) \cup {i}) <= Cardinality(Before(j))
    BY <1>2, <2>1, FS_Subset
  <2>3. PICK a \in Nat, b \in Nat : a = Cardinality(Before(i)) /\ b = Cardinality(Before(j))
    BY <1>2
  <2>4. Cardinality(Before(i) \cup {i}) = a + 1
    BY <1>2, <2>3
  <2>5. a < b
    BY <2>2, <2>3, <2>4
  <2> QED
    BY <2>3, <2>5
<1>4. \A i \in I : PlaceIn(I, LT, i) = 1 + Cardinality(Before(i))
  BY DEF PlaceIn
<1> HIDE DEF Before
<1>5. ASSUME NEW i \in I PROVE PlaceIn(I, LT, i) \in 1 .. n
  <2>1. PICK a \in Nat : a = Cardinality(Before(i)) /\ a + 1 <= n
    BY <1>2
  <2>2. 1 + a \in 1 .. n
    BY <1>1, <2>1
  <2> QED
    BY <1>4, <2>1, <2>2
<1>6. ASSUME NEW i \in I, NEW j \in I, Precedes(LT, i, j)
      PROVE  PlaceIn(I, LT, i) < PlaceIn(I, LT, j)
  <2>1. PICK a \in Nat, b \in Nat : a = Cardinality(Before(i)) /\ b = Cardinality(Before(j))
    BY <1>2
  <2>2. 1 + a < 1 + b
    BY <1>3, <1>6, <2>1
  <2> QED
    BY <1>4, <2>1, <2>2
<1>7. \A k \in 1 .. n : \E i \in I : PlaceIn(I, LT, i) = k
  <2> DEFINE place == [i \in I |-> PlaceIn(I, LT, i)]
  <2>1. place \in [I -> 1 .. n]
    BY <1>5
  <2>2. ASSUME NEW i \in I, NEW j \in I, place[i] = place[j] PROVE i = j
    <3>1. SUFFICES ASSUME i # j PROVE FALSE
      OBVIOUS
    <3>2. Precedes(LT, i, j) \/ Precedes(LT, j, i)
      BY <3>1, PrecedesIsTotal
    <3>3. PlaceIn(I, LT, i) \in Int /\ PlaceIn(I, LT, j) \in Int
      BY <1>5
    <3>4. PlaceIn(I, LT, i) < PlaceIn(I, LT, j) \/ PlaceIn(I, LT, j) < PlaceIn(I, LT, i)
      BY <1>6, <3>2
    <3> QED
      BY <2>2, <3>3, <3>4
  <2>3. \A k \in 1 .. n : place \in Surjection(I, 1 .. n) => \E i \in I : place[i] = k
    BY DEF Surjection
  <2> HIDE DEF place
  <2>4. place \in Injection(I, 1 .. n)
    <3>1. DOMAIN place = I
      BY <2>1
    <3>2. \A a, b \in DOMAIN place : place[a] = place[b] => a = b
      BY <2>2, <3>1
    <3> QED
      BY <2>1, <3>2 DEF Injection, IsInjective
  <2>5. IsFiniteSet(1 .. n) /\ Cardinality(1 .. n) = n
    BY <1>1, FS_Interval
  <2>6. place \in Surjection(I, 1 .. n)
    BY <2>4, <2>5, FS_Injection
  <2> QED
    BY <2>3, <2>6 DEF place
<1> QED
  BY <1>5, <1>6, <1>7

(* The elements in the order of their places.                              *)
Arrangement(I, LT) ==
  [k \in 1 .. Cardinality(I) |-> CHOOSE i \in I : PlaceIn(I, LT, i) = k]

(* C gives, place by place, the indices in I, every one of them once and   *)
(* none before a smaller one.                                              *)
Arranges(C, I, LT) ==
  /\ C \in [1 .. Cardinality(I) -> I]
  /\ \A i \in I : \E k \in 1 .. Cardinality(I) : C[k] = i
  /\ \A k, l \in 1 .. Cardinality(I) : k < l => C[k] # C[l] /\ Precedes(LT, C[k], C[l])

LEMMA Arranged ==
  ASSUME NEW I \in SUBSET Int, IsFiniteSet(I), NEW LT, WeakOrder(I, LT)
  PROVE  Arranges(Arrangement(I, LT), I, LT)
<1> DEFINE n == Cardinality(I)
           C == Arrangement(I, LT)
<1>0. n \in Nat
  BY FS_CardinalityType
<1>1. ASSUME NEW k \in 1 .. n PROVE C[k] \in I /\ PlaceIn(I, LT, C[k]) = k
  <2>1. \E i \in I : PlaceIn(I, LT, i) = k
    BY Places
  <2>2. C[k] = CHOOSE i \in I : PlaceIn(I, LT, i) = k
    BY DEF Arrangement
  <2> QED
    BY <2>1, <2>2
<1>2. C \in [1 .. n -> I]
  BY <1>1 DEF Arrangement
<1> HIDE DEF C
<1>3. ASSUME NEW k \in 1 .. n, NEW l \in 1 .. n, k < l
      PROVE  C[k] # C[l] /\ Precedes(LT, C[k], C[l])
  <2>1. C[k] # C[l]
    BY <1>1, <1>3
  <2>2. ~Precedes(LT, C[l], C[k])
    <3>1. SUFFICES ASSUME Precedes(LT, C[l], C[k]) PROVE FALSE
      OBVIOUS
    <3>2. PlaceIn(I, LT, C[l]) < PlaceIn(I, LT, C[k])
      BY <1>1, <3>1, Places
    <3> QED
      BY <1>1, <1>3, <3>2
  <2> QED
    BY <1>1, <2>1, <2>2, PrecedesIsTotal
<1>4. ASSUME NEW i \in I PROVE \E k \in 1 .. n : C[k] = i
  <2> DEFINE k == PlaceIn(I, LT, i)
  <2>1. k \in 1 .. n
    BY Places
  <2>2. PlaceIn(I, LT, C[k]) = k /\ C[k] \in I
    BY <1>1, <2>1
  <2>3. k \in Int
    BY <2>1
  <2>4. ~Precedes(LT, C[k], i) /\ ~Precedes(LT, i, C[k])
    <3>1. Precedes(LT, C[k], i) => PlaceIn(I, LT, C[k]) < PlaceIn(I, LT, i)
      BY <2>2, Places
    <3>2. Precedes(LT, i, C[k]) => PlaceIn(I, LT, i) < PlaceIn(I, LT, C[k])
      BY <2>2, Places
    <3> QED
      BY <2>2, <2>3, <3>1, <3>2
  <2>5. C[k] = i
    BY <2>2, <2>4, PrecedesIsTotal
  <2> QED
    BY <2>1, <2>5
<1> QED
  BY <1>2, <1>3, <1>4 DEF Arranges, C

(* Entries sorted by keys of bytes.                                        *)
KeyPairs(s, I) == {p \in I \X I : ByteLess(s[p[1]].key, s[p[2]].key)}

LEMMA SortedByKey ==
  ASSUME NEW s, NEW I \in SUBSET Int, IsFiniteSet(I), \A i \in I : s[i].key \in Str
  PROVE  LET LT == KeyPairs(s, I)
             C == Arrangement(I, LT)
         IN /\ SortedAt(s, I, KeyLess) = [k \in 1 .. Cardinality(I) |-> s[C[k]]]
            /\ Arranges(C, I, LT)
<1> DEFINE LT == KeyPairs(s, I)
           Before(i, j) == KeyLess(s[i], s[j]) \/ (i < j /\ ~KeyLess(s[j], s[i]))
           C == Arrangement(I, LT)
<1>1. \A i, j \in I : <<i, j>> \in LT <=> ByteLess(s[i].key, s[j].key)
  BY DEF KeyPairs
<1> HIDE DEF LT
<1>2. WeakOrder(I, LT)
  <2>1. \A i \in I : <<i, i>> \notin LT
    BY <1>1, LessIrreflexive
  <2>2. ASSUME NEW i \in I, NEW j \in I, NEW k \in I, <<i, j>> \in LT, <<j, k>> \in LT
        PROVE  <<i, k>> \in LT
    BY <1>1, <2>2, LessTransitive
  <2>3. ASSUME NEW i \in I, NEW j \in I, NEW k \in I, <<i, j>> \notin LT, <<j, k>> \notin LT
        PROVE  <<i, k>> \notin LT
    BY <1>1, <2>3, LessWeak
  <2> QED
    BY <2>1, <2>2, <2>3 DEF WeakOrder
<1>3. \A i, j \in I : Before(i, j) <=> Precedes(LT, i, j)
  BY <1>1 DEF KeyLess, Precedes
<1>4. ASSUME NEW i \in I
      PROVE  1 + Cardinality({j \in I : Before(j, i)}) = PlaceIn(I, LT, i)
  <2>1. {j \in I : Before(j, i)} = {j \in I : Precedes(LT, j, i)}
    BY <1>3
  <2> QED
    BY <2>1 DEF PlaceIn
<1>5. ASSUME NEW k \in 1 .. Cardinality(I)
      PROVE  (CHOOSE i \in I : 1 + Cardinality({j \in I : Before(j, i)}) = k) = C[k]
  <2>1. \A i \in I : 1 + Cardinality({j \in I : Before(j, i)}) = k
                       <=> PlaceIn(I, LT, i) = k
    BY <1>4
  <2>2. (CHOOSE i \in I : 1 + Cardinality({j \in I : Before(j, i)}) = k)
           = CHOOSE i \in I : PlaceIn(I, LT, i) = k
    BY <2>1
  <2> QED
    BY <2>2 DEF Arrangement
<1>6. SortedAt(s, I, KeyLess) =
        [k \in 1 .. Cardinality(I) |->
          s[CHOOSE i \in I : 1 + Cardinality({j \in I : Before(j, i)}) = k]]
  BY DEF SortedAt
<1>7. SortedAt(s, I, KeyLess) = [k \in 1 .. Cardinality(I) |-> s[C[k]]]
  BY <1>5, <1>6
<1> QED
  BY <1>2, <1>7, Arranged DEF LT

----------------------------------------------------------------------------
(* Searching.  The table of find, whose entries are defined by those of    *)
(* smaller spans, exists; then its entry for the whole span is 0 only if   *)
(* there is nothing to be found.                                           *)

(* A property of 0 that every number hands on to the next.                 *)
LEMMA UpTo ==
  ASSUME NEW n \in Nat, NEW T \in SUBSET (0 .. n), 0 \in T,
         \A k \in 0 .. n - 1 : k \in T => k + 1 \in T
  PROVE  T = 0 .. n
<1> DEFINE Rest == (0 .. n) \ T
<1>1. SUFFICES ASSUME Rest # {} PROVE FALSE
  OBVIOUS
<1>2. Rest \in SUBSET Nat
  OBVIOUS
<1>3. PICK k \in Rest : \A j \in Rest : k <= j
  BY <1>1, <1>2, LeastElement
<1>4. k \in 0 .. n /\ k \notin T /\ k # 0
  BY <1>3
<1>5. k - 1 \in 0 .. n - 1 /\ k - 1 \in 0 .. n /\ k - 1 < k /\ (k - 1) + 1 = k
  BY <1>4
<1>6. k - 1 \in T
  BY <1>3, <1>5
<1> QED
  BY <1>4, <1>5, <1>6

Spans(n) == (1 .. n + 1) \X (0 .. n)
Middle(span) == (span[1] + span[2]) \div 2
Before(span) == <<span[1], Middle(span) - 1>>
Behind(span) == <<Middle(span) + 1, span[2]>>
SpanLength(span) == span[2] - span[1] + 1

Found(find, cmp, span) ==
  IF span[1] > span[2] THEN 0
  ELSE IF cmp[Middle(span)] = 0 THEN Middle(span)
  ELSE IF cmp[Middle(span)] < 0 THEN find[Before(span)]
  ELSE find[Behind(span)]

IsFind(find, n, cmp) == find = [span \in Spans(n) |-> Found(find, cmp, span)]

LEMMA Halves ==
  ASSUME NEW n \in Nat, NEW span \in Spans(n), span[1] <= span[2]
  PROVE  /\ Middle(span) \in 1 .. n
         /\ span[1] <= Middle(span) /\ Middle(span) <= span[2]
         /\ Before(span) \in Spans(n) /\ SpanLength(Before(span)) < SpanLength(span)
         /\ Behind(span) \in Spans(n) /\ SpanLength(Behind(span)) < SpanLength(span)
         /\ Before(span)[1] = span[1] /\ Before(span)[2] = Middle(span) - 1
         /\ Behind(span)[1] = Middle(span) + 1 /\ Behind(span)[2] = span[2]
<1>1. PICK lo \in 1 .. n + 1, hi \in 0 .. n : span = <<lo, hi>>
  BY DEF Spans
<1>2. span[1] = lo /\ span[2] = hi /\ lo <= hi
  BY <1>1
<1>3. PICK mid \in Int : mid = (lo + hi) \div 2 /\ lo <= mid /\ mid <= hi
  BY <1>2
<1>4. Middle(span) = mid /\ Before(span) = <<lo, mid - 1>> /\ Behind(span) = <<mid + 1, hi>>
  BY <1>2, <1>3 DEF Middle, Before, Behind
<1>5. mid \in 1 .. n /\ mid - 1 \in 0 .. n /\ mid + 1 \in 1 .. n + 1
  BY <1>3
<1>6. /\ Before(span) \in Spans(n) /\ Behind(span) \in Spans(n)
      /\ Before(span)[1] = lo /\ Before(span)[2] = mid - 1
      /\ Behind(span)[1] = mid + 1 /\ Behind(span)[2] = hi
  BY <1>4, <1>5 DEF Spans
<1>7. /\ SpanLength(span) = hi - lo + 1
      /\ SpanLength(Before(span)) = (mid - 1) - lo + 1
      /\ SpanLength(Behind(span)) = hi - (mid + 1) + 1
  BY <1>2, <1>6 DEF SpanLength
<1>8. (mid - 1) - lo + 1 < hi - lo + 1 /\ hi - (mid + 1) + 1 < hi - lo + 1
  BY <1>3
<1> QED
  BY <1>2, <1>3, <1>4, <1>5, <1>6, <1>7, <1>8

LEMMA SpanLengths ==
  ASSUME NEW n \in Nat, NEW span \in Spans(n)
  PROVE  /\ SpanLength(span) \in Int /\ SpanLength(span) <= n
         /\ span[1] \in 1 .. n + 1 /\ span[2] \in 0 .. n
         /\ SpanLength(span) <= 0 <=> span[1] > span[2]
BY DEF Spans, SpanLength

LEMMA FindExists ==
  ASSUME NEW n \in Nat, NEW cmp \in [1 .. n -> Int]
  PROVE  \E find : IsFind(find, n, cmp)
<1> DEFINE Upto(f, d) == \A span \in Spans(n) :
             SpanLength(span) <= d => f[span] = Found(f, cmp, span)
           Tables == [Spans(n) -> 0 .. n]
           T == {d \in 0 .. n : \E f \in Tables : Upto(f, d)}
<1>1. 0 \in T
  <2> DEFINE f == [span \in Spans(n) |-> 0]
  <2>1. f \in Tables
    OBVIOUS
  <2>2. Upto(f, 0)
    BY SpanLengths DEF Found
  <2>3. 0 \in 0 .. n
    OBVIOUS
  <2> HIDE DEF f, Upto, Tables
  <2> QED
    BY <2>1, <2>2, <2>3
<1>2. ASSUME NEW d \in 0 .. n - 1, d \in T PROVE d + 1 \in T
  <2>1. PICK f \in Tables : Upto(f, d)
    BY <1>2
  <2> DEFINE g == [span \in Spans(n) |-> Found(f, cmp, span)]
  <2>2. g \in Tables
    <3>1. ASSUME NEW span \in Spans(n) PROVE Found(f, cmp, span) \in 0 .. n
      <4>1. CASE span[1] > span[2]
        BY <4>1 DEF Found
      <4>2. CASE span[1] <= span[2]
        <5>1. /\ Middle(span) \in 0 .. n /\ f[Before(span)] \in 0 .. n
              /\ f[Behind(span)] \in 0 .. n
          BY <4>2, Halves
        <5> QED
          BY <5>1 DEF Found
      <4> QED
        BY <4>1, <4>2, SpanLengths
    <3> QED
      BY <3>1
  <2>3. ASSUME NEW span \in Spans(n), SpanLength(span) <= d
        PROVE  g[span] = f[span]
    BY <2>1, <2>3
  <2>4. ASSUME NEW span \in Spans(n), SpanLength(span) <= d + 1
        PROVE  Found(g, cmp, span) = Found(f, cmp, span)
    <3>1. CASE span[1] > span[2]
      BY <3>1 DEF Found
    <3>2. CASE span[1] <= span[2]
      <4>1. /\ Before(span) \in Spans(n) /\ SpanLength(Before(span)) < SpanLength(span)
            /\ Behind(span) \in Spans(n) /\ SpanLength(Behind(span)) < SpanLength(span)
        BY <3>2, Halves
      <4>2. SpanLength(Before(span)) <= d /\ SpanLength(Behind(span)) <= d
        BY <2>4, <4>1, SpanLengths
      <4>3. g[Before(span)] = f[Before(span)] /\ g[Behind(span)] = f[Behind(span)]
        BY <2>3, <4>1, <4>2
      <4> HIDE DEF g
      <4> QED
        BY <4>3 DEF Found
    <3> QED
      BY <3>1, <3>2, SpanLengths
  <2>5. Upto(g, d + 1)
    BY <2>4
  <2>6. d + 1 \in 0 .. n
    OBVIOUS
  <2> HIDE DEF g, Upto, Tables
  <2> QED
    BY <2>2, <2>5, <2>6
<1>3. T \in SUBSET (0 .. n)
  OBVIOUS
<1>4. n \in T
  <2> HIDE DEF T
  <2>1. T = 0 .. n
    BY <1>1, <1>2, <1>3, UpTo
  <2> QED
    BY <2>1
<1>5. PICK f \in Tables : Upto(f, n)
  BY <1>4
<1>6. \A span \in Spans(n) : f[span] = Found(f, cmp, span)
  BY <1>5, SpanLengths
<1>7. f = [span \in Spans(n) |-> Found(f, cmp, span)]
  BY <1>6
<1> QED
  BY <1>7 DEF IsFind

(* Binary search finds what the comparisons point to.                      *)
LEMMA SearchFinds ==
  ASSUME NEW n \in Nat, NEW cmp \in [1 .. n -> Int],
         \A i, j \in 1 .. n : cmp[i] = 0 /\ cmp[j] < 0 => i < j,
         \A i, j \in 1 .. n : cmp[i] = 0 /\ cmp[j] > 0 => j < i
  PROVE  /\ Search(n, cmp) = 0 \/ (Search(n, cmp) \in 1 .. n /\ cmp[Search(n, cmp)] = 0)
         /\ (\E i \in 1 .. n : cmp[i] = 0) => Search(n, cmp) # 0
<1> DEFINE find == CHOOSE f : IsFind(f, n, cmp)
<1>1. IsFind(find, n, cmp)
  BY FindExists
<1>2. Search(n, cmp) = find[<<1, n>>]
  BY DEF Search, IsFind, Spans, Found, Middle, Before, Behind
<1> HIDE DEF find
<1>3. \A span \in Spans(n) : find[span] = Found(find, cmp, span)
  BY <1>1 DEF IsFind
<1> DEFINE Right(span) ==
             /\ find[span] = 0 \/ (find[span] \in 1 .. n /\ cmp[find[span]] = 0)
             /\ \A i \in 1 .. n :
                  span[1] <= i /\ i <= span[2] /\ cmp[i] = 0 => find[span] # 0
           T == {d \in 0 .. n : \A span \in Spans(n) : SpanLength(span) <= d => Right(span)}
<1>4. ASSUME NEW span \in Spans(n), span[1] > span[2] PROVE Right(span)
  <2>1. find[span] = 0
    BY <1>3, <1>4 DEF Found
  <2>2. \A i \in 1 .. n : ~(span[1] <= i /\ i <= span[2])
    BY <1>4, SpanLengths
  <2> QED
    BY <2>1, <2>2
<1>5. 0 \in T
  <2>1. \A span \in Spans(n) : SpanLength(span) <= 0 => Right(span)
    BY <1>4, SpanLengths
  <2>2. 0 \in 0 .. n
    OBVIOUS
  <2> HIDE DEF Right
  <2> QED
    BY <2>1, <2>2
<1>6. ASSUME NEW d \in 0 .. n - 1, d \in T PROVE d + 1 \in T
  <2>1. ASSUME NEW span \in Spans(n), SpanLength(span) <= d + 1, span[1] <= span[2]
        PROVE  Right(span)
    <3> DEFINE mid == Middle(span)
    <3>1. /\ mid \in 1 .. n /\ Before(span) \in Spans(n) /\ Behind(span) \in Spans(n)
          /\ SpanLength(Before(span)) < SpanLength(span)
          /\ SpanLength(Behind(span)) < SpanLength(span)
          /\ Before(span)[1] = span[1] /\ Before(span)[2] = mid - 1
          /\ Behind(span)[1] = mid + 1 /\ Behind(span)[2] = span[2]
      BY <2>1, Halves
    <3>2. SpanLength(Before(span)) <= d /\ SpanLength(Behind(span)) <= d
      <4>1. PICK a \in Int, b \in Int, c \in Int :
              /\ a = SpanLength(Before(span)) /\ b = SpanLength(span)
              /\ c = SpanLength(Behind(span))
        BY <3>1, SpanLengths
      <4>2. a < b /\ c < b /\ b <= d + 1
        BY <2>1, <3>1, <4>1
      <4>3. a <= d /\ c <= d
        BY <4>2
      <4> QED
        BY <4>1, <4>3
    <3>3. Right(Before(span)) /\ Right(Behind(span))
      <4> HIDE DEF Right
      <4> QED
        BY <1>6, <3>1, <3>2
    <3> HIDE DEF mid
    <3>4. CASE cmp[mid] = 0
      <4>1. find[span] = mid
        BY <1>3, <2>1, <3>4, SpanLengths DEF Found, mid
      <4> QED
        BY <3>1, <3>4, <4>1
    <3>5. CASE cmp[mid] < 0
      <4>1. find[span] = find[Before(span)]
        BY SMTT(30), <1>3, <2>1, <3>1, <3>5, SpanLengths DEF Found, mid
      <4>2. ASSUME NEW i \in 1 .. n, span[1] <= i, i <= span[2], cmp[i] = 0
            PROVE  find[Before(span)] # 0
        <5>1. i < mid
          BY <3>1, <3>5, <4>2
        <5>2. i <= mid - 1
          BY <3>1, <5>1
        <5> QED
          BY <3>1, <3>3, <4>2, <5>2
      <4> QED
        BY <3>3, <4>1, <4>2
    <3>6. CASE cmp[mid] > 0
      <4>1. find[span] = find[Behind(span)]
        BY SMTT(30), <1>3, <2>1, <3>1, <3>6, SpanLengths DEF Found, mid
      <4>2. ASSUME NEW i \in 1 .. n, span[1] <= i, i <= span[2], cmp[i] = 0
            PROVE  find[Behind(span)] # 0
        <5>1. mid < i
          BY <3>1, <3>6, <4>2
        <5>2. mid + 1 <= i
          BY <3>1, <5>1
        <5> QED
          BY <3>1, <3>3, <4>2, <5>2
      <4> QED
        BY <3>3, <4>1, <4>2
    <3>7. cmp[mid] \in Int
      BY <3>1
    <3> QED
      BY <3>4, <3>5, <3>6, <3>7
  <2>2. \A span \in Spans(n) : SpanLength(span) <= d + 1 => Right(span)
    BY <1>4, <2>1, SpanLengths
  <2>3. d + 1 \in 0 .. n
    OBVIOUS
  <2> HIDE DEF Right
  <2> QED
    BY <2>2, <2>3
<1>7. n \in T
  <2>1. T \in SUBSET (0 .. n)
    OBVIOUS
  <2> HIDE DEF T
  <2>2. T = 0 .. n
    BY <1>5, <1>6, <2>1, UpTo
  <2> QED
    BY <2>2
<1>8. <<1, n>> \in Spans(n) /\ SpanLength(<<1, n>>) <= n
  BY DEF Spans, SpanLength
<1>9. Right(<<1, n>>)
  <2> HIDE DEF Right
  <2> QED
    BY <1>7, <1>8
<1> QED
  BY SMTT(30), <1>2, <1>9

----------------------------------------------------------------------------
(* Sequences of whatever elements.                                         *)

IsSeq(q) == q \in Seq({q[i] : i \in 1 .. Len(q)})

LEMMA SomeSeq ==
  ASSUME NEW S, NEW q \in Seq(S)
  PROVE  IsSeq(q) /\ Len(q) \in Nat /\ DOMAIN q = 1 .. Len(q)
<1>1. Len(q) \in Nat /\ q \in [1 .. Len(q) -> S]
  BY LenProperties
<1> DEFINE n == Len(q)
           R == {q[i] : i \in 1 .. n}
<1>2. q \in [1 .. n -> R]
  BY <1>1
<1> HIDE DEF n, R
<1>3. q \in Seq(R)
  BY <1>1, <1>2 DEF n
<1> QED
  BY <1>1, <1>3 DEF IsSeq, n, R

LEMMA FunctionSeq ==
  ASSUME NEW n \in Nat, NEW S, NEW f \in [1 .. n -> S]
  PROVE  IsSeq(f) /\ Len(f) = n /\ f \in Seq(S) /\ DOMAIN f = 1 .. n
<1>1. f \in Seq(S)
  OBVIOUS
<1>2. Len(f) = n
  BY <1>1, LenProperties
<1> QED
  BY <1>1, <1>2, SomeSeq

LEMMA ConcatSeq ==
  ASSUME NEW p, NEW q, IsSeq(p), IsSeq(q)
  PROVE  /\ IsSeq(p \o q) /\ Len(p \o q) = Len(p) + Len(q)
         /\ Len(p) \in Nat /\ Len(q) \in Nat
         /\ \A i \in 1 .. Len(p) : (p \o q)[i] = p[i]
         /\ \A i \in 1 .. Len(q) : (p \o q)[Len(p) + i] = q[i]
<1> DEFINE A == {p[i] : i \in 1 .. Len(p)}
           B == {q[i] : i \in 1 .. Len(q)}
<1>1. p \in Seq(A) /\ q \in Seq(B)
  BY DEF IsSeq
<1> HIDE DEF A, B
<1>2. Len(p) \in Nat /\ Len(q) \in Nat /\ p \in [1 .. Len(p) -> A] /\ q \in [1 .. Len(q) -> B]
  BY <1>1, LenProperties
<1>3. p \in [1 .. Len(p) -> A \cup B] /\ q \in [1 .. Len(q) -> A \cup B]
  BY <1>2
<1>4. p \in Seq(A \cup B) /\ q \in Seq(A \cup B)
  BY <1>2, <1>3
<1>5. p \o q \in Seq(A \cup B) /\ Len(p \o q) = Len(p) + Len(q)
  BY <1>4, ConcatProperties
<1>6. \A i \in 1 .. Len(p) + Len(q) :
        (p \o q)[i] = IF i <= Len(p) THEN p[i] ELSE q[i - Len(p)]
  BY <1>4, ConcatProperties
<1>7. ASSUME NEW i \in 1 .. Len(q) PROVE (p \o q)[Len(p) + i] = q[i]
  <2>1. /\ Len(p) + i \in 1 .. Len(p) + Len(q) /\ ~(Len(p) + i <= Len(p))
        /\ (Len(p) + i) - Len(p) = i
    BY <1>2
  <2> QED
    BY <1>6, <2>1
<1>8. ASSUME NEW i \in 1 .. Len(p) PROVE (p \o q)[i] = p[i]
  <2>1. i \in 1 .. Len(p) + Len(q) /\ i <= Len(p)
    BY <1>2
  <2> QED
    BY <1>6, <2>1
<1> QED
  BY <1>2, <1>5, <1>7, <1>8, SomeSeq

(* q begins with p.                                                        *)
Extends(q, p) ==
  /\ IsSeq(q) /\ Len(p) <= Len(q)
  /\ \A i \in 1 .. Len(p) : q[i] = p[i]

LEMMA AppendSeq ==
  ASSUME NEW p, IsSeq(p), NEW e
  PROVE  /\ Extends(Append(p, e), p) /\ Len(Append(p, e)) = Len(p) + 1 /\ Len(p) \in Nat
         /\ Append(p, e)[Len(p) + 1] = e
<1> DEFINE A == {p[i] : i \in 1 .. Len(p)} \cup {e}
<1>1. p \in Seq(A)
  <2>1. p \in Seq({p[i] : i \in 1 .. Len(p)})
    BY DEF IsSeq
  <2>2. Len(p) \in Nat /\ p \in [1 .. Len(p) -> {p[i] : i \in 1 .. Len(p)}]
    BY <2>1, LenProperties
  <2>3. p \in [1 .. Len(p) -> A]
    BY <2>2
  <2> HIDE DEF A
  <2> QED
    BY <2>2, <2>3
<1>2. e \in A
  OBVIOUS
<1> HIDE DEF A
<1>3. /\ Append(p, e) \in Seq(A) /\ Len(Append(p, e)) = Len(p) + 1 /\ Len(p) \in Nat
      /\ \A i \in 1 .. Len(p) : Append(p, e)[i] = p[i]
      /\ Append(p, e)[Len(p) + 1] = e
  BY <1>1, <1>2, AppendProperties, LenProperties
<1>4. IsSeq(Append(p, e))
  BY <1>3, SomeSeq
<1>5. Len(p) <= Len(p) + 1
  BY <1>3
<1> QED
  BY <1>3, <1>4, <1>5 DEF Extends

(* Three sequences in a row.                                               *)
LEMMA ThreeInARow ==
  ASSUME NEW a, NEW b, NEW c, IsSeq(a), IsSeq(b), IsSeq(c)
  PROVE  /\ Extends(a \o b \o c, a)
         /\ Len(a \o b \o c) = Len(a) + Len(b) + Len(c)
         /\ Len(a) \in Nat /\ Len(b) \in Nat /\ Len(c) \in Nat
         /\ \A i \in 1 .. Len(b) : (a \o b \o c)[Len(a) + i] = b[i]
         /\ \A i \in 1 .. Len(c) : (a \o b \o c)[Len(a) + Len(b) + i] = c[i]
<1> DEFINE ab == a \o b
           k == Len(a)
           l == Len(b)
           m == Len(c)
<1>1. /\ IsSeq(ab) /\ Len(ab) = k + l /\ k \in Nat /\ l \in Nat
      /\ \A i \in 1 .. k : ab[i] = a[i]
      /\ \A i \in 1 .. l : ab[k + i] = b[i]
  BY ConcatSeq
<1> HIDE DEF ab
<1>2. /\ IsSeq(ab \o c) /\ Len(ab \o c) = k + l + m /\ m \in Nat
      /\ \A i \in 1 .. k + l : (ab \o c)[i] = ab[i]
      /\ \A i \in 1 .. m : (ab \o c)[k + l + i] = c[i]
  <2>1. /\ IsSeq(ab \o c) /\ Len(ab \o c) = Len(ab) + m /\ m \in Nat
        /\ \A i \in 1 .. Len(ab) : (ab \o c)[i] = ab[i]
        /\ \A i \in 1 .. m : (ab \o c)[Len(ab) + i] = c[i]
    <3>1. IsSeq(ab)
      BY <1>1
    <3> QED
      BY <3>1, ConcatSeq
  <2> QED
    BY <1>1, <2>1
<1> HIDE DEF k, l, m
<1>3. ASSUME NEW i \in 1 .. k PROVE (ab \o c)[i] = a[i]
  <2>1. i \in 1 .. k + l
    BY <1>1
  <2> QED
    BY <1>1, <1>2, <2>1
<1>4. ASSUME NEW i \in 1 .. l PROVE (ab \o c)[k + i] = b[i]
  <2>1. k + i \in 1 .. k + l
    BY <1>1
  <2> QED
    BY <1>1, <1>2, <2>1
<1>5. k <= k + l + m
  BY <1>1, <1>2
<1> QED
  BY <1>1, <1>2, <1>3, <1>4, <1>5 DEF Extends, ab, k, l, m

LEMMA ExtendsTwice ==
  ASSUME NEW p, NEW q, NEW r, IsSeq(p), Extends(q, p), Extends(r, q)
  PROVE  Extends(r, p)
<1>1. Len(p) \in Nat /\ Len(q) \in Nat /\ Len(r) \in Nat
  BY LenProperties DEF IsSeq, Extends
<1>2. /\ IsSeq(r) /\ Len(p) <= Len(q) /\ Len(q) <= Len(r)
      /\ \A i \in 1 .. Len(p) : q[i] = p[i]
      /\ \A i \in 1 .. Len(q) : r[i] = q[i]
  BY DEF Extends
<1>3. ASSUME NEW i \in 1 .. Len(p) PROVE r[i] = p[i]
  <2>1. i \in 1 .. Len(q)
    BY <1>1, <1>2
  <2> QED
    BY <1>2, <2>1
<1>4. Len(p) <= Len(r)
  BY <1>1, <1>2
<1> QED
  BY <1>2, <1>3, <1>4 DEF Extends

----------------------------------------------------------------------------
(* Trees.  What an insertion leaves is there to be found as long as blocks *)
(* are only appended.                                                      *)

Ranking(e) == Arrangement(DOMAIN e, KeyPairs(e, DOMAIN e))

TreeLeads(bs, id, e) ==
  LET leafID == bs[id + 1].child
      p == bs[leafID + 1].pointers
      C == Ranking(e)
  IN /\ id + 1 \in 1 .. Len(bs) /\ leafID + 1 \in 1 .. Len(bs)
     /\ DOMAIN p = 1 .. Len(e) /\ Len(p) = Len(e)
     /\ \A k \in 1 .. Len(e) :
          /\ p[k].value + 1 \in 1 .. Len(bs) /\ p[k].key + 1 \in 1 .. Len(bs)
          /\ bs[p[k].value + 1] = e[C[k]].value
          /\ bs[p[k].key + 1].data = e[C[k]].key

(* The n pairs of blocks, the value before its key, the leaf, the header.  *)
TreeLaid(bs, id, n) ==
  LET leafID == bs[id + 1].child
      p == bs[leafID + 1].pointers
  IN /\ leafID = id - 1 /\ Len(p) = n /\ DOMAIN p = 1 .. n
     /\ \A k \in 1 .. n : /\ p[k].value = id - 2 * n + 2 * k - 3
                         /\ p[k].key = id - 2 * n + 2 * k - 2

(* The header counts the n entries, and the leaf has the bytes for them.   *)
LeafWhole(bs, id, n) ==
  LET tree == bs[id + 1]
      leaf == bs[tree.child + 1]
  IN /\ tree.pathCount = n /\ tree.blockSize \in Nat /\ leaf.size \in Nat
     /\ leaf.size >= tree.blockSize
     /\ leaf.size >= LeafHeaderSize + LeafEntrySize * n

TreeHolds(bs, id, e) ==
  TreeLeads(bs, id, e) /\ TreeLaid(bs, id, Len(e)) /\ LeafWhole(bs, id, Len(e))

Sized(bs) == \A i \in 1 .. Len(bs) : bs[i].size \in Nat

(* Entries of keys of bytes.                                               *)
Entries(e) ==
  /\ IsSeq(e) /\ Len(e) \in Nat /\ DOMAIN e = 1 .. Len(e)
  /\ \A i \in 1 .. Len(e) : e[i].key \in Str

LEMMA StillHolds ==
  ASSUME NEW bs, NEW id, NEW e, TreeHolds(bs, id, e), NEW more, Extends(more, bs)
  PROVE  TreeHolds(more, id, e)
<1> DEFINE leafID == bs[id + 1].child
           p == bs[leafID + 1].pointers
           C == Ranking(e)
<1>1. /\ id + 1 \in 1 .. Len(bs) /\ leafID + 1 \in 1 .. Len(bs)
      /\ DOMAIN p = 1 .. Len(e) /\ Len(p) = Len(e)
      /\ \A k \in 1 .. Len(e) :
           /\ p[k].value + 1 \in 1 .. Len(bs) /\ p[k].key + 1 \in 1 .. Len(bs)
           /\ bs[p[k].value + 1] = e[C[k]].value
           /\ bs[p[k].key + 1].data = e[C[k]].key
  BY DEF TreeHolds, TreeLeads
<1>2. /\ \A i \in 1 .. Len(bs) : more[i] = bs[i]
      /\ \A i \in 1 .. Len(bs) : i \in 1 .. Len(more)
  <2>1. Len(more) \in Nat
    BY LenProperties DEF Extends, IsSeq
  <2>2. Len(bs) <= Len(more) /\ \A i \in 1 .. Len(bs) : more[i] = bs[i]
    BY DEF Extends
  <2> QED
    BY <2>1, <2>2
<1>3. more[id + 1].child = leafID /\ more[leafID + 1].pointers = p
  BY <1>1, <1>2
<1>a. TreeLaid(more, id, Len(e))
  BY <1>3 DEF TreeHolds, TreeLaid
<1>b. LeafWhole(more, id, Len(e))
  BY <1>1, <1>2 DEF TreeHolds, LeafWhole
<1> HIDE DEF leafID, p, C
<1>4. \A k \in 1 .. Len(e) :
        /\ p[k].value + 1 \in 1 .. Len(more) /\ p[k].key + 1 \in 1 .. Len(more)
        /\ more[p[k].value + 1] = e[C[k]].value
        /\ more[p[k].key + 1].data = e[C[k]].key
  BY <1>1, <1>2
<1>5. id + 1 \in 1 .. Len(more) /\ leafID + 1 \in 1 .. Len(more)
  BY <1>1, <1>2
<1> QED
  BY <1>1, <1>3, <1>4, <1>5, <1>a, <1>b DEF TreeHolds, TreeLeads, C

LEMMA SortedEntries ==
  ASSUME NEW e, Entries(e)
  PROVE  LET C == Ranking(e) IN
         /\ Sorted(e, KeyLess) = [k \in 1 .. Len(e) |-> e[C[k]]]
         /\ Len(Sorted(e, KeyLess)) = Len(e)
         /\ C \in [1 .. Len(e) -> 1 .. Len(e)]
         /\ \A i \in 1 .. Len(e) : \E k \in 1 .. Len(e) : C[k] = i
         /\ \A k, l \in 1 .. Len(e) : k < l => ~ByteLess(e[C[l]].key, e[C[k]].key)
<1> DEFINE n == Len(e)
           I == 1 .. n
           LT == KeyPairs(e, I)
           C == Arrangement(I, LT)
<1>1. n \in Nat /\ DOMAIN e = I /\ I \in SUBSET Int /\ \A i \in I : e[i].key \in Str
  BY DEF Entries
<1>2. IsFiniteSet(I) /\ Cardinality(I) = n
  <2>1. PICK m \in Nat : m = n
    BY <1>1
  <2>2. IsFiniteSet(1 .. m) /\ Cardinality(1 .. m) = m
    BY FS_Interval
  <2> QED
    BY <2>1, <2>2
<1> HIDE DEF I
<1>3. /\ SortedAt(e, I, KeyLess) = [k \in 1 .. Cardinality(I) |-> e[C[k]]]
      /\ Arranges(C, I, LT)
  BY ZenonT(60), <1>1, <1>2, SortedByKey
<1>4. Ranking(e) = C
  BY <1>1 DEF Ranking
<1> HIDE DEF C, LT
<1>5. Sorted(e, KeyLess) = [k \in 1 .. n |-> e[C[k]]]
  <2>1. Sorted(e, KeyLess) = SortedAt(e, I, KeyLess)
    BY <1>1 DEF Sorted
  <2> QED
    BY <1>2, <1>3, <2>1
<1>6. /\ C \in [1 .. n -> I] /\ \A i \in I : \E k \in 1 .. n : C[k] = i
      /\ \A k, l \in 1 .. n : k < l => C[k] # C[l] /\ Precedes(LT, C[k], C[l])
  BY <1>2, <1>3 DEF Arranges
<1>7. ASSUME NEW k \in 1 .. n, NEW l \in 1 .. n, k < l
      PROVE  ~ByteLess(e[C[l]].key, e[C[k]].key)
  <2>1. PICK i \in I, j \in I : i = C[k] /\ j = C[l] /\ Precedes(LT, i, j)
    BY <1>6, <1>7
  <2>2. <<i, j>> \in LT \/ <<j, i>> \notin LT
    BY <2>1 DEF Precedes
  <2>3. ByteLess(e[i].key, e[j].key) \/ ~ByteLess(e[j].key, e[i].key)
    BY <2>2 DEF LT, KeyPairs
  <2>4. ~(ByteLess(e[i].key, e[j].key) /\ ByteLess(e[j].key, e[i].key))
    BY <1>1, LessTransitive, LessIrreflexive
  <2> QED
    BY <2>1, <2>3, <2>4
<1>8. Len(Sorted(e, KeyLess)) = n
  <2> DEFINE f == [k \in 1 .. n |-> e[C[k]]]
             S == {e[C[k]] : k \in 1 .. n}
  <2>1. f \in [1 .. n -> S]
    OBVIOUS
  <2> HIDE DEF f, S
  <2>2. Len(f) = n
    BY <1>1, <2>1, FunctionSeq
  <2> QED
    BY <1>5, <2>2 DEF f
<1> QED
  BY <1>4, <1>5, <1>6, <1>7, <1>8 DEF I

LEMMA LeavesGrow ==
  ASSUME NEW n \in Nat, NEW p, Len(p) = n, NEW blockSize \in Nat
  PROVE  LET leaf == LeafBlock(p, blockSize) IN
         /\ leaf.size \in Nat /\ leaf.size >= blockSize
         /\ leaf.size >= LeafHeaderSize + LeafEntrySize * n
BY DEF LeafBlock, LeafHeaderSize, LeafEntrySize

LEMMA InsertHolds ==
  ASSUME NEW bs, IsSeq(bs), NEW e, Entries(e)
  PROVE  LET more == Insert(bs, e) IN
         /\ Extends(more, bs)
         /\ LastID(more) + 1 = Len(more)
         /\ TreeHolds(more, LastID(more), e)
         /\ Len(more) = Len(bs) + 2 * Len(e) + 2
         /\ Sized(bs) /\ (\A i \in 1 .. Len(e) : e[i].value.size \in Nat) => Sized(more)
<1> DEFINE m == Len(bs)
           n == Len(e)
           C == Ranking(e)
           sorted == Sorted(e, KeyLess)
           pairs == [i \in 1 .. 2 * n |->
                      LET x == sorted[(i + 1) \div 2]
                      IN IF i % 2 = 1 THEN x.value ELSE DataBlock(x.key, Len(x.key))]
           pointers == [i \in 1 .. n |->
                         [value |-> m + 2 * (i - 1), key |-> m + 2 * i - 1]]
           leaf == LeafBlock(pointers, TreeBlockSize)
           tree == TreeBlock(m + 2 * n, TreeBlockSize, n, FALSE)
           more == Insert(bs, e)
<1>1. n \in Nat /\ m \in Nat
  BY LenProperties DEF Entries, IsSeq
<1>2. /\ sorted = [k \in 1 .. n |-> e[C[k]]] /\ Len(sorted) = n
      /\ C \in [1 .. n -> 1 .. n]
  BY SortedEntries
<1>3. more = bs \o pairs \o <<leaf, tree>>
  BY <1>2 DEF Insert
<1>4. \A k \in 1 .. n : sorted[k] = e[C[k]]
  BY <1>2
<1> HIDE DEF sorted, C
<1>5. ASSUME NEW k \in 1 .. n
      PROVE  /\ 2 * k - 1 \in 1 .. 2 * n /\ pairs[2 * k - 1] = e[C[k]].value
             /\ 2 * k \in 1 .. 2 * n /\ pairs[2 * k].data = e[C[k]].key
             /\ pairs[2 * k].size = Len(e[C[k]].key)
  <2>1. /\ 2 * k - 1 \in 1 .. 2 * n /\ ((2 * k - 1) + 1) \div 2 = k /\ (2 * k - 1) % 2 = 1
        /\ 2 * k \in 1 .. 2 * n /\ (2 * k + 1) \div 2 = k /\ (2 * k) % 2 = 0
    BY <1>1
  <2>2. pairs[2 * k - 1] = sorted[k].value
    BY <2>1
  <2>3. pairs[2 * k] = DataBlock(sorted[k].key, Len(sorted[k].key))
    BY <2>1
  <2> QED
    BY <1>4, <2>1, <2>2, <2>3 DEF DataBlock
<1>6. IsSeq(pairs) /\ Len(pairs) = 2 * n
  <2> DEFINE S == {pairs[i] : i \in 1 .. 2 * n}
  <2>1. pairs \in [1 .. 2 * n -> S] /\ 2 * n \in Nat
    BY SMTT(30), <1>1
  <2> HIDE DEF S, pairs
  <2> QED
    BY <2>1, FunctionSeq
<1>7. Len(pointers) = n /\ DOMAIN pointers = 1 .. n
  <2> DEFINE S == {pointers[i] : i \in 1 .. n}
  <2>1. pointers \in [1 .. n -> S]
    OBVIOUS
  <2> HIDE DEF S, pointers
  <2> QED
    BY <1>1, <2>1, FunctionSeq
<1>8. leaf.pointers = pointers /\ tree.child = m + 2 * n
  BY DEF LeafBlock, TreeBlock
<1>a. /\ tree.pathCount = n /\ tree.blockSize = TreeBlockSize /\ TreeBlockSize \in Nat
      /\ leaf.size \in Nat /\ leaf.size >= TreeBlockSize
      /\ leaf.size >= LeafHeaderSize + LeafEntrySize * n
  <2>1. tree.pathCount = n /\ tree.blockSize = TreeBlockSize /\ TreeBlockSize \in Nat
    BY TreeAssumption DEF TreeBlock
  <2> HIDE DEF pointers, tree, n
  <2> QED
    BY <1>1, <1>7, <2>1, LeavesGrow
<1>9. ASSUME NEW k \in 1 .. n
      PROVE  pointers[k].value = m + 2 * (k - 1) /\ pointers[k].key = m + 2 * k - 1
  OBVIOUS
<1> HIDE DEF pairs, pointers, leaf, tree
<1>10. IsSeq(<<leaf, tree>>) /\ Len(<<leaf, tree>>) = 2
       /\ <<leaf, tree>>[1] = leaf /\ <<leaf, tree>>[2] = tree
  <2>1. <<leaf, tree>> \in Seq({leaf, tree}) /\ Len(<<leaf, tree>>) = 2
    OBVIOUS
  <2> QED
    BY <2>1, SomeSeq
<1> DEFINE two == <<leaf, tree>>
<1> HIDE DEF two
<1>11. /\ Extends(more, bs) /\ Len(more) = m + 2 * n + 2
       /\ \A i \in 1 .. 2 * n : more[m + i] = pairs[i]
       /\ more[m + 2 * n + 1] = leaf /\ more[m + 2 * n + 2] = tree
  <2>1. IsSeq(two) /\ Len(two) = 2 /\ two[1] = leaf /\ two[2] = tree
    BY <1>10 DEF two
  <2>2. more = bs \o pairs \o two
    BY <1>3 DEF two
  <2> HIDE DEF more
  <2>3. /\ Extends(more, bs) /\ Len(more) = Len(bs) + Len(pairs) + Len(two)
        /\ \A i \in 1 .. Len(pairs) : more[Len(bs) + i] = pairs[i]
        /\ \A i \in 1 .. Len(two) : more[Len(bs) + Len(pairs) + i] = two[i]
    <3> DEFINE joined == bs \o pairs \o two
    <3>1. IsSeq(bs) /\ IsSeq(pairs) /\ IsSeq(two)
      BY <1>6, <2>1
    <3>2. /\ Extends(joined, bs) /\ Len(joined) = Len(bs) + Len(pairs) + Len(two)
          /\ \A i \in 1 .. Len(pairs) : joined[Len(bs) + i] = pairs[i]
          /\ \A i \in 1 .. Len(two) : joined[Len(bs) + Len(pairs) + i] = two[i]
      BY <3>1, ThreeInARow
    <3>3. more = joined
      BY <2>2
    <3> HIDE DEF joined
    <3> QED
      BY <3>2, <3>3
  <2>4. 1 \in 1 .. Len(two) /\ 2 \in 1 .. Len(two)
    BY <2>1
  <2> QED
    BY <1>6, <2>1, <2>3, <2>4
<1> HIDE DEF m, n, more
<1>12. LastID(more) = m + 2 * n + 1
  BY <1>1, <1>11 DEF LastID
<1>13. LastID(more) + 1 = Len(more) /\ more[LastID(more) + 1] = tree
  <2>1. LastID(more) + 1 = m + 2 * n + 2
    BY <1>1, <1>12
  <2> QED
    BY <1>11, <2>1
<1>14. /\ more[LastID(more) + 1].child = m + 2 * n
       /\ more[(m + 2 * n) + 1].pointers = pointers
  BY <1>8, <1>11, <1>13
<1>15. /\ LastID(more) + 1 \in 1 .. Len(more) /\ (m + 2 * n) + 1 \in 1 .. Len(more)
  BY <1>1, <1>11, <1>12
<1>16. ASSUME NEW k \in 1 .. n
       PROVE  /\ pointers[k].value + 1 \in 1 .. Len(more)
              /\ pointers[k].key + 1 \in 1 .. Len(more)
              /\ more[pointers[k].value + 1] = e[C[k]].value
              /\ more[pointers[k].key + 1].data = e[C[k]].key
  <2>1. /\ pointers[k].value + 1 = m + (2 * k - 1) /\ pointers[k].key + 1 = m + 2 * k
        /\ m + (2 * k - 1) \in 1 .. m + 2 * n + 2 /\ m + 2 * k \in 1 .. m + 2 * n + 2
    BY <1>1, <1>9
  <2>2. more[m + (2 * k - 1)] = pairs[2 * k - 1] /\ more[m + 2 * k] = pairs[2 * k]
    BY <1>5, <1>11
  <2> QED
    BY <1>5, <1>11, <2>1, <2>2
<1>17. TreeLeads(more, LastID(more), e)
  <2>1. DOMAIN pointers = 1 .. Len(e) /\ Len(pointers) = Len(e)
    BY <1>7 DEF n
  <2>2. \A k \in 1 .. Len(e) :
          /\ pointers[k].value + 1 \in 1 .. Len(more)
          /\ pointers[k].key + 1 \in 1 .. Len(more)
          /\ more[pointers[k].value + 1] = e[C[k]].value
          /\ more[pointers[k].key + 1].data = e[C[k]].key
    BY <1>16 DEF n
  <2> QED
    BY <1>14, <1>15, <2>1, <2>2 DEF TreeLeads, C
<1>b. LeafWhole(more, LastID(more), n)
  <2>1. more[LastID(more) + 1] = tree /\ more[tree.child + 1] = leaf
    BY <1>8, <1>11, <1>13
  <2> QED
    BY <1>a, <2>1 DEF LeafWhole
<1>18. TreeLaid(more, LastID(more), n)
  <2>1. m + 2 * n = LastID(more) - 1
    BY <1>1, <1>12
  <2>2. ASSUME NEW k \in 1 .. n
        PROVE  /\ pointers[k].value = LastID(more) - 2 * n + 2 * k - 3
               /\ pointers[k].key = LastID(more) - 2 * n + 2 * k - 2
    BY <1>1, <1>9, <1>12
  <2> QED
    BY <1>7, <1>14, <2>1, <2>2 DEF TreeLaid
<1>19. ASSUME Sized(bs), \A i \in 1 .. n : e[i].value.size \in Nat
       PROVE  Sized(more)
  <2>1. leaf.size \in Nat /\ tree.size \in Nat
    BY <1>1, <1>7, TreeAssumption
       DEF leaf, tree, LeafBlock, TreeBlock, LeafHeaderSize, LeafEntrySize, TreeHeaderSize
  <2>2. ASSUME NEW i \in 1 .. 2 * n PROVE pairs[i].size \in Nat
    <3>1. \E k \in 1 .. n : i = 2 * k - 1 \/ i = 2 * k
      <4>1. PICK q \in Nat : i = 2 * q \/ i = 2 * (q + 1) - 1
        <5>1. i \div 2 \in Nat /\ (i = 2 * (i \div 2) \/ i = 2 * (i \div 2 + 1) - 1)
          BY <1>1
        <5> QED
          BY <5>1
      <4>2. CASE i = 2 * q
        <5>1. q \in 1 .. n
          BY <1>1, <4>2
        <5> QED
          BY <4>2, <5>1
      <4>3. CASE i = 2 * (q + 1) - 1
        <5>1. q + 1 \in 1 .. n
          BY <1>1, <4>3
        <5> QED
          BY <4>3, <5>1
      <4> QED
        BY <4>1, <4>2, <4>3
    <3>2. PICK k \in 1 .. n : i = 2 * k - 1 \/ i = 2 * k
      BY <3>1
    <3>3. C[k] \in 1 .. n /\ e[C[k]].key \in Str
      BY <1>2 DEF Entries, n
    <3>4. Len(e[C[k]].key) \in Nat
      BY <3>3, LenProperties DEF Str
    <3>5. pairs[2 * k - 1] = e[C[k]].value /\ pairs[2 * k].size = Len(e[C[k]].key)
      BY <1>5
    <3> QED
      BY <1>19, <3>2, <3>3, <3>4, <3>5
  <2>3. ASSUME NEW i \in 1 .. Len(more) PROVE more[i].size \in Nat
    <3>1. \/ i \in 1 .. m
          \/ i = m + (i - m) /\ i - m \in 1 .. 2 * n
          \/ i = m + 2 * n + 1
          \/ i = m + 2 * n + 2
      <4>1. i \in 1 .. m + 2 * n + 2
        BY <1>11
      <4> QED
        BY <1>1, <4>1
    <3>2. CASE i \in 1 .. m
      BY <1>11, <1>19, <3>2 DEF Extends, Sized, m
    <3>3. CASE i = m + (i - m) /\ i - m \in 1 .. 2 * n
      BY <1>11, <2>2, <3>3
    <3> QED
      BY <1>11, <2>1, <3>1, <3>2, <3>3
  <2> QED
    BY <2>3 DEF Sized
<1> QED
  BY <1>11, <1>13, <1>17, <1>18, <1>19, <1>b DEF more, m, n, TreeHolds

(* A lookup in a tree finds an entry of the key that is sought, if any.    *)
LEMMA LookupFinds ==
  ASSUME NEW bs, NEW id, NEW e, Entries(e), TreeHolds(bs, id, e), NEW key \in Str
  PROVE  /\ \A b \in Lookup(bs, id, key) :
              \E i \in 1 .. Len(e) : e[i].key = key /\ b = e[i].value
         /\ (\E i \in 1 .. Len(e) : e[i].key = key) => Lookup(bs, id, key) # {}
<1> DEFINE n == Len(e)
           C == Ranking(e)
           p == LeafOf(bs, id).pointers
           cmp == [k \in DOMAIN p |->
                    IF Block(bs, p[k].key).data = key THEN 0
                    ELSE IF ByteLess(key, Block(bs, p[k].key).data) THEN -1 ELSE 1]
           at == Search(Len(p), cmp)
<1>1. /\ DOMAIN p = 1 .. n /\ Len(p) = n
      /\ \A k \in 1 .. n : /\ Block(bs, p[k].value) = e[C[k]].value
                           /\ Block(bs, p[k].key).data = e[C[k]].key
  BY DEF TreeHolds, TreeLeads, LeafOf, Block
<1>2. Lookup(bs, id, key) = IF at = 0 THEN {} ELSE {Block(bs, p[at].value)}
  BY DEF Lookup
<1>3. /\ n \in Nat /\ C \in [1 .. n -> 1 .. n]
      /\ \A i \in 1 .. n : e[i].key \in Str
      /\ \A i \in 1 .. n : \E k \in 1 .. n : C[k] = i
      /\ \A k, l \in 1 .. n : k < l => ~ByteLess(e[C[l]].key, e[C[k]].key)
  BY SortedEntries DEF Entries
<1> HIDE DEF p, C, n
<1>4. ASSUME NEW k \in 1 .. n
      PROVE  /\ e[C[k]].key \in Str /\ cmp[k] \in Int
             /\ cmp[k] = 0 <=> e[C[k]].key = key
             /\ cmp[k] < 0 <=> e[C[k]].key # key /\ ByteLess(key, e[C[k]].key)
             /\ cmp[k] > 0 <=> e[C[k]].key # key /\ ~ByteLess(key, e[C[k]].key)
  <2>1. e[C[k]].key \in Str
    BY <1>3
  <2> DEFINE K == e[C[k]].key
  <2>2. cmp[k] = IF K = key THEN 0 ELSE IF ByteLess(key, K) THEN -1 ELSE 1
    BY <1>1
  <2> HIDE DEF K, cmp
  <2>3. /\ cmp[k] \in Int
        /\ cmp[k] = 0 <=> K = key
        /\ cmp[k] < 0 <=> K # key /\ ByteLess(key, K)
        /\ cmp[k] > 0 <=> K # key /\ ~ByteLess(key, K)
    BY <2>2
  <2> QED
    BY <2>1, <2>3 DEF K
<1>5. cmp \in [1 .. n -> Int]
  <2>1. DOMAIN cmp = 1 .. n /\ cmp = [k \in DOMAIN cmp |-> cmp[k]]
    BY <1>1
  <2> HIDE DEF cmp
  <2> QED
    BY <1>4, <2>1
<1> HIDE DEF cmp
<1>6. ASSUME NEW i \in 1 .. n, NEW j \in 1 .. n, cmp[i] = 0, cmp[j] < 0 PROVE i < j
  <2>1. e[C[i]].key = key /\ e[C[j]].key # key /\ ByteLess(key, e[C[j]].key)
    BY <1>4, <1>6
  <2>2. ~(j < i)
    BY <1>3, <2>1
  <2>3. j # i
    BY <2>1
  <2> QED
    BY <2>2, <2>3
<1>7. ASSUME NEW i \in 1 .. n, NEW j \in 1 .. n, cmp[i] = 0, cmp[j] > 0 PROVE j < i
  <2>1. e[C[i]].key = key /\ e[C[j]].key # key /\ ~ByteLess(key, e[C[j]].key)
    BY <1>4, <1>7
  <2>2. ByteLess(e[C[j]].key, key)
    BY <1>4, <2>1, LessTotal
  <2>3. ~(i < j)
    BY <1>3, <2>1, <2>2
  <2>4. j # i
    BY <2>1
  <2> QED
    BY <2>3, <2>4
<1>8. /\ at = 0 \/ (at \in 1 .. n /\ cmp[at] = 0)
      /\ (\E i \in 1 .. n : cmp[i] = 0) => at # 0
  <2>1. at = Search(n, cmp)
    BY <1>1
  <2> HIDE DEF at
  <2> QED
    BY <1>3, <1>5, <1>6, <1>7, <2>1, SearchFinds
<1> HIDE DEF at
<1>9. ASSUME NEW b \in Lookup(bs, id, key)
      PROVE  \E i \in 1 .. n : e[i].key = key /\ b = e[i].value
  <2>1. at # 0 /\ b = Block(bs, p[at].value)
    BY <1>2, <1>9
  <2>2. at \in 1 .. n /\ cmp[at] = 0
    BY <1>8, <2>1
  <2>3. C[at] \in 1 .. n /\ e[C[at]].key = key
    BY <1>3, <1>4, <2>2
  <2>4. b = e[C[at]].value
    BY <1>1, <2>1, <2>2
  <2> QED
    BY <2>3, <2>4
<1>10. ASSUME NEW i \in 1 .. n, e[i].key = key PROVE Lookup(bs, id, key) # {}
  <2>1. PICK k \in 1 .. n : C[k] = i
    BY <1>3
  <2>2. cmp[k] = 0
    BY <1>4, <1>10, <2>1
  <2>3. at # 0
    BY <1>8, <2>2
  <2> QED
    BY <1>2, <2>3
<1> QED
  BY <1>9, <1>10 DEF n

----------------------------------------------------------------------------
(* Packed keys.  A packed key tells the tokens of the key apart.           *)

LEMMA Wider ==
  ASSUME NEW S, NEW T, S \subseteq T, NEW q \in Seq(S)
  PROVE  q \in Seq(T)
<1>1. Len(q) \in Nat /\ q \in [1 .. Len(q) -> S]
  BY LenProperties
<1>2. q \in [1 .. Len(q) -> T]
  BY <1>1
<1> QED
  BY <1>1, <1>2

LEMMA Tokens ==
  /\ Len(KeyFormat) = 9 /\ DOMAIN KeyFormat = 1 .. 9
  /\ KeyFormat[1] = "appearance" /\ KeyFormat[2] = "localization" /\ KeyFormat[3] = "scale"
  /\ KeyFormat[4] = "idiom" /\ KeyFormat[5] = "subtype" /\ KeyFormat[6] = "dimension2"
  /\ KeyFormat[7] = "identifier" /\ KeyFormat[8] = "element" /\ KeyFormat[9] = "part"
BY DEF KeyFormat

LEMMA KeyTokens ==
  ASSUME NEW r, IsRendition(r)
  PROVE  \A i \in 1 .. 9 : RenditionKey(r)[KeyFormat[i]] \in Nat
<1> DEFINE k == RenditionKey(r)
<1>1. k.appearance \in Nat /\ k.localization \in Nat /\ k.subtype \in Nat /\ k.dimension2 \in Nat
  BY DEF RenditionKey, AnyAppearance, DarkAppearance
<1>2. k.scale \in Nat /\ k.identifier \in Nat
  <2>1. r.scale \in Nat /\ r.name.hash \in Nat
    BY SMT DEF IsRendition
  <2>2. k.scale = r.scale /\ k.identifier = r.name.hash
    BY SMT DEF RenditionKey
  <2> QED
    BY <2>1, <2>2
<1>3. k.idiom \in Nat
  <2>1. r.idiom \in {"universal", "iphone", "ipad", "tv", "car", "watch", "marketing", "mac"}
    <3>1. r.idiom \in DOMAIN IdiomByte
      BY SMT DEF IsRendition
    <3>2. DOMAIN IdiomByte =
            {"universal", "iphone", "ipad", "tv", "car", "watch", "marketing", "mac"}
      BY DEF IdiomByte
    <3> QED
      BY <3>1, <3>2
  <2>2. IdiomByte[r.idiom] \in Nat
    BY SMT, <2>1 DEF IdiomByte
  <2>3. k.idiom = IdiomByte[r.idiom]
    BY SMT DEF RenditionKey
  <2> QED
    BY <2>2, <2>3
<1>4. k.element \in Nat /\ k.part \in Nat
  <2>1. r.body \in {"icon", "image", "color", "svg", "jpeg"}
    BY SMT DEF IsRendition, Bodies
  <2>2. PartOf[r.body] \in Nat
    BY SMT, <2>1 DEF PartOf
  <2>3. k.part = PartOf[r.body] /\ k.element = IF r.body = "color" THEN 0 ELSE BitmapElement
    BY SMT DEF RenditionKey
  <2> QED
    BY <2>2, <2>3 DEF BitmapElement
<1> HIDE DEF k
<1> SUFFICES ASSUME NEW i \in 1 .. 9 PROVE k[KeyFormat[i]] \in Nat
  BY DEF k
<1>5. i \in {1, 2, 3, 4, 5, 6, 7, 8, 9}
  OBVIOUS
<1> QED
  BY <1>1, <1>2, <1>3, <1>4, <1>5, Tokens

LEMMA KeyByTokens ==
  ASSUME NEW r, NEW q,
         \A i \in 1 .. 9 : RenditionKey(r)[KeyFormat[i]] = RenditionKey(q)[KeyFormat[i]]
  PROVE  RenditionKey(r) = RenditionKey(q)
<1> DEFINE k == RenditionKey(r)
           l == RenditionKey(q)
<1>1. /\ k.appearance = l.appearance /\ k.localization = l.localization
      /\ k.scale = l.scale /\ k.idiom = l.idiom /\ k.subtype = l.subtype
      /\ k.dimension2 = l.dimension2 /\ k.identifier = l.identifier
      /\ k.element = l.element /\ k.part = l.part
  <2> HIDE DEF k, l
  <2>1. \A i \in 1 .. 9 : k[KeyFormat[i]] = l[KeyFormat[i]]
    BY DEF k, l
  <2>2. \A i \in {1, 2, 3, 4, 5, 6, 7, 8, 9} : i \in 1 .. 9
    OBVIOUS
  <2> QED
    BY <2>1, <2>2, Tokens
<1> QED
  BY <1>1 DEF RenditionKey

LEMMA PackedTokens ==
  ASSUME NEW k, \A i \in 1 .. 9 : k[KeyFormat[i]] \in Nat
  PROVE  /\ Encode(k) \in Str /\ Len(Encode(k)) = 18
         /\ \A i \in 1 .. 9 : Encode(k)[2 * i - 1] + 256 * Encode(k)[2 * i] = k[KeyFormat[i]]
<1> DEFINE token(i) == k[KeyFormat[(i + 1) \div 2]]
<1>1. Encode(k) = [i \in 1 .. 18 |-> IF i % 2 = 1 THEN token(i) % 256 ELSE token(i) \div 256]
  BY Tokens DEF Encode
<1>2. ASSUME NEW i \in 1 .. 18
      PROVE  (IF i % 2 = 1 THEN token(i) % 256 ELSE token(i) \div 256) \in Nat
  <2>1. (i + 1) \div 2 \in 1 .. 9
    OBVIOUS
  <2>2. PICK t \in Nat : t = token(i)
    BY <2>1
  <2>3. t % 256 \in Nat /\ t \div 256 \in Nat
    OBVIOUS
  <2> QED
    BY <2>2, <2>3
<1>3. ASSUME NEW i \in 1 .. 9
      PROVE  Encode(k)[2 * i - 1] + 256 * Encode(k)[2 * i] = k[KeyFormat[i]]
  <2>1. /\ 2 * i - 1 \in 1 .. 18 /\ ((2 * i - 1) + 1) \div 2 = i /\ (2 * i - 1) % 2 = 1
        /\ 2 * i \in 1 .. 18 /\ (2 * i + 1) \div 2 = i /\ (2 * i) % 2 = 0
    OBVIOUS
  <2>2. PICK t \in Nat : t = k[KeyFormat[i]]
    OBVIOUS
  <2>3. Encode(k)[2 * i - 1] = t % 256 /\ Encode(k)[2 * i] = t \div 256
    BY <1>1, <2>1, <2>2
  <2>4. (t % 256) + 256 * (t \div 256) = t
    OBVIOUS
  <2> QED
    BY <2>2, <2>3, <2>4
<1> HIDE DEF token
<1>4. Encode(k) \in [1 .. 18 -> Nat]
  BY <1>1, <1>2
<1>5. Encode(k) \in Seq(Nat) /\ Len(Encode(k)) = 18
  BY <1>4, FunctionSeq
<1> QED
  BY <1>3, <1>5 DEF Str

LEMMA SameKey ==
  ASSUME NEW r, NEW q, IsRendition(r), IsRendition(q),
         Encode(RenditionKey(r)) = Encode(RenditionKey(q))
  PROVE  RenditionKey(r) = RenditionKey(q)
<1>1. ASSUME NEW i \in 1 .. 9
      PROVE  RenditionKey(r)[KeyFormat[i]] = RenditionKey(q)[KeyFormat[i]]
  <2>1. /\ Encode(RenditionKey(r))[2 * i - 1] + 256 * Encode(RenditionKey(r))[2 * i]
             = RenditionKey(r)[KeyFormat[i]]
        /\ Encode(RenditionKey(q))[2 * i - 1] + 256 * Encode(RenditionKey(q))[2 * i]
             = RenditionKey(q)[KeyFormat[i]]
    BY KeyTokens, PackedTokens
  <2> QED
    BY <2>1
<1> QED
  BY <1>1, KeyByTokens

(* Keys of bytes order their entries, equal keys aside.                    *)
LEMMA KeysOrdered ==
  ASSUME NEW s, NEW I \in SUBSET Int, \A i \in I : s[i].key \in Str
  PROVE  WeakOrder(I, KeyPairs(s, I))
<1> DEFINE LT == KeyPairs(s, I)
<1>1. \A i, j \in I : <<i, j>> \in LT <=> ByteLess(s[i].key, s[j].key)
  BY DEF KeyPairs
<1> HIDE DEF LT
<1>2. \A i \in I : <<i, i>> \notin LT
  BY <1>1, LessIrreflexive
<1>3. ASSUME NEW i \in I, NEW j \in I, NEW k \in I, <<i, j>> \in LT, <<j, k>> \in LT
      PROVE  <<i, k>> \in LT
  BY <1>1, <1>3, LessTransitive
<1>4. ASSUME NEW i \in I, NEW j \in I, NEW k \in I, <<i, j>> \notin LT, <<j, k>> \notin LT
      PROVE  <<i, k>> \notin LT
  BY <1>1, <1>4, LessWeak
<1> QED
  BY <1>2, <1>3, <1>4 DEF WeakOrder, LT

(* Where an arrangement has an element is its place.                       *)
LEMMA ArrangedAtPlaces ==
  ASSUME NEW I \in SUBSET Int, IsFiniteSet(I), NEW LT, WeakOrder(I, LT),
         NEW k \in 1 .. Cardinality(I)
  PROVE  /\ Arrangement(I, LT)[k] \in I /\ PlaceIn(I, LT, Arrangement(I, LT)[k]) = k
         /\ \A i \in I : PlaceIn(I, LT, i) = k => i = Arrangement(I, LT)[k]
<1> DEFINE a == Arrangement(I, LT)[k]
<1>1. \E i \in I : PlaceIn(I, LT, i) = k
  BY Places
<1>2. a = CHOOSE i \in I : PlaceIn(I, LT, i) = k
  BY DEF Arrangement
<1>3. a \in I /\ PlaceIn(I, LT, a) = k
  BY <1>1, <1>2
<1> HIDE DEF a
<1>4. ASSUME NEW i \in I, PlaceIn(I, LT, i) = k PROVE i = a
  <2>1. ~(k < k)
    OBVIOUS
  <2>2. ~Precedes(LT, a, i) /\ ~Precedes(LT, i, a)
    BY <1>3, <1>4, <2>1, Places
  <2> QED
    BY <1>3, <2>2, PrecedesIsTotal
<1> QED
  BY <1>3, <1>4 DEF a

(* A list that holds the entries of another, with the place of each.       *)
Rearranges(p, n, s, t) ==
  /\ p \in [1 .. n -> 1 .. n]
  /\ \A i \in 1 .. n : t[p[i]] = s[i]
  /\ \A i, j \in 1 .. n : p[i] = p[j] => i = j
  /\ \A j \in 1 .. n : \E i \in 1 .. n : p[i] = j

LEMMA Rearranged ==
  ASSUME NEW n \in Nat, NEW s, NEW t, \A i \in 1 .. n : \E j \in 1 .. n : t[j] = s[i],
         \A i, j \in 1 .. n : s[i].key = s[j].key => i = j
  PROVE  \E p : Rearranges(p, n, s, t)
<1> DEFINE p == [i \in 1 .. n |-> CHOOSE j \in 1 .. n : t[j] = s[i]]
<1>1. ASSUME NEW i \in 1 .. n PROVE p[i] \in 1 .. n /\ t[p[i]] = s[i]
  <2>1. \E j \in 1 .. n : t[j] = s[i]
    OBVIOUS
  <2> QED
    BY <2>1
<1>2. p \in [1 .. n -> 1 .. n]
  BY <1>1
<1> HIDE DEF p
<1>3. ASSUME NEW i \in 1 .. n, NEW j \in 1 .. n, p[i] = p[j] PROVE i = j
  <2>1. s[i] = s[j]
    BY <1>1, <1>3
  <2> QED
    BY <2>1
<1>4. p \in Injection(1 .. n, 1 .. n)
  <2>1. \A a, b \in DOMAIN p : p[a] = p[b] => a = b
    BY <1>2, <1>3
  <2> QED
    BY <1>2, <2>1 DEF Injection, IsInjective
<1>5. IsFiniteSet(1 .. n)
  <2>1. 1 \in Int /\ n \in Int
    OBVIOUS
  <2> QED
    BY <2>1, FS_Interval, Zenon
<1>6. p \in Surjection(1 .. n, 1 .. n)
  BY <1>4, <1>5, FS_Injection
<1>7. \A j \in 1 .. n : \E i \in 1 .. n : p[i] = j
  BY <1>6 DEF Surjection
<1>8. \A i \in 1 .. n : t[p[i]] = s[i]
  BY <1>1
<1>9. \A i, j \in 1 .. n : p[i] = p[j] => i = j
  BY <1>3
<1>10. Rearranges(p, n, s, t)
  BY <1>2, <1>7, <1>8, <1>9, Zenon DEF Rearranges
<1> QED
  BY <1>10

(* Of two lists of n entries one has all entries of the other, whose keys  *)
(* differ.                                                                 *)
SameEntries(n, s, t) ==
  /\ DOMAIN s = 1 .. n /\ DOMAIN t = 1 .. n
  /\ \A i \in 1 .. n : s[i].key \in Str
  /\ \A i \in 1 .. n : \E j \in 1 .. n : t[j] = s[i]
  /\ \A i, j \in 1 .. n : s[i].key = s[j].key => i = j

(* Sorting forgets the order in which entries with different keys came.    *)
LEMMA SortedAlike ==
  ASSUME NEW n \in Nat, NEW s, NEW t, SameEntries(n, s, t)
  PROVE  Sorted(s, KeyLess) = Sorted(t, KeyLess)
<1> DEFINE I == 1 .. n
           LTs == KeyPairs(s, I)
           LTt == KeyPairs(t, I)
           C == Arrangement(I, LTs)
           D == Arrangement(I, LTt)
<1>1. I \in SUBSET Int /\ IsFiniteSet(I) /\ Cardinality(I) = n /\ I \in SUBSET Nat
  BY FS_Interval
<1>a. /\ DOMAIN s = I /\ DOMAIN t = I /\ \A i \in I : s[i].key \in Str
      /\ \A i, j \in I : s[i].key = s[j].key => i = j
  BY DEF SameEntries
<1>b. 1 .. Cardinality(I) = I
  BY <1>1
<1>2. PICK p : Rearranges(p, n, s, t)
  BY Rearranged DEF SameEntries
<1>c. /\ p \in [I -> I] /\ \A i \in I : t[p[i]] = s[i]
      /\ \A i, j \in I : p[i] = p[j] => i = j
      /\ \A j \in I : \E i \in I : p[i] = j
  BY <1>2 DEF Rearranges
<1> HIDE DEF I
<1>3. ASSUME NEW j \in I PROVE t[j].key \in Str
  <2>1. PICK i \in I : p[i] = j
    BY <1>c, Zenon
  <2>2. t[j] = s[i]
    BY <1>c, <2>1, Zenon
  <2> QED
    BY <1>a, <2>2
<1>4. /\ Sorted(s, KeyLess) = [k \in I |-> s[C[k]]] /\ Arranges(C, I, LTs)
      /\ Sorted(t, KeyLess) = [k \in I |-> t[D[k]]] /\ Arranges(D, I, LTt)
  <2>1. /\ SortedAt(s, I, KeyLess) = [k \in I |-> s[C[k]]] /\ Arranges(C, I, LTs)
        /\ SortedAt(t, I, KeyLess) = [k \in I |-> t[D[k]]] /\ Arranges(D, I, LTt)
    <3>1. /\ SortedAt(s, I, KeyLess) = [k \in 1 .. Cardinality(I) |-> s[C[k]]]
          /\ Arranges(C, I, LTs)
      BY <1>1, <1>a, SortedByKey, Zenon
    <3>2. /\ SortedAt(t, I, KeyLess) = [k \in 1 .. Cardinality(I) |-> t[D[k]]]
          /\ Arranges(D, I, LTt)
      BY <1>1, <1>3, SortedByKey, Zenon
    <3> QED
      BY <1>b, <3>1, <3>2
  <2> QED
    BY <2>1, <1>a DEF Sorted
<1>5. WeakOrder(I, LTs) /\ WeakOrder(I, LTt)
  BY <1>1, <1>3, <1>a, KeysOrdered
<1>d. ASSUME NEW LT, WeakOrder(I, LT), NEW k \in I
      PROVE  /\ Arrangement(I, LT)[k] \in I /\ PlaceIn(I, LT, Arrangement(I, LT)[k]) = k
             /\ \A i \in I : PlaceIn(I, LT, i) = k => i = Arrangement(I, LT)[k]
  <2>1. k \in 1 .. Cardinality(I)
    BY <1>b
  <2> QED
    BY <1>1, <1>d, <2>1, ArrangedAtPlaces
<1>6. \A i, j \in I : /\ <<i, j>> \in LTs <=> ByteLess(s[i].key, s[j].key)
                      /\ <<i, j>> \in LTt <=> ByteLess(t[i].key, t[j].key)
  BY DEF KeyPairs
<1> HIDE DEF LTs, LTt
<1>7. ASSUME NEW i \in I, NEW j \in I
      PROVE  Precedes(LTs, i, j) <=> Precedes(LTt, p[i], p[j])
  <2>1. p[i] \in I /\ p[j] \in I /\ t[p[i]] = s[i] /\ t[p[j]] = s[j]
    BY <1>c
  <2>2. CASE i = j
    BY <1>1, <1>5, <2>1, <2>2, PrecedesIsTotal
  <2>3. CASE i # j
    <3>1. s[i].key # s[j].key /\ s[i].key \in Str /\ s[j].key \in Str
      BY <1>a, <2>3
    <3>2. ByteLess(s[i].key, s[j].key) \/ ByteLess(s[j].key, s[i].key)
      BY <3>1, LessTotal
    <3>3. ~(ByteLess(s[i].key, s[j].key) /\ ByteLess(s[j].key, s[i].key))
      <4> SUFFICES ASSUME ByteLess(s[i].key, s[j].key), ByteLess(s[j].key, s[i].key) PROVE FALSE
        OBVIOUS
      <4>1. ByteLess(s[i].key, s[i].key)
        BY <3>1, LessTransitive, Zenon
      <4> QED
        BY <3>1, <4>1, LessIrreflexive, Zenon
    <3>4. Precedes(LTs, i, j) <=> ByteLess(s[i].key, s[j].key)
      BY <1>6, <3>2, <3>3, Zenon DEF Precedes
    <3>5. /\ <<p[i], p[j]>> \in LTt <=> ByteLess(s[i].key, s[j].key)
          /\ <<p[j], p[i]>> \in LTt <=> ByteLess(s[j].key, s[i].key)
      <4>1. /\ <<p[i], p[j]>> \in LTt <=> ByteLess(t[p[i]].key, t[p[j]].key)
            /\ <<p[j], p[i]>> \in LTt <=> ByteLess(t[p[j]].key, t[p[i]].key)
        BY <1>6, <2>1, Zenon
      <4> QED
        BY <2>1, <4>1, Zenon
    <3>6. Precedes(LTt, p[i], p[j]) <=> ByteLess(s[i].key, s[j].key)
      BY <3>2, <3>3, <3>5, Zenon DEF Precedes
    <3> QED
      BY <3>4, <3>6
  <2> QED
    BY <2>2, <2>3
<1>8. ASSUME NEW i \in I PROVE PlaceIn(I, LTt, p[i]) = PlaceIn(I, LTs, i)
  <2> DEFINE A == {j \in I : Precedes(LTs, j, i)}
             B == {j \in I : Precedes(LTt, j, p[i])}
             f == [j \in A |-> p[j]]
  <2>1. IsFiniteSet(A)
    BY <1>1, FS_Subset
  <2>2. f \in [A -> B]
    BY <1>c, <1>7
  <2>3. \A j, k \in A : f[j] = f[k] => j = k
    BY <1>c
  <2>4. \A m \in B : \E j \in A : f[j] = m
    <3> SUFFICES ASSUME NEW m \in B PROVE \E j \in A : f[j] = m
      OBVIOUS
    <3>1. PICK j \in I : p[j] = m
      BY <1>c
    <3>2. j \in A
      BY <1>7, <3>1
    <3> QED
      BY <3>1, <3>2
  <2> HIDE DEF A, B, f
  <2>5. f \in Bijection(A, B)
    <3>1. f \in Injection(A, B)
      <4>1. \A a, b \in DOMAIN f : f[a] = f[b] => a = b
        BY <2>2, <2>3
      <4> QED
        BY <2>2, <4>1 DEF Injection, IsInjective
    <3>2. f \in Surjection(A, B)
      BY <2>2, <2>4 DEF Surjection
    <3> QED
      BY <3>1, <3>2 DEF Bijection
  <2>6. Cardinality(B) = Cardinality(A)
    BY <2>1, <2>5, FS_Bijection DEF ExistsBijection
  <2> QED
    BY <2>6 DEF PlaceIn, A, B
<1>9. ASSUME NEW k \in I PROVE t[D[k]] = s[C[k]]
  <2>1. C[k] \in I /\ PlaceIn(I, LTs, C[k]) = k
    <3>1. /\ Arrangement(I, LTs)[k] \in I
          /\ PlaceIn(I, LTs, Arrangement(I, LTs)[k]) = k
      BY <1>5, <1>d, Zenon
    <3> QED
      BY <3>1
  <2>2. PlaceIn(I, LTt, p[C[k]]) = k /\ p[C[k]] \in I /\ t[p[C[k]]] = s[C[k]]
    BY <1>c, <1>8, <2>1
  <2> HIDE DEF C
  <2>3. p[C[k]] = D[k]
    <3>1. \A i \in I : PlaceIn(I, LTt, i) = k => i = Arrangement(I, LTt)[k]
      BY <1>5, <1>d, Zenon
    <3> QED
      BY <2>2, <3>1
  <2> QED
    BY <2>2, <2>3
<1> HIDE DEF C, D
<1> QED
  BY <1>4, <1>9

(* The leaf of RENDITIONS.                                                 *)
InLeaf(rs) ==
  Sorted([i \in DOMAIN rs |-> [key |-> Encode(RenditionKey(rs[i])),
                               source |-> rs[i].source]], KeyLess)

(* qs has the renditions of rs, of which no two have one key.              *)
Reordered(n, rs, qs) ==
  /\ DOMAIN rs = 1 .. n /\ DOMAIN qs = 1 .. n
  /\ \A i \in 1 .. n : IsRendition(rs[i])
  /\ \A i \in 1 .. n : \E j \in 1 .. n : qs[j] = rs[i]
  /\ \A i, j \in 1 .. n : RenditionKey(rs[i]) = RenditionKey(rs[j]) => i = j

(* The leaf forgets the order in which such renditions came.               *)
LEMMA RenditionsSortAlike ==
  ASSUME NEW n \in Nat, NEW rs, NEW qs, Reordered(n, rs, qs)
  PROVE  InLeaf(rs) = InLeaf(qs)
<1>0. /\ DOMAIN rs = 1 .. n /\ DOMAIN qs = 1 .. n
      /\ \A i \in 1 .. n : IsRendition(rs[i])
      /\ \A i \in 1 .. n : \E j \in 1 .. n : qs[j] = rs[i]
      /\ \A i, j \in 1 .. n : RenditionKey(rs[i]) = RenditionKey(rs[j]) => i = j
  BY DEF Reordered
<1> DEFINE Entry(r) == [key |-> Encode(RenditionKey(r)), source |-> r.source]
           s == [i \in 1 .. n |-> Entry(rs[i])]
           t == [i \in 1 .. n |-> Entry(qs[i])]
<1>1. ASSUME NEW i \in 1 .. n PROVE s[i].key \in Str
  <2>1. Encode(RenditionKey(rs[i])) \in Str
    BY <1>0, KeyTokens, PackedTokens
  <2> QED
    BY <2>1
<1>2. ASSUME NEW i \in 1 .. n PROVE \E j \in 1 .. n : t[j] = s[i]
  <2>1. PICK j \in 1 .. n : qs[j] = rs[i]
    BY <1>0
  <2>2. t[j] = s[i]
    BY <2>1
  <2> QED
    BY <2>2
<1>3. ASSUME NEW i \in 1 .. n, NEW j \in 1 .. n, s[i].key = s[j].key PROVE i = j
  <2>1. Encode(RenditionKey(rs[i])) = Encode(RenditionKey(rs[j]))
    BY <1>3
  <2>2. RenditionKey(rs[i]) = RenditionKey(rs[j])
    BY <1>0, <2>1, SameKey
  <2> QED
    BY <1>0, <2>2
<1>4. DOMAIN s = 1 .. n /\ DOMAIN t = 1 .. n
  OBVIOUS
<1>5. /\ s = [i \in DOMAIN rs |-> Entry(rs[i])]
      /\ t = [i \in DOMAIN qs |-> Entry(qs[i])]
  BY <1>0
<1> HIDE DEF s, t
<1>6. Sorted(s, KeyLess) = Sorted(t, KeyLess)
  <2>1. SameEntries(n, s, t)
    BY <1>1, <1>2, <1>3, <1>4 DEF SameEntries
  <2> QED
    BY <2>1, SortedAlike
<1>7. /\ InLeaf(rs) = Sorted([i \in DOMAIN rs |-> Entry(rs[i])], KeyLess)
      /\ InLeaf(qs) = Sorted([i \in DOMAIN qs |-> Entry(qs[i])], KeyLess)
  BY Zenon DEF InLeaf
<1>8. InLeaf(rs) = Sorted(s, KeyLess) /\ InLeaf(qs) = Sorted(t, KeyLess)
  BY <1>5, <1>7, Zenon
<1> QED
  BY <1>6, <1>8, Zenon

(* What RenditionKey.decode makes of a packed key.                         *)
LEMMA DecodesAppearance ==
  ASSUME NEW r, IsRendition(r)
  PROVE  Decode(Encode(RenditionKey(r))).appearance =
           IF r.dark THEN DarkAppearance ELSE AnyAppearance
<1> DEFINE bytes == Encode(RenditionKey(r))
           Which(a) == CHOOSE i \in DOMAIN KeyFormat : KeyFormat[i] = a
<1>1. Decode(bytes).appearance =
        bytes[2 * Which("appearance") - 1] + 256 * bytes[2 * Which("appearance")]
  <2>1. "appearance" \in {KeyFormat[i] : i \in DOMAIN KeyFormat}
    BY Tokens
  <2> HIDE DEF bytes
  <2> QED
    BY <2>1 DEF Decode
<1>2. Which("appearance") = 1
  <2>1. \A i \in 2 .. 9 : KeyFormat[i] # "appearance"
    <3>1. \A i \in 2 .. 9 : i \in {2, 3, 4, 5, 6, 7, 8, 9}
      OBVIOUS
    <3> QED
      BY <3>1, Tokens
  <2>2. \A i \in DOMAIN KeyFormat : KeyFormat[i] = "appearance" <=> i = 1
    BY <2>1, Tokens
  <2>3. 1 \in DOMAIN KeyFormat
    BY Tokens
  <2> QED
    BY <2>2, <2>3
<1>3. bytes[2 * 1 - 1] + 256 * bytes[2 * 1] = RenditionKey(r)[KeyFormat[1]]
  BY KeyTokens, PackedTokens
<1>4. RenditionKey(r)[KeyFormat[1]] = IF r.dark THEN DarkAppearance ELSE AnyAppearance
  BY Tokens DEF RenditionKey
<1> DEFINE which == Which("appearance")
<1> HIDE DEF which, bytes
<1>5. which = 1
  BY <1>2 DEF which
<1>6. Decode(bytes).appearance = bytes[2 * which - 1] + 256 * bytes[2 * which]
  BY <1>1 DEF which
<1> QED
  BY <1>3, <1>4, <1>5, <1>6 DEF bytes

----------------------------------------------------------------------------
(* The other orders: assets by name, inline keys as numbers, and no order  *)
(* at all, which leaves the elements as they came.                         *)

NamePairs(s, I) == {p \in I \X I : ByteLess(s[p[1]].name.nfc, s[p[2]].name.nfc)}

LEMMA SortedByName ==
  ASSUME NEW s, NEW I \in SUBSET Int, IsFiniteSet(I), \A i \in I : s[i].name.nfc \in Str
  PROVE  LET LT == NamePairs(s, I)
             C == Arrangement(I, LT)
         IN /\ SortedAt(s, I, NameLess) = [k \in 1 .. Cardinality(I) |-> s[C[k]]]
            /\ Arranges(C, I, LT)
<1> DEFINE LT == NamePairs(s, I)
           Earlier(i, j) == NameLess(s[i], s[j]) \/ (i < j /\ ~NameLess(s[j], s[i]))
           C == Arrangement(I, LT)
<1>1. \A i, j \in I : <<i, j>> \in LT <=> ByteLess(s[i].name.nfc, s[j].name.nfc)
  BY DEF NamePairs
<1> HIDE DEF LT
<1>2. WeakOrder(I, LT)
  <2>1. \A i \in I : <<i, i>> \notin LT
    BY <1>1, LessIrreflexive
  <2>2. ASSUME NEW i \in I, NEW j \in I, NEW k \in I, <<i, j>> \in LT, <<j, k>> \in LT
        PROVE  <<i, k>> \in LT
    BY <1>1, <2>2, LessTransitive
  <2>3. ASSUME NEW i \in I, NEW j \in I, NEW k \in I, <<i, j>> \notin LT, <<j, k>> \notin LT
        PROVE  <<i, k>> \notin LT
    BY <1>1, <2>3, LessWeak
  <2> QED
    BY <2>1, <2>2, <2>3 DEF WeakOrder
<1>3. \A i, j \in I : Earlier(i, j) <=> Precedes(LT, i, j)
  BY <1>1 DEF NameLess, Precedes
<1>4. ASSUME NEW i \in I
      PROVE  1 + Cardinality({j \in I : Earlier(j, i)}) = PlaceIn(I, LT, i)
  <2>1. {j \in I : Earlier(j, i)} = {j \in I : Precedes(LT, j, i)}
    BY <1>3
  <2> QED
    BY <2>1 DEF PlaceIn
<1>5. ASSUME NEW k \in 1 .. Cardinality(I)
      PROVE  (CHOOSE i \in I : 1 + Cardinality({j \in I : Earlier(j, i)}) = k) = C[k]
  <2>1. \A i \in I : 1 + Cardinality({j \in I : Earlier(j, i)}) = k
                       <=> PlaceIn(I, LT, i) = k
    BY <1>4
  <2>2. (CHOOSE i \in I : 1 + Cardinality({j \in I : Earlier(j, i)}) = k)
           = CHOOSE i \in I : PlaceIn(I, LT, i) = k
    BY <2>1
  <2> QED
    BY <2>2 DEF Arrangement
<1>6. SortedAt(s, I, NameLess) =
        [k \in 1 .. Cardinality(I) |->
          s[CHOOSE i \in I : 1 + Cardinality({j \in I : Earlier(j, i)}) = k]]
  BY DEF SortedAt
<1>7. SortedAt(s, I, NameLess) = [k \in 1 .. Cardinality(I) |-> s[C[k]]]
  BY <1>5, <1>6
<1> QED
  BY <1>2, <1>7, Arranged DEF LT

NumberPairs(s, I) == {p \in I \X I : s[p[1]].key < s[p[2]].key}

LEMMA SortedByNumber ==
  ASSUME NEW s, NEW I \in SUBSET Int, IsFiniteSet(I), \A i \in I : s[i].key \in Nat
  PROVE  LET LT == NumberPairs(s, I)
             C == Arrangement(I, LT)
         IN /\ SortedAt(s, I, InlineLess) = [k \in 1 .. Cardinality(I) |-> s[C[k]]]
            /\ Arranges(C, I, LT)
<1> DEFINE LT == NumberPairs(s, I)
           Earlier(i, j) == InlineLess(s[i], s[j]) \/ (i < j /\ ~InlineLess(s[j], s[i]))
           C == Arrangement(I, LT)
<1>1. \A i, j \in I : <<i, j>> \in LT <=> s[i].key < s[j].key
  BY DEF NumberPairs
<1> HIDE DEF LT
<1>2. WeakOrder(I, LT)
  <2>1. \A i \in I : <<i, i>> \notin LT
    BY <1>1
  <2>2. ASSUME NEW i \in I, NEW j \in I, NEW k \in I, <<i, j>> \in LT, <<j, k>> \in LT
        PROVE  <<i, k>> \in LT
    <3>1. PICK a \in Nat, b \in Nat, c \in Nat : a = s[i].key /\ b = s[j].key /\ c = s[k].key
      OBVIOUS
    <3>2. a < b /\ b < c => a < c
      OBVIOUS
    <3> QED
      BY <1>1, <2>2, <3>1, <3>2
  <2>3. ASSUME NEW i \in I, NEW j \in I, NEW k \in I, <<i, j>> \notin LT, <<j, k>> \notin LT
        PROVE  <<i, k>> \notin LT
    <3>1. PICK a \in Nat, b \in Nat, c \in Nat : a = s[i].key /\ b = s[j].key /\ c = s[k].key
      OBVIOUS
    <3>2. ~(a < b) /\ ~(b < c) => ~(a < c)
      OBVIOUS
    <3> QED
      BY <1>1, <2>3, <3>1, <3>2
  <2> QED
    BY <2>1, <2>2, <2>3 DEF WeakOrder
<1>3. \A i, j \in I : Earlier(i, j) <=> Precedes(LT, i, j)
  BY <1>1 DEF InlineLess, Precedes
<1>4. ASSUME NEW i \in I
      PROVE  1 + Cardinality({j \in I : Earlier(j, i)}) = PlaceIn(I, LT, i)
  <2>1. {j \in I : Earlier(j, i)} = {j \in I : Precedes(LT, j, i)}
    BY <1>3
  <2> QED
    BY <2>1 DEF PlaceIn
<1>5. ASSUME NEW k \in 1 .. Cardinality(I)
      PROVE  (CHOOSE i \in I : 1 + Cardinality({j \in I : Earlier(j, i)}) = k) = C[k]
  <2>1. \A i \in I : 1 + Cardinality({j \in I : Earlier(j, i)}) = k
                       <=> PlaceIn(I, LT, i) = k
    BY <1>4
  <2>2. (CHOOSE i \in I : 1 + Cardinality({j \in I : Earlier(j, i)}) = k)
           = CHOOSE i \in I : PlaceIn(I, LT, i) = k
    BY <2>1
  <2> QED
    BY <2>2 DEF Arrangement
<1>6. SortedAt(s, I, InlineLess) =
        [k \in 1 .. Cardinality(I) |->
          s[CHOOSE i \in I : 1 + Cardinality({j \in I : Earlier(j, i)}) = k]]
  BY DEF SortedAt
<1>7. SortedAt(s, I, InlineLess) = [k \in 1 .. Cardinality(I) |-> s[C[k]]]
  BY <1>5, <1>6
<1> QED
  BY <1>2, <1>7, Arranged DEF LT

LEMMA Filtered ==
  ASSUME NEW s, NEW I \in SUBSET Int, IsFiniteSet(I)
  PROVE  LET C == Arrangement(I, {})
         IN /\ SortedAt(s, I, Unordered) = [k \in 1 .. Cardinality(I) |-> s[C[k]]]
            /\ Arranges(C, I, {})
<1> DEFINE Earlier(i, j) == Unordered(s[i], s[j]) \/ (i < j /\ ~Unordered(s[j], s[i]))
           C == Arrangement(I, {})
<1>1. WeakOrder(I, {})
  BY DEF WeakOrder
<1>2. \A i, j \in I : Earlier(i, j) <=> Precedes({}, i, j)
  BY DEF Unordered, Precedes
<1>3. ASSUME NEW i \in I
      PROVE  1 + Cardinality({j \in I : Earlier(j, i)}) = PlaceIn(I, {}, i)
  <2>1. {j \in I : Earlier(j, i)} = {j \in I : Precedes({}, j, i)}
    BY <1>2
  <2> QED
    BY <2>1 DEF PlaceIn
<1>4. ASSUME NEW k \in 1 .. Cardinality(I)
      PROVE  (CHOOSE i \in I : 1 + Cardinality({j \in I : Earlier(j, i)}) = k) = C[k]
  <2>1. \A i \in I : 1 + Cardinality({j \in I : Earlier(j, i)}) = k
                       <=> PlaceIn(I, {}, i) = k
    BY <1>3
  <2>2. (CHOOSE i \in I : 1 + Cardinality({j \in I : Earlier(j, i)}) = k)
           = CHOOSE i \in I : PlaceIn(I, {}, i) = k
    BY <2>1
  <2> QED
    BY <2>2 DEF Arrangement
<1>5. SortedAt(s, I, Unordered) =
        [k \in 1 .. Cardinality(I) |->
          s[CHOOSE i \in I : 1 + Cardinality({j \in I : Earlier(j, i)}) = k]]
  BY DEF SortedAt
<1>6. SortedAt(s, I, Unordered) = [k \in 1 .. Cardinality(I) |-> s[C[k]]]
  BY <1>4, <1>5
<1> QED
  BY <1>1, <1>6, Arranged

----------------------------------------------------------------------------
(* Assets.  A list of renditions has an asset for each of its names.       *)

(* q lists the elements of s at the indices I, each index once.            *)
Lists(q, s, I) ==
  /\ IsSeq(q) /\ Len(q) \in Nat /\ DOMAIN q = 1 .. Len(q)
  /\ \A k \in 1 .. Len(q) : \E i \in I : q[k] = s[i]
  /\ \A i \in I : \E k \in 1 .. Len(q) : q[k] = s[i]
  /\ \A k, l \in 1 .. Len(q) : k # l => \E i, j \in I : i # j /\ q[k] = s[i] /\ q[l] = s[j]

LEMMA ArrangedSeq ==
  ASSUME NEW s, NEW I, IsFiniteSet(I), NEW LT, NEW C, Arranges(C, I, LT)
  PROVE  Lists([k \in 1 .. Cardinality(I) |-> s[C[k]]], s, I)
<1> DEFINE n == Cardinality(I)
           S == {s[i] : i \in I}
           q == [k \in 1 .. n |-> s[C[k]]]
<1>1. n \in Nat
  BY FS_CardinalityType
<1>2. C \in [1 .. n -> I] /\ \A i \in I : \E k \in 1 .. n : C[k] = i
  BY DEF Arranges
<1>3. q \in [1 .. n -> S]
  BY <1>2
<1>4. \A k \in 1 .. n : q[k] = s[C[k]]
  OBVIOUS
<1> HIDE DEF n, S, q
<1>5. IsSeq(q) /\ Len(q) = n /\ DOMAIN q = 1 .. n
  BY <1>1, <1>3, FunctionSeq
<1>6. ASSUME NEW k \in 1 .. n, NEW l \in 1 .. n, k # l
      PROVE  \E i, j \in I : i # j /\ q[k] = s[i] /\ q[l] = s[j]
  <2>1. k < l \/ l < k
    BY <1>1, <1>6
  <2>2. C[k] # C[l]
    BY <2>1 DEF Arranges, n
  <2> QED
    BY <1>2, <1>4, <2>2
<1>7. Lists(q, s, I)
  BY <1>1, <1>2, <1>4, <1>5, <1>6 DEF Lists
<1> QED
  BY <1>7 DEF q, n

(* A list of renditions.                                                   *)
IsList(rs) ==
  /\ IsSeq(rs) /\ Len(rs) \in Nat /\ DOMAIN rs = 1 .. Len(rs)
  /\ \A i \in 1 .. Len(rs) : IsRendition(rs[i])

LEMMA InputsAreLists ==
  ASSUME NEW rs \in Inputs
  PROVE  IsList(rs)
<1>1. /\ rs \in Seq({rs[i] : i \in DOMAIN rs})
      /\ \A i \in DOMAIN rs : IsRendition(rs[i])
  BY InputAssumption
<1>2. IsSeq(rs) /\ Len(rs) \in Nat /\ DOMAIN rs = 1 .. Len(rs)
  BY <1>1, SomeSeq
<1> QED
  BY <1>1, <1>2 DEF IsList

LEMMA RenditionStrings ==
  ASSUME NEW r, IsRendition(r)
  PROVE  r.name.utf8 \in Str /\ r.name.nfc \in Str /\ r.name.hash \in Nat
BY SMT DEF IsRendition, Str

(* The asset of which rendition i is the first.                            *)
AssetOf(rs, i) ==
  [name |-> rs[i].name, kind |-> FacetKind(rs[i]),
   renditions |->
     {rs[j] : j \in {j \in DOMAIN rs : SameName(rs[j].name, rs[i].name)}}]

Firsts(rs) ==
  {i \in DOMAIN rs : \A j \in 1 .. i - 1 : ~SameName(rs[i].name, rs[j].name)}

LEMMA FirstOfAName ==
  ASSUME NEW rs, IsList(rs), NEW i \in 1 .. Len(rs)
  PROVE  \E f \in Firsts(rs) : SameName(rs[f].name, rs[i].name)
<1> DEFINE T == {j \in 1 .. Len(rs) : SameName(rs[j].name, rs[i].name)}
<1>1. DOMAIN rs = 1 .. Len(rs) /\ Len(rs) \in Nat
  BY DEF IsList
<1>2. T \in SUBSET Nat /\ i \in T
  BY <1>1 DEF SameName
<1> HIDE DEF T
<1>3. PICK f \in T : \A j \in T : f <= j
  BY <1>2, LeastElement
<1>4. f \in 1 .. Len(rs) /\ SameName(rs[f].name, rs[i].name)
  BY DEF T
<1>5. ASSUME NEW j \in 1 .. f - 1 PROVE ~SameName(rs[f].name, rs[j].name)
  <2>1. j \in 1 .. Len(rs) /\ ~(f <= j)
    BY <1>1, <1>4
  <2>2. j \notin T
    BY <1>3, <2>1
  <2> QED
    BY <1>4, <2>1, <2>2 DEF T, SameName
<1> QED
  BY <1>1, <1>4, <1>5 DEF Firsts

(* No two assets of a list have one name.                                  *)
OnePerName(A) ==
  \A k, l \in 1 .. Len(A) : k # l => ~SameName(A[k].name, A[l].name)

LEMMA FirstsDiffer ==
  ASSUME NEW rs, IsList(rs), NEW i \in Firsts(rs), NEW j \in Firsts(rs), i # j
  PROVE  ~SameName(rs[i].name, rs[j].name)
<1>1. Len(rs) \in Nat /\ i \in 1 .. Len(rs) /\ j \in 1 .. Len(rs)
  BY DEF IsList, Firsts
<1>2. CASE i < j
  <2>1. i \in 1 .. j - 1
    BY <1>1, <1>2
  <2> QED
    BY <2>1 DEF Firsts, SameName
<1>3. CASE j < i
  <2>1. j \in 1 .. i - 1
    BY <1>1, <1>3
  <2> QED
    BY <2>1 DEF Firsts, SameName
<1> QED
  BY <1>1, <1>2, <1>3

LEMMA AssetsAre ==
  ASSUME NEW rs, IsList(rs)
  PROVE  LET A == Assets(rs) IN
         /\ IsSeq(A) /\ Len(A) \in Nat /\ DOMAIN A = 1 .. Len(A)
         /\ \A k \in 1 .. Len(A) : \E i \in 1 .. Len(rs) : A[k] = AssetOf(rs, i)
         /\ \A i \in 1 .. Len(rs) : \E k \in 1 .. Len(A), f \in 1 .. Len(rs) :
              SameName(rs[f].name, rs[i].name) /\ A[k] = AssetOf(rs, f)
         /\ OnePerName(A)
<1> DEFINE I == Firsts(rs)
           asset == [i \in DOMAIN rs |-> AssetOf(rs, i)]
           LT == NamePairs(asset, I)
           C == Arrangement(I, LT)
           A == Assets(rs)
<1>1. Len(rs) \in Nat /\ DOMAIN rs = 1 .. Len(rs)
  BY DEF IsList
<1>2. A = SortedAt(asset, I, NameLess)
  BY DEF Assets, AssetOf, Firsts
<1>3. I \in SUBSET (1 .. Len(rs)) /\ I \in SUBSET Int /\ IsFiniteSet(I)
  <2>1. I \in SUBSET (1 .. Len(rs))
    BY <1>1 DEF Firsts
  <2>2. IsFiniteSet(1 .. Len(rs))
    BY <1>1, FS_Interval
  <2> HIDE DEF I
  <2>3. IsFiniteSet(I)
    BY <2>1, <2>2, FS_Subset
  <2> QED
    BY <2>1, <2>3
<1> HIDE DEF I, A
<1>4. \A i \in 1 .. Len(rs) : asset[i] = AssetOf(rs, i)
  BY <1>1
<1>5. \A i \in I : asset[i].name.nfc \in Str
  <2>1. SUFFICES ASSUME NEW i \in I PROVE asset[i].name.nfc \in Str
    OBVIOUS
  <2>2. asset[i].name = rs[i].name
    BY <1>1, <1>3 DEF AssetOf
  <2>3. IsRendition(rs[i])
    BY <1>3 DEF IsList
  <2> QED
    BY <2>2, <2>3, RenditionStrings
<1> HIDE DEF asset
<1>6. A = [k \in 1 .. Cardinality(I) |-> asset[C[k]]] /\ Arranges(C, I, LT)
  BY <1>2, <1>3, <1>5, SortedByName
<1> HIDE DEF C, LT
<1>a. Lists(A, asset, I)
  <2>1. Lists([k \in 1 .. Cardinality(I) |-> asset[C[k]]], asset, I)
    BY <1>3, <1>6, ArrangedSeq
  <2> QED
    BY <1>6, <2>1
<1>7. /\ IsSeq(A) /\ Len(A) \in Nat /\ DOMAIN A = 1 .. Len(A)
      /\ \A k \in 1 .. Len(A) : \E i \in I : A[k] = asset[i]
      /\ \A i \in I : \E k \in 1 .. Len(A) : A[k] = asset[i]
  BY <1>a DEF Lists
<1>8. ASSUME NEW i \in 1 .. Len(rs)
      PROVE  \E k \in 1 .. Len(A), f \in 1 .. Len(rs) :
               SameName(rs[f].name, rs[i].name) /\ A[k] = AssetOf(rs, f)
  <2>1. PICK f \in I : SameName(rs[f].name, rs[i].name)
    BY FirstOfAName DEF I
  <2> QED
    BY SMTT(30), <1>3, <1>4, <1>7, <2>1
<1>9. \A k \in 1 .. Len(A) : \E i \in 1 .. Len(rs) : A[k] = AssetOf(rs, i)
  BY ZenonT(60), <1>3, <1>4, <1>7
<1>10. ASSUME NEW k \in 1 .. Len(A), NEW l \in 1 .. Len(A), k # l
       PROVE  ~SameName(A[k].name, A[l].name)
  <2>1. PICK i \in I, j \in I : i # j /\ A[k] = asset[i] /\ A[l] = asset[j]
    BY <1>a, <1>10 DEF Lists
  <2>2. asset[i] = AssetOf(rs, i) /\ asset[j] = AssetOf(rs, j)
    BY <1>3, <1>4
  <2>3. ~SameName(rs[i].name, rs[j].name)
    BY <2>1, FirstsDiffer DEF I
  <2> QED
    BY <2>1, <2>2, <2>3 DEF AssetOf
<1> QED
  BY <1>7, <1>8, <1>9, <1>10 DEF A, OnePerName

(* The assets that have a descriptor.                                      *)
LEMMA BitmapAssetsAre ==
  ASSUME NEW A, IsSeq(A), Len(A) \in Nat, DOMAIN A = 1 .. Len(A)
  PROVE  LET B == BitmapAssets(A)
             Bitmap(k) == Has(A[k].renditions, Bodies \ {"color"})
         IN /\ IsSeq(B) /\ Len(B) \in Nat /\ DOMAIN B = 1 .. Len(B)
            /\ \A k \in 1 .. Len(B) : \E l \in 1 .. Len(A) : Bitmap(l) /\ B[k] = A[l]
            /\ \A l \in 1 .. Len(A) : Bitmap(l) => \E k \in 1 .. Len(B) : B[k] = A[l]
            /\ B = <<>> <=> \A l \in 1 .. Len(A) : ~Bitmap(l)
            /\ OnePerName(A) => OnePerName(B)
<1> DEFINE I == {i \in DOMAIN A : Has(A[i].renditions, Bodies \ {"color"})}
           C == Arrangement(I, {})
           B == BitmapAssets(A)
<1>1. I \in SUBSET (1 .. Len(A)) /\ I \in SUBSET Int /\ IsFiniteSet(I)
  <2>1. I \in SUBSET (1 .. Len(A))
    OBVIOUS
  <2>2. IsFiniteSet(1 .. Len(A))
    BY FS_Interval
  <2> HIDE DEF I
  <2>3. IsFiniteSet(I)
    BY <2>1, <2>2, FS_Subset
  <2> QED
    BY <2>1, <2>3
<1>2. B = SortedAt(A, I, Unordered)
  BY DEF BitmapAssets
<1>3. \A l \in 1 .. Len(A) : l \in I <=> Has(A[l].renditions, Bodies \ {"color"})
  OBVIOUS
<1> HIDE DEF I, B
<1>4. B = [k \in 1 .. Cardinality(I) |-> A[C[k]]] /\ Arranges(C, I, {})
  BY <1>1, <1>2, Filtered
<1> HIDE DEF C
<1>a. Lists(B, A, I)
  <2>1. Lists([k \in 1 .. Cardinality(I) |-> A[C[k]]], A, I)
    BY <1>1, <1>4, ArrangedSeq
  <2> QED
    BY <1>4, <2>1
<1>5. /\ IsSeq(B) /\ Len(B) \in Nat /\ DOMAIN B = 1 .. Len(B)
      /\ \A k \in 1 .. Len(B) : \E i \in I : B[k] = A[i]
      /\ \A i \in I : \E k \in 1 .. Len(B) : B[k] = A[i]
  BY <1>a DEF Lists
<1>6. B = <<>> <=> I = {}
  <2>1. ASSUME B = <<>> PROVE I = {}
    <3>1. Len(B) = 0
      BY <2>1
    <3> QED
      BY <1>5, <3>1
  <2>2. ASSUME I = {} PROVE B = <<>>
    <3>1. ~(1 \in 1 .. Len(B))
      BY <1>5, <2>2
    <3>2. Len(B) = 0
      BY <1>5, <3>1
    <3>3. B \in Seq({B[i] : i \in 1 .. Len(B)})
      BY <1>5 DEF IsSeq
    <3> QED
      BY <3>2, <3>3, EmptySeq
  <2> QED
    BY <2>1, <2>2
<1>7. OnePerName(A) => OnePerName(B)
  <2>1. ASSUME OnePerName(A), NEW k \in 1 .. Len(B), NEW l \in 1 .. Len(B), k # l
        PROVE  ~SameName(B[k].name, B[l].name)
    <3>1. PICK i \in I, j \in I : i # j /\ B[k] = A[i] /\ B[l] = A[j]
      BY <1>a, <2>1 DEF Lists
    <3> QED
      BY <1>1, <2>1, <3>1 DEF OnePerName
  <2> QED
    BY <2>1 DEF OnePerName
<1> QED
  BY <1>1, <1>3, <1>5, <1>6, <1>7 DEF B

----------------------------------------------------------------------------
(* What the trees are made from are entries with keys of their order.      *)

LEMMA RenditionKeys ==
  ASSUME NEW rs, IsList(rs)
  PROVE  LET e == RenditionEntries(rs) IN
         /\ Entries(e) /\ Len(e) = Len(rs)
         /\ \A i \in 1 .. Len(rs) :
              e[i].key = Encode(RenditionKey(rs[i])) /\ e[i].value = CSI(rs[i])
<1> DEFINE n == Len(rs)
           e == RenditionEntries(rs)
           Key(i) == Encode(RenditionKey(rs[i]))
           S == {[key |-> Key(i), value |-> CSI(rs[i])] : i \in 1 .. n}
<1>1. n \in Nat /\ DOMAIN rs = 1 .. n /\ \A i \in 1 .. n : IsRendition(rs[i])
  BY DEF IsList
<1>2. ASSUME NEW i \in 1 .. n PROVE Key(i) \in Str
  BY <1>1, KeyTokens, PackedTokens
<1> HIDE DEF Key, n
<1>3. e = [i \in 1 .. n |-> [key |-> Key(i), value |-> CSI(rs[i])]]
  BY <1>1 DEF RenditionEntries, Key
<1>4. e \in [1 .. n -> S] /\ \A i \in 1 .. n : e[i].key = Key(i) /\ e[i].value = CSI(rs[i])
  BY <1>3
<1> HIDE DEF e, S
<1>5. IsSeq(e) /\ Len(e) = n /\ DOMAIN e = 1 .. n
  BY <1>1, <1>4, FunctionSeq
<1>6. \A i \in 1 .. n : e[i].key \in Str
  BY <1>2, <1>4
<1>7. Entries(e)
  BY <1>1, <1>5, <1>6 DEF Entries
<1> QED
  BY <1>4, <1>5, <1>7 DEF e, n, Key

(* The facets of a list of assets, keyed by the bytes of the names.        *)
LEMMA FacetKeys ==
  ASSUME NEW A, Len(A) \in Nat, DOMAIN A = 1 .. Len(A),
         \A k \in 1 .. Len(A) : A[k].name.utf8 \in Str
  PROVE  LET e == FacetEntries(A) IN
         /\ Entries(e) /\ Len(e) = Len(A)
         /\ \A i \in 1 .. Len(A) : e[i].key = A[i].name.utf8 /\ e[i].value = FacetValue(A[i])
<1> DEFINE n == Len(A)
           e == FacetEntries(A)
           S == {[key |-> A[i].name.utf8, value |-> FacetValue(A[i])] : i \in 1 .. n}
<1>1. e = [i \in 1 .. n |-> [key |-> A[i].name.utf8, value |-> FacetValue(A[i])]]
  BY DEF FacetEntries
<1>2. /\ e \in [1 .. n -> S]
      /\ \A i \in 1 .. n : e[i].key = A[i].name.utf8 /\ e[i].value = FacetValue(A[i])
  BY <1>1
<1> HIDE DEF e, S
<1>3. IsSeq(e) /\ Len(e) = n /\ DOMAIN e = 1 .. n
  BY <1>2, FunctionSeq
<1>4. Entries(e)
  BY <1>2, <1>3 DEF Entries
<1> QED
  BY <1>2, <1>3, <1>4 DEF e

LEMMA AppearanceKeys ==
  ASSUME NEW used
  PROVE  LET e == AppearanceEntries(used)
             any == [key |-> AnyName, value |-> DataBlock(AnyAppearance, 2)]
             dark == [key |-> DarkName, value |-> DataBlock(DarkAppearance, 2)]
         IN /\ Entries(e) /\ Len(e) \in {1, 2} /\ e[1] = any
            /\ DarkAppearance \in used => Len(e) = 2 /\ e[2] = dark
<1> DEFINE any == [key |-> AnyName, value |-> DataBlock(AnyAppearance, 2)]
           dark == [key |-> DarkName, value |-> DataBlock(DarkAppearance, 2)]
           e == AppearanceEntries(used)
<1>1. any.key \in Str /\ dark.key \in Str
  BY DEF AnyName, DarkName, Str
<1>2. e = <<any>> \o (IF DarkAppearance \in used THEN <<dark>> ELSE <<>>)
  BY DEF AppearanceEntries
<1> HIDE DEF any, dark, e
<1>3. CASE DarkAppearance \in used
  <2> DEFINE p == <<any>>
             q == <<dark>>
  <2>1. e = p \o q
    BY <1>2, <1>3
  <2>2. /\ p \in Seq({any}) /\ Len(p) = 1 /\ p[1] = any
        /\ q \in Seq({dark}) /\ Len(q) = 1 /\ q[1] = dark
    OBVIOUS
  <2> HIDE DEF p, q
  <2>3. IsSeq(p) /\ IsSeq(q)
    BY <2>2, SomeSeq
  <2>4. /\ IsSeq(e) /\ Len(e) = Len(p) + Len(q)
        /\ \A i \in 1 .. Len(p) : e[i] = p[i]
        /\ \A i \in 1 .. Len(q) : e[Len(p) + i] = q[i]
    BY <2>1, <2>3, ConcatSeq
  <2>5. Len(e) = 2 /\ e[1] = any /\ e[2] = dark
    BY <2>2, <2>4
  <2>6. DOMAIN e = 1 .. 2
    BY <2>4, <2>5, SomeSeq DEF IsSeq
  <2>7. Entries(e)
    <3>1. \A i \in 1 .. 2 : i = 1 \/ i = 2
      OBVIOUS
    <3>2. \A i \in 1 .. 2 : e[i].key \in Str
      BY <1>1, <2>5, <3>1
    <3>3. Len(e) \in Nat
      BY <2>5
    <3> QED
      BY <2>4, <2>5, <2>6, <3>2, <3>3 DEF Entries
  <2> QED
    BY <2>5, <2>7 DEF any, dark, e
<1>4. CASE DarkAppearance \notin used
  <2>1. e = <<any>>
    BY <1>2, <1>4
  <2>2. e \in Seq({any}) /\ Len(e) = 1 /\ e[1] = any
    BY <2>1
  <2>3. IsSeq(e) /\ DOMAIN e = 1 .. 1
    BY <2>2, SomeSeq
  <2>4. Entries(e)
    BY <1>1, <2>2, <2>3 DEF Entries
  <2> QED
    BY <1>4, <2>2, <2>4 DEF any, dark, e
<1> QED
  BY <1>3, <1>4

(* Entries of keys that are numbers.                                       *)
InlineEntries(e) ==
  /\ IsSeq(e) /\ Len(e) \in Nat /\ DOMAIN e = 1 .. Len(e)
  /\ \A i \in 1 .. Len(e) : e[i].key \in Nat

LEMMA DescriptorKeys ==
  ASSUME NEW A, Len(A) \in Nat, DOMAIN A = 1 .. Len(A),
         \A k \in 1 .. Len(A) : A[k].name.hash \in Nat
  PROVE  LET e == BitmapEntries(A) IN
         /\ InlineEntries(e) /\ Len(e) = Len(A)
         /\ \A i \in 1 .. Len(A) :
              /\ e[i].key = A[i].name.hash
              /\ e[i].value = DataBlock(Descriptor(A[i].renditions), 52)
<1> DEFINE n == Len(A)
           e == BitmapEntries(A)
           Value(i) == DataBlock(Descriptor(A[i].renditions), 52)
           S == {[key |-> A[i].name.hash, value |-> Value(i)] : i \in 1 .. n}
<1> HIDE DEF Value
<1>1. e = [i \in 1 .. n |-> [key |-> A[i].name.hash, value |-> Value(i)]]
  BY DEF BitmapEntries, Value
<1>2. /\ e \in [1 .. n -> S]
      /\ \A i \in 1 .. n : e[i].key = A[i].name.hash /\ e[i].value = Value(i)
  BY <1>1
<1> HIDE DEF e, S
<1>3. IsSeq(e) /\ Len(e) = n /\ DOMAIN e = 1 .. n
  BY <1>2, FunctionSeq
<1>4. InlineEntries(e)
  BY <1>2, <1>3 DEF InlineEntries
<1> QED
  BY <1>2, <1>3, <1>4 DEF e, Value

----------------------------------------------------------------------------
(* The same of the tree whose keys are numbers in the leaf.                *)

InlineRanking(e) == Arrangement(DOMAIN e, NumberPairs(e, DOMAIN e))

InlineLeads(bs, id, e) ==
  LET leafID == bs[id + 1].child
      p == bs[leafID + 1].pointers
      C == InlineRanking(e)
  IN /\ id + 1 \in 1 .. Len(bs) /\ leafID + 1 \in 1 .. Len(bs)
     /\ DOMAIN p = 1 .. Len(e) /\ Len(p) = Len(e)
     /\ \A k \in 1 .. Len(e) :
          /\ p[k].value + 1 \in 1 .. Len(bs)
          /\ bs[p[k].value + 1] = e[C[k]].value
          /\ p[k].key = e[C[k]].key

(* The n blocks of values, the leaf, the header.                           *)
InlineLaid(bs, id, n) ==
  LET leafID == bs[id + 1].child
      p == bs[leafID + 1].pointers
  IN /\ leafID = id - 1 /\ Len(p) = n /\ DOMAIN p = 1 .. n
     /\ \A k \in 1 .. n : p[k].value = id - n + k - 2

InlineHolds(bs, id, e) ==
  InlineLeads(bs, id, e) /\ InlineLaid(bs, id, Len(e)) /\ LeafWhole(bs, id, Len(e))

LEMMA SortedInlineEntries ==
  ASSUME NEW e, InlineEntries(e)
  PROVE  LET C == InlineRanking(e) IN
         /\ Sorted(e, InlineLess) = [k \in 1 .. Len(e) |-> e[C[k]]]
         /\ Len(Sorted(e, InlineLess)) = Len(e)
         /\ C \in [1 .. Len(e) -> 1 .. Len(e)]
         /\ \A i \in 1 .. Len(e) : \E k \in 1 .. Len(e) : C[k] = i
         /\ \A k, l \in 1 .. Len(e) : k < l => ~(e[C[l]].key < e[C[k]].key)
<1> DEFINE n == Len(e)
           I == 1 .. n
           LT == NumberPairs(e, I)
           C == Arrangement(I, LT)
<1>1. n \in Nat /\ DOMAIN e = I /\ I \in SUBSET Int /\ \A i \in I : e[i].key \in Nat
  BY DEF InlineEntries
<1>2. IsFiniteSet(I) /\ Cardinality(I) = n
  <2>1. PICK m \in Nat : m = n
    BY <1>1
  <2>2. IsFiniteSet(1 .. m) /\ Cardinality(1 .. m) = m
    BY FS_Interval
  <2> QED
    BY <2>1, <2>2
<1> HIDE DEF I
<1>3. /\ SortedAt(e, I, InlineLess) = [k \in 1 .. Cardinality(I) |-> e[C[k]]]
      /\ Arranges(C, I, LT)
  BY ZenonT(60), <1>1, <1>2, SortedByNumber
<1>4. InlineRanking(e) = C
  BY <1>1 DEF InlineRanking
<1> HIDE DEF C, LT
<1>5. Sorted(e, InlineLess) = [k \in 1 .. n |-> e[C[k]]]
  <2>1. Sorted(e, InlineLess) = SortedAt(e, I, InlineLess)
    BY <1>1 DEF Sorted
  <2> QED
    BY <1>2, <1>3, <2>1
<1>6. /\ C \in [1 .. n -> I] /\ \A i \in I : \E k \in 1 .. n : C[k] = i
      /\ \A k, l \in 1 .. n : k < l => C[k] # C[l] /\ Precedes(LT, C[k], C[l])
  BY <1>2, <1>3 DEF Arranges
<1>7. ASSUME NEW k \in 1 .. n, NEW l \in 1 .. n, k < l
      PROVE  ~(e[C[l]].key < e[C[k]].key)
  <2>1. PICK i \in I, j \in I : i = C[k] /\ j = C[l] /\ Precedes(LT, i, j)
    BY <1>6, <1>7
  <2>2. <<i, j>> \in LT \/ <<j, i>> \notin LT
    BY <2>1 DEF Precedes
  <2>3. e[i].key < e[j].key \/ ~(e[j].key < e[i].key)
    BY <2>2 DEF LT, NumberPairs
  <2>4. PICK a \in Nat, b \in Nat : a = e[i].key /\ b = e[j].key
    BY <1>1
  <2>5. ~(b < a)
    BY <2>3, <2>4
  <2> QED
    BY <2>1, <2>4, <2>5
<1>8. Len(Sorted(e, InlineLess)) = n
  <2> DEFINE f == [k \in 1 .. n |-> e[C[k]]]
             S == {e[C[k]] : k \in 1 .. n}
  <2>1. f \in [1 .. n -> S]
    OBVIOUS
  <2> HIDE DEF f, S
  <2>2. Len(f) = n
    BY <1>1, <2>1, FunctionSeq
  <2> QED
    BY <1>5, <2>2 DEF f
<1> QED
  BY <1>4, <1>5, <1>6, <1>7, <1>8 DEF I

LEMMA InsertInlineHolds ==
  ASSUME NEW bs, IsSeq(bs), NEW e, InlineEntries(e)
  PROVE  LET more == InsertInlineKey(bs, e) IN
         /\ Extends(more, bs)
         /\ LastID(more) + 1 = Len(more)
         /\ InlineHolds(more, LastID(more), e)
         /\ Len(more) = Len(bs) + Len(e) + 2
         /\ Sized(bs) /\ (\A i \in 1 .. Len(e) : e[i].value.size \in Nat) => Sized(more)
<1> DEFINE m == Len(bs)
           n == Len(e)
           C == InlineRanking(e)
           sorted == Sorted(e, InlineLess)
           values == [i \in 1 .. n |-> sorted[i].value]
           pointers == [i \in 1 .. n |-> [value |-> m + i - 1, key |-> sorted[i].key]]
           leaf == LeafBlock(pointers, InlineBlockSize)
           tree == TreeBlock(m + n, InlineBlockSize, n, TRUE)
           more == InsertInlineKey(bs, e)
<1>1. n \in Nat /\ m \in Nat
  BY LenProperties DEF InlineEntries, IsSeq
<1>2. /\ sorted = [k \in 1 .. n |-> e[C[k]]] /\ Len(sorted) = n
      /\ C \in [1 .. n -> 1 .. n]
  BY SortedInlineEntries
<1>3. more = bs \o values \o <<leaf, tree>>
  BY <1>2 DEF InsertInlineKey
<1>4. \A k \in 1 .. n : sorted[k] = e[C[k]]
  BY <1>2
<1> HIDE DEF sorted, C
<1>5. \A k \in 1 .. n : values[k] = e[C[k]].value
  BY <1>4
<1>6. IsSeq(values) /\ Len(values) = n
  <2> DEFINE S == {values[i] : i \in 1 .. n}
  <2>1. values \in [1 .. n -> S]
    OBVIOUS
  <2> HIDE DEF S, values
  <2> QED
    BY <1>1, <2>1, FunctionSeq
<1>7. Len(pointers) = n /\ DOMAIN pointers = 1 .. n
  <2> DEFINE S == {pointers[i] : i \in 1 .. n}
  <2>1. pointers \in [1 .. n -> S]
    OBVIOUS
  <2> HIDE DEF S, pointers
  <2> QED
    BY <1>1, <2>1, FunctionSeq
<1>8. leaf.pointers = pointers /\ tree.child = m + n
  BY DEF LeafBlock, TreeBlock
<1>a. /\ tree.pathCount = n /\ tree.blockSize = InlineBlockSize /\ InlineBlockSize \in Nat
      /\ leaf.size \in Nat /\ leaf.size >= InlineBlockSize
      /\ leaf.size >= LeafHeaderSize + LeafEntrySize * n
  <2>1. tree.pathCount = n /\ tree.blockSize = InlineBlockSize /\ InlineBlockSize \in Nat
    BY TreeAssumption DEF TreeBlock
  <2> HIDE DEF pointers, tree, n
  <2> QED
    BY <1>1, <1>7, <2>1, LeavesGrow
<1>9. \A k \in 1 .. n : pointers[k].value = m + k - 1 /\ pointers[k].key = e[C[k]].key
  BY <1>4
<1> HIDE DEF values, pointers, leaf, tree
<1> DEFINE two == <<leaf, tree>>
<1>10. IsSeq(two) /\ Len(two) = 2 /\ two[1] = leaf /\ two[2] = tree
  <2>1. two \in Seq({leaf, tree}) /\ Len(two) = 2 /\ two[1] = leaf /\ two[2] = tree
    OBVIOUS
  <2> QED
    BY <2>1, SomeSeq
<1>11. /\ Extends(more, bs) /\ Len(more) = m + n + 2
       /\ \A i \in 1 .. n : more[m + i] = values[i]
       /\ more[m + n + 1] = leaf /\ more[m + n + 2] = tree
  <2> DEFINE joined == bs \o values \o two
  <2>1. more = joined
    BY <1>3
  <2> HIDE DEF two, more
  <2>2. IsSeq(bs) /\ IsSeq(values) /\ IsSeq(two)
    BY <1>6, <1>10
  <2>3. /\ Extends(joined, bs) /\ Len(joined) = Len(bs) + Len(values) + Len(two)
        /\ \A i \in 1 .. Len(values) : joined[Len(bs) + i] = values[i]
        /\ \A i \in 1 .. Len(two) : joined[Len(bs) + Len(values) + i] = two[i]
    BY <2>2, ThreeInARow
  <2> HIDE DEF joined
  <2>4. 1 \in 1 .. Len(two) /\ 2 \in 1 .. Len(two)
    BY <1>10
  <2> QED
    BY <1>6, <1>10, <2>1, <2>3, <2>4
<1> HIDE DEF m, n, more, two
<1>12. LastID(more) = m + n + 1
  BY <1>1, <1>11 DEF LastID
<1>13. LastID(more) + 1 = Len(more) /\ more[LastID(more) + 1] = tree
  <2>1. LastID(more) + 1 = m + n + 2
    BY <1>1, <1>12
  <2> QED
    BY <1>11, <2>1
<1>14. /\ more[LastID(more) + 1].child = m + n
       /\ more[(m + n) + 1].pointers = pointers
  BY <1>8, <1>11, <1>13
<1>15. LastID(more) + 1 \in 1 .. Len(more) /\ (m + n) + 1 \in 1 .. Len(more)
  BY <1>1, <1>11, <1>12
<1>16. ASSUME NEW k \in 1 .. n
       PROVE  /\ pointers[k].value + 1 \in 1 .. Len(more)
              /\ more[pointers[k].value + 1] = e[C[k]].value
              /\ pointers[k].key = e[C[k]].key
  <2>1. pointers[k].value + 1 = m + k /\ m + k \in 1 .. m + n + 2
    BY <1>1, <1>9
  <2>2. more[m + k] = values[k]
    BY <1>11
  <2> QED
    BY <1>5, <1>9, <1>11, <2>1, <2>2
<1>17. InlineLeads(more, LastID(more), e)
  <2>1. DOMAIN pointers = 1 .. Len(e) /\ Len(pointers) = Len(e)
    BY <1>7 DEF n
  <2>2. \A k \in 1 .. Len(e) :
          /\ pointers[k].value + 1 \in 1 .. Len(more)
          /\ more[pointers[k].value + 1] = e[C[k]].value
          /\ pointers[k].key = e[C[k]].key
    BY <1>16 DEF n
  <2> QED
    BY <1>14, <1>15, <2>1, <2>2 DEF InlineLeads, C
<1>b. LeafWhole(more, LastID(more), n)
  <2>1. more[LastID(more) + 1] = tree /\ more[tree.child + 1] = leaf
    BY <1>8, <1>11, <1>13
  <2> QED
    BY <1>a, <2>1 DEF LeafWhole
<1>18. InlineLaid(more, LastID(more), n)
  <2>1. m + n = LastID(more) - 1
    BY <1>1, <1>12
  <2>2. \A k \in 1 .. n : pointers[k].value = LastID(more) - n + k - 2
    BY <1>1, <1>9, <1>12
  <2> QED
    BY <1>7, <1>14, <2>1, <2>2 DEF InlineLaid
<1>19. ASSUME Sized(bs), \A i \in 1 .. n : e[i].value.size \in Nat
       PROVE  Sized(more)
  <2>1. leaf.size \in Nat /\ tree.size \in Nat
    BY <1>1, <1>7, TreeAssumption
       DEF leaf, tree, LeafBlock, TreeBlock, LeafHeaderSize, LeafEntrySize, TreeHeaderSize
  <2>2. ASSUME NEW k \in 1 .. n PROVE values[k].size \in Nat
    <3>1. C[k] \in 1 .. n
      BY <1>2
    <3> QED
      BY <1>5, <1>19, <3>1
  <2>3. ASSUME NEW i \in 1 .. Len(more) PROVE more[i].size \in Nat
    <3>1. \/ i \in 1 .. m
          \/ i = m + (i - m) /\ i - m \in 1 .. n
          \/ i = m + n + 1
          \/ i = m + n + 2
      <4>1. i \in 1 .. m + n + 2
        BY <1>11
      <4> QED
        BY <1>1, <4>1
    <3>2. CASE i \in 1 .. m
      BY <1>11, <1>19, <3>2 DEF Extends, Sized, m
    <3>3. CASE i = m + (i - m) /\ i - m \in 1 .. n
      BY <1>11, <2>2, <3>3
    <3> QED
      BY <1>11, <2>1, <3>1, <3>2, <3>3
  <2> QED
    BY <2>3 DEF Sized
<1> QED
  BY <1>11, <1>13, <1>17, <1>18, <1>19, <1>b DEF more, m, n, InlineHolds

LEMMA InlineLookupFinds ==
  ASSUME NEW bs, NEW id, NEW e, InlineEntries(e), InlineHolds(bs, id, e), NEW key \in Nat
  PROVE  /\ \A b \in LookupInline(bs, id, key) :
              \E i \in 1 .. Len(e) : e[i].key = key /\ b = e[i].value
         /\ (\E i \in 1 .. Len(e) : e[i].key = key) => LookupInline(bs, id, key) # {}
<1> DEFINE n == Len(e)
           C == InlineRanking(e)
           p == LeafOf(bs, id).pointers
           cmp == [k \in DOMAIN p |-> key - p[k].key]
           at == Search(Len(p), cmp)
<1>1. /\ DOMAIN p = 1 .. n /\ Len(p) = n
      /\ \A k \in 1 .. n : Block(bs, p[k].value) = e[C[k]].value /\ p[k].key = e[C[k]].key
  BY DEF InlineHolds, InlineLeads, LeafOf, Block
<1>2. LookupInline(bs, id, key) = IF at = 0 THEN {} ELSE {Block(bs, p[at].value)}
  BY DEF LookupInline
<1>3. /\ n \in Nat /\ C \in [1 .. n -> 1 .. n]
      /\ \A i \in 1 .. n : e[i].key \in Nat
      /\ \A i \in 1 .. n : \E k \in 1 .. n : C[k] = i
      /\ \A k, l \in 1 .. n : k < l => ~(e[C[l]].key < e[C[k]].key)
  BY SortedInlineEntries DEF InlineEntries
<1> HIDE DEF p, C, n
<1>4. ASSUME NEW k \in 1 .. n
      PROVE  /\ e[C[k]].key \in Nat /\ cmp[k] \in Int
             /\ cmp[k] = 0 <=> e[C[k]].key = key
             /\ cmp[k] < 0 <=> key < e[C[k]].key
             /\ cmp[k] > 0 <=> e[C[k]].key < key
  <2>1. PICK a \in Nat : a = e[C[k]].key
    BY <1>3
  <2>2. cmp[k] = key - a
    BY <1>1, <2>1
  <2> HIDE DEF cmp
  <2>3. /\ key - a \in Int /\ (key - a = 0 <=> a = key)
        /\ (key - a < 0 <=> key < a) /\ (key - a > 0 <=> a < key)
    OBVIOUS
  <2> QED
    BY <2>1, <2>2, <2>3
<1>5. cmp \in [1 .. n -> Int]
  <2>1. DOMAIN cmp = 1 .. n /\ cmp = [k \in DOMAIN cmp |-> cmp[k]]
    BY <1>1
  <2> HIDE DEF cmp
  <2> QED
    BY <1>4, <2>1
<1> HIDE DEF cmp
<1>6. ASSUME NEW i \in 1 .. n, NEW j \in 1 .. n, cmp[i] = 0, cmp[j] < 0 PROVE i < j
  <2>1. e[C[i]].key = key /\ key < e[C[j]].key /\ e[C[j]].key \in Nat
    BY <1>4, <1>6
  <2>2. j # i
    BY <2>1
  <2>3. ~(j < i)
    <3>1. j < i => ~(e[C[i]].key < e[C[j]].key)
      BY <1>3
    <3> QED
      BY <2>1, <3>1
  <2> QED
    BY <2>2, <2>3
<1>7. ASSUME NEW i \in 1 .. n, NEW j \in 1 .. n, cmp[i] = 0, cmp[j] > 0 PROVE j < i
  <2>1. e[C[i]].key = key /\ e[C[j]].key < key /\ e[C[j]].key \in Nat
    BY <1>4, <1>7
  <2>2. j # i
    BY <2>1
  <2>3. ~(i < j)
    <3>1. i < j => ~(e[C[j]].key < e[C[i]].key)
      BY <1>3
    <3> QED
      BY <2>1, <3>1
  <2> QED
    BY <2>2, <2>3
<1>8. /\ at = 0 \/ (at \in 1 .. n /\ cmp[at] = 0)
      /\ (\E i \in 1 .. n : cmp[i] = 0) => at # 0
  <2>1. at = Search(n, cmp)
    BY <1>1
  <2> HIDE DEF at
  <2> QED
    BY <1>3, <1>5, <1>6, <1>7, <2>1, SearchFinds
<1> HIDE DEF at
<1>9. ASSUME NEW b \in LookupInline(bs, id, key)
      PROVE  \E i \in 1 .. n : e[i].key = key /\ b = e[i].value
  <2>1. at # 0 /\ b = Block(bs, p[at].value)
    BY <1>2, <1>9
  <2>2. at \in 1 .. n /\ cmp[at] = 0
    BY <1>8, <2>1
  <2>3. C[at] \in 1 .. n /\ e[C[at]].key = key
    BY <1>3, <1>4, <2>2
  <2>4. b = e[C[at]].value
    BY <1>1, <2>1, <2>2
  <2> QED
    BY <2>3, <2>4
<1>10. ASSUME NEW i \in 1 .. n, e[i].key = key PROVE LookupInline(bs, id, key) # {}
  <2>1. PICK k \in 1 .. n : C[k] = i
    BY <1>3
  <2>2. cmp[k] = 0
    BY <1>4, <1>10, <2>1
  <2>3. at # 0
    BY <1>8, <2>2
  <2> QED
    BY <1>2, <2>3
<1> QED
  BY <1>9, <1>10 DEF n

----------------------------------------------------------------------------
(* The invariant: the variables named so far are the first of the          *)
(* canonical list, and each tree among them still holds the entries it was *)
(* made from, whatever was appended behind it.                             *)

Descriptors(rs) == BitmapEntries(BitmapAssets(Assets(rs)))

TablesHold(bs, vs, rs) ==
  /\ IsSeq(bs) /\ IsSeq(vs) /\ DOMAIN vs = 1 .. Len(vs)
  /\ Len(vs) \in 0 .. 7
  /\ \A i \in 1 .. Len(vs) : vs[i].name.text = Canonical[i]
  /\ Len(vs) >= 2 => TreeHolds(bs, vs[2].blockID, RenditionEntries(rs))
  /\ Len(vs) >= 3 => TreeHolds(bs, vs[3].blockID, FacetEntries(Assets(rs)))
  /\ Len(vs) >= 4 => TreeHolds(bs, vs[4].blockID, AppearanceEntries(UsedAppearances(rs)))
  /\ Len(vs) >= 7 => InlineHolds(bs, vs[7].blockID, Descriptors(rs))

(* The section written next follows from the variables written so far.     *)
InSection(sec, n, rs) ==
  \/ sec = "CARHEADER" /\ n = 0
  \/ sec = "RENDITIONS" /\ n = 1
  \/ sec = "FACETKEYS" /\ n = 2
  \/ sec = "APPEARANCEKEYS" /\ n = 3
  \/ sec = "KEYFORMAT" /\ n = 4
  \/ sec = "EXTENDED_METADATA" /\ n = 5
  \/ sec = "BITMAPKEYS" /\ n = 6
  \/ sec = "finalize" /\ n = 6 /\ BitmapAssets(Assets(rs)) = <<>>
  \/ sec = "finalize" /\ n = 7 /\ BitmapAssets(Assets(rs)) # <<>>
  \/ sec = "trapped"

CatalogInv ==
  /\ renditions \in Inputs
  /\ TablesHold(blocks, variables, renditions)
  /\ InSection(section, Len(variables), renditions)
  /\ phase = "building" \/ section = "finalize"

LEMMA CanonicalNames ==
  /\ Len(Canonical) = 7 /\ DOMAIN Canonical = 1 .. 7
  /\ Canonical[1] = "CARHEADER" /\ Canonical[2] = "RENDITIONS"
  /\ Canonical[3] = "FACETKEYS" /\ Canonical[4] = "APPEARANCEKEYS"
  /\ Canonical[5] = "KEYFORMAT" /\ Canonical[6] = "EXTENDED_METADATA"
  /\ Canonical[7] = "BITMAPKEYS"
BY DEF Canonical

(* A table more leaves those before it as they were.                       *)
LEMMA OneTableMore ==
  ASSUME NEW bs, NEW vs, NEW rs, TablesHold(bs, vs, rs), Len(vs) < 7,
         NEW new, Extends(new, bs), NEW v, v.name.text = Canonical[Len(vs) + 1],
         Len(vs) = 1 => TreeHolds(new, v.blockID, RenditionEntries(rs)),
         Len(vs) = 2 => TreeHolds(new, v.blockID, FacetEntries(Assets(rs))),
         Len(vs) = 3 => TreeHolds(new, v.blockID, AppearanceEntries(UsedAppearances(rs))),
         Len(vs) = 6 => InlineHolds(new, v.blockID, Descriptors(rs))
  PROVE  TablesHold(new, Append(vs, v), rs) /\ Len(Append(vs, v)) = Len(vs) + 1
<1> DEFINE n == Len(vs)
           ws == Append(vs, v)
<1>1. /\ IsSeq(bs) /\ IsSeq(vs) /\ n \in 0 .. 7
      /\ \A i \in 1 .. n : vs[i].name.text = Canonical[i]
      /\ n >= 2 => TreeHolds(bs, vs[2].blockID, RenditionEntries(rs))
      /\ n >= 3 => TreeHolds(bs, vs[3].blockID, FacetEntries(Assets(rs)))
      /\ n >= 4 => TreeHolds(bs, vs[4].blockID, AppearanceEntries(UsedAppearances(rs)))
  BY DEF TablesHold
<1>2. Extends(ws, vs) /\ Len(ws) = n + 1 /\ ws[n + 1] = v
  BY <1>1, AppendSeq
<1>3. IsSeq(ws) /\ IsSeq(new) /\ \A i \in 1 .. n : ws[i] = vs[i]
  BY <1>2 DEF Extends
<1>4. DOMAIN ws = 1 .. Len(ws)
  BY <1>3, SomeSeq DEF IsSeq
<1> HIDE DEF ws, n
<1>5. n \in 0 .. 6
  <2>1. PICK m \in 0 .. 7 : m = n
    BY <1>1
  <2>2. m < 7
    BY <2>1 DEF n
  <2> QED
    BY <2>1, <2>2
<1>6. ASSUME NEW i \in 1 .. n + 1 PROVE ws[i].name.text = Canonical[i]
  <2>1. i \in 1 .. n \/ i = n + 1
    BY <1>5
  <2>2. CASE i \in 1 .. n
    BY <1>1, <1>3, <2>2
  <2>3. CASE i = n + 1
    BY <1>2, <2>3 DEF n
  <2> QED
    BY <2>1, <2>2, <2>3
<1>7. ASSUME n + 1 >= 2 PROVE TreeHolds(new, ws[2].blockID, RenditionEntries(rs))
  <2>1. CASE n = 1
    BY <1>2, <2>1 DEF n
  <2>2. CASE n >= 2
    <3>1. ws[2] = vs[2]
      BY <1>3, <1>5, <2>2
    <3> QED
      BY <1>1, <2>2, <3>1, StillHolds
  <2> QED
    BY <1>5, <1>7, <2>1, <2>2
<1>8. ASSUME n + 1 >= 3 PROVE TreeHolds(new, ws[3].blockID, FacetEntries(Assets(rs)))
  <2>1. CASE n = 2
    BY <1>2, <2>1 DEF n
  <2>2. CASE n >= 3
    <3>1. ws[3] = vs[3]
      BY <1>3, <1>5, <2>2
    <3> QED
      BY <1>1, <2>2, <3>1, StillHolds
  <2> QED
    BY <1>5, <1>8, <2>1, <2>2
<1>9. ASSUME n + 1 >= 4
      PROVE  TreeHolds(new, ws[4].blockID, AppearanceEntries(UsedAppearances(rs)))
  <2>1. CASE n = 3
    BY <1>2, <2>1 DEF n
  <2>2. CASE n >= 4
    <3>1. ws[4] = vs[4]
      BY <1>3, <1>5, <2>2
    <3> QED
      BY <1>1, <2>2, <3>1, StillHolds
  <2> QED
    BY <1>5, <1>9, <2>1, <2>2
<1>10. ASSUME n + 1 >= 7 PROVE InlineHolds(new, ws[7].blockID, Descriptors(rs))
  <2>1. n = 6
    BY <1>5, <1>10
  <2> QED
    BY <1>2, <2>1 DEF n
<1>11. Len(ws) = n + 1 /\ n + 1 \in 0 .. 7
  BY <1>2, <1>5
<1>12. TablesHold(new, ws, rs)
  BY <1>3, <1>4, <1>6, <1>7, <1>8, <1>9, <1>10, <1>11 DEF TablesHold
<1> QED
  BY <1>11, <1>12 DEF ws, n

LEMMA NothingWritten ==
  ASSUME CARInit
  PROVE  CatalogInv
<1>1. /\ renditions \in Inputs /\ section = "CARHEADER" /\ phase = "building"
      /\ blocks = <<BOM!NullBlock>> /\ variables = <<>>
  BY DEF CARInit, BOM!BOMInit
<1>2. IsSeq(blocks)
  <2> DEFINE b == BOM!NullBlock
  <2>1. blocks \in Seq({b})
    BY <1>1
  <2> QED
    BY <2>1, SomeSeq
<1>3. IsSeq(variables) /\ Len(variables) = 0 /\ DOMAIN variables = 1 .. Len(variables)
  <2>1. variables \in Seq({}) /\ Len(variables) = 0
    BY <1>1
  <2> QED
    BY <2>1, SomeSeq
<1>4. TablesHold(blocks, variables, renditions)
  BY <1>2, <1>3 DEF TablesHold
<1>5. InSection(section, Len(variables), renditions)
  BY <1>1, <1>3 DEF InSection
<1> QED
  BY <1>1, <1>4, <1>5 DEF CatalogInv

(* An action that writes a table, seen from the tables.                    *)
LEMMA EmitKeeps ==
  ASSUME CatalogInv, NEW new, NEW name, NEW next, Emit(name, new, next),
         Len(variables) < 7, phase = "building",
         Extends(new, blocks), name.text = Canonical[Len(variables) + 1],
         Len(variables) = 1 =>
           TreeHolds(new, LastID(new), RenditionEntries(renditions)),
         Len(variables) = 2 =>
           TreeHolds(new, LastID(new), FacetEntries(Assets(renditions))),
         Len(variables) = 3 =>
           TreeHolds(new, LastID(new), AppearanceEntries(UsedAppearances(renditions))),
         Len(variables) = 6 => InlineHolds(new, LastID(new), Descriptors(renditions)),
         InSection(next, Len(variables) + 1, renditions)
  PROVE  CatalogInv'
<1>1. PICK bs, vs, rs, sec : bs = blocks /\ vs = variables /\ rs = renditions /\ sec = next
  OBVIOUS
<1> DEFINE v == [name |-> name, blockID |-> LastID(new)]
<1>2. /\ blocks' = new /\ variables' = Append(vs, v) /\ renditions' = rs
      /\ section' = sec /\ phase' = phase
  BY <1>1 DEF Emit, bomRest
<1>3. /\ TablesHold(bs, vs, rs) /\ Len(vs) < 7 /\ Extends(new, bs) /\ rs \in Inputs
      /\ InSection(sec, Len(vs) + 1, rs)
  BY <1>1 DEF CatalogInv
<1>4. v.name.text = Canonical[Len(vs) + 1] /\ v.blockID = LastID(new)
  BY <1>1
<1> HIDE DEF v
<1>5. /\ Len(vs) = 1 => TreeHolds(new, v.blockID, RenditionEntries(rs))
      /\ Len(vs) = 2 => TreeHolds(new, v.blockID, FacetEntries(Assets(rs)))
      /\ Len(vs) = 3 => TreeHolds(new, v.blockID, AppearanceEntries(UsedAppearances(rs)))
      /\ Len(vs) = 6 => InlineHolds(new, v.blockID, Descriptors(rs))
  BY <1>1, <1>4
<1>6. TablesHold(new, Append(vs, v), rs) /\ Len(Append(vs, v)) = Len(vs) + 1
  BY <1>3, <1>4, <1>5, OneTableMore
<1> QED
  BY <1>2, <1>3, <1>6 DEF CatalogInv

(* The entries the trees are made from.                                    *)
LEMMA FacetEntriesAre ==
  ASSUME NEW rs, IsList(rs)
  PROVE  LET A == Assets(rs)
             e == FacetEntries(A)
         IN /\ Entries(e) /\ Len(e) = Len(A)
            /\ \A i \in 1 .. Len(A) : e[i].key = A[i].name.utf8 /\ e[i].value = FacetValue(A[i])
<1> DEFINE A == Assets(rs)
<1>1. /\ Len(A) \in Nat /\ DOMAIN A = 1 .. Len(A)
      /\ \A k \in 1 .. Len(A) : \E i \in 1 .. Len(rs) : A[k] = AssetOf(rs, i)
  BY AssetsAre
<1> HIDE DEF A
<1>2. ASSUME NEW k \in 1 .. Len(A) PROVE A[k].name.utf8 \in Str
  <2>1. PICK i \in 1 .. Len(rs) : A[k] = AssetOf(rs, i)
    BY <1>1
  <2>2. A[k].name = rs[i].name
    BY <2>1 DEF AssetOf
  <2>3. IsRendition(rs[i])
    BY DEF IsList
  <2> QED
    BY <2>2, <2>3, RenditionStrings
<1>3. LET e == FacetEntries(A)
      IN /\ Entries(e) /\ Len(e) = Len(A)
         /\ \A i \in 1 .. Len(A) : e[i].key = A[i].name.utf8 /\ e[i].value = FacetValue(A[i])
  BY <1>1, <1>2, FacetKeys
<1> QED
  BY <1>3 DEF A

LEMMA DescriptorsAre ==
  ASSUME NEW rs, IsList(rs)
  PROVE  LET B == BitmapAssets(Assets(rs))
             e == Descriptors(rs)
         IN /\ InlineEntries(e) /\ Len(e) = Len(B)
            /\ \A i \in 1 .. Len(B) :
                 /\ e[i].key = B[i].name.hash
                 /\ e[i].value = DataBlock(Descriptor(B[i].renditions), 52)
<1> DEFINE A == Assets(rs)
           B == BitmapAssets(A)
<1>1. /\ IsSeq(A) /\ Len(A) \in Nat /\ DOMAIN A = 1 .. Len(A)
      /\ \A k \in 1 .. Len(A) : \E i \in 1 .. Len(rs) : A[k] = AssetOf(rs, i)
  BY AssetsAre
<1> HIDE DEF A
<1>2. /\ Len(B) \in Nat /\ DOMAIN B = 1 .. Len(B)
      /\ \A k \in 1 .. Len(B) : \E l \in 1 .. Len(A) : B[k] = A[l]
  BY <1>1, BitmapAssetsAre
<1> HIDE DEF B
<1>3. ASSUME NEW k \in 1 .. Len(B) PROVE B[k].name.hash \in Nat
  <2>1. PICK l \in 1 .. Len(A) : B[k] = A[l]
    BY <1>2
  <2>2. PICK i \in 1 .. Len(rs) : A[l] = AssetOf(rs, i)
    BY <1>1
  <2>3. B[k].name = rs[i].name
    BY <2>1, <2>2 DEF AssetOf
  <2>4. IsRendition(rs[i])
    BY DEF IsList
  <2> QED
    BY <2>3, <2>4, RenditionStrings
<1>4. LET e == BitmapEntries(B)
      IN /\ InlineEntries(e) /\ Len(e) = Len(B)
         /\ \A i \in 1 .. Len(B) :
              /\ e[i].key = B[i].name.hash
              /\ e[i].value = DataBlock(Descriptor(B[i].renditions), 52)
  BY <1>2, <1>3, DescriptorKeys
<1> QED
  BY <1>4 DEF A, B, Descriptors

LEMMA EveryStepKeepsTables ==
  ASSUME CatalogInv, [CARNext]_carVars
  PROVE  CatalogInv'
<1> DEFINE n == Len(variables)
           rs == renditions
<1>1. /\ rs \in Inputs /\ TablesHold(blocks, variables, rs)
      /\ InSection(section, n, rs) /\ (phase = "building" \/ section = "finalize")
      /\ IsSeq(blocks) /\ n \in 0 .. 7
  BY DEF CatalogInv, TablesHold
<1>2. IsList(rs)
  BY <1>1, InputsAreLists
<1>3. ASSUME NEW b, WriteCARHeader \/ WriteKeyFormat \/ WriteExtendedMetadata
      PROVE  Extends(Append(blocks, b), blocks)
  BY <1>1, AppendSeq
<1>4. CASE WriteCARHeader
  <2>1. n = 0 /\ section = "CARHEADER" /\ phase = "building"
    BY <1>1, <1>4 DEF WriteCARHeader, InSection
  <2> DEFINE b == DataBlock([renditionCount |-> Len(renditions)], 436)
  <2>2. PICK new : new = Append(blocks, b)
    OBVIOUS
  <2>3. Emit(VariableName("CARHEADER", 9), new, "RENDITIONS")
    BY <1>4, <2>2 DEF WriteCARHeader
  <2>4. Extends(new, blocks)
    BY <1>3, <1>4, <2>2
  <2>5. InSection("RENDITIONS", n + 1, rs)
    BY <2>1 DEF InSection
  <2>6. VariableName("CARHEADER", 9).text = Canonical[n + 1]
    BY <2>1, CanonicalNames DEF VariableName
  <2> QED
    BY <2>1, <2>3, <2>4, <2>5, <2>6, EmitKeeps
<1>5. CASE WriteRenditions
  <2>1. n = 1 /\ section = "RENDITIONS" /\ phase = "building"
    BY <1>1, <1>5 DEF WriteRenditions, InSection
  <2>2. PICK new, bs, e : new = Insert(bs, e) /\ bs = blocks /\ e = RenditionEntries(rs)
    OBVIOUS
  <2>3. Emit(VariableName("RENDITIONS", 10), new, "FACETKEYS")
    BY <1>5, <2>2 DEF WriteRenditions
  <2>4. Extends(new, bs) /\ TreeHolds(new, LastID(new), e)
    <3>1. Entries(e)
      BY <1>2, <2>2, RenditionKeys
    <3>2. IsSeq(bs)
      BY <1>1, <2>2
    <3> QED
      BY <2>2, <3>1, <3>2, InsertHolds
  <2>5. InSection("FACETKEYS", n + 1, rs)
    BY <2>1 DEF InSection
  <2>6. VariableName("RENDITIONS", 10).text = Canonical[n + 1]
    BY <2>1, CanonicalNames DEF VariableName
  <2> QED
    BY <2>1, <2>2, <2>3, <2>4, <2>5, <2>6, EmitKeeps
<1>6. CASE WriteFacetKeys
  <2>1. n = 2 /\ section = "FACETKEYS" /\ phase = "building"
    BY <1>1, <1>6 DEF WriteFacetKeys, InSection
  <2>2. PICK new, bs, e : new = Insert(bs, e) /\ bs = blocks /\ e = FacetEntries(Assets(rs))
    OBVIOUS
  <2>3. Emit(VariableName("FACETKEYS", 9), new, "APPEARANCEKEYS")
    BY <1>6, <2>2 DEF WriteFacetKeys
  <2>4. Extends(new, bs) /\ TreeHolds(new, LastID(new), e)
    <3>1. Entries(e)
      BY <1>2, <2>2, FacetEntriesAre
    <3>2. IsSeq(bs)
      BY <1>1, <2>2
    <3> QED
      BY <2>2, <3>1, <3>2, InsertHolds
  <2>5. InSection("APPEARANCEKEYS", n + 1, rs)
    BY <2>1 DEF InSection
  <2>6. VariableName("FACETKEYS", 9).text = Canonical[n + 1]
    BY <2>1, CanonicalNames DEF VariableName
  <2> QED
    BY <2>1, <2>2, <2>3, <2>4, <2>5, <2>6, EmitKeeps
<1>7. CASE WriteAppearanceKeys
  <2>1. n = 3 /\ section = "APPEARANCEKEYS" /\ phase = "building"
    BY <1>1, <1>7 DEF WriteAppearanceKeys, InSection
  <2>2. PICK new, bs, e : /\ new = Insert(bs, e) /\ bs = blocks
                          /\ e = AppearanceEntries(UsedAppearances(rs))
    OBVIOUS
  <2>3. Emit(VariableName("APPEARANCEKEYS", 14), new, "KEYFORMAT")
    BY <1>7, <2>2 DEF WriteAppearanceKeys
  <2>4. Extends(new, bs) /\ TreeHolds(new, LastID(new), e)
    <3>1. Entries(e)
      BY <2>2, AppearanceKeys
    <3>2. IsSeq(bs)
      BY <1>1, <2>2
    <3> QED
      BY <2>2, <3>1, <3>2, InsertHolds
  <2>5. InSection("KEYFORMAT", n + 1, rs)
    BY <2>1 DEF InSection
  <2>6. VariableName("APPEARANCEKEYS", 14).text = Canonical[n + 1]
    BY <2>1, CanonicalNames DEF VariableName
  <2> QED
    BY <2>1, <2>2, <2>3, <2>4, <2>5, <2>6, EmitKeeps
<1>8. CASE WriteKeyFormat
  <2>1. n = 4 /\ section = "KEYFORMAT" /\ phase = "building"
    BY <1>1, <1>8 DEF WriteKeyFormat, InSection
  <2> DEFINE b == DataBlock(KeyFormat, 12 + 4 * Len(KeyFormat))
  <2>2. PICK new : new = Append(blocks, b)
    OBVIOUS
  <2>3. Emit(VariableName("KEYFORMAT", 9), new, "EXTENDED_METADATA")
    BY <1>8, <2>2 DEF WriteKeyFormat
  <2>4. Extends(new, blocks)
    BY <1>3, <1>8, <2>2
  <2>5. InSection("EXTENDED_METADATA", n + 1, rs)
    BY <2>1 DEF InSection
  <2>6. VariableName("KEYFORMAT", 9).text = Canonical[n + 1]
    BY <2>1, CanonicalNames DEF VariableName
  <2> QED
    BY <2>1, <2>3, <2>4, <2>5, <2>6, EmitKeeps
<1>9. CASE WriteExtendedMetadata
  <2>1. n = 5 /\ section = "EXTENDED_METADATA" /\ phase = "building"
    BY ZenonT(60), <1>1, <1>9 DEF WriteExtendedMetadata, InSection
  <2> DEFINE b == DataBlock("deploymentTarget", 1028)
  <2>2. PICK new : new = Append(blocks, b)
    BY ZenonT(60)
  <2>3. Emit(VariableName("EXTENDED_METADATA", 17), new, "BITMAPKEYS")
    BY ZenonT(60), <1>9, <2>2 DEF WriteExtendedMetadata
  <2>4. Extends(new, blocks)
    BY ZenonT(60), <1>3, <1>9, <2>2
  <2>5. InSection("BITMAPKEYS", n + 1, rs)
    BY <2>1 DEF InSection
  <2>6. VariableName("EXTENDED_METADATA", 17).text = Canonical[n + 1]
    BY <2>1, CanonicalNames DEF VariableName
  <2> QED
    BY <2>1, <2>3, <2>4, <2>5, <2>6, EmitKeeps
<1>10. CASE WriteBitmapKeys
  <2>1. /\ n = 6 /\ section = "BITMAPKEYS" /\ phase = "building"
        /\ BitmapAssets(Assets(rs)) # <<>>
    BY <1>1, <1>10 DEF WriteBitmapKeys, InSection
  <2>2. PICK new, bs, e : new = InsertInlineKey(bs, e) /\ bs = blocks /\ e = Descriptors(rs)
    OBVIOUS
  <2>3. Emit(VariableName("BITMAPKEYS", 10), new, "finalize")
    BY <1>10, <2>2 DEF WriteBitmapKeys, Descriptors
  <2>4. Extends(new, bs) /\ InlineHolds(new, LastID(new), e)
    <3>1. InlineEntries(e)
      BY <1>2, <2>2, DescriptorsAre
    <3>2. IsSeq(bs)
      BY <1>1, <2>2
    <3> QED
      BY <2>2, <3>1, <3>2, InsertInlineHolds
  <2>5. InSection("finalize", n + 1, rs)
    BY <2>1 DEF InSection
  <2>6. VariableName("BITMAPKEYS", 10).text = Canonical[n + 1]
    BY <2>1, CanonicalNames DEF VariableName
  <2> QED
    BY <2>1, <2>2, <2>3, <2>4, <2>5, <2>6, EmitKeeps
<1>11. CASE SkipBitmapKeys
  <2>1. n = 6 /\ BitmapAssets(Assets(rs)) = <<>>
    BY <1>1, <1>11 DEF SkipBitmapKeys, InSection
  <2>2. /\ renditions' = rs /\ blocks' = blocks /\ variables' = variables
        /\ section' = "finalize"
    BY <1>11 DEF SkipBitmapKeys
  <2>3. InSection("finalize", n, rs)
    BY <2>1 DEF InSection
  <2> QED
    BY <1>1, <2>2, <2>3 DEF CatalogInv
<1>12. CASE CountTraps
  <2>1. /\ renditions' = rs /\ blocks' = blocks /\ variables' = variables
        /\ section' = "trapped" /\ phase' = phase /\ section = "RENDITIONS"
    BY <1>12 DEF CountTraps, bomRest
  <2>2. InSection("trapped", n, rs)
    BY DEF InSection
  <2> QED
    BY <1>1, <2>1, <2>2 DEF CatalogInv
<1>13. CASE Finalize
  <2>1. section = "finalize" /\ section' = section /\ renditions' = rs
    BY <1>13 DEF Finalize
  <2>2. blocks' = blocks /\ variables' = variables
    BY <1>13 DEF Finalize, BOM!WriteHeader, BOM!Finalizing, BOM!PackBlock, BOM!WriteIndex,
      BOM!WriteVariable, BOM!PatchHeader, BOM!Trap
  <2> QED
    BY <1>1, <2>1, <2>2 DEF CatalogInv
<1>14. CASE Finished \/ UNCHANGED carVars
  <2>1. /\ renditions' = rs /\ blocks' = blocks /\ variables' = variables
        /\ section' = section /\ phase' = phase
    BY <1>14 DEF Finished, carVars, bomRest
  <2> QED
    BY <1>1, <2>1 DEF CatalogInv
<1> QED
  BY <1>4, <1>5, <1>6, <1>7, <1>8, <1>9, <1>10, <1>11, <1>12, <1>13, <1>14 DEF CARNext

(* The tables of a catalog hold what they were made from, at every moment  *)
(* of CARWriter.write().                                                   *)
THEOREM TablesAreKept == CARSpec => []CatalogInv
<1>1. CARInit => CatalogInv
  BY NothingWritten
<1>2. CatalogInv /\ [CARNext]_carVars => CatalogInv'
  BY EveryStepKeepsTables
<1> QED
  BY <1>1, <1>2, PTL DEF CARSpec

----------------------------------------------------------------------------
(* What a reader finds in the finished catalog.                            *)

LEMMA VariableIs ==
  ASSUME CatalogInv, NEW k \in 1 .. Len(variables)
  PROVE  Variable(Canonical[k]) = variables[k].blockID
<1>1. /\ DOMAIN variables = 1 .. Len(variables) /\ Len(variables) \in 0 .. 7
      /\ \A i \in 1 .. Len(variables) : variables[i].name.text = Canonical[i]
  BY DEF CatalogInv, TablesHold
<1>2. ASSUME NEW i \in 1 .. 7, NEW j \in 1 .. 7, Canonical[i] = Canonical[j]
      PROVE  i = j
  <2>1. i \in {1, 2, 3, 4, 5, 6, 7} /\ j \in {1, 2, 3, 4, 5, 6, 7}
    OBVIOUS
  <2> QED
    BY <1>2, <2>1, CanonicalNames
<1>3. \A i \in 1 .. Len(variables) : i \in 1 .. 7
  BY <1>1
<1>4. \A i \in DOMAIN variables : variables[i].name.text = Canonical[k] <=> i = k
  BY <1>1, <1>2, <1>3
<1>5. (CHOOSE i \in DOMAIN variables : variables[i].name.text = Canonical[k]) = k
  BY <1>1, <1>4
<1> QED
  BY <1>5 DEF Variable

(* The tables a reader starts from, in a finished catalog.                 *)
LEMMA TablesWritten ==
  ASSUME CatalogInv, Written
  PROVE  /\ IsList(renditions) /\ renditions \in Inputs
         /\ TreeHolds(blocks, Variable("RENDITIONS"), RenditionEntries(renditions))
         /\ TreeHolds(blocks, Variable("FACETKEYS"), FacetEntries(Assets(renditions)))
         /\ TreeHolds(blocks, Variable("APPEARANCEKEYS"),
                      AppearanceEntries(UsedAppearances(renditions)))
         /\ \/ Len(variables) = 6 /\ BitmapAssets(Assets(renditions)) = <<>>
            \/ /\ Len(variables) = 7 /\ BitmapAssets(Assets(renditions)) # <<>>
               /\ InlineHolds(blocks, Variable("BITMAPKEYS"), Descriptors(renditions))
<1>1. section = "finalize"
  BY DEF CatalogInv, Written
<1>2. \/ Len(variables) = 6 /\ BitmapAssets(Assets(renditions)) = <<>>
      \/ Len(variables) = 7 /\ BitmapAssets(Assets(renditions)) # <<>>
  BY <1>1 DEF CatalogInv, InSection
<1>3. IsList(renditions) /\ renditions \in Inputs
  BY InputsAreLists DEF CatalogInv
<1>4. /\ Len(variables) >= 2 /\ Len(variables) >= 3 /\ Len(variables) >= 4
      /\ 2 \in 1 .. Len(variables) /\ 3 \in 1 .. Len(variables) /\ 4 \in 1 .. Len(variables)
      /\ Len(variables) = 7 => Len(variables) >= 7 /\ 7 \in 1 .. Len(variables)
  <2>1. PICK n \in {6, 7} : n = Len(variables)
    BY <1>2
  <2>2. /\ n >= 2 /\ n >= 3 /\ n >= 4
        /\ 2 \in 1 .. n /\ 3 \in 1 .. n /\ 4 \in 1 .. n
        /\ n = 7 => n >= 7 /\ 7 \in 1 .. n
    BY <2>1
  <2> QED
    BY <2>1, <2>2
<1>5. /\ Variable("RENDITIONS") = variables[2].blockID
      /\ Variable("FACETKEYS") = variables[3].blockID
      /\ Variable("APPEARANCEKEYS") = variables[4].blockID
      /\ Len(variables) = 7 => Variable("BITMAPKEYS") = variables[7].blockID
  <2>1. ASSUME NEW k \in 1 .. Len(variables)
        PROVE  Variable(Canonical[k]) = variables[k].blockID
    BY VariableIs
  <2> QED
    BY <1>4, <2>1, CanonicalNames
<1>6. TablesHold(blocks, variables, renditions)
  BY DEF CatalogInv
<1> QED
  BY <1>2, <1>3, <1>4, <1>5, <1>6 DEF TablesHold

LEMMA EveryRenditionIsFound ==
  ASSUME CatalogInv
  PROVE  RenditionsFound
<1> SUFFICES ASSUME Written, NEW i \in DOMAIN renditions
             PROVE  LET key == RenditionKey(renditions[i])
                        twins == {j \in DOMAIN renditions :
                                   RenditionKey(renditions[j]) = key}
                        found == Lookup(blocks, Variable("RENDITIONS"), Encode(key))
                    IN found # {} /\ found \subseteq {CSI(renditions[j]) : j \in twins}
  BY DEF RenditionsFound
<1>1. PICK bs, id, rs : bs = blocks /\ id = Variable("RENDITIONS") /\ rs = renditions
  OBVIOUS
<1> DEFINE e == RenditionEntries(rs)
           key == RenditionKey(rs[i])
           found == Lookup(bs, id, Encode(key))
<1>2. IsList(rs) /\ TreeHolds(bs, id, e)
  BY <1>1, TablesWritten
<1>3. /\ DOMAIN rs = 1 .. Len(rs) /\ i \in 1 .. Len(rs)
      /\ \A j \in 1 .. Len(rs) : IsRendition(rs[j])
  BY <1>1, <1>2 DEF IsList
<1>4. /\ Entries(e) /\ Len(e) = Len(rs)
      /\ \A j \in 1 .. Len(rs) :
           e[j].key = Encode(RenditionKey(rs[j])) /\ e[j].value = CSI(rs[j])
  BY <1>2, RenditionKeys
<1>5. Encode(key) \in Str
  BY <1>3, KeyTokens, PackedTokens
<1> HIDE DEF e, key
<1>6. /\ \A b \in found : \E j \in 1 .. Len(e) : e[j].key = Encode(key) /\ b = e[j].value
      /\ (\E j \in 1 .. Len(e) : e[j].key = Encode(key)) => found # {}
  <2>1. Entries(e) /\ TreeHolds(bs, id, e) /\ Encode(key) \in Str
    BY <1>2, <1>4, <1>5
  <2> QED
    BY <2>1, LookupFinds
<1>7. found # {}
  BY <1>3, <1>4, <1>6 DEF key
<1>8. ASSUME NEW b \in found
      PROVE  \E j \in DOMAIN rs : RenditionKey(rs[j]) = key /\ b = CSI(rs[j])
  <2>1. PICK j \in 1 .. Len(rs) : e[j].key = Encode(key) /\ b = e[j].value
    BY <1>4, <1>6
  <2>2. Encode(RenditionKey(rs[j])) = Encode(RenditionKey(rs[i])) /\ b = CSI(rs[j])
    BY <1>4, <2>1 DEF key
  <2>3. RenditionKey(rs[j]) = RenditionKey(rs[i])
    BY <1>3, <2>2, SameKey
  <2> QED
    BY <1>3, <2>2, <2>3 DEF key
<1> HIDE DEF found
<1>9. found # {} /\ found \subseteq {CSI(rs[j]) : j \in {j \in DOMAIN rs : RenditionKey(rs[j]) = key}}
  BY <1>7, <1>8
<1> QED
  BY <1>1, <1>9 DEF found, key

(* The binary search over the keys of RENDITIONS, in byte order, finds a   *)
(* rendition for the key of each that was handed to CARWriter, and none    *)
(* but one of that very key.                                               *)
THEOREM EveryRenditionFound == CARSpec => []RenditionsFound
<1>1. CatalogInv => RenditionsFound
  BY EveryRenditionIsFound
<1> QED
  BY <1>1, TablesAreKept, PTL

(* A catalog has bitmap descriptors when a rendition is not a colour.      *)
LEMMA BitmapsOrColors ==
  ASSUME NEW rs, IsList(rs)
  PROVE  BitmapAssets(Assets(rs)) = <<>> <=> \A i \in 1 .. Len(rs) : rs[i].body = "color"
<1> DEFINE A == Assets(rs)
           Bitmap(k) == Has(A[k].renditions, Bodies \ {"color"})
<1>1. /\ IsSeq(A) /\ Len(A) \in Nat /\ DOMAIN A = 1 .. Len(A)
      /\ \A k \in 1 .. Len(A) : \E i \in 1 .. Len(rs) : A[k] = AssetOf(rs, i)
      /\ \A i \in 1 .. Len(rs) : \E k \in 1 .. Len(A), f \in 1 .. Len(rs) :
           SameName(rs[f].name, rs[i].name) /\ A[k] = AssetOf(rs, f)
  BY AssetsAre
<1>2. DOMAIN rs = 1 .. Len(rs) /\ \A i \in 1 .. Len(rs) : rs[i].body \in Bodies
  BY DEF IsList, IsRendition
<1> HIDE DEF A
<1>3. BitmapAssets(A) = <<>> <=> \A l \in 1 .. Len(A) : ~Bitmap(l)
  BY <1>1, BitmapAssetsAre
<1>4. ASSUME NEW i \in 1 .. Len(rs), rs[i].body # "color"
      PROVE  \E l \in 1 .. Len(A) : Bitmap(l)
  <2>1. PICK k \in 1 .. Len(A), f \in 1 .. Len(rs) :
          SameName(rs[f].name, rs[i].name) /\ A[k] = AssetOf(rs, f)
    BY <1>1
  <2>2. SameName(rs[i].name, rs[f].name)
    BY <2>1 DEF SameName
  <2>3. rs[i] \in A[k].renditions
    BY <1>2, <2>1, <2>2 DEF AssetOf
  <2>4. rs[i].body \in Bodies \ {"color"}
    BY <1>2, <1>4
  <2> QED
    BY <2>3, <2>4 DEF Has
<1>5. ASSUME NEW l \in 1 .. Len(A), Bitmap(l)
      PROVE  \E i \in 1 .. Len(rs) : rs[i].body # "color"
  <2>1. PICK f \in 1 .. Len(rs) : A[l] = AssetOf(rs, f)
    BY <1>1
  <2>2. PICK r \in A[l].renditions : r.body # "color"
    BY <1>5 DEF Has
  <2>3. \E j \in DOMAIN rs : r = rs[j]
    BY <2>1, <2>2 DEF AssetOf
  <2> QED
    BY <1>2, <2>2, <2>3
<1> QED
  BY <1>3, <1>4, <1>5 DEF A

LEMMA VariablesAreInOrder ==
  ASSUME CatalogInv
  PROVE  VariablesInOrder
<1> SUFFICES ASSUME Written
             PROVE  [i \in DOMAIN variables |-> variables[i].name.text] =
                      IF \E i \in DOMAIN renditions : renditions[i].body # "color"
                      THEN Canonical ELSE SubSeq(Canonical, 1, Len(Canonical) - 1)
  BY DEF VariablesInOrder
<1> DEFINE texts == [i \in DOMAIN variables |-> variables[i].name.text]
           Texts == {Canonical[i] : i \in 1 .. 7}
<1>1. PICK n \in {6, 7} :
        /\ n = Len(variables) /\ DOMAIN variables = 1 .. n
        /\ n = 6 <=> BitmapAssets(Assets(renditions)) = <<>>
  <2>1. DOMAIN variables = 1 .. Len(variables)
    BY DEF CatalogInv, TablesHold
  <2>2. \/ Len(variables) = 6 /\ BitmapAssets(Assets(renditions)) = <<>>
        \/ Len(variables) = 7 /\ BitmapAssets(Assets(renditions)) # <<>>
    BY TablesWritten
  <2> QED
    BY <2>1, <2>2
<1>2. n = 6 <=> ~ \E i \in DOMAIN renditions : renditions[i].body # "color"
  <2>1. IsList(renditions)
    BY TablesWritten
  <2>2. DOMAIN renditions = 1 .. Len(renditions)
    BY <2>1 DEF IsList
  <2> QED
    BY <1>1, <2>1, <2>2, BitmapsOrColors
<1>3. texts = [i \in 1 .. n |-> Canonical[i]]
  <2>1. \A i \in 1 .. n : variables[i].name.text = Canonical[i]
    BY <1>1 DEF CatalogInv, TablesHold
  <2> QED
    BY <1>1, <2>1
<1>4. Canonical \in Seq(Texts) /\ Len(Canonical) = 7 /\ DOMAIN Canonical = 1 .. 7
  <2>1. Canonical = [i \in 1 .. 7 |-> Canonical[i]]
    BY DEF Canonical
  <2>2. Canonical \in [1 .. 7 -> Texts]
    BY <2>1
  <2>3. Canonical \in Seq(Texts)
    BY <2>2, FunctionSeq
  <2> QED
    BY <2>3, CanonicalNames
<1>5. Canonical = [i \in 1 .. 7 |-> Canonical[i]]
  BY <1>4
<1>6. SubSeq(Canonical, 1, 6) = [i \in 1 .. 6 |-> Canonical[i]]
  BY <1>4
<1> HIDE DEF texts
<1>7. texts = IF n = 7 THEN Canonical ELSE SubSeq(Canonical, 1, 6)
  BY <1>1, <1>3, <1>5, <1>6
<1>8. Len(Canonical) - 1 = 6
  BY <1>4
<1>9. texts = IF \E i \in DOMAIN renditions : renditions[i].body # "color"
              THEN Canonical ELSE SubSeq(Canonical, 1, 6)
  <2>1. CASE n = 7
    <3>1. \E i \in DOMAIN renditions : renditions[i].body # "color"
      BY <1>2, <2>1
    <3>2. texts = Canonical
      BY <1>7, <2>1
    <3> QED
      BY <3>1, <3>2
  <2>2. CASE n = 6
    <3>1. ~ \E i \in DOMAIN renditions : renditions[i].body # "color"
      BY <1>2, <2>2
    <3>2. texts = SubSeq(Canonical, 1, 6)
      BY <1>7, <2>2
    <3> QED
      BY <3>1, <3>2
  <2> QED
    BY <2>1, <2>2
<1> QED
  BY <1>8, <1>9 DEF texts

LEMMA AppearancesAreRegistered ==
  ASSUME CatalogInv
  PROVE  AppearancesRegistered
<1> SUFFICES ASSUME Written
             PROVE  LET keys == LeafOf(blocks, Variable("RENDITIONS")).pointers
                        rows == LeafOf(blocks, Variable("APPEARANCEKEYS")).pointers
                    IN \A i \in DOMAIN keys : \E k \in DOMAIN rows :
                         Block(blocks, rows[k].value).data =
                           Decode(Block(blocks, keys[i].key).data).appearance
  BY DEF AppearancesRegistered
<1>1. PICK bs, id, ad, rs :
        /\ bs = blocks /\ rs = renditions
        /\ id = Variable("RENDITIONS") /\ ad = Variable("APPEARANCEKEYS")
  OBVIOUS
<1> DEFINE e == RenditionEntries(rs)
           C == Ranking(e)
           used == UsedAppearances(rs)
           a == AppearanceEntries(used)
           D == Ranking(a)
           keys == LeafOf(bs, id).pointers
           rows == LeafOf(bs, ad).pointers
<1>2. IsList(rs) /\ TreeHolds(bs, id, e) /\ TreeHolds(bs, ad, a)
  BY <1>1, TablesWritten
<1>3. /\ DOMAIN rs = 1 .. Len(rs)
      /\ \A j \in 1 .. Len(rs) : IsRendition(rs[j])
  BY <1>2 DEF IsList
<1>4. /\ Entries(e) /\ Len(e) = Len(rs)
      /\ \A j \in 1 .. Len(rs) : e[j].key = Encode(RenditionKey(rs[j]))
  BY <1>2, RenditionKeys
<1>5. /\ Entries(a) /\ Len(a) \in {1, 2} /\ a[1].value = DataBlock(AnyAppearance, 2)
      /\ DarkAppearance \in used => Len(a) = 2 /\ a[2].value = DataBlock(DarkAppearance, 2)
  BY AppearanceKeys
<1>6. \A j \in 1 .. Len(rs) : rs[j].dark => DarkAppearance \in used
  BY <1>3 DEF UsedAppearances
<1> HIDE DEF e, a, used
<1>7. DOMAIN keys = 1 .. Len(e)
      /\ \A k \in 1 .. Len(e) : Block(bs, keys[k].key).data = e[C[k]].key
  BY <1>2 DEF TreeHolds, TreeLeads, LeafOf, Block
<1>8. DOMAIN rows = 1 .. Len(a)
      /\ \A k \in 1 .. Len(a) : Block(bs, rows[k].value) = a[D[k]].value
  BY <1>2 DEF TreeHolds, TreeLeads, LeafOf, Block
<1>9. C \in [1 .. Len(e) -> 1 .. Len(e)]
  BY <1>4, SortedEntries
<1>10. \A i \in 1 .. Len(a) : \E k \in 1 .. Len(a) : D[k] = i
  BY <1>5, SortedEntries
<1> HIDE DEF keys, rows, C, D
<1>11. ASSUME NEW i \in DOMAIN keys
       PROVE  \E k \in DOMAIN rows :
                Block(bs, rows[k].value).data = Decode(Block(bs, keys[i].key).data).appearance
  <2>1. PICK j \in 1 .. Len(rs) : Block(bs, keys[i].key).data = Encode(RenditionKey(rs[j]))
    BY <1>4, <1>7, <1>9
  <2>2. Decode(Block(bs, keys[i].key).data).appearance =
          IF rs[j].dark THEN DarkAppearance ELSE AnyAppearance
    BY <1>3, <2>1, DecodesAppearance
  <2>3. PICK m \in 1 .. Len(a) :
          a[m].value.data = IF rs[j].dark THEN DarkAppearance ELSE AnyAppearance
    <3>1. 1 \in 1 .. Len(a) /\ a[1].value.data = AnyAppearance
      BY <1>5 DEF DataBlock
    <3>2. rs[j].dark => 2 \in 1 .. Len(a) /\ a[2].value.data = DarkAppearance
      BY <1>5, <1>6 DEF DataBlock
    <3> QED
      BY <3>1, <3>2
  <2>4. PICK k \in 1 .. Len(a) : D[k] = m
    BY <1>10
  <2> QED
    BY <1>8, <2>2, <2>3, <2>4
<1> QED
  BY <1>1, <1>11 DEF keys, rows

(* The finished catalog has the variables CoreUI asks for in the canonical *)
(* order, and a row in APPEARANCEKEYS for every appearance a stored key    *)
(* mentions.                                                               *)
THEOREM EveryTableComplete == CARSpec => []TablesComplete
<1>1. CatalogInv => TablesComplete
  BY VariablesAreInOrder, AppearancesAreRegistered DEF TablesComplete
<1> QED
  BY <1>1, TablesAreKept, PTL

(* The facet of a kind agrees with the key of a rendition of that kind,    *)
(* unless the rendition is an SVG source.                                  *)
LEMMA FacetAgrees ==
  ASSUME NEW r, IsRendition(r), r.body # "svg"
  PROVE  LET pairs == FacetPairs(FacetKind(r), r.name.hash)
         IN \A a \in DOMAIN pairs : pairs[a] = RenditionKey(r)[a]
<1> DEFINE pairs == FacetPairs(FacetKind(r), r.name.hash)
           key == RenditionKey(r)
           bitmap(p) == [element |-> BitmapElement, part |-> p, identifier |-> r.name.hash]
<1>1. r.body \in {"icon", "image", "color", "jpeg"}
  BY DEF IsRendition, Bodies
<1>2. /\ key.element = IF r.body = "color" THEN 0 ELSE BitmapElement
      /\ key.part = PartOf[r.body] /\ key.identifier = r.name.hash
  BY DEF RenditionKey
<1>3. ASSUME NEW p, pairs = bitmap(p), key.element = BitmapElement, key.part = p
      PROVE  \A a \in DOMAIN pairs : pairs[a] = key[a]
  <2>1. DOMAIN pairs = {"element", "part", "identifier"}
    BY <1>3
  <2>2. /\ pairs.element = key.element /\ pairs.part = key.part
        /\ pairs.identifier = key.identifier
    BY <1>2, <1>3
  <2> QED
    BY <2>1, <2>2
<1>4. CASE r.body = "icon"
  <2>1. pairs = bitmap(PartOf.icon)
    BY <1>4 DEF FacetPairs, FacetKind
  <2>2. key.element = BitmapElement /\ key.part = PartOf.icon
    BY <1>2, <1>4
  <2> HIDE DEF pairs, key
  <2> QED
    BY <1>3, <2>1, <2>2 DEF pairs, key
<1>5. CASE r.body \in {"image", "jpeg"}
  <2>1. pairs = bitmap(PartOf.image)
    BY <1>5 DEF FacetPairs, FacetKind
  <2>2. key.element = BitmapElement /\ key.part = PartOf.image
    BY <1>2, <1>5 DEF PartOf
  <2> HIDE DEF pairs, key
  <2> QED
    BY <1>3, <2>1, <2>2 DEF pairs, key
<1>6. CASE r.body = "color"
  <2>1. pairs = [identifier |-> r.name.hash]
    BY <1>6 DEF FacetPairs, FacetKind
  <2> HIDE DEF key
  <2>2. DOMAIN pairs = {"identifier"} /\ pairs.identifier = key.identifier
    BY <1>2, <2>1
  <2> QED
    BY <2>2 DEF key
<1> QED
  BY <1>1, <1>4, <1>5, <1>6

LEMMA FacetsAgree ==
  ASSUME CatalogInv
  PROVE  FacetsLeadToRenditions
<1> SUFFICES ASSUME Written, NEW i \in DOMAIN renditions,
                    Alike(i), renditions[i].body # "svg"
             PROVE  LET key == RenditionKey(renditions[i])
                        facet == Lookup(blocks, Variable("FACETKEYS"),
                                        renditions[i].name.utf8)
                    IN facet # {} /\ \A f \in facet : \A a \in DOMAIN f.data :
                                       f.data[a] = key[a]
  BY DEF FacetsLeadToRenditions
<1>1. PICK bs, id, rs : bs = blocks /\ id = Variable("FACETKEYS") /\ rs = renditions
  OBVIOUS
<1> DEFINE A == Assets(rs)
           e == FacetEntries(A)
           utf8 == rs[i].name.utf8
           facet == Lookup(bs, id, utf8)
<1>2. IsList(rs) /\ rs \in Inputs /\ TreeHolds(bs, id, e)
  BY <1>1, TablesWritten
<1>3. /\ DOMAIN rs = 1 .. Len(rs) /\ i \in 1 .. Len(rs)
      /\ \A j \in 1 .. Len(rs) : IsRendition(rs[j])
  BY <1>1, <1>2 DEF IsList
<1>4. /\ \A k \in 1 .. Len(A) : \E f \in 1 .. Len(rs) : A[k] = AssetOf(rs, f)
      /\ \E k \in 1 .. Len(A), f \in 1 .. Len(rs) :
           SameName(rs[f].name, rs[i].name) /\ A[k] = AssetOf(rs, f)
  BY <1>2, <1>3, AssetsAre
<1>5. /\ Entries(e) /\ Len(e) = Len(A)
      /\ \A k \in 1 .. Len(A) : e[k].key = A[k].name.utf8 /\ e[k].value = FacetValue(A[k])
  BY <1>2, FacetEntriesAre
<1>6. utf8 \in Str
  BY <1>3, RenditionStrings
<1>7. \A j \in 1 .. Len(rs) : SameName(rs[i].name, rs[j].name) =>
        rs[j].name = rs[i].name /\ FacetKind(rs[j]) = FacetKind(rs[i])
  BY <1>1, <1>3 DEF Alike, Peers
<1> HIDE DEF A, e, utf8
<1>8. /\ \A b \in facet : \E k \in 1 .. Len(e) : e[k].key = utf8 /\ b = e[k].value
      /\ (\E k \in 1 .. Len(e) : e[k].key = utf8) => facet # {}
  BY <1>2, <1>5, <1>6, LookupFinds
<1>9. facet # {}
  <2>1. PICK k \in 1 .. Len(A), f \in 1 .. Len(rs) :
          SameName(rs[f].name, rs[i].name) /\ A[k] = AssetOf(rs, f)
    BY <1>4
  <2>2. A[k].name = rs[i].name
    BY <1>7, <2>1 DEF SameName, AssetOf
  <2>3. e[k].key = utf8
    BY <1>5, <2>2 DEF utf8
  <2> QED
    BY <1>5, <1>8, <2>3
<1>10. ASSUME NEW b \in facet, NEW a \in DOMAIN b.data
       PROVE  b.data[a] = RenditionKey(rs[i])[a]
  <2>1. PICK k \in 1 .. Len(A) : A[k].name.utf8 = utf8 /\ b = FacetValue(A[k])
    BY <1>5, <1>8
  <2>2. PICK f \in 1 .. Len(rs) : A[k] = AssetOf(rs, f)
    BY <1>4
  <2>3. A[k].name = rs[f].name /\ A[k].kind = FacetKind(rs[f])
    BY <2>2 DEF AssetOf
  <2>4. rs[f].name = rs[i].name
    <3>1. rs[f].name.utf8 = rs[i].name.utf8
      BY <2>1, <2>3 DEF utf8
    <3>2. \A p, q \in DOMAIN rs :
            rs[p].name.utf8 = rs[q].name.utf8 => rs[p].name = rs[q].name
      BY <1>2, InputAssumption
    <3> QED
      BY <1>3, <3>1, <3>2
  <2>5. A[k].kind = FacetKind(rs[i]) /\ A[k].name.hash = rs[i].name.hash
    BY <1>7, <2>3, <2>4 DEF SameName
  <2>6. b.data = FacetPairs(FacetKind(rs[i]), rs[i].name.hash)
    BY <2>1, <2>5 DEF FacetValue, DataBlock
  <2>7. IsRendition(rs[i]) /\ rs[i].body # "svg"
    BY <1>1, <1>3
  <2> QED
    BY <1>10, <2>6, <2>7, FacetAgrees
<1> HIDE DEF facet
<1> QED
  BY <1>1, <1>9, <1>10 DEF facet, utf8

(* A lookup by name that starts from the facet is led to a key that agrees *)
(* with every rendition of the asset but an SVG source, if the asset is    *)
(* all of one kind.                                                        *)
THEOREM EveryFacetLeads == CARSpec => []FacetsLeadToRenditions
<1>1. CatalogInv => FacetsLeadToRenditions
  BY FacetsAgree
<1> QED
  BY <1>1, TablesAreKept, PTL

LEMMA DescriptorsAreFound ==
  ASSUME CatalogInv
  PROVE  DescriptorsFound
<1> SUFFICES ASSUME Written, NEW i \in DOMAIN renditions, Alike(i),
                    {j \in DOMAIN renditions \ Peers(i) :
                      renditions[j].name.hash = renditions[i].name.hash} = {},
                    renditions[i].body # "color"
             PROVE  LET mine == {renditions[j] : j \in Peers(i)} IN
                    LookupInline(blocks, Variable("BITMAPKEYS"), renditions[i].name.hash) =
                      {DataBlock(
                         [kind |-> IF \E r \in mine : r.body = "icon" THEN "icon"
                                   ELSE IF \E r \in mine : r.body = "svg" THEN "vector"
                                   ELSE "image",
                          idiomSubtypeCount |-> Cardinality({r.idiom : r \in mine})], 52)}
  BY DEF DescriptorsFound
<1>1. PICK bs, id, rs, peers :
        /\ bs = blocks /\ id = Variable("BITMAPKEYS") /\ rs = renditions
        /\ peers = Peers(i)
  OBVIOUS
<1> DEFINE A == Assets(rs)
           B == BitmapAssets(A)
           e == Descriptors(rs)
           hash == rs[i].name.hash
           found == LookupInline(bs, id, hash)
           mine == {rs[j] : j \in peers}
           Bitmap(k) == Has(A[k].renditions, Bodies \ {"color"})
           wanted == DataBlock(Descriptor(mine), 52)
<1>2. IsList(rs) /\ rs \in Inputs
  BY <1>1, TablesWritten
<1>3. /\ DOMAIN rs = 1 .. Len(rs) /\ i \in 1 .. Len(rs)
      /\ \A j \in 1 .. Len(rs) : IsRendition(rs[j])
  BY <1>1, <1>2 DEF IsList
<1>4. InlineHolds(bs, id, e)
  <2>1. ~ \A j \in 1 .. Len(rs) : rs[j].body = "color"
    BY <1>1, <1>3
  <2>2. BitmapAssets(Assets(rs)) # <<>>
    BY <1>2, <2>1, BitmapsOrColors
  <2> QED
    BY <1>1, <2>2, TablesWritten
<1>5. peers = {j \in 1 .. Len(rs) : SameName(rs[i].name, rs[j].name)}
  BY <1>1, <1>3 DEF Peers
<1>6. \A j \in peers : rs[j].name = rs[i].name
  BY <1>1 DEF Alike
<1>7. \A j \in 1 .. Len(rs) : rs[j].name.hash = hash => j \in peers
  BY <1>1, <1>3
<1>8. hash \in Nat
  BY <1>3, RenditionStrings
<1>9. /\ IsSeq(A) /\ Len(A) \in Nat /\ DOMAIN A = 1 .. Len(A)
      /\ \A k \in 1 .. Len(A) : \E f \in 1 .. Len(rs) : A[k] = AssetOf(rs, f)
      /\ \E k \in 1 .. Len(A), f \in 1 .. Len(rs) :
           SameName(rs[f].name, rs[i].name) /\ A[k] = AssetOf(rs, f)
  BY <1>2, <1>3, AssetsAre
<1>10. /\ InlineEntries(e) /\ Len(e) = Len(B)
       /\ \A k \in 1 .. Len(B) :
            /\ e[k].key = B[k].name.hash
            /\ e[k].value = DataBlock(Descriptor(B[k].renditions), 52)
  BY <1>2, DescriptorsAre
<1> HIDE DEF A
<1>11. /\ \A k \in 1 .. Len(B) : \E l \in 1 .. Len(A) : Bitmap(l) /\ B[k] = A[l]
       /\ \A l \in 1 .. Len(A) : Bitmap(l) => \E k \in 1 .. Len(B) : B[k] = A[l]
  BY <1>9, BitmapAssetsAre
<1> HIDE DEF B, e, hash, mine
<1>12. ASSUME NEW f \in peers PROVE AssetOf(rs, f).renditions = mine
  <2>1. {j \in DOMAIN rs : SameName(rs[j].name, rs[f].name)} = peers
    BY <1>3, <1>5, <1>6, <1>12 DEF SameName
  <2> QED
    BY <2>1 DEF AssetOf, mine
<1>13. /\ \A b \in found : \E k \in 1 .. Len(e) : e[k].key = hash /\ b = e[k].value
       /\ (\E k \in 1 .. Len(e) : e[k].key = hash) => found # {}
  <2> DEFINE Held(b) == \E k \in 1 .. Len(e) : e[k].key = hash /\ b = e[k].value
             there == \E k \in 1 .. Len(e) : e[k].key = hash
  <2>1. InlineEntries(e) /\ InlineHolds(bs, id, e) /\ hash \in Nat
    BY <1>4, <1>8, <1>10
  <2>2. (\A b \in found : Held(b)) /\ (there => found # {})
    BY <2>1, InlineLookupFinds
  <2> QED
    BY <2>2
<1>14. ASSUME NEW b \in found PROVE b = wanted
  <2>1. PICK k \in 1 .. Len(B) :
          B[k].name.hash = hash /\ b = DataBlock(Descriptor(B[k].renditions), 52)
    BY <1>10, <1>13
  <2>2. PICK l \in 1 .. Len(A), f \in 1 .. Len(rs) : B[k] = A[l] /\ A[l] = AssetOf(rs, f)
    BY <1>9, <1>11
  <2>3. B[k].name = rs[f].name /\ B[k].renditions = AssetOf(rs, f).renditions
    BY <2>2 DEF AssetOf
  <2>4. f \in peers
    BY <1>7, <2>1, <2>3
  <2> QED
    BY <1>12, <2>1, <2>3, <2>4
<1>15. found # {}
  <2>1. PICK l \in 1 .. Len(A), f \in 1 .. Len(rs) :
          SameName(rs[f].name, rs[i].name) /\ A[l] = AssetOf(rs, f)
    BY <1>9
  <2>2. f \in peers /\ i \in peers
    BY <1>3, <1>5, <2>1 DEF SameName
  <2>3. A[l].renditions = mine /\ A[l].name.hash = hash
    BY <1>6, <1>12, <2>1, <2>2 DEF AssetOf, hash
  <2>4. Bitmap(l)
    <3>1. rs[i] \in mine
      BY <2>2 DEF mine
    <3>2. rs[i].body \in Bodies \ {"color"}
      BY <1>1, <1>3 DEF IsRendition
    <3> QED
      BY <2>3, <3>1, <3>2 DEF Has
  <2>5. PICK k \in 1 .. Len(B) : B[k] = A[l]
    BY <1>11, <2>4
  <2>6. e[k].key = hash
    BY <1>10, <2>3, <2>5
  <2> QED
    BY <1>10, <1>13, <2>6
<1> HIDE DEF found, wanted
<1>16. found = {wanted}
  BY <1>14, <1>15
<1>17. wanted = DataBlock(
         [kind |-> IF \E r \in mine : r.body = "icon" THEN "icon"
                   ELSE IF \E r \in mine : r.body = "svg" THEN "vector"
                   ELSE "image",
          idiomSubtypeCount |-> Cardinality({r.idiom : r \in mine})], 52)
  BY DEF wanted, Descriptor, InferKind, Has
<1>18. mine = {renditions[j] : j \in Peers(i)}
  BY <1>1 DEF mine
<1> QED
  BY <1>1, <1>16, <1>17, <1>18 DEF found, hash

(* The descriptor found under the identifier of an asset is the one made   *)
(* of all the renditions of that asset, if no other asset shares it.       *)
THEOREM EveryDescriptorFound == CARSpec => []DescriptorsFound
<1>1. CatalogInv => DescriptorsFound
  BY DescriptorsAreFound
<1> QED
  BY <1>1, TablesAreKept, PTL

----------------------------------------------------------------------------
(* Where the blocks are: those of a variable follow those of the one       *)
(* before it, and all of them have a size.                                 *)

LEMMA RenditionsSized ==
  ASSUME NEW rs, IsList(rs), NEW i \in 1 .. Len(rs)
  PROVE  RenditionEntries(rs)[i].value.size \in Nat
<1>1. RenditionEntries(rs)[i].value = CSI(rs[i])
  BY RenditionKeys
<1>2. IsRendition(rs[i])
  BY DEF IsList
<1>3. rs[i].body \in Bodies
  BY <1>2 DEF IsRendition
<1>4. CSISize[rs[i].body] \in Nat
  BY <1>3, CARAssumption
<1>5. CSI(rs[i]).size = CSISize[rs[i].body]
  BY DEF CSI
<1> QED
  BY <1>1, <1>4, <1>5

LEMMA FacetsSized ==
  ASSUME NEW rs, IsList(rs), NEW i \in 1 .. Len(Assets(rs))
  PROVE  FacetEntries(Assets(rs))[i].value.size \in Nat
<1> DEFINE A == Assets(rs)
<1>1. FacetEntries(A)[i].value = FacetValue(A[i])
  BY FacetEntriesAre
<1>2. PICK f \in 1 .. Len(rs) : A[i] = AssetOf(rs, f)
  BY AssetsAre
<1>3. A[i].kind \in {"icon", "color", "image"}
  BY <1>2 DEF AssetOf, FacetKind
<1> DEFINE P == FacetPairs(A[i].kind, A[i].name.hash)
<1>4. DOMAIN P \in SUBSET {"element", "part", "identifier"}
  BY <1>3 DEF FacetPairs
<1> HIDE DEF P
<1>5. IsFiniteSet(DOMAIN P)
  <2> DEFINE none == {}
             one == none \cup {"element"}
             two == one \cup {"part"}
             three == two \cup {"identifier"}
  <2>1. IsFiniteSet(none)
    BY FS_EmptySet
  <2> HIDE DEF none
  <2>2. IsFiniteSet(one)
    BY <2>1, FS_AddElement
  <2> HIDE DEF one
  <2>3. IsFiniteSet(two)
    BY <2>2, FS_AddElement
  <2> HIDE DEF two
  <2>4. IsFiniteSet(three)
    BY <2>3, FS_AddElement
  <2>5. DOMAIN P \in SUBSET three
    BY <1>4 DEF none, one, two
  <2> HIDE DEF three
  <2> QED
    BY <2>4, <2>5, FS_Subset
<1>6. PICK n \in Nat : n = Cardinality(DOMAIN P)
  BY <1>5, FS_CardinalityType
<1>7. FacetValue(A[i]).size = 6 + 4 * Cardinality(DOMAIN P)
  BY DEF FacetValue, DataBlock, P
<1> QED
  BY <1>1, <1>6, <1>7

LEMMA AppearancesSized ==
  ASSUME NEW used, NEW i \in 1 .. Len(AppearanceEntries(used))
  PROVE  AppearanceEntries(used)[i].value.size \in Nat
<1> DEFINE e == AppearanceEntries(used)
<1>1. /\ Len(e) \in {1, 2} /\ e[1] = [key |-> AnyName, value |-> DataBlock(AnyAppearance, 2)]
      /\ Len(e) = 2 => e[2] = [key |-> DarkName, value |-> DataBlock(DarkAppearance, 2)]
  <2>1. CASE DarkAppearance \in used
    BY <2>1, AppearanceKeys
  <2>2. CASE DarkAppearance \notin used
    <3>1. e = <<[key |-> AnyName, value |-> DataBlock(AnyAppearance, 2)]>> \o <<>>
      BY <2>2 DEF AppearanceEntries
    <3> DEFINE any == [key |-> AnyName, value |-> DataBlock(AnyAppearance, 2)]
    <3>2. e = <<any>>
      BY <3>1
    <3> HIDE DEF any, e
    <3>3. Len(e) = 1
      BY <3>2
    <3> QED
      BY <3>3, AppearanceKeys DEF e
  <2> QED
    BY <2>1, <2>2
<1>2. i = 1 \/ (i = 2 /\ Len(e) = 2)
  <2>1. PICK n \in {1, 2} : n = Len(e)
    BY <1>1
  <2> HIDE DEF e
  <2>2. i \in 1 .. n
    BY <2>1 DEF e
  <2>3. CASE n = 1
    BY <2>2, <2>3
  <2>4. CASE n = 2
    BY <2>1, <2>2, <2>4
  <2> QED
    BY <2>1, <2>3, <2>4
<1> QED
  BY <1>1, <1>2 DEF DataBlock

LEMMA DescriptorsSized ==
  ASSUME NEW rs, IsList(rs), NEW i \in 1 .. Len(BitmapAssets(Assets(rs)))
  PROVE  Descriptors(rs)[i].value.size \in Nat
<1> DEFINE B == BitmapAssets(Assets(rs))
<1>1. Descriptors(rs)[i].value = DataBlock(Descriptor(B[i].renditions), 52)
  BY DescriptorsAre
<1> QED
  BY <1>1 DEF DataBlock

(* The last block of the n-th variable, when the trees have a, b, c and d  *)
(* entries: one block for each variable, two for each entry and one for    *)
(* the leaf of a tree whose keys are blocks, one for each inline entry.    *)
Ends(n, a, b, c, d) ==
  n + (IF n >= 2 THEN 2 * a + 1 ELSE 0) + (IF n >= 3 THEN 2 * b + 1 ELSE 0)
    + (IF n >= 4 THEN 2 * c + 1 ELSE 0) + (IF n >= 7 THEN d + 1 ELSE 0)

LastOf(n, rs) ==
  Ends(n, Len(rs), Len(Assets(rs)), Len(AppearanceEntries(UsedAppearances(rs))),
       Len(BitmapAssets(Assets(rs))))

SpanInv ==
  /\ Sized(blocks)
  /\ \A i \in 1 .. Len(variables) :
       /\ variables[i].name.size \in Nat
       /\ variables[i].blockID = LastOf(i, renditions)
  /\ Len(blocks) = 1 + LastOf(Len(variables), renditions)

LEMMA EntryCounts ==
  ASSUME NEW rs, IsList(rs)
  PROVE  /\ Len(rs) \in Nat /\ Len(Assets(rs)) \in Nat
         /\ Len(AppearanceEntries(UsedAppearances(rs))) \in Nat
         /\ Len(BitmapAssets(Assets(rs))) \in Nat
         /\ Len(RenditionEntries(rs)) = Len(rs)
         /\ Len(FacetEntries(Assets(rs))) = Len(Assets(rs))
         /\ Len(Descriptors(rs)) = Len(BitmapAssets(Assets(rs)))
<1>1. Len(rs) \in Nat /\ Len(Assets(rs)) \in Nat /\ IsSeq(Assets(rs))
      /\ DOMAIN Assets(rs) = 1 .. Len(Assets(rs))
  BY AssetsAre DEF IsList
<1>2. Len(BitmapAssets(Assets(rs))) \in Nat
  BY <1>1, BitmapAssetsAre
<1>3. Len(AppearanceEntries(UsedAppearances(rs))) \in Nat
  BY AppearanceKeys DEF Entries
<1> QED
  BY <1>1, <1>2, <1>3, RenditionKeys, FacetEntriesAre, DescriptorsAre

(* How far each variable is from the one before it.                        *)
LEMMA EndsGrow ==
  ASSUME NEW a \in Nat, NEW b \in Nat, NEW c \in Nat, NEW d \in Nat
  PROVE  /\ Ends(0, a, b, c, d) = 0 /\ Ends(1, a, b, c, d) = 1
         /\ Ends(2, a, b, c, d) = Ends(1, a, b, c, d) + 2 * a + 2
         /\ Ends(3, a, b, c, d) = Ends(2, a, b, c, d) + 2 * b + 2
         /\ Ends(4, a, b, c, d) = Ends(3, a, b, c, d) + 2 * c + 2
         /\ Ends(5, a, b, c, d) = Ends(4, a, b, c, d) + 1
         /\ Ends(6, a, b, c, d) = Ends(5, a, b, c, d) + 1
         /\ Ends(7, a, b, c, d) = Ends(6, a, b, c, d) + d + 2
         /\ \A i \in 0 .. 7 : Ends(i, a, b, c, d) \in Nat
         /\ \A i, j \in 0 .. 7 : i < j => Ends(i, a, b, c, d) < Ends(j, a, b, c, d)
BY DEF Ends

LEMMA LastGrows ==
  ASSUME NEW rs, IsList(rs)
  PROVE  /\ LastOf(0, rs) = 0 /\ LastOf(1, rs) = 1
         /\ LastOf(2, rs) = LastOf(1, rs) + 2 * Len(rs) + 2
         /\ LastOf(3, rs) = LastOf(2, rs) + 2 * Len(Assets(rs)) + 2
         /\ LastOf(4, rs) = LastOf(3, rs) + 2 * Len(AppearanceEntries(UsedAppearances(rs))) + 2
         /\ LastOf(5, rs) = LastOf(4, rs) + 1
         /\ LastOf(6, rs) = LastOf(5, rs) + 1
         /\ LastOf(7, rs) = LastOf(6, rs) + Len(BitmapAssets(Assets(rs))) + 2
         /\ \A i \in 0 .. 7 : LastOf(i, rs) \in Nat
         /\ \A i, j \in 0 .. 7 : i < j => LastOf(i, rs) < LastOf(j, rs)
<1>1. PICK a, b, c, d \in Nat :
        /\ a = Len(rs) /\ b = Len(Assets(rs)) /\ d = Len(BitmapAssets(Assets(rs)))
        /\ c = Len(AppearanceEntries(UsedAppearances(rs)))
  BY EntryCounts
<1> DEFINE E(n) == Ends(n, a, b, c, d)
<1>2. \A n : LastOf(n, rs) = E(n)
  BY <1>1 DEF LastOf
<1>3. /\ E(0) = 0 /\ E(1) = 1
      /\ E(2) = E(1) + 2 * a + 2 /\ E(3) = E(2) + 2 * b + 2 /\ E(4) = E(3) + 2 * c + 2
      /\ E(5) = E(4) + 1 /\ E(6) = E(5) + 1 /\ E(7) = E(6) + d + 2
      /\ \A i \in 0 .. 7 : E(i) \in Nat
      /\ \A i, j \in 0 .. 7 : i < j => E(i) < E(j)
  BY EndsGrow
<1> HIDE DEF E
<1>4. /\ LastOf(0, rs) = 0 /\ LastOf(1, rs) = 1
      /\ LastOf(2, rs) = LastOf(1, rs) + 2 * a + 2
      /\ LastOf(3, rs) = LastOf(2, rs) + 2 * b + 2
      /\ LastOf(4, rs) = LastOf(3, rs) + 2 * c + 2
      /\ LastOf(5, rs) = LastOf(4, rs) + 1
      /\ LastOf(6, rs) = LastOf(5, rs) + 1
      /\ LastOf(7, rs) = LastOf(6, rs) + d + 2
  BY <1>2, <1>3
<1>5. /\ \A i \in 0 .. 7 : LastOf(i, rs) \in Nat
      /\ \A i, j \in 0 .. 7 : i < j => LastOf(i, rs) < LastOf(j, rs)
  BY <1>2, <1>3
<1> QED
  BY <1>1, <1>4, <1>5

(* A table more, with as many blocks as its entries need.                  *)
LEMMA EmitSpans ==
  ASSUME CatalogInv, SpanInv, NEW new, NEW name, NEW next, Emit(name, new, next),
         Len(variables) < 7, name.size \in Nat, Sized(new), IsSeq(new),
         Len(new) = 1 + LastOf(Len(variables) + 1, renditions)
  PROVE  SpanInv'
<1>1. PICK vs, rs : vs = variables /\ rs = renditions
  OBVIOUS
<1> DEFINE v == [name |-> name, blockID |-> LastID(new)]
           ws == Append(vs, v)
<1>2. blocks' = new /\ variables' = ws /\ renditions' = rs
  BY <1>1 DEF Emit
<1>3. /\ IsSeq(vs) /\ Len(vs) \in 0 .. 7 /\ Len(vs) < 7 /\ rs \in Inputs
      /\ \A i \in 1 .. Len(vs) : vs[i].name.size \in Nat /\ vs[i].blockID = LastOf(i, rs)
      /\ Len(new) = 1 + LastOf(Len(vs) + 1, rs)
  BY <1>1 DEF CatalogInv, TablesHold, SpanInv
<1>4. v.name.size \in Nat /\ v.blockID = Len(new) - 1
  BY DEF LastID
<1> HIDE DEF v
<1>5. Len(ws) = Len(vs) + 1 /\ ws[Len(vs) + 1] = v /\ \A i \in 1 .. Len(vs) : ws[i] = vs[i]
  BY <1>3, AppendSeq DEF Extends
<1> HIDE DEF ws
<1>6. PICK n \in 0 .. 6 : n = Len(vs)
  <2>1. PICK n \in 0 .. 7 : n = Len(vs)
    BY <1>3
  <2>2. n < 7
    BY <1>3, <2>1
  <2>3. n \in 0 .. 6
    BY <2>2
  <2> QED
    BY <2>1, <2>3
<1>7. v.blockID = LastOf(n + 1, rs)
  <2>1. n + 1 \in 0 .. 7
    OBVIOUS
  <2>2. PICK k \in Nat : k = LastOf(n + 1, rs)
    BY <1>3, <2>1, InputsAreLists, LastGrows
  <2>3. Len(new) = 1 + k
    BY <1>3, <1>6, <2>2
  <2> QED
    BY <1>4, <2>2, <2>3
<1>8. ASSUME NEW i \in 1 .. n + 1
      PROVE  ws[i].name.size \in Nat /\ ws[i].blockID = LastOf(i, rs)
  <2>1. CASE i = n + 1
    BY <1>4, <1>5, <1>6, <1>7, <2>1
  <2>2. CASE i # n + 1
    <3>1. i \in 1 .. n
      BY <2>2
    <3> QED
      BY <1>3, <1>5, <1>6, <3>1
  <2> QED
    BY <2>1, <2>2
<1> QED
  BY <1>2, <1>3, <1>5, <1>6, <1>8 DEF SpanInv

LEMMA EveryStepKeepsSpans ==
  ASSUME CatalogInv, SpanInv, [CARNext]_carVars
  PROVE  SpanInv'
<1> DEFINE n == Len(variables)
           rs == renditions
<1>1. /\ rs \in Inputs /\ InSection(section, n, rs) /\ IsSeq(blocks) /\ Sized(blocks)
      /\ Len(blocks) = 1 + LastOf(n, rs)
  BY DEF CatalogInv, TablesHold, SpanInv
<1>2. IsList(rs)
  BY <1>1, InputsAreLists
<1>a. /\ LastOf(0, rs) = 0 /\ LastOf(1, rs) = 1
      /\ LastOf(2, rs) = LastOf(1, rs) + 2 * Len(rs) + 2
      /\ LastOf(3, rs) = LastOf(2, rs) + 2 * Len(Assets(rs)) + 2
      /\ LastOf(4, rs) = LastOf(3, rs) + 2 * Len(AppearanceEntries(UsedAppearances(rs))) + 2
      /\ LastOf(5, rs) = LastOf(4, rs) + 1
      /\ LastOf(6, rs) = LastOf(5, rs) + 1
      /\ LastOf(7, rs) = LastOf(6, rs) + Len(BitmapAssets(Assets(rs))) + 2
      /\ \A i \in 0 .. 7 : LastOf(i, rs) \in Nat
  BY <1>2, LastGrows
<1>b. /\ Len(rs) \in Nat /\ Len(Assets(rs)) \in Nat
      /\ Len(AppearanceEntries(UsedAppearances(rs))) \in Nat
      /\ Len(BitmapAssets(Assets(rs))) \in Nat
      /\ Len(RenditionEntries(rs)) = Len(rs)
      /\ Len(FacetEntries(Assets(rs))) = Len(Assets(rs))
      /\ Len(Descriptors(rs)) = Len(BitmapAssets(Assets(rs)))
  BY <1>2, EntryCounts
<1>3. ASSUME NEW b, b.size \in Nat
      PROVE  LET new == Append(blocks, b)
             IN Sized(new) /\ IsSeq(new) /\ Len(new) = Len(blocks) + 1
  <2> DEFINE new == Append(blocks, b)
  <2>1. /\ Extends(new, blocks) /\ Len(new) = Len(blocks) + 1 /\ Len(blocks) \in Nat
        /\ new[Len(blocks) + 1] = b
    BY <1>1, AppendSeq
  <2> HIDE DEF new
  <2>2. ASSUME NEW i \in 1 .. Len(new) PROVE new[i].size \in Nat
    <3>1. CASE i = Len(blocks) + 1
      BY <1>3, <2>1, <3>1
    <3>2. CASE i # Len(blocks) + 1
      <4>1. i \in 1 .. Len(blocks)
        BY <2>1, <3>2
      <4>2. new[i] = blocks[i]
        BY <2>1, <4>1 DEF Extends
      <4> QED
        BY <1>1, <4>1, <4>2 DEF Sized
    <3> QED
      BY <3>1, <3>2
  <2> QED
    BY <2>1, <2>2 DEF Sized, Extends, new
<1>c. ASSUME NEW name, NEW next, NEW b, Emit(name, Append(blocks, b), next),
             b.size \in Nat, name.size \in Nat, n \in {0, 4, 5}
      PROVE  SpanInv'
  <2>1. PICK new : new = Append(blocks, b)
    OBVIOUS
  <2>2. Sized(new) /\ IsSeq(new) /\ Len(new) = Len(blocks) + 1
    BY <1>3, <1>c, <2>1
  <2>3. PICK m \in {0, 4, 5} : m = n
    BY <1>c
  <2>4. PICK k \in Nat, l \in Nat : k = LastOf(m, rs) /\ l = LastOf(m + 1, rs) /\ l = k + 1
    <3>1. LastOf(0, rs) \in Nat /\ LastOf(4, rs) \in Nat /\ LastOf(5, rs) \in Nat
      BY <1>a
    <3>2. /\ 0 + 1 = 1 /\ 4 + 1 = 5 /\ 5 + 1 = 6 /\ LastOf(1, rs) = LastOf(0, rs) + 1
      BY <1>a
    <3>3. LastOf(m, rs) \in Nat /\ LastOf(m + 1, rs) = LastOf(m, rs) + 1
      BY <1>a, <3>1, <3>2
    <3> QED
      BY <3>3
  <2>5. Len(new) = 1 + LastOf(n + 1, rs)
    <3>1. Len(new) = 1 + l
      BY <1>1, <2>2, <2>3, <2>4
    <3> QED
      BY <2>3, <2>4, <3>1
  <2>6. n < 7
    <3>1. m < 7
      OBVIOUS
    <3> QED
      BY <2>3, <3>1
  <2> QED
    BY <1>c, <2>1, <2>2, <2>5, <2>6, EmitSpans
<1>d. ASSUME NEW name, NEW next, NEW e, Emit(name, Insert(blocks, e), next),
             name.size \in Nat, n \in {1, 2, 3}, Entries(e),
             \A i \in 1 .. Len(e) : e[i].value.size \in Nat,
             LastOf(n + 1, rs) = LastOf(n, rs) + 2 * Len(e) + 2
      PROVE  SpanInv'
  <2>1. PICK new, bs : new = Insert(bs, e) /\ bs = blocks
    OBVIOUS
  <2>2. Sized(new) /\ IsSeq(new) /\ Len(new) = Len(bs) + 2 * Len(e) + 2
    <3>1. IsSeq(bs) /\ Sized(bs)
      BY <1>1, <2>1
    <3> QED
      BY <1>d, <2>1, <3>1, InsertHolds DEF Extends
  <2>3. PICK m \in {1, 2, 3} : m = n
    BY <1>d
  <2>4. PICK k, c \in Nat : k = LastOf(n, rs) /\ c = Len(e)
    <3>1. m \in 0 .. 7 /\ Len(e) \in Nat
      BY <1>d DEF Entries
    <3>2. LastOf(m, rs) \in Nat
      BY <1>a, <3>1
    <3> QED
      BY <2>3, <3>1, <3>2
  <2>5. Len(new) = 1 + LastOf(n + 1, rs)
    <3>1. Len(new) = (1 + k) + 2 * c + 2 /\ LastOf(n + 1, rs) = k + 2 * c + 2
      BY <1>1, <1>d, <2>1, <2>2, <2>4
    <3> QED
      BY <3>1
  <2>6. n < 7
    <3>1. m < 7
      OBVIOUS
    <3> QED
      BY <2>3, <3>1
  <2> QED
    BY <1>d, <2>1, <2>2, <2>5, <2>6, EmitSpans
<1>4. CASE WriteCARHeader
  <2> DEFINE b == DataBlock([renditionCount |-> Len(renditions)], 436)
             name == VariableName("CARHEADER", 9)
  <2>1. n = 0 /\ b.size \in Nat /\ name.size \in Nat
    BY <1>1, <1>4 DEF WriteCARHeader, InSection, DataBlock, VariableName
  <2>2. Emit(name, Append(blocks, b), "RENDITIONS")
    BY <1>4 DEF WriteCARHeader
  <2> HIDE DEF b, name
  <2> QED
    BY <1>c, <2>1, <2>2
<1>5. CASE WriteRenditions
  <2> DEFINE e == RenditionEntries(rs)
             name == VariableName("RENDITIONS", 10)
  <2>1. n = 1 /\ name.size \in Nat
    BY <1>1, <1>5 DEF WriteRenditions, InSection, VariableName
  <2>2. Emit(name, Insert(blocks, e), "FACETKEYS")
    BY <1>5 DEF WriteRenditions
  <2>3. Entries(e) /\ \A i \in 1 .. Len(e) : e[i].value.size \in Nat
    BY <1>2, <1>b, RenditionKeys, RenditionsSized
  <2>4. LastOf(n + 1, rs) = LastOf(n, rs) + 2 * Len(e) + 2
    BY <1>a, <1>b, <2>1
  <2> HIDE DEF e, name
  <2> QED
    BY <1>d, <2>1, <2>2, <2>3, <2>4
<1>6. CASE WriteFacetKeys
  <2> DEFINE e == FacetEntries(Assets(rs))
             name == VariableName("FACETKEYS", 9)
  <2>1. n = 2 /\ name.size \in Nat
    BY <1>1, <1>6 DEF WriteFacetKeys, InSection, VariableName
  <2>2. Emit(name, Insert(blocks, e), "APPEARANCEKEYS")
    BY <1>6 DEF WriteFacetKeys
  <2>3. Entries(e) /\ \A i \in 1 .. Len(e) : e[i].value.size \in Nat
    BY <1>2, <1>b, FacetEntriesAre, FacetsSized
  <2>4. LastOf(n + 1, rs) = LastOf(n, rs) + 2 * Len(e) + 2
    BY <1>a, <1>b, <2>1
  <2> HIDE DEF e, name
  <2> QED
    BY <1>d, <2>1, <2>2, <2>3, <2>4
<1>7. CASE WriteAppearanceKeys
  <2> DEFINE e == AppearanceEntries(UsedAppearances(rs))
             name == VariableName("APPEARANCEKEYS", 14)
  <2>1. n = 3 /\ name.size \in Nat
    BY <1>1, <1>7 DEF WriteAppearanceKeys, InSection, VariableName
  <2>2. Emit(name, Insert(blocks, e), "KEYFORMAT")
    BY <1>7 DEF WriteAppearanceKeys
  <2>3. Entries(e) /\ \A i \in 1 .. Len(e) : e[i].value.size \in Nat
    BY AppearanceKeys, AppearancesSized
  <2>4. LastOf(n + 1, rs) = LastOf(n, rs) + 2 * Len(e) + 2
    BY <1>a, <1>b, <2>1
  <2> HIDE DEF e, name
  <2> QED
    BY <1>d, <2>1, <2>2, <2>3, <2>4
<1>8. CASE WriteKeyFormat
  <2> DEFINE b == DataBlock(KeyFormat, 12 + 4 * Len(KeyFormat))
             name == VariableName("KEYFORMAT", 9)
  <2>1. n = 4 /\ b.size \in Nat /\ name.size \in Nat
    <3>1. Len(KeyFormat) = 9
      BY DEF KeyFormat
    <3> QED
      BY <1>1, <1>8, <3>1 DEF WriteKeyFormat, InSection, DataBlock, VariableName
  <2>2. Emit(name, Append(blocks, b), "EXTENDED_METADATA")
    BY <1>8 DEF WriteKeyFormat
  <2> HIDE DEF b, name
  <2> QED
    BY <1>c, <2>1, <2>2
<1>9. CASE WriteExtendedMetadata
  <2> DEFINE b == DataBlock("deploymentTarget", 1028)
             name == VariableName("EXTENDED_METADATA", 17)
  <2>1. n = 5
    <3>1. section = "EXTENDED_METADATA"
      BY <1>9 DEF WriteExtendedMetadata
    <3> QED
      BY <1>1, <3>1 DEF InSection
  <2>2. b.size \in Nat /\ name.size \in Nat
    BY DEF DataBlock, VariableName
  <2>3. Emit(name, Append(blocks, b), "BITMAPKEYS")
    BY <1>9 DEF WriteExtendedMetadata
  <2> HIDE DEF b, name
  <2> QED
    BY <1>c, <2>1, <2>2, <2>3
<1>10. CASE WriteBitmapKeys
  <2>1. n = 6
    BY <1>1, <1>10 DEF WriteBitmapKeys, InSection
  <2>2. PICK new, bs, e, name : /\ new = InsertInlineKey(bs, e) /\ bs = blocks
                                /\ e = Descriptors(rs) /\ name = VariableName("BITMAPKEYS", 10)
    OBVIOUS
  <2>3. Emit(name, new, "finalize") /\ name.size \in Nat
    BY <1>10, <2>2 DEF WriteBitmapKeys, Descriptors, VariableName
  <2>4. InlineEntries(e) /\ \A i \in 1 .. Len(e) : e[i].value.size \in Nat
    BY <1>2, <1>b, <2>2, DescriptorsAre, DescriptorsSized
  <2>5. Sized(new) /\ IsSeq(new) /\ Len(new) = Len(bs) + Len(e) + 2
    <3>1. IsSeq(bs) /\ Sized(bs)
      BY <1>1, <2>2
    <3> QED
      BY <2>2, <2>4, <3>1, InsertInlineHolds DEF Extends
  <2>6. PICK k, d \in Nat : k = LastOf(6, rs) /\ d = Len(e)
    <3>1. 6 \in 0 .. 7 /\ Len(e) \in Nat
      BY <2>4 DEF InlineEntries
    <3>2. LastOf(6, rs) \in Nat
      BY <1>a, <3>1
    <3> QED
      BY <3>1, <3>2
  <2>7. Len(new) = 1 + LastOf(n + 1, rs)
    <3>1. LastOf(7, rs) = k + d + 2
      BY <1>a, <1>b, <2>2, <2>6
    <3>2. Len(new) = (1 + k) + d + 2
      BY <1>1, <2>1, <2>2, <2>5, <2>6
    <3>3. Len(new) = 1 + LastOf(7, rs)
      BY <3>1, <3>2
    <3> QED
      BY <2>1, <3>3
  <2>8. n < 7
    BY <2>1
  <2> QED
    BY <2>3, <2>5, <2>7, <2>8, EmitSpans
<1>11. CASE UNCHANGED <<renditions, blocks, variables>>
  BY <1>11 DEF SpanInv, Sized
<1>12. CASE SkipBitmapKeys \/ CountTraps \/ Finished \/ UNCHANGED carVars
  BY <1>11, <1>12 DEF SkipBitmapKeys, CountTraps, Finished, carVars
<1>13. CASE Finalize
  BY <1>11, <1>13 DEF Finalize, BOM!WriteHeader, BOM!Finalizing, BOM!PackBlock, BOM!WriteIndex,
    BOM!WriteVariable, BOM!PatchHeader, BOM!Trap
<1> QED
  BY <1>4, <1>5, <1>6, <1>7, <1>8, <1>9, <1>10, <1>12, <1>13 DEF CARNext

----------------------------------------------------------------------------
(* The container: finalize() lays out the blocks of a catalog as it does   *)
(* those of any client, so that what is proved of it can be used here.     *)

File == INSTANCE BOMWriterProofs WITH
  Payloads <- {}, VarNames <- {}, MaxBlocks <- 0, MaxVars <- 0, MaxName <- 255

FileInv ==
  /\ CatalogInv
  /\ SpanInv
  /\ File!IInv
  /\ phase = "building" => named = 0

(* Every variable names a block, and none names block 0.                   *)
LEMMA IdsExist ==
  ASSUME NEW rs \in Inputs, NEW bs, NEW vs, Len(vs) \in 0 .. 7,
         \A i \in 1 .. Len(vs) : vs[i].blockID = LastOf(i, rs),
         Len(bs) = 1 + LastOf(Len(vs), rs),
         NEW i \in 1 .. Len(vs)
  PROVE  vs[i].blockID \in 1 .. Len(bs) - 1
<1>2. IsList(rs)
  BY InputsAreLists
<1>3. PICK n \in 0 .. 7 : n = Len(vs)
  OBVIOUS
<1>4. i \in 1 .. n /\ i \in 0 .. 7 /\ 0 \in 0 .. 7 /\ (i = n \/ i < n) /\ 0 < i
  BY <1>3
<1>5. PICK k \in Nat, l \in Nat : k = LastOf(i, rs) /\ l = LastOf(n, rs)
  BY <1>2, <1>3, <1>4, LastGrows
<1>6. k <= l
  <2>1. CASE i = n
    BY <1>5, <2>1
  <2>2. CASE i < n
    <3>1. k < l
      BY <1>2, <1>3, <1>4, <1>5, <2>2, LastGrows
    <3> QED
      BY <3>1
  <2> QED
    BY <1>4, <2>1, <2>2
<1>7. 0 < k
  <2>1. LastOf(0, rs) = 0 /\ LastOf(0, rs) < LastOf(i, rs)
    BY <1>2, <1>4, LastGrows
  <2> QED
    BY <1>5, <2>1
<1>8. Len(bs) = 1 + l /\ vs[i].blockID = k
  BY <1>3, <1>5
<1> QED
  BY <1>6, <1>7, <1>8

LEMMA NewFile ==
  ASSUME CARInit
  PROVE  FileInv
<1>1. CatalogInv
  BY NothingWritten
<1>2. /\ blocks = <<BOM!NullBlock>> /\ variables = <<>> /\ named = 0
      /\ Len(blocks) = 1 /\ blocks[1].size = 0 /\ Len(variables) = 0
  BY DEF CARInit, BOM!BOMInit, BOM!NullBlock
<1>3. SpanInv
  <2>1. LastOf(0, renditions) = 0
    BY <1>1, InputsAreLists, LastGrows DEF CatalogInv
  <2> QED
    BY <1>2, <2>1 DEF SpanInv, Sized
<1>4. File!BOMInit
  BY DEF CARInit, BOM!BOMInit, File!BOMInit, BOM!NullBlock, File!NullBlock,
         BOM!NullHeader, File!NullHeader
<1>5. File!IInv
  BY <1>4, File!InitIInv, CARAssumption
<1> QED
  BY <1>1, <1>2, <1>3, <1>5 DEF FileInv

(* While tables are written the container has placed nothing.              *)
LEMMA TablesFit ==
  ASSUME File!IInv, CatalogInv', SpanInv', phase = "building", named = 0, UNCHANGED bomRest
  PROVE  File!IInv'
<1>1. /\ UNCHANGED <<phase, offset, placed, index, named, header>>
      /\ File!TypeInv /\ File!PackInv /\ phase \in File!Phase
      /\ offset \in Nat /\ placed \in Seq(0 .. MaxU32)
      /\ header \in [indexOffset : 0 .. MaxU32, indexLength : 0 .. MaxU32,
                     varsOffset : 0 .. MaxU32, varsLength : 0 .. MaxU32]
  BY DEF File!IInv, File!TypeInv, File!BOMTypeOK, bomRest
<1>2. /\ IsSeq(blocks') /\ IsSeq(variables') /\ DOMAIN variables' = 1 .. Len(variables')
      /\ Len(variables') \in 0 .. 7
  BY DEF CatalogInv, TablesHold
<1>3. DOMAIN blocks' = 1 .. Len(blocks') /\ Len(blocks') \in Nat
  BY <1>2, SomeSeq DEF IsSeq
<1>4. /\ \A i \in 1 .. Len(blocks') : blocks'[i].size \in Nat
      /\ \A i \in 1 .. Len(variables') : variables'[i].name.size \in Nat
  BY DEF SpanInv, Sized
<1>5. \A i \in 1 .. Len(variables') : variables'[i].blockID \in 1 .. Len(blocks') - 1
  <2>1. PICK rs, bs, vs : rs = renditions' /\ bs = blocks' /\ vs = variables'
    OBVIOUS
  <2>2. /\ rs \in Inputs /\ Len(vs) \in 0 .. 7 /\ Len(bs) = 1 + LastOf(Len(vs), rs)
        /\ \A i \in 1 .. Len(vs) : vs[i].blockID = LastOf(i, rs)
    BY <1>2, <2>1 DEF CatalogInv, SpanInv
  <2>3. \A i \in 1 .. Len(vs) : vs[i].blockID \in 1 .. Len(bs) - 1
    BY <2>2, IdsExist
  <2> QED
    BY <2>1, <2>3
<1>6. \A i \in 1 .. Len(variables') : variables'[i].blockID \in 0 .. Len(blocks') - 1
  BY <1>3, <1>5
<1>7. named' \in 0 .. Len(variables')
  BY <1>1, <1>2
<1>8. File!TypeInv'
  BY <1>1, <1>2, <1>3, <1>4, <1>6, <1>7 DEF File!TypeInv, File!BOMTypeOK, File!IsSeq, IsSeq, File!Phase
<1>9. 1 <= Len(blocks')
  <2>1. PICK rs, n : rs = renditions' /\ n = Len(variables')
    OBVIOUS
  <2>2. n \in 0 .. 7 /\ rs \in Inputs
    BY <1>2, <2>1 DEF CatalogInv
  <2>3. LastOf(n, rs) \in Nat
    BY <2>2, InputsAreLists, LastGrows
  <2>4. Len(blocks') = 1 + LastOf(n, rs)
    BY <2>1 DEF SpanInv
  <2> QED
    BY <2>3, <2>4
<1>10. placed = <<>> /\ placed' = <<>>
  BY <1>1 DEF File!PackInv
<1>11. File!PackInv' /\ File!BlocksDisjoint' /\ File!IndexInv'
  BY <1>1, <1>9, <1>10 DEF File!PackInv, File!BlocksDisjoint, File!IndexInv
<1> QED
  BY <1>8, <1>11 DEF File!IInv

LEMMA EveryStepKeepsFile ==
  ASSUME FileInv, [CARNext]_carVars
  PROVE  FileInv'
<1>1. CatalogInv /\ SpanInv /\ File!IInv /\ (phase = "building" => named = 0)
  BY DEF FileInv
<1>2. CatalogInv' /\ SpanInv'
  BY <1>1, EveryStepKeepsTables, EveryStepKeepsSpans
<1>3. CASE UNCHANGED bomRest /\ phase = "building"
  <2>1. File!IInv'
    BY <1>1, <1>2, <1>3, TablesFit
  <2> QED
    BY <1>1, <1>2, <1>3, <2>1 DEF FileInv, bomRest
<1>4. CASE Finalize
  <2>1. File!BOMNext
    BY <1>4 DEF Finalize, File!BOMNext, BOM!Finalizing, File!Finalizing,
       BOM!WriteHeader, File!WriteHeader, BOM!HeaderSize, File!HeaderSize,
       BOM!PackBlock, File!PackBlock, BOM!Fits, File!Fits,
       BOM!WriteIndex, File!WriteIndex, BOM!IndexSize, File!IndexSize,
       BOM!WriteVariable, File!WriteVariable, BOM!PatchHeader, File!PatchHeader,
       BOM!Trap, File!Trap, BOM!MustTrap, File!MustTrap
  <2>2. File!TypeInv'
    BY <1>1, <2>1, File!StepTypeInv, CARAssumption
  <2>3. File!PackInv' /\ File!BlocksDisjoint'
    BY <1>1, <2>1, <2>2, File!StepLayout, CARAssumption
  <2>4. File!IndexInv'
    BY <1>1, <2>1, File!StepIndex, CARAssumption
  <2>5. phase' # "building"
    BY <1>4 DEF Finalize, BOM!Finalizing, BOM!WriteHeader, BOM!PackBlock, BOM!WriteIndex,
       BOM!WriteVariable, BOM!PatchHeader, BOM!Trap
  <2> QED
    BY <1>2, <2>2, <2>3, <2>4, <2>5 DEF FileInv, File!IInv
<1>5. CASE Finished \/ UNCHANGED carVars
  <2>1. UNCHANGED <<blocks, variables, phase, offset, placed, index, named, header>>
    BY <1>5 DEF Finished, carVars, bomRest
  <2>2. File!TypeInv' /\ File!PackInv' /\ File!BlocksDisjoint' /\ File!IndexInv'
    BY <1>1, <2>1 DEF File!IInv, File!TypeInv, File!BOMTypeOK, File!PackInv,
       File!BlocksDisjoint, File!IndexInv, File!IsSeq, File!IndexSize
  <2> QED
    BY <1>1, <1>2, <2>1, <2>2 DEF FileInv, File!IInv
<1>6. CASE \/ WriteCARHeader \/ WriteRenditions \/ WriteFacetKeys
           \/ WriteAppearanceKeys \/ WriteKeyFormat \/ WriteExtendedMetadata
           \/ WriteBitmapKeys \/ SkipBitmapKeys \/ CountTraps
  <2> DEFINE Kept == UNCHANGED bomRest /\ section # "finalize"
  <2>1. Kept
    <3>1. WriteCARHeader \/ WriteRenditions \/ WriteFacetKeys => Kept
      BY DEF WriteCARHeader, WriteRenditions, WriteFacetKeys, Emit
    <3>2. WriteAppearanceKeys \/ WriteKeyFormat \/ WriteExtendedMetadata => Kept
      BY DEF WriteAppearanceKeys, WriteKeyFormat, WriteExtendedMetadata, Emit
    <3>3. WriteBitmapKeys \/ SkipBitmapKeys \/ CountTraps => Kept
      BY DEF WriteBitmapKeys, SkipBitmapKeys, CountTraps, Emit
    <3> QED
      BY <1>6, <3>1, <3>2, <3>3
  <2>2. phase = "building"
    BY <1>1, <2>1 DEF CatalogInv
  <2> QED
    BY <1>3, <2>1, <2>2
<1> QED
  BY <1>4, <1>5, <1>6 DEF CARNext

----------------------------------------------------------------------------
(* Leaves.  Every tree has the entries that can be counted in the          *)
(* renditions, and the index gives its leaf the bytes for them.            *)

(* S has the first n values of f, and no others.                           *)
Enumerates(f, n, S) ==
  /\ \A k \in 1 .. n : f[k] \in S
  /\ \A x \in S : \E k \in 1 .. n : f[k] = x

Distinct(f, n) == \A k, l \in 1 .. n : k # l => f[k] # f[l]

LEMMA CountOf ==
  ASSUME NEW n \in Nat, NEW f, NEW S, Enumerates(f, n, S)
  PROVE  /\ IsFiniteSet(S) /\ Cardinality(S) \in Nat /\ Cardinality(S) <= n
         /\ Distinct(f, n) => Cardinality(S) = n
<1> DEFINE g == [k \in 1 .. n |-> f[k]]
<1>0. /\ \A k \in 1 .. n : f[k] \in S
      /\ \A x \in S : \E k \in 1 .. n : f[k] = x
  BY DEF Enumerates
<1>1. g \in [1 .. n -> S] /\ \A k \in 1 .. n : g[k] = f[k]
  BY <1>0
<1> HIDE DEF g
<1>2. g \in Surjection(1 .. n, S)
  BY <1>0, <1>1 DEF Surjection
<1>3. IsFiniteSet(1 .. n) /\ Cardinality(1 .. n) = n
  BY FS_Interval
<1>4. /\ IsFiniteSet(S) /\ Cardinality(S) <= n
      /\ g \in Injection(1 .. n, S) => Cardinality(S) = n
  BY <1>2, <1>3, FS_Surjection
<1>5. ASSUME Distinct(f, n) PROVE g \in Injection(1 .. n, S)
  <2>1. \A a, b \in DOMAIN g : g[a] = g[b] => a = b
    BY <1>1, <1>5 DEF Distinct
  <2> QED
    BY <1>1, <2>1 DEF Injection, IsInjective
<1> QED
  BY <1>4, <1>5, FS_CardinalityType

Names(rs) == {rs[i].name.nfc : i \in DOMAIN rs}
BitmapNames(rs) == {rs[i].name.nfc : i \in {j \in DOMAIN rs : rs[j].body # "color"}}

LEMMA AssetCounts ==
  ASSUME NEW rs, IsList(rs)
  PROVE  /\ Len(Assets(rs)) = Cardinality(Names(rs)) /\ IsFiniteSet(Names(rs))
         /\ Cardinality(Names(rs)) \in Nat /\ Cardinality(Names(rs)) <= Len(rs)
<1> DEFINE A == Assets(rs)
           n == Len(A)
           S == Names(rs)
           f == [k \in 1 .. n |-> A[k].name.nfc]
           g == [i \in 1 .. Len(rs) |-> rs[i].name.nfc]
<1>1. /\ n \in Nat /\ OnePerName(A)
      /\ \A k \in 1 .. n : \E i \in 1 .. Len(rs) : A[k] = AssetOf(rs, i)
      /\ \A i \in 1 .. Len(rs) : \E k \in 1 .. n, h \in 1 .. Len(rs) :
           SameName(rs[h].name, rs[i].name) /\ A[k] = AssetOf(rs, h)
  BY AssetsAre
<1>2. DOMAIN rs = 1 .. Len(rs) /\ Len(rs) \in Nat
  BY DEF IsList
<1> HIDE DEF A
<1>3. \A i \in 1 .. Len(rs) : rs[i].name.nfc \in S
  BY <1>2 DEF Names
<1>4. \A x \in S : \E i \in 1 .. Len(rs) : x = rs[i].name.nfc
  BY <1>2 DEF Names
<1> HIDE DEF S, n
<1>5. ASSUME NEW k \in 1 .. n PROVE f[k] \in S
  <2>1. PICK i \in 1 .. Len(rs) : A[k] = AssetOf(rs, i)
    BY <1>1
  <2> QED
    BY <1>3, <2>1 DEF AssetOf
<1>6. ASSUME NEW x \in S PROVE \E k \in 1 .. n : f[k] = x
  <2>1. PICK i \in 1 .. Len(rs) : x = rs[i].name.nfc
    BY <1>4
  <2>2. PICK k \in 1 .. n, h \in 1 .. Len(rs) :
          SameName(rs[h].name, rs[i].name) /\ A[k] = AssetOf(rs, h)
    BY <1>1
  <2>3. A[k].name.nfc = x
    BY <2>1, <2>2 DEF AssetOf, SameName
  <2> QED
    BY <2>3
<1>7. ASSUME NEW k \in 1 .. n, NEW l \in 1 .. n, k # l PROVE f[k] # f[l]
  BY <1>1, <1>7 DEF OnePerName, SameName, n
<1>8. Cardinality(S) = n
  <2> HIDE DEF f
  <2>1. Enumerates(f, n, S) /\ Distinct(f, n)
    BY <1>5, <1>6, <1>7 DEF Enumerates, Distinct
  <2>2. n \in Nat
    BY <1>1 DEF n
  <2> QED
    BY <2>1, <2>2, CountOf
<1>9. IsFiniteSet(S) /\ Cardinality(S) \in Nat /\ Cardinality(S) <= Len(rs)
  <2>1. \A i \in 1 .. Len(rs) : g[i] \in S
    BY <1>3
  <2>2. \A x \in S : \E i \in 1 .. Len(rs) : g[i] = x
    BY <1>4
  <2> HIDE DEF g
  <2>3. Len(rs) \in Nat /\ Enumerates(g, Len(rs), S)
    BY <1>2, <2>1, <2>2 DEF Enumerates
  <2> QED
    BY <2>3, CountOf
<1> QED
  BY <1>8, <1>9 DEF S, n, A

LEMMA BitmapCounts ==
  ASSUME NEW rs, IsList(rs)
  PROVE  /\ Len(BitmapAssets(Assets(rs))) = Cardinality(BitmapNames(rs))
         /\ Cardinality(BitmapNames(rs)) \in Nat
         /\ Cardinality(BitmapNames(rs)) <= Len(rs)
<1> DEFINE A == Assets(rs)
           B == BitmapAssets(A)
           n == Len(B)
           S == BitmapNames(rs)
           Bitmap(k) == Has(A[k].renditions, Bodies \ {"color"})
           f == [k \in 1 .. n |-> B[k].name.nfc]
<1>1. /\ IsSeq(A) /\ Len(A) \in Nat /\ DOMAIN A = 1 .. Len(A) /\ OnePerName(A)
      /\ \A k \in 1 .. Len(A) : \E i \in 1 .. Len(rs) : A[k] = AssetOf(rs, i)
      /\ \A i \in 1 .. Len(rs) : \E k \in 1 .. Len(A), h \in 1 .. Len(rs) :
           SameName(rs[h].name, rs[i].name) /\ A[k] = AssetOf(rs, h)
  BY AssetsAre
<1>2. /\ DOMAIN rs = 1 .. Len(rs) /\ Len(rs) \in Nat
      /\ \A i \in 1 .. Len(rs) : rs[i].body \in Bodies
  BY DEF IsList, IsRendition
<1> HIDE DEF A
<1>3. /\ n \in Nat /\ OnePerName(B)
      /\ \A k \in 1 .. n : \E l \in 1 .. Len(A) : Bitmap(l) /\ B[k] = A[l]
      /\ \A l \in 1 .. Len(A) : Bitmap(l) => \E k \in 1 .. n : B[k] = A[l]
  BY <1>1, BitmapAssetsAre
<1> HIDE DEF B
<1>4. /\ \A i \in 1 .. Len(rs) : rs[i].body # "color" => rs[i].name.nfc \in S
      /\ \A x \in S : \E i \in 1 .. Len(rs) : rs[i].body # "color" /\ x = rs[i].name.nfc
  BY <1>2 DEF BitmapNames
<1>5. S \in SUBSET Names(rs)
  BY DEF BitmapNames, Names
<1> HIDE DEF S, n
<1>6. ASSUME NEW k \in 1 .. n PROVE f[k] \in S
  <2>1. PICK l \in 1 .. Len(A) : Bitmap(l) /\ B[k] = A[l]
    BY <1>3
  <2>2. PICK h \in 1 .. Len(rs) : A[l] = AssetOf(rs, h)
    BY <1>1
  <2>3. PICK r \in A[l].renditions : r.body # "color"
    BY <2>1 DEF Has
  <2>4. PICK j \in 1 .. Len(rs) : r = rs[j] /\ SameName(rs[j].name, rs[h].name)
    BY <1>2, <2>2, <2>3 DEF AssetOf
  <2>5. f[k] = rs[j].name.nfc
    BY <2>1, <2>2, <2>4 DEF AssetOf, SameName
  <2> QED
    BY <1>4, <2>3, <2>4, <2>5
<1>7. ASSUME NEW x \in S PROVE \E k \in 1 .. n : f[k] = x
  <2>1. PICK i \in 1 .. Len(rs) : rs[i].body # "color" /\ x = rs[i].name.nfc
    BY <1>4
  <2>2. PICK l \in 1 .. Len(A), h \in 1 .. Len(rs) :
          SameName(rs[h].name, rs[i].name) /\ A[l] = AssetOf(rs, h)
    BY <1>1
  <2>3. Bitmap(l)
    <3>1. SameName(rs[i].name, rs[h].name)
      BY <2>2 DEF SameName
    <3>2. rs[i] \in A[l].renditions
      BY <1>2, <2>2, <3>1 DEF AssetOf
    <3>3. rs[i].body \in Bodies \ {"color"}
      BY <1>2, <2>1
    <3> QED
      BY <3>2, <3>3 DEF Has
  <2>4. PICK k \in 1 .. n : B[k] = A[l]
    BY <1>3, <2>3
  <2>5. f[k] = x
    BY <2>1, <2>2, <2>4 DEF AssetOf, SameName
  <2> QED
    BY <2>5
<1>8. ASSUME NEW k \in 1 .. n, NEW l \in 1 .. n, k # l PROVE f[k] # f[l]
  BY <1>3, <1>8 DEF OnePerName, SameName, n
<1>9. Cardinality(S) = n
  <2> HIDE DEF f
  <2>1. Enumerates(f, n, S) /\ Distinct(f, n)
    BY <1>6, <1>7, <1>8 DEF Enumerates, Distinct
  <2>2. n \in Nat
    BY <1>3 DEF n
  <2> QED
    BY <2>1, <2>2, CountOf
<1>10. Cardinality(S) <= Len(rs)
  <2>1. /\ IsFiniteSet(Names(rs)) /\ Cardinality(Names(rs)) \in Nat
        /\ Cardinality(Names(rs)) <= Len(rs)
    BY AssetCounts
  <2>2. Cardinality(S) <= Cardinality(Names(rs))
    BY <1>5, <2>1, FS_Subset
  <2> QED
    BY <1>2, <1>3, <1>9, <2>1, <2>2
<1> QED
  BY <1>3, <1>9, <1>10 DEF S, n, B, A

LEMMA AppearanceCounts ==
  ASSUME NEW rs
  PROVE  Len(AppearanceEntries(UsedAppearances(rs))) =
           IF \E i \in DOMAIN rs : rs[i].dark THEN 2 ELSE 1
<1> DEFINE used == UsedAppearances(rs)
           any == [key |-> AnyName, value |-> DataBlock(AnyAppearance, 2)]
<1>1. DarkAppearance \in used <=> \E i \in DOMAIN rs : rs[i].dark
  BY DEF UsedAppearances, AnyAppearance, DarkAppearance
<1>2. CASE DarkAppearance \in used
  BY <1>1, <1>2, AppearanceKeys
<1>3. CASE DarkAppearance \notin used
  <2>1. AppearanceEntries(used) = <<any>>
    BY <1>3 DEF AppearanceEntries
  <2> HIDE DEF any, used
  <2>2. Len(AppearanceEntries(used)) = 1
    BY <2>1
  <2> QED
    BY <1>1, <1>3, <2>2 DEF used
<1> QED
  BY <1>2, <1>3

(* Once RENDITIONS is written, a leaf can count the renditions.            *)
CountInv == Len(variables) >= 2 => Len(renditions) <= MaxU16

LEMMA EveryStepKeepsCount ==
  ASSUME CatalogInv, CountInv, [CARNext]_carVars
  PROVE  CountInv'
<1>1. CASE WriteRenditions
  BY <1>1 DEF WriteRenditions, CanInsert, Emit, CountInv
<1>2. CASE WriteCARHeader
  <2>1. PICK vs : vs = variables
    OBVIOUS
  <2>2. IsSeq(vs) /\ Len(vs) = 0
    BY <1>2, <2>1 DEF CatalogInv, TablesHold, WriteCARHeader, InSection
  <2> DEFINE v == [name |-> VariableName("CARHEADER", 9), blockID |-> LastID(blocks')]
  <2>3. variables' = Append(vs, v)
    BY <1>2, <2>1 DEF WriteCARHeader, Emit
  <2> HIDE DEF v
  <2>4. Len(variables') = 1
    BY <2>2, <2>3, AppendSeq
  <2> QED
    BY <2>4 DEF CountInv
<1>3. ASSUME Len(variables) >= 2, renditions' = renditions PROVE CountInv'
  BY <1>3 DEF CountInv
<1>4. CASE WriteFacetKeys \/ WriteAppearanceKeys
  <2>1. section \in {"FACETKEYS", "APPEARANCEKEYS"} /\ renditions' = renditions
    BY <1>4 DEF WriteFacetKeys, WriteAppearanceKeys, Emit
  <2>2. Len(variables) \in {2, 3}
    BY <1>4, <2>1 DEF CatalogInv, InSection, WriteFacetKeys, WriteAppearanceKeys
  <2> QED
    BY <1>3, <2>1, <2>2
<1>5. CASE WriteKeyFormat \/ WriteExtendedMetadata \/ WriteBitmapKeys
  <2>1. renditions' = renditions
    BY <1>5 DEF WriteKeyFormat, WriteExtendedMetadata, WriteBitmapKeys, Emit
  <2>2. Len(variables) \in {4, 5, 6}
    BY <1>5 DEF CatalogInv, InSection, WriteKeyFormat, WriteExtendedMetadata, WriteBitmapKeys
  <2>3. Len(variables) >= 2
    BY <2>2
  <2> QED
    BY <1>3, <2>1, <2>3
<1>6. CASE SkipBitmapKeys \/ CountTraps \/ Finished \/ UNCHANGED carVars
  BY <1>6 DEF SkipBitmapKeys, CountTraps, Finished, carVars, CountInv
<1>7. CASE Finalize
  BY <1>7 DEF Finalize, CountInv, BOM!WriteHeader, BOM!Finalizing, BOM!PackBlock,
     BOM!WriteIndex, BOM!WriteVariable, BOM!PatchHeader, BOM!Trap
<1> QED
  BY <1>1, <1>2, <1>4, <1>5, <1>6, <1>7 DEF CARNext

(* A leaf as the index of the finished file gives it.                      *)
LEMMA LeafInFile ==
  ASSUME FileInv, Written, NEW t, NEW n \in Nat, n <= MaxU16, EntryCount(t) = n,
         LeafWhole(blocks, Variable(t), n), Len(Pointers(t)) = n,
         HeaderOf(t).child + 1 \in 1 .. Len(blocks)
  PROVE  /\ HeaderOf(t).pathCount = EntryCount(t)
         /\ Len(Pointers(t)) = EntryCount(t)
         /\ EntryCount(t) <= MaxU16
         /\ LeafExtent(t) >= HeaderOf(t).blockSize
         /\ LeafExtent(t) >= LeafHeaderSize + LeafEntrySize * EntryCount(t)
<1>1. index = [i \in DOMAIN blocks |-> [addr |-> placed[i], len |-> blocks[i].size]]
  BY DEF FileInv, File!IInv, File!IndexInv, Written
<1>2. DOMAIN blocks = 1 .. Len(blocks)
  BY SomeSeq DEF FileInv, CatalogInv, TablesHold, IsSeq
<1>3. LeafExtent(t) = blocks[HeaderOf(t).child + 1].size
  BY <1>1, <1>2 DEF LeafExtent
<1>4. HeaderOf(t) = blocks[Variable(t) + 1]
  BY DEF HeaderOf, Block
<1> QED
  BY <1>3, <1>4 DEF LeafWhole

(* A tree of a finished catalog, however many entries it has: its header   *)
(* and its leaf count what the renditions ask for, a number that 16 bits   *)
(* hold, and the index gives the leaf the bytes for it (the hazard of      *)
(* BOMTree.insert).                                                        *)
THEOREM LeavesAreWhole == CARSpec => []LeavesWhole
<1>1. CARInit => FileInv /\ CountInv
  <2>1. CARInit => Len(variables) = 0
    BY DEF CARInit, BOM!BOMInit
  <2> QED
    BY <2>1, NewFile DEF CountInv
<1>2. FileInv /\ CountInv /\ [CARNext]_carVars => FileInv' /\ CountInv'
  BY EveryStepKeepsFile, EveryStepKeepsCount DEF FileInv
<1>3. FileInv /\ CountInv => LeavesWhole
  <2>1. SUFFICES ASSUME FileInv, CountInv, Written, NEW t \in Trees, HasVariable(t)
                 PROVE  /\ HeaderOf(t).pathCount = EntryCount(t)
                        /\ Len(Pointers(t)) = EntryCount(t)
                        /\ EntryCount(t) <= MaxU16
                        /\ LeafExtent(t) >= HeaderOf(t).blockSize
                        /\ LeafExtent(t) >= LeafHeaderSize + LeafEntrySize * EntryCount(t)
    BY DEF LeavesWhole
  <2>2. CatalogInv
    BY <2>1 DEF FileInv
  <2>3. /\ IsList(renditions)
        /\ TreeHolds(blocks, Variable("RENDITIONS"), RenditionEntries(renditions))
        /\ TreeHolds(blocks, Variable("FACETKEYS"), FacetEntries(Assets(renditions)))
        /\ TreeHolds(blocks, Variable("APPEARANCEKEYS"),
                     AppearanceEntries(UsedAppearances(renditions)))
        /\ \/ Len(variables) = 6
           \/ /\ Len(variables) = 7
              /\ InlineHolds(blocks, Variable("BITMAPKEYS"), Descriptors(renditions))
    BY <2>1, <2>2, TablesWritten
  <2>4. Len(renditions) \in Nat /\ Len(renditions) <= MaxU16 /\ MaxU16 \in Nat /\ MaxU16 >= 2
    <3>1. PICK n \in {6, 7} : n = Len(variables)
      BY <2>3
    <3>2. Len(variables) >= 2
      BY <3>1
    <3> QED
      BY <2>1, <2>3, <3>2, EntryCounts, TreeAssumption DEF CountInv
  <2>5. ASSUME NEW e, TreeHolds(blocks, Variable(t), e), Len(e) = EntryCount(t),
               EntryCount(t) \in Nat, EntryCount(t) <= MaxU16
        PROVE  /\ HeaderOf(t).pathCount = EntryCount(t)
               /\ Len(Pointers(t)) = EntryCount(t)
               /\ LeafExtent(t) >= HeaderOf(t).blockSize
               /\ LeafExtent(t) >= LeafHeaderSize + LeafEntrySize * EntryCount(t)
    <3>1. /\ LeafWhole(blocks, Variable(t), EntryCount(t)) /\ Len(Pointers(t)) = EntryCount(t)
          /\ HeaderOf(t).child + 1 \in 1 .. Len(blocks)
      BY <2>5 DEF TreeHolds, TreeLeads, Pointers, LeafOf, HeaderOf, Block
    <3> QED
      BY <2>1, <2>5, <3>1, LeafInFile
  <2>6. CASE t = "RENDITIONS"
    <3>1. EntryCount(t) = Len(renditions)
      BY <2>6 DEF EntryCount
    <3>2. Len(RenditionEntries(renditions)) = EntryCount(t)
      BY <2>3, <3>1, EntryCounts
    <3> QED
      BY <2>3, <2>4, <2>5, <2>6, <3>1, <3>2
  <2>7. CASE t = "FACETKEYS"
    <3>1. EntryCount(t) = Cardinality(Names(renditions))
      BY <2>7 DEF EntryCount, Names
    <3>2. /\ Len(FacetEntries(Assets(renditions))) = EntryCount(t)
          /\ EntryCount(t) \in Nat /\ EntryCount(t) <= Len(renditions)
      BY <2>3, <3>1, EntryCounts, AssetCounts
    <3> QED
      BY <2>3, <2>4, <2>5, <2>7, <3>2
  <2>8. CASE t = "APPEARANCEKEYS"
    <3>1. EntryCount(t) = IF \E i \in DOMAIN renditions : renditions[i].dark THEN 2 ELSE 1
      BY <2>8 DEF EntryCount
    <3>2. Len(AppearanceEntries(UsedAppearances(renditions))) = EntryCount(t)
      BY <3>1, AppearanceCounts
    <3> QED
      BY <2>3, <2>4, <2>5, <2>8, <3>1, <3>2
  <2>9. CASE t = "BITMAPKEYS"
    <3> DEFINE e == Descriptors(renditions)
    <3>1. EntryCount(t) = Cardinality(BitmapNames(renditions))
      BY <2>9 DEF EntryCount, BitmapNames
    <3>2. Len(e) = EntryCount(t) /\ EntryCount(t) \in Nat /\ EntryCount(t) <= MaxU16
      <4>1. EntryCount(t) \in Nat /\ EntryCount(t) <= Len(renditions)
        BY <2>3, <3>1, BitmapCounts
      <4> QED
        BY <2>3, <2>4, <3>1, <4>1, EntryCounts, BitmapCounts
    <3>3. Len(variables) = 7
      <4>1. PICK i \in DOMAIN variables : variables[i].name.text = "BITMAPKEYS"
        BY <2>1, <2>9 DEF HasVariable
      <4>2. ASSUME Len(variables) = 6 PROVE FALSE
        <5>1. i \in {1, 2, 3, 4, 5, 6} /\ variables[i].name.text = Canonical[i]
          BY <2>2, <4>1, <4>2 DEF CatalogInv, TablesHold
        <5> QED
          BY <4>1, <5>1, CanonicalNames
      <4> QED
        BY <2>3, <4>2
    <3>4. InlineHolds(blocks, Variable(t), e)
      BY <2>3, <2>9, <3>3
    <3> HIDE DEF e
    <3>5. /\ LeafWhole(blocks, Variable(t), EntryCount(t)) /\ Len(Pointers(t)) = EntryCount(t)
          /\ HeaderOf(t).child + 1 \in 1 .. Len(blocks)
      BY <3>2, <3>4 DEF InlineHolds, InlineLeads, Pointers, LeafOf, HeaderOf, Block
    <3> QED
      BY <2>1, <3>2, <3>5, LeafInFile
  <2> QED
    BY <2>6, <2>7, <2>8, <2>9 DEF Trees, KeyTrees
<1> QED
  BY <1>1, <1>2, <1>3, PTL DEF CARSpec

----------------------------------------------------------------------------
(* What a tree refers to is what its insertion added.                      *)

LEMMA TreeUses ==
  ASSUME NEW id \in Nat, NEW n \in Nat, 2 * n + 2 <= id, NEW bs, TreeLaid(bs, id, n)
  PROVE  LET p == LeafOf(bs, id).pointers IN
         /\ {Block(bs, id).child} \cup {p[i].value : i \in DOMAIN p}
              \cup {p[i].key : i \in DOMAIN p} = id - 2 * n - 1 .. id - 1
         /\ \A i \in DOMAIN p : p[i].value < p[i].key
         /\ Len(p) = n
<1> DEFINE p == LeafOf(bs, id).pointers
           child == Block(bs, id).child
<1>1. /\ child = id - 1 /\ Len(p) = n /\ DOMAIN p = 1 .. n
      /\ \A k \in 1 .. n : p[k].value = id - 2 * n + 2 * k - 3 /\ p[k].key = id - 2 * n + 2 * k - 2
  BY DEF TreeLaid, LeafOf, Block
<1> HIDE DEF p, child
<1>2. ASSUME NEW k \in 1 .. n
      PROVE  /\ p[k].value \in id - 2 * n - 1 .. id - 1 /\ p[k].key \in id - 2 * n - 1 .. id - 1
             /\ p[k].value < p[k].key
  BY <1>1
<1>3. ASSUME NEW x \in id - 2 * n - 1 .. id - 1
      PROVE  x = child \/ \E k \in 1 .. n : x = p[k].value \/ x = p[k].key
  <2>1. PICK y \in 0 .. 2 * n : x = id - 2 * n - 1 + y
    <3>1. x - (id - 2 * n - 1) \in 0 .. 2 * n /\ x = id - 2 * n - 1 + (x - (id - 2 * n - 1))
      OBVIOUS
    <3> QED
      BY <3>1
  <2>2. PICK q \in Nat : y = 2 * q \/ y = 2 * q + 1
    <3>1. y \div 2 \in Nat /\ (y = 2 * (y \div 2) \/ y = 2 * (y \div 2) + 1)
      OBVIOUS
    <3> QED
      BY <3>1
  <2>3. CASE q = n
    <3>1. y = 2 * n
      BY <2>2, <2>3
    <3> QED
      BY <1>1, <2>1, <3>1
  <2>4. CASE q # n
    <3>1. q + 1 \in 1 .. n
      BY <2>2, <2>4
    <3>2. /\ p[q + 1].value = id - 2 * n + 2 * (q + 1) - 3
          /\ p[q + 1].key = id - 2 * n + 2 * (q + 1) - 2
      BY <1>1, <3>1
    <3>3. CASE y = 2 * q
      <4>1. x = p[q + 1].value
        BY <2>1, <3>2, <3>3
      <4> QED
        BY <3>1, <4>1
    <3>4. CASE y = 2 * q + 1
      <4>1. x = p[q + 1].key
        BY <2>1, <3>2, <3>4
      <4> QED
        BY <3>1, <4>1
    <3> QED
      BY <2>2, <3>3, <3>4
  <2> QED
    BY <2>3, <2>4
<1>4. child \in id - 2 * n - 1 .. id - 1
  BY <1>1
<1> DEFINE span == id - 2 * n - 1 .. id - 1
           used == {child} \cup {p[i].value : i \in DOMAIN p} \cup {p[i].key : i \in DOMAIN p}
<1>5. used = span
  <2> HIDE DEF span
  <2>1. ASSUME NEW x \in span PROVE x \in used
    BY <1>1, <1>3 DEF span
  <2>2. ASSUME NEW x \in used PROVE x \in span
    BY <1>1, <1>2, <1>4 DEF span
  <2> QED
    BY <2>1, <2>2
<1> QED
  BY <1>1, <1>2, <1>5 DEF p, child

LEMMA InlineUses ==
  ASSUME NEW id \in Nat, NEW n \in Nat, n + 2 <= id, NEW bs, InlineLaid(bs, id, n)
  PROVE  LET p == LeafOf(bs, id).pointers IN
         /\ {Block(bs, id).child} \cup {p[i].value : i \in DOMAIN p} = id - n - 1 .. id - 1
         /\ Len(p) = n
<1> DEFINE p == LeafOf(bs, id).pointers
           child == Block(bs, id).child
<1>1. /\ child = id - 1 /\ Len(p) = n /\ DOMAIN p = 1 .. n
      /\ \A k \in 1 .. n : p[k].value = id - n + k - 2
  BY DEF InlineLaid, LeafOf, Block
<1> HIDE DEF p, child
<1>2. ASSUME NEW k \in 1 .. n PROVE p[k].value \in id - n - 1 .. id - 1
  BY <1>1
<1>3. ASSUME NEW x \in id - n - 1 .. id - 1
      PROVE  x = child \/ \E k \in 1 .. n : x = p[k].value
  <2>1. CASE x = id - 1
    BY <1>1, <2>1
  <2>2. CASE x # id - 1
    <3>1. x - id + n + 2 \in 1 .. n /\ x = id - n + (x - id + n + 2) - 2
      BY <2>2
    <3>2. PICK k \in 1 .. n : x = id - n + k - 2
      BY <3>1
    <3> QED
      BY <1>1, <3>2
  <2> QED
    BY <2>1, <2>2
<1>4. child \in id - n - 1 .. id - 1
  BY <1>1
<1> DEFINE span == id - n - 1 .. id - 1
           used == {child} \cup {p[i].value : i \in DOMAIN p}
<1>5. used = span
  <2> HIDE DEF span
  <2>1. ASSUME NEW x \in span PROVE x \in used
    BY <1>1, <1>3 DEF span
  <2>2. ASSUME NEW x \in used PROVE x \in span
    BY <1>1, <1>2, <1>4 DEF span
  <2> QED
    BY <2>1, <2>2
<1> QED
  BY <1>1, <1>5 DEF p, child

LEMMA VariablesNamed ==
  ASSUME CatalogInv, NEW k \in 1 .. 7
  PROVE  HasVariable(Canonical[k]) <=> k <= Len(variables)
<1>1. /\ DOMAIN variables = 1 .. Len(variables) /\ Len(variables) \in 0 .. 7
      /\ \A i \in 1 .. Len(variables) : variables[i].name.text = Canonical[i]
  BY DEF CatalogInv, TablesHold
<1>2. ASSUME NEW i \in 1 .. 7, Canonical[i] = Canonical[k] PROVE i = k
  <2>1. i \in {1, 2, 3, 4, 5, 6, 7} /\ k \in {1, 2, 3, 4, 5, 6, 7}
    OBVIOUS
  <2> QED
    BY <1>2, <2>1, CanonicalNames
<1>3. PICK n \in 0 .. 7 : n = Len(variables)
  BY <1>1
<1>4. ASSUME k <= n PROVE HasVariable(Canonical[k])
  <2>1. k \in 1 .. n
    BY <1>4
  <2> QED
    BY <1>1, <1>3, <2>1 DEF HasVariable
<1>5. ASSUME HasVariable(Canonical[k]) PROVE k <= n
  <2>1. PICK i \in 1 .. n : Canonical[i] = Canonical[k]
    BY <1>1, <1>3, <1>5 DEF HasVariable
  <2>2. i \in 1 .. 7
    OBVIOUS
  <2>3. i = k
    BY <1>2, <2>1, <2>2
  <2> QED
    BY <2>3
<1> QED
  BY <1>3, <1>4, <1>5

(* The blocks from low + 1 on, up to its header, are those tree t uses.     *)
Occupies(t, low, high, n) ==
  /\ Uses(t) = low + 1 .. high - 1
  /\ Len(Pointers(t)) = n

LEMMA SpanOfTree ==
  ASSUME NEW low \in Nat, NEW n \in Nat, NEW t \in KeyTrees,
         Variable(t) = low + 2 * n + 2,
         TreeLaid(blocks, Variable(t), n)
  PROVE  /\ Occupies(t, low, low + 2 * n + 2, n)
         /\ \A i \in DOMAIN Pointers(t) : Pointers(t)[i].value < Pointers(t)[i].key
<1>0. PICK bs : bs = blocks
  OBVIOUS
<1>1. PICK id \in Nat : id = Variable(t)
  <2>1. low + 2 * n + 2 \in Nat
    OBVIOUS
  <2> QED
    BY <2>1
<1>2. 2 * n + 2 <= id /\ id - 2 * n - 1 = low + 1 /\ TreeLaid(bs, id, n)
      /\ id = low + 2 * n + 2
  BY <1>0, <1>1
<1> DEFINE p == LeafOf(bs, id).pointers
<1>3. /\ {Block(bs, id).child} \cup {p[i].value : i \in DOMAIN p}
           \cup {p[i].key : i \in DOMAIN p} = id - 2 * n - 1 .. id - 1
      /\ \A i \in DOMAIN p : p[i].value < p[i].key
      /\ Len(p) = n
  BY <1>1, <1>2, TreeUses
<1>4. p = Pointers(t) /\ Block(bs, id).child = Block(blocks, Variable(t)).child
  BY <1>0, <1>1 DEF Pointers
<1> HIDE DEF p
<1>5. Uses(t) = low + 1 .. id - 1
  BY <1>2, <1>3, <1>4 DEF Uses
<1> QED
  BY <1>2, <1>3, <1>4, <1>5 DEF Occupies

LEMMA SpanOfInlineTree ==
  ASSUME NEW low \in Nat, NEW n \in Nat, NEW t, t \notin KeyTrees,
         Variable(t) = low + n + 2,
         InlineLaid(blocks, Variable(t), n)
  PROVE  Occupies(t, low, low + n + 2, n)
<1>0. PICK bs : bs = blocks
  OBVIOUS
<1>1. PICK id \in Nat : id = Variable(t)
  <2>1. low + n + 2 \in Nat
    OBVIOUS
  <2> QED
    BY <2>1
<1>2. n + 2 <= id /\ id - n - 1 = low + 1 /\ InlineLaid(bs, id, n) /\ id = low + n + 2
  BY <1>0, <1>1
<1> DEFINE p == LeafOf(bs, id).pointers
<1>3. /\ {Block(bs, id).child} \cup {p[i].value : i \in DOMAIN p} = id - n - 1 .. id - 1
      /\ Len(p) = n
  BY <1>1, <1>2, InlineUses
<1>4. p = Pointers(t) /\ Block(bs, id).child = Block(blocks, Variable(t)).child
  BY <1>0, <1>1 DEF Pointers
<1> HIDE DEF p
<1>5. Uses(t) = low + 1 .. id - 1
  BY <1>2, <1>3, <1>4 DEF Uses
<1> QED
  BY <1>2, <1>3, <1>4, <1>5 DEF Occupies

(* The blocks of a finished catalog, variable by variable.                 *)
Catalogued(a, b, c, d, r, f, p, h) ==
  /\ r = 1 + 2 * a + 2 /\ f = r + 2 * b + 2 /\ p = f + 2 * c + 2 /\ h = (p + 2) + d + 2
  /\ Occupies("RENDITIONS", 1, r, a)
  /\ Occupies("FACETKEYS", r, f, b)
  /\ Occupies("APPEARANCEKEYS", f, p, c)
  /\ \A t \in KeyTrees : \A i \in DOMAIN Pointers(t) :
       Pointers(t)[i].value < Pointers(t)[i].key
  /\ \A t \in KeyTrees : HasVariable(t)
  /\ \/ /\ Len(variables) = 6 /\ LastID(blocks) = p + 2
        /\ ~HasVariable("BITMAPKEYS")
        /\ {variables[i].blockID : i \in DOMAIN variables} = {1, r, f, p, p + 1, p + 2}
     \/ /\ Len(variables) = 7 /\ LastID(blocks) = h
        /\ HasVariable("BITMAPKEYS") /\ Occupies("BITMAPKEYS", p + 2, h, d)
        /\ {variables[i].blockID : i \in DOMAIN variables} = {1, r, f, p, p + 1, p + 2, h}
LEMMA SpansOfTrees ==
  ASSUME CatalogInv, SpanInv, Written
  PROVE  \E a, b, c, d, r, f, p, h \in Nat : Catalogued(a, b, c, d, r, f, p, h)
<1>1. PICK rs : rs = renditions
  OBVIOUS
<1>2. /\ IsList(rs)
      /\ TreeHolds(blocks, Variable("RENDITIONS"), RenditionEntries(rs))
      /\ TreeHolds(blocks, Variable("FACETKEYS"), FacetEntries(Assets(rs)))
      /\ TreeHolds(blocks, Variable("APPEARANCEKEYS"), AppearanceEntries(UsedAppearances(rs)))
      /\ \/ Len(variables) = 6
         \/ Len(variables) = 7 /\ InlineHolds(blocks, Variable("BITMAPKEYS"), Descriptors(rs))
  BY <1>1, TablesWritten
<1>3. PICK a, b, c, d \in Nat :
        /\ a = Len(RenditionEntries(rs)) /\ b = Len(FacetEntries(Assets(rs)))
        /\ c = Len(AppearanceEntries(UsedAppearances(rs))) /\ d = Len(Descriptors(rs))
        /\ a = Len(rs) /\ b = Len(Assets(rs)) /\ d = Len(BitmapAssets(Assets(rs)))
  BY <1>2, EntryCounts
<1>4. PICK r, f, p, h \in Nat :
        /\ r = 1 + 2 * a + 2 /\ f = r + 2 * b + 2 /\ p = f + 2 * c + 2 /\ h = (p + 2) + d + 2
  <2>1. /\ 1 + 2 * a + 2 \in Nat /\ 1 + 2 * a + 2 + 2 * b + 2 \in Nat
        /\ 1 + 2 * a + 2 + 2 * b + 2 + 2 * c + 2 \in Nat
        /\ 1 + 2 * a + 2 + 2 * b + 2 + 2 * c + 2 + 2 + d + 2 \in Nat
    OBVIOUS
  <2> QED
    BY <2>1
<1>5. /\ LastOf(1, rs) = 1 /\ LastOf(2, rs) = r /\ LastOf(3, rs) = f /\ LastOf(4, rs) = p
      /\ LastOf(5, rs) = p + 1 /\ LastOf(6, rs) = p + 2 /\ LastOf(7, rs) = h
  <2>1. /\ LastOf(1, rs) = 1
        /\ LastOf(2, rs) = LastOf(1, rs) + 2 * a + 2
        /\ LastOf(3, rs) = LastOf(2, rs) + 2 * b + 2
        /\ LastOf(4, rs) = LastOf(3, rs) + 2 * c + 2
        /\ LastOf(5, rs) = LastOf(4, rs) + 1
        /\ LastOf(6, rs) = LastOf(5, rs) + 1
        /\ LastOf(7, rs) = LastOf(6, rs) + d + 2
    BY <1>2, <1>3, LastGrows
  <2> QED
    BY <1>4, <2>1
<1>6. PICK n \in {6, 7} : n = Len(variables)
  BY <1>2
<1>7. /\ \A i \in 1 .. n : variables[i].blockID = LastOf(i, rs)
      /\ Len(blocks) = 1 + LastOf(n, rs)
      /\ DOMAIN variables = 1 .. n
  BY <1>1, <1>6 DEF SpanInv, CatalogInv, TablesHold
<1>8. /\ variables[1].blockID = 1 /\ variables[2].blockID = r /\ variables[3].blockID = f
      /\ variables[4].blockID = p /\ variables[5].blockID = p + 1 /\ variables[6].blockID = p + 2
      /\ n = 7 => variables[7].blockID = h
  <2>1. /\ 1 \in 1 .. n /\ 2 \in 1 .. n /\ 3 \in 1 .. n /\ 4 \in 1 .. n
        /\ 5 \in 1 .. n /\ 6 \in 1 .. n
        /\ n = 7 => 7 \in 1 .. n
    OBVIOUS
  <2> QED
    BY <1>5, <1>7, <2>1
<1>9. /\ Variable("RENDITIONS") = r /\ Variable("FACETKEYS") = f
      /\ Variable("APPEARANCEKEYS") = p
      /\ n = 7 => Variable("BITMAPKEYS") = h
  <2>1. /\ 2 \in 1 .. n /\ 3 \in 1 .. n /\ 4 \in 1 .. n
        /\ n = 7 => 7 \in 1 .. n
    OBVIOUS
  <2>2. \A k \in 1 .. n : Variable(Canonical[k]) = variables[k].blockID
    BY <1>6, VariableIs
  <2> QED
    BY <1>8, <2>1, <2>2, CanonicalNames
<1>10. /\ TreeLaid(blocks, Variable("RENDITIONS"), a) /\ TreeLaid(blocks, Variable("FACETKEYS"), b)
       /\ TreeLaid(blocks, Variable("APPEARANCEKEYS"), c)
       /\ n = 7 => InlineLaid(blocks, Variable("BITMAPKEYS"), d)
  <2>1. TreeLaid(blocks, Variable("RENDITIONS"), a)
    BY <1>2, <1>3 DEF TreeHolds
  <2>2. TreeLaid(blocks, Variable("FACETKEYS"), b)
    BY <1>2, <1>3 DEF TreeHolds
  <2>3. TreeLaid(blocks, Variable("APPEARANCEKEYS"), c)
    BY <1>2, <1>3 DEF TreeHolds
  <2>4. ASSUME n = 7 PROVE InlineLaid(blocks, Variable("BITMAPKEYS"), d)
    BY <1>2, <1>3, <1>6, <2>4 DEF InlineHolds
  <2> QED
    BY <2>1, <2>2, <2>3, <2>4
<1>11. /\ "RENDITIONS" \in KeyTrees /\ "FACETKEYS" \in KeyTrees /\ "APPEARANCEKEYS" \in KeyTrees
       /\ "BITMAPKEYS" \notin KeyTrees
  BY DEF KeyTrees
<1>12. /\ Occupies("RENDITIONS", 1, r, a)
       /\ \A i \in DOMAIN Pointers("RENDITIONS") :
            Pointers("RENDITIONS")[i].value < Pointers("RENDITIONS")[i].key
  BY <1>4, <1>9, <1>10, <1>11, SpanOfTree
<1>13. /\ Occupies("FACETKEYS", r, f, b)
       /\ \A i \in DOMAIN Pointers("FACETKEYS") :
            Pointers("FACETKEYS")[i].value < Pointers("FACETKEYS")[i].key
  BY <1>4, <1>9, <1>10, <1>11, SpanOfTree
<1>14. /\ Occupies("APPEARANCEKEYS", f, p, c)
       /\ \A i \in DOMAIN Pointers("APPEARANCEKEYS") :
            Pointers("APPEARANCEKEYS")[i].value < Pointers("APPEARANCEKEYS")[i].key
  BY <1>4, <1>9, <1>10, <1>11, SpanOfTree
<1>15. n = 7 => Occupies("BITMAPKEYS", p + 2, h, d)
  <2>1. p + 2 \in Nat
    OBVIOUS
  <2> QED
    BY <1>4, <1>9, <1>10, <1>11, <2>1, SpanOfInlineTree
<1>16. \A t \in KeyTrees : \A i \in DOMAIN Pointers(t) : Pointers(t)[i].value < Pointers(t)[i].key
  BY <1>12, <1>13, <1>14 DEF KeyTrees
<1>17. /\ \A t \in KeyTrees : HasVariable(t)
       /\ HasVariable("BITMAPKEYS") <=> n = 7
  <2>1. \A k \in 1 .. 7 : HasVariable(Canonical[k]) <=> k <= n
    BY <1>6, VariablesNamed
  <2>2. 2 <= n /\ 3 <= n /\ 4 <= n /\ (7 <= n <=> n = 7)
    OBVIOUS
  <2>3. 2 \in 1 .. 7 /\ 3 \in 1 .. 7 /\ 4 \in 1 .. 7 /\ 7 \in 1 .. 7
    OBVIOUS
  <2>4. /\ HasVariable("RENDITIONS") /\ HasVariable("FACETKEYS")
        /\ HasVariable("APPEARANCEKEYS") /\ (HasVariable("BITMAPKEYS") <=> n = 7)
    BY <2>1, <2>2, <2>3, CanonicalNames
  <2> QED
    BY <2>4 DEF KeyTrees
<1>18. CASE n = 6
  <2>1. 1 .. n = {1, 2, 3, 4, 5, 6}
    BY <1>18
  <2>2. {variables[i].blockID : i \in DOMAIN variables} = {1, r, f, p, p + 1, p + 2}
    <3>1. {variables[i].blockID : i \in {1, 2, 3, 4, 5, 6}}
            = {variables[1].blockID, variables[2].blockID, variables[3].blockID,
               variables[4].blockID, variables[5].blockID, variables[6].blockID}
      OBVIOUS
    <3>2. DOMAIN variables = {1, 2, 3, 4, 5, 6}
      BY <1>7, <2>1
    <3> QED
      BY <1>8, <3>1, <3>2
  <2>3. LastID(blocks) = p + 2
    BY <1>5, <1>7, <1>18 DEF LastID
  <2>4. ~HasVariable("BITMAPKEYS") /\ Len(variables) = 6
    BY <1>6, <1>17, <1>18
  <2>5. Catalogued(a, b, c, d, r, f, p, h)
    BY <1>4, <1>12, <1>13, <1>14, <1>16, <1>17, <2>2, <2>3, <2>4 DEF Catalogued
  <2> QED
    BY <2>5
<1>19. CASE n = 7
  <2>1. 1 .. n = {1, 2, 3, 4, 5, 6, 7}
    BY <1>19
  <2>2. {variables[i].blockID : i \in DOMAIN variables} = {1, r, f, p, p + 1, p + 2, h}
    <3>1. {variables[i].blockID : i \in {1, 2, 3, 4, 5, 6, 7}}
            = {variables[1].blockID, variables[2].blockID, variables[3].blockID,
               variables[4].blockID, variables[5].blockID, variables[6].blockID,
               variables[7].blockID}
      OBVIOUS
    <3>2. DOMAIN variables = {1, 2, 3, 4, 5, 6, 7}
      BY <1>7, <2>1
    <3> QED
      BY <1>8, <1>19, <3>1, <3>2
  <2>3. LastID(blocks) = h
    BY <1>5, <1>7, <1>19 DEF LastID
  <2>4. HasVariable("BITMAPKEYS") /\ Len(variables) = 7 /\ Occupies("BITMAPKEYS", p + 2, h, d)
    BY <1>6, <1>15, <1>17, <1>19
  <2>5. Catalogued(a, b, c, d, r, f, p, h)
    BY <1>4, <1>12, <1>13, <1>14, <1>16, <1>17, <2>2, <2>3, <2>4 DEF Catalogued
  <2> QED
    BY <2>5
<1> QED
  BY <1>18, <1>19

LEMMA OneReferenceEach ==
  ASSUME CatalogInv, SpanInv
  PROVE  BlocksReferredToOnce
<1> SUFFICES ASSUME Written PROVE BlocksReferredToOnce
  BY DEF BlocksReferredToOnce
<1>1. PICK a, b, c, d, r, f, p, h \in Nat : Catalogued(a, b, c, d, r, f, p, h)
  BY SpansOfTrees
<1>2. /\ r = 1 + 2 * a + 2 /\ f = r + 2 * b + 2 /\ p = f + 2 * c + 2 /\ h = (p + 2) + d + 2
      /\ \A t \in KeyTrees : \A i \in DOMAIN Pointers(t) :
           Pointers(t)[i].value < Pointers(t)[i].key
      /\ HasVariable("RENDITIONS") /\ HasVariable("FACETKEYS")
      /\ HasVariable("APPEARANCEKEYS")
  BY <1>1 DEF Catalogued, KeyTrees
<1>3. /\ Uses("RENDITIONS") = 2 .. r - 1 /\ Len(Pointers("RENDITIONS")) = a
      /\ Uses("FACETKEYS") = r + 1 .. f - 1 /\ Len(Pointers("FACETKEYS")) = b
      /\ Uses("APPEARANCEKEYS") = f + 1 .. p - 1 /\ Len(Pointers("APPEARANCEKEYS")) = c
  <2>1. 1 + 1 = 2
    OBVIOUS
  <2> QED
    BY <1>1, <2>1 DEF Catalogued, Occupies
<1>4. /\ References("RENDITIONS") = 2 * a + 1 /\ References("FACETKEYS") = 2 * b + 1
      /\ References("APPEARANCEKEYS") = 2 * c + 1
  BY <1>2, <1>3 DEF References, KeyTrees
<1> DEFINE trees == {t \in KeyTrees \cup {"BITMAPKEYS"} : HasVariable(t)}
           used == UNION {Uses(t) : t \in trees}
           ids == {variables[i].blockID : i \in DOMAIN variables}
           count == Len(variables) + References("RENDITIONS") + References("FACETKEYS")
                      + References("APPEARANCEKEYS") + References("BITMAPKEYS")
<1>5. CASE ~HasVariable("BITMAPKEYS")
  <2>1. Len(variables) = 6 /\ LastID(blocks) = p + 2 /\ ids = {1, r, f, p, p + 1, p + 2}
    BY <1>1, <1>5 DEF Catalogued
  <2>2. used = Uses("RENDITIONS") \cup Uses("FACETKEYS") \cup Uses("APPEARANCEKEYS")
    <3>1. trees = {"RENDITIONS", "FACETKEYS", "APPEARANCEKEYS"}
      BY <1>2, <1>5 DEF KeyTrees
    <3> QED
      BY <3>1
  <2>3. References("BITMAPKEYS") = 0
    BY <1>5 DEF References
  <2> HIDE DEF used, ids, trees
  <2>4. used \cup ids = 1 .. p + 2
    <3>1. used \cup ids = (2 .. r - 1) \cup (r + 1 .. f - 1) \cup (f + 1 .. p - 1)
                            \cup {1, r, f, p, p + 1, p + 2}
      BY <1>3, <2>1, <2>2
    <3>2. 1 < r /\ r < f /\ f < p
      BY <1>2
    <3> QED
      BY <3>1, <3>2
  <2>5. LastID(blocks) = count
    BY <1>2, <1>4, <2>1, <2>3
  <2>6. used \cup ids = 1 .. LastID(blocks)
    BY <2>1, <2>4
  <2>7. \A t \in KeyTrees : \A i \in DOMAIN Pointers(t) :
          Pointers(t)[i].value < Pointers(t)[i].key
    BY <1>2
  <2> HIDE DEF count
  <2> QED
    BY <2>5, <2>6, <2>7, Zenon DEF BlocksReferredToOnce, used, ids, trees, count
<1>6. CASE HasVariable("BITMAPKEYS")
  <2>1. Len(variables) = 7 /\ LastID(blocks) = h /\ ids = {1, r, f, p, p + 1, p + 2, h}
        /\ Uses("BITMAPKEYS") = p + 3 .. h - 1 /\ Len(Pointers("BITMAPKEYS")) = d
    <3>1. p + 2 + 1 = p + 3
      OBVIOUS
    <3> QED
      BY <1>1, <1>6, <3>1 DEF Catalogued, Occupies
  <2>2. used = Uses("RENDITIONS") \cup Uses("FACETKEYS") \cup Uses("APPEARANCEKEYS")
                 \cup Uses("BITMAPKEYS")
    <3>1. trees = {"RENDITIONS", "FACETKEYS", "APPEARANCEKEYS", "BITMAPKEYS"}
      BY <1>2, <1>6 DEF KeyTrees
    <3> QED
      BY <3>1
  <2>3. References("BITMAPKEYS") = d + 1
    BY <1>6, <2>1 DEF References, KeyTrees
  <2> HIDE DEF used, ids, trees
  <2>4. used \cup ids = 1 .. h
    <3>1. used \cup ids = (2 .. r - 1) \cup (r + 1 .. f - 1) \cup (f + 1 .. p - 1)
                            \cup (p + 3 .. h - 1) \cup {1, r, f, p, p + 1, p + 2, h}
      BY <1>3, <2>1, <2>2
    <3>2. 1 < r /\ r < f /\ f < p /\ p + 2 < h
      BY <1>2
    <3> QED
      BY <3>1, <3>2
  <2>5. LastID(blocks) = count
    BY <1>2, <1>4, <2>1, <2>3
  <2>6. used \cup ids = 1 .. LastID(blocks)
    BY <2>1, <2>4
  <2>7. \A t \in KeyTrees : \A i \in DOMAIN Pointers(t) :
          Pointers(t)[i].value < Pointers(t)[i].key
    BY <1>2
  <2> HIDE DEF count
  <2> QED
    BY <2>5, <2>6, <2>7, Zenon DEF BlocksReferredToOnce, used, ids, trees, count
<1> QED
  BY <1>5, <1>6

(* Every block but block 0 is referred to exactly once, and in every leaf  *)
(* the value block of an entry precedes its key block: the places of the   *)
(* blocks are counted along the tables (SpanInv), and those of one table   *)
(* are the ones its tree uses, with nothing between the tables.            *)
THEOREM EveryBlockUsedOnce == CARSpec => []BlocksReferredToOnce
<1>1. CARInit => CatalogInv /\ SpanInv
  BY NewFile DEF FileInv
<1>2. CatalogInv /\ SpanInv /\ [CARNext]_carVars => (CatalogInv /\ SpanInv)'
  BY EveryStepKeepsTables, EveryStepKeepsSpans
<1>3. CatalogInv /\ SpanInv => BlocksReferredToOnce
  BY OneReferenceEach
<1> QED
  BY <1>1, <1>2, <1>3, PTL DEF CARSpec
=============================================================================
