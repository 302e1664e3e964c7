----------------------- MODULE XCAssetCompilerProofs -----------------------
(***************************************************************************)
(* Proofs about the catalog compiler, for any catalogs whose directories   *)
(* are in one place each: the walk loads every asset set once, in whatever *)
(* order directories are listed, a compilation that succeeds has seen      *)
(* sound files only and lost none of their entries, and the icon files     *)
(* beside the compiled catalog are those the property list declares.  How  *)
(* many renditions there are the catalog alone decides, and what is stored *)
(* of them does not depend on the order of directories unless keys clash.  *)
(***************************************************************************)
EXTENDS XCAssetCompiler, SequenceTheorems, FunctionTheorems,
        FiniteSetTheorems, WellFoundedInduction, TLAPS

(* Every set of natural numbers has a least element.                       *)
LEMMA LeastElement ==
  ASSUME NEW T \in SUBSET Nat, T # {}
  PROVE  \E x \in T : \A y \in T : x <= y
<1>1. \E x \in T : \A y \in T : ~(<<y, x>> \in OpToRel(<, Nat))
  BY NatLessThanWellFounded, WFMin
<1>2. PICK x \in T : \A y \in T : ~(<<y, x>> \in OpToRel(<, Nat))
  BY <1>1
<1>3. ASSUME NEW y \in T PROVE x <= y
  <2>1. x \in Nat /\ y \in Nat
    OBVIOUS
  <2>2. <<y, x>> \in OpToRel(<, Nat) <=> y < x
    BY <2>1 DEF OpToRel
  <2>3. ~(y < x)
    BY <1>2, <2>2, Zenon
  <2> QED
    BY <2>1, <2>3
<1> QED
  BY <1>3

(* A property of 0 that every number hands on to the next.                 *)
LEMMA UpTo ==
  ASSUME NEW n \in Nat, NEW T \in SUBSET (0 .. n), 0 \in T,
         \A k \in 0 .. n - 1 : k \in T => k + 1 \in T
  PROVE  T = 0 .. n
<1> DEFINE Rest == (0 .. n) \ T
<1>1. SUFFICES ASSUME Rest # {} PROVE FALSE
  OBVIOUS
<1>2. Rest \in SUBSET Nat
  OBVIOUS
<1>3. PICK k \in Rest : \A j \in Rest : k <= j
  BY <1>1, <1>2, LeastElement
<1>4. k \in 0 .. n /\ k \notin T /\ k # 0
  BY <1>3
<1>5. k - 1 \in 0 .. n - 1 /\ k - 1 \in 0 .. n /\ k - 1 < k /\ (k - 1) + 1 = k
  BY <1>4
<1>6. k - 1 \in T
  BY <1>3, <1>5
<1> QED
  BY <1>4, <1>5, <1>6

(* Sequences as sets of what is in them.                                   *)
LEMMA RangeOfAppend ==
  ASSUME NEW S, NEW s \in Seq(S), NEW e \in S
  PROVE  ToSet(Append(s, e)) = ToSet(s) \cup {e}
<1> DEFINE n == Len(s)
           t == Append(s, e)
<1>1. /\ n \in Nat /\ DOMAIN s = 1 .. n /\ DOMAIN t = 1 .. n + 1
      /\ \A i \in 1 .. n : t[i] = s[i]
      /\ t[n + 1] = e
  BY LenProperties, AppendProperties
<1> HIDE DEF n, t
<1>2. \A i \in 1 .. n + 1 : i \in 1 .. n \/ i = n + 1
  BY <1>1
<1>3. n + 1 \in 1 .. n + 1 /\ \A i \in 1 .. n : i \in 1 .. n + 1
  BY <1>1
<1>4. ToSet(t) = ToSet(s) \cup {e}
  BY <1>1, <1>2, <1>3 DEF ToSet
<1> QED
  BY <1>4 DEF t

LEMMA RangeOfConcat ==
  ASSUME NEW S, NEW s \in Seq(S), NEW t \in Seq(S)
  PROVE  /\ s \o t \in Seq(S)
         /\ ToSet(s \o t) = ToSet(s) \cup ToSet(t)
<1> DEFINE m == Len(s)
           n == Len(t)
           c == s \o t
<1>1. /\ c \in Seq(S) /\ m \in Nat /\ n \in Nat
      /\ DOMAIN s = 1 .. m /\ DOMAIN t = 1 .. n /\ DOMAIN c = 1 .. m + n
      /\ \A i \in 1 .. m + n : c[i] = IF i <= m THEN s[i] ELSE t[i - m]
  BY LenProperties, ConcatProperties
<1> HIDE DEF m, n, c
<1>2. ASSUME NEW i \in DOMAIN c PROVE c[i] \in ToSet(s) \cup ToSet(t)
  <2>1. i \in 1 .. m \/ (~(i <= m) /\ i - m \in 1 .. n)
    BY <1>1
  <2>2. CASE i \in 1 .. m
    BY <1>1, <2>2 DEF ToSet
  <2>3. CASE ~(i <= m) /\ i - m \in 1 .. n
    BY <1>1, <2>3 DEF ToSet
  <2> QED
    BY <2>1, <2>2, <2>3
<1>3. ASSUME NEW i \in DOMAIN s PROVE s[i] \in ToSet(c)
  <2>1. i \in 1 .. m + n /\ i <= m
    BY <1>1
  <2>2. c[i] = s[i] /\ i \in DOMAIN c
    BY <1>1, <2>1
  <2> QED
    BY <2>2 DEF ToSet
<1>4. ASSUME NEW i \in DOMAIN t PROVE t[i] \in ToSet(c)
  <2>1. m + i \in 1 .. m + n /\ ~(m + i <= m) /\ (m + i) - m = i
    BY <1>1
  <2>2. c[m + i] = t[i] /\ m + i \in DOMAIN c
    BY <1>1, <2>1
  <2> QED
    BY <2>2 DEF ToSet
<1>5. ToSet(c) \subseteq ToSet(s) \cup ToSet(t)
  BY <1>2 DEF ToSet
<1>6. ToSet(s) \subseteq ToSet(c)
  BY <1>3 DEF ToSet
<1>7. ToSet(t) \subseteq ToSet(c)
  BY <1>4 DEF ToSet
<1>8. ToSet(c) = ToSet(s) \cup ToSet(t)
  BY <1>5, <1>6, <1>7
<1> QED
  BY <1>1, <1>8 DEF c

LEMMA RangeOfTail ==
  ASSUME NEW S, NEW s \in Seq(S), s # <<>>
  PROVE  /\ Head(s) \in S /\ Tail(s) \in Seq(S)
         /\ ToSet(s) = {Head(s)} \cup ToSet(Tail(s))
<1>1. <<Head(s)>> \in Seq(S) /\ Tail(s) \in Seq(S) /\ s = <<Head(s)>> \o Tail(s) /\ Head(s) \in S
  <2>1. Head(s) \in S /\ Tail(s) \in Seq(S)
    BY HeadTailProperties
  <2> QED
    BY <2>1
<1> DEFINE h == Head(s)
           r == Tail(s)
<1> HIDE DEF h, r
<1>2. ToSet(<<h>>) = {h}
  BY DEF ToSet
<1>3. ToSet(<<h>> \o r) = ToSet(<<h>>) \cup ToSet(r)
  BY ZenonT(60), <1>1, RangeOfConcat DEF h, r
<1>0. s = <<h>> \o r
  BY <1>1 DEF h, r
<1>4. ToSet(s) = ToSet(<<h>> \o r)
  BY <1>0
<1> QED
  BY <1>1, <1>2, <1>3, <1>4 DEF h, r

(* Joining sequences, one after the other.                                 *)
Joins(F, seqs, S) ==
  /\ F \in [0 .. Len(seqs) -> Seq(S)]
  /\ F[0] = <<>>
  /\ \A i \in 1 .. Len(seqs) : F[i] = F[i - 1] \o seqs[i]

LEMMA FlattenJoins ==
  ASSUME NEW S, NEW seqs \in Seq(Seq(S))
  PROVE  \E F : Joins(F, seqs, S) /\ FlattenSeq(seqs) = F[Len(seqs)]
<1> DEFINE n == Len(seqs)
<1>1. n \in Nat /\ \A i \in 1 .. n : seqs[i] \in Seq(S)
  BY LenProperties
<1>2. CASE n = 0
  <2> DEFINE F == [i \in 0 .. n |-> <<>>]
  <2>1. FlattenSeq(seqs) = <<>> /\ 1 .. n = {}
    BY <1>2, EmptySeq DEF FlattenSeq
  <2>2. F \in [0 .. n -> Seq(S)] /\ F[0] = <<>> /\ F[n] = <<>>
    BY <1>2, EmptySeq
  <2> HIDE DEF F
  <2> QED
    BY <2>1, <2>2 DEF Joins
<1>3. CASE n # 0
  <2> DEFINE Step(g) == [i \in 1 .. n |-> IF i = 1 THEN seqs[i] ELSE g[i - 1] \o seqs[i]]
             flat == CHOOSE g : g = Step(g)
  <2>1. FlattenSeq(seqs) = flat[n]
    BY <1>3 DEF FlattenSeq
  <2> DEFINE Is(k, g) == /\ g = [i \in 1 .. k + 1 |-> g[i]]
                         /\ g[1] = seqs[1]
                         /\ \A i \in 2 .. k + 1 : g[i] = g[i - 1] \o seqs[i]
             T == {k \in 0 .. n - 1 : \E g : Is(k, g)}
  <2>2. 0 \in T
    <3> DEFINE g == [i \in 1 .. 0 + 1 |-> seqs[1]]
    <3>1. g = [i \in 1 .. 0 + 1 |-> g[i]]
      OBVIOUS
    <3>2. g[1] = seqs[1] /\ 2 .. 0 + 1 = {}
      OBVIOUS
    <3> HIDE DEF g
    <3>3. Is(0, g) /\ 0 \in 0 .. n - 1
      BY <1>1, <1>3, <3>1, <3>2
    <3> HIDE DEF Is
    <3> QED
      BY <3>3
  <2>3. ASSUME NEW k \in 0 .. (n - 1) - 1, k \in T PROVE k + 1 \in T
    <3>1. PICK g : Is(k, g)
      BY <2>3
    <3> DEFINE next == g[k + 1] \o seqs[k + 2]
               h == [i \in 1 .. (k + 1) + 1 |-> IF i = k + 2 THEN next ELSE g[i]]
    <3>2. k \in Nat /\ k + 1 \in 0 .. n - 1 /\ (k + 1) + 1 = k + 2
      BY <1>1
    <3> HIDE DEF next
    <3>3. h = [i \in 1 .. (k + 1) + 1 |-> h[i]]
      OBVIOUS
    <3>4. h[1] = seqs[1]
      BY <3>1, <3>2
    <3>5. ASSUME NEW i \in 2 .. (k + 1) + 1 PROVE h[i] = h[i - 1] \o seqs[i]
      <4>1. CASE i = k + 2
        <5>1. h[i] = next /\ h[i - 1] = g[k + 1]
          BY <3>2, <4>1
        <5> QED
          BY <4>1, <5>1 DEF next
      <4>2. CASE i # k + 2
        <5>1. i \in 2 .. k + 1 /\ h[i] = g[i] /\ h[i - 1] = g[i - 1]
          BY <3>2, <4>2
        <5> QED
          BY <3>1, <5>1
      <4> QED
        BY <4>1, <4>2
    <3> HIDE DEF h
    <3>6. Is(k + 1, h)
      BY <3>3, <3>4, <3>5
    <3> HIDE DEF Is
    <3> QED
      BY <3>2, <3>6
  <2>4. T = 0 .. n - 1
    <3>a. T \in SUBSET (0 .. n - 1)
      OBVIOUS
    <3> HIDE DEF T
    <3>1. T \in SUBSET (0 .. n - 1) /\ n - 1 \in Nat
      BY <1>1, <1>3, <3>a
    <3> QED
      BY <2>2, <2>3, <3>1, UpTo
  <2>5. \E g : Is(n - 1, g)
    <3>1. n - 1 \in T
      <4> HIDE DEF T
      <4> QED
        BY <1>1, <1>3, <2>4
    <3> HIDE DEF Is
    <3> QED
      BY <3>1
  <2>6. PICK g : Is(n - 1, g)
    BY <2>5
  <2>7. g = Step(g)
    <3>1. (n - 1) + 1 = n /\ \A i \in 1 .. n : i # 1 => i \in 2 .. n
      BY <1>1
    <3> DEFINE e == [i \in 1 .. n |-> g[i]]
    <3>2. e = g
      BY <2>6, <3>1
    <3>3. e = Step(g)
      BY <2>6, <3>1
    <3> QED
      BY <3>2, <3>3
  <2>8. flat = Step(flat)
    <3> HIDE DEF Step
    <3> QED
      BY <2>7
  <2> HIDE DEF flat, T, Is
  <2>9. flat[1] = seqs[1] /\ \A i \in 2 .. n : flat[i] = flat[i - 1] \o seqs[i]
    <3>1. 1 \in 1 .. n /\ \A i \in 2 .. n : i \in 1 .. n /\ i # 1
      BY <1>1, <1>3
    <3> QED
      BY <2>8, <3>1
  <2> DEFINE Good == {k \in 0 .. n - 1 : flat[k + 1] \in Seq(S)}
  <2>10. 0 \in Good
    <3>1. 0 + 1 = 1 /\ 1 \in 1 .. n /\ 0 \in 0 .. n - 1
      BY <1>1, <1>3
    <3> QED
      BY <1>1, <2>9, <3>1
  <2>11. ASSUME NEW k \in 0 .. (n - 1) - 1, k \in Good PROVE k + 1 \in Good
    <3>1. /\ k + 2 \in 2 .. n /\ k + 2 \in 1 .. n /\ (k + 2) - 1 = k + 1 /\ (k + 1) + 1 = k + 2
          /\ k + 1 \in 0 .. n - 1
      BY <1>1
    <3>2. flat[k + 1] \in Seq(S) /\ seqs[k + 2] \in Seq(S)
      BY <1>1, <2>11, <3>1
    <3>3. flat[k + 2] = flat[k + 1] \o seqs[k + 2]
      BY <2>9, <3>1
    <3>4. flat[k + 2] \in Seq(S)
      BY <3>2, <3>3, ConcatProperties
    <3> QED
      BY <3>1, <3>4
  <2>12. Good = 0 .. n - 1
    <3>1. Good \in SUBSET (0 .. n - 1) /\ n - 1 \in Nat
      BY <1>1, <1>3
    <3> HIDE DEF Good
    <3> QED
      BY <2>10, <2>11, <3>1, UpTo
  <2>13. ASSUME NEW i \in 1 .. n PROVE flat[i] \in Seq(S)
    <3>1. i - 1 \in 0 .. n - 1 /\ (i - 1) + 1 = i
      BY <1>1
    <3>2. i - 1 \in Good
      <4> HIDE DEF Good
      <4> QED
        BY <2>12, <3>1
    <3> QED
      BY <3>1, <3>2
  <2> DEFINE F == [i \in 0 .. n |-> IF i = 0 THEN <<>> ELSE flat[i]]
  <2>14. F \in [0 .. n -> Seq(S)]
    <3>1. \A i \in 0 .. n : i = 0 \/ i \in 1 .. n
      BY <1>1
    <3>2. <<>> \in Seq(S)
      BY EmptySeq
    <3> QED
      BY <2>13, <3>1, <3>2
  <2>15. /\ F[0] = <<>> /\ F[n] = flat[n]
         /\ \A i \in 1 .. n : F[i] = flat[i]
    BY <1>1, <1>3
  <2> HIDE DEF F, Good
  <2>16. ASSUME NEW i \in 1 .. n PROVE F[i] = F[i - 1] \o seqs[i]
    <3>1. CASE i = 1
      <4>1. 1 \in 1 .. n /\ 1 - 1 = 0 /\ seqs[1] \in Seq(S)
        BY <1>1, <1>3
      <4>2. <<>> \o seqs[1] = seqs[1]
        BY <4>1, ConcatEmptySeq
      <4>3. F[1] = seqs[1] /\ F[1 - 1] = <<>>
        BY <2>9, <2>15, <4>1
      <4> QED
        BY <3>1, <4>2, <4>3
    <3>2. CASE i # 1
      <4>1. i \in 2 .. n /\ i - 1 \in 1 .. n
        BY <1>1, <3>2
      <4> QED
        BY <2>9, <2>15, <4>1
    <3> QED
      BY <3>1, <3>2
  <2>17. Joins(F, seqs, S)
    BY <2>14, <2>15, <2>16 DEF Joins
  <2> QED
    BY <2>1, <2>15, <2>17
<1> QED
  BY <1>2, <1>3

(* Joining sequences neither loses an item nor adds one.                   *)
LEMMA RangeOfFlatten ==
  ASSUME NEW S, NEW seqs \in Seq(Seq(S))
  PROVE  /\ FlattenSeq(seqs) \in Seq(S)
         /\ ToSet(FlattenSeq(seqs)) = UNION {ToSet(seqs[i]) : i \in 1 .. Len(seqs)}
<1> DEFINE n == Len(seqs)
<1>1. n \in Nat /\ \A i \in 1 .. n : seqs[i] \in Seq(S)
  BY LenProperties
<1>2. PICK F : Joins(F, seqs, S) /\ FlattenSeq(seqs) = F[n]
  BY FlattenJoins
<1>3. /\ \A k \in 0 .. n : F[k] \in Seq(S)
      /\ F[0] = <<>> /\ \A i \in 1 .. n : F[i] = F[i - 1] \o seqs[i]
  BY <1>2 DEF Joins
<1> DEFINE Good == {k \in 0 .. n : ToSet(F[k]) = UNION {ToSet(seqs[i]) : i \in 1 .. k}}
<1>4. 0 \in Good
  <2>1. ToSet(F[0]) = {} /\ 1 .. 0 = {} /\ 0 \in 0 .. n
    BY <1>1, <1>3 DEF ToSet
  <2> QED
    BY <2>1
<1>5. ASSUME NEW k \in 0 .. n - 1, k \in Good PROVE k + 1 \in Good
  <2>1. /\ k \in 0 .. n /\ k + 1 \in 0 .. n /\ k + 1 \in 1 .. n /\ (k + 1) - 1 = k
        /\ 1 .. k + 1 = (1 .. k) \cup {k + 1}
    BY <1>1
  <2>2. ToSet(F[k]) = UNION {ToSet(seqs[i]) : i \in 1 .. k}
    BY <1>5
  <2>3. F[k + 1] = F[k] \o seqs[k + 1] /\ F[k] \in Seq(S) /\ seqs[k + 1] \in Seq(S)
    BY <1>1, <1>3, <2>1
  <2>4. ToSet(F[k + 1]) = ToSet(F[k]) \cup ToSet(seqs[k + 1])
    BY <2>3, RangeOfConcat
  <2>5. ToSet(F[k + 1]) = UNION {ToSet(seqs[i]) : i \in 1 .. k + 1}
    BY <2>1, <2>2, <2>4
  <2> QED
    BY <2>1, <2>5
<1>6. Good = 0 .. n
  <2>1. Good \in SUBSET (0 .. n)
    OBVIOUS
  <2> HIDE DEF Good
  <2> QED
    BY <1>1, <1>4, <1>5, <2>1, UpTo
<1>7. n \in 0 .. n /\ n \in Good
  <2> HIDE DEF Good
  <2> QED
    BY <1>1, <1>6
<1> QED
  BY <1>2, <1>3, <1>7

-----------------------------------------------------------------------------
(* The tree of a catalog.                                                  *)

(* The levels of a catalog are what they are defined to be.                *)
LEMMA LevelsAre ==
  ASSUME NEW top, MaxDepth \in Nat
  PROVE  /\ Levels(top)[0] = top
         /\ \A n \in 1 .. MaxDepth :
              Levels(top)[n] =
                UNION {d.children : d \in {e \in Levels(top)[n - 1] : e.kind = "folder"}}
<1> DEFINE Below(S) == UNION {d.children : d \in {e \in S : e.kind = "folder"}}
           Step(g) == [i \in 0 .. MaxDepth |-> IF i = 0 THEN top ELSE Below(g[i - 1])]
           level == CHOOSE g : g = Step(g)
           Is(k, g) == /\ g = [i \in 0 .. k |-> g[i]]
                       /\ g[0] = top
                       /\ \A i \in 1 .. k : g[i] = Below(g[i - 1])
           T == {k \in 0 .. MaxDepth : \E g : Is(k, g)}
<1>1. Levels(top) = level
  BY DEF Levels
<1> HIDE DEF Below
<1>2. 0 \in T
  <2> DEFINE g == [i \in 0 .. 0 |-> top]
  <2>1. g = [i \in 0 .. 0 |-> g[i]] /\ g[0] = top /\ 1 .. 0 = {}
    OBVIOUS
  <2> HIDE DEF g
  <2>2. Is(0, g) /\ 0 \in 0 .. MaxDepth
    BY <2>1
  <2> HIDE DEF Is
  <2> QED
    BY <2>2
<1>3. ASSUME NEW k \in 0 .. MaxDepth - 1, k \in T PROVE k + 1 \in T
  <2>1. PICK g : Is(k, g)
    BY <1>3
  <2> DEFINE next == Below(g[k])
             h == [i \in 0 .. k + 1 |-> IF i = k + 1 THEN next ELSE g[i]]
  <2>2. k \in Nat /\ k + 1 \in 0 .. MaxDepth
    OBVIOUS
  <2> HIDE DEF next
  <2>3. h = [i \in 0 .. k + 1 |-> h[i]]
    OBVIOUS
  <2>4. h[0] = top
    BY <2>1, <2>2
  <2>5. ASSUME NEW i \in 1 .. k + 1 PROVE h[i] = Below(h[i - 1])
    <3>1. CASE i = k + 1
      <4>1. h[i] = next /\ h[i - 1] = g[k]
        BY <2>2, <3>1
      <4> QED
        BY <4>1 DEF next
    <3>2. CASE i # k + 1
      <4>1. i \in 1 .. k /\ h[i] = g[i] /\ h[i - 1] = g[i - 1]
        BY <2>2, <3>2
      <4> QED
        BY <2>1, <4>1
    <3> QED
      BY <3>1, <3>2
  <2> HIDE DEF h
  <2>6. Is(k + 1, h)
    BY <2>3, <2>4, <2>5
  <2> HIDE DEF Is
  <2> QED
    BY <2>2, <2>6
<1>4. T = 0 .. MaxDepth
  <2>1. T \in SUBSET (0 .. MaxDepth)
    OBVIOUS
  <2> HIDE DEF T
  <2> QED
    BY <1>2, <1>3, <2>1, UpTo
<1>5. \E g : Is(MaxDepth, g)
  <2>1. MaxDepth \in T
    <3> HIDE DEF T
    <3> QED
      BY <1>4
  <2> HIDE DEF Is
  <2> QED
    BY <2>1
<1>6. PICK g : Is(MaxDepth, g)
  BY <1>5
<1>7. g = Step(g)
  <2>1. \A i \in 0 .. MaxDepth : i # 0 => i \in 1 .. MaxDepth
    OBVIOUS
  <2> DEFINE e == [i \in 0 .. MaxDepth |-> g[i]]
  <2>2. e = g
    BY <1>6
  <2>3. e = Step(g)
    BY <1>6, <2>1
  <2> QED
    BY <2>2, <2>3
<1>8. level = Step(level)
  <2> HIDE DEF Step
  <2> QED
    BY <1>7
<1> HIDE DEF level, T, Is
<1>9. 0 \in 0 .. MaxDepth /\ \A i \in 1 .. MaxDepth : i \in 0 .. MaxDepth /\ i # 0
  OBVIOUS
<1>10. level[0] = top /\ \A n \in 1 .. MaxDepth : level[n] = Below(level[n - 1])
  BY <1>8, <1>9
<1> QED
  BY <1>1, <1>10 DEF Below

-----------------------------------------------------------------------------
(* The invariants.                                                         *)

Listed == UNION {stack[i] : i \in DOMAIN stack}
LoadedSets == UNION {ToSet(loaded[k]) : k \in AssetKinds}

JobsFrom(sets) ==
  UNION {{[name |-> d.name, entry |-> d.entries[i]] : i \in DOMAIN d.entries} : d \in sets}
AllJobs == JobsFrom(Tree)
JobsOf(kind) == JobsFrom(ToSet(loaded[kind]))

TypeInv ==
  /\ catalog \in Catalogs
  /\ stack \in Seq(SUBSET Tree) /\ stack # <<>>
  /\ loaded \in [AssetKinds -> Seq(Tree)]
  /\ \A k \in AssetKinds : \A d \in ToSet(loaded[k]) : d.kind = k /\ d.contents = "ok"

(* The folders entered so far: what is listed or loaded, or was entered, is *)
(* at the top of the catalog or inside a folder entered; and everything is *)
(* listed in one place as long as it is neither loaded nor entered.        *)
Entered(folders) ==
  /\ Listed \cup LoadedSets \cup folders = catalog \cup UNION {d.children : d \in folders}
  /\ folders \cap Listed = {}
  /\ LoadedSets \cap Listed = {}
  /\ \A i, j \in DOMAIN stack : i # j => stack[i] \cap stack[j] = {}

WalkInv ==
  /\ stage = "walking" => \E folders \in SUBSET FoldersOf(catalog) : Entered(folders)
  /\ \A k \in AssetKinds : IsInjective(loaded[k])
  /\ stage \notin {"walking", "failed"} => Len(loaded["appiconset"]) <= 1

SetsInv == TypeInv /\ WalkInv /\ EverySetLoadedOnce

(* All the renditions an entry gives are made.                             *)
Rendered(kind, job) ==
  \A w \in Wanted(kind, job.entry) : \E r \in ToSet(rendered) :
    /\ r.name = job.name /\ r.source = job.entry.file.stem
    /\ r.idiom = job.entry.idiom /\ r.dark = job.entry.dark
    /\ <<r.body, r.scale>> = w

(* The loop p has dealt with all entries of a kind but those in todo, and  *)
(* the phases after it find all of them dealt with.                        *)
LoopInv(kind, p, later) ==
  stage \in {p} \cup later =>
    \A job \in JobsOf(kind) :
      \/ Usable(kind, job.entry) /\ Rendered(kind, job)
      \/ stage = p /\ job \in ToSet(todo)

(* AppIconPlistEmitter knows what to declare for an icon.                  *)
Identified(entry) == entry.file.present /\ entry.size # 0 /\ entry.scale # NoScale

(* The list of icon files is that of the icon set's entries.               *)
IconListInv ==
  /\ stage \in {"walking", "images", "colors"} => iconFiles = <<>>
  /\ stage = "plist" => ToSet(iconFiles) \cup ToSet(todo) = JobsOf("appiconset")
  /\ stage \in {"icons", "loose", "done"} => ToSet(iconFiles) = JobsOf("appiconset")
  /\ stage = "icons" => ToSet(todo) \subseteq ToSet(iconFiles)
  /\ \A job \in ToSet(iconFiles) : Identified(job.entry)

(* What the renditions may be.                                             *)
Renditions ==
  {NewRendition(job, scale, gamut, body) :
     job \in AllJobs,
     scale \in (0 .. 3) \cup {j.entry.scale : j \in AllJobs},
     gamut \in {"none", "sRGB"} \cup {j.entry.gamut : j \in AllJobs},
     body \in Bodies}

JobsInv ==
  /\ rendered \in Seq(Renditions)
  /\ todo \in Seq(AllJobs) /\ iconFiles \in Seq(AllJobs)
  /\ LoopInv("imageset", "images", {"colors", "plist", "icons", "loose", "done"})
  /\ LoopInv("colorset", "colors", {"plist", "icons", "loose", "done"})
  /\ LoopInv("appiconset", "icons", {"loose", "done"})
  /\ IconListInv

LooseFile(job) == [name |-> LooseName(job), source |-> job.entry.file.stem]

IconsRendered ==
  IF stage = "icons" THEN Len(iconFiles) - Len(todo)
  ELSE IF stage \in {"loose", "done"} THEN Len(iconFiles) ELSE 0

(* Of renditions, those of the first n icon files come last, in order.     *)
IconsLast(rs, files, n) ==
  LET others == Len(rs) - n IN
  /\ n \in Nat /\ others \in Nat
  /\ \A i \in 1 .. others : rs[i].body # "icon"
  /\ \A i \in 1 .. n : /\ rs[others + i].body = "icon"
                      /\ rs[others + i].source = files[i].entry.file.stem

(* What is left to do of the icon files after the first n.                 *)
LeftOf(jobs, files, n) ==
  /\ n \in Nat /\ Len(jobs) + n = Len(files)
  /\ \A i \in DOMAIN jobs : jobs[i] = files[n + i]

LooseFilesOf(ls, files) == \A i \in DOMAIN ls : ls[i] = LooseFile(files[i])

IconRenditionsInv ==
  stage # "failed" =>
    /\ IconsLast(rendered, iconFiles, IconsRendered)
    /\ stage = "icons" => LeftOf(todo, iconFiles, IconsRendered)

(* So do the loose files.                                                  *)
LooseInv ==
  stage # "failed" =>
    /\ stage \notin {"loose", "done"} => looseFiles = <<>>
    /\ stage = "loose" => LeftOf(todo, iconFiles, Len(looseFiles))
    /\ stage = "done" => Len(looseFiles) = Len(iconFiles)
    /\ LooseFilesOf(looseFiles, iconFiles)

OutputInv ==
  /\ looseFiles \in Seq({LooseFile(job) : job \in AllJobs})
  /\ IconRenditionsInv /\ LooseInv

IInv == SetsInv /\ JobsInv /\ OutputInv

-----------------------------------------------------------------------------

(* The tree of a catalog is the least set of directories with those at its *)
(* top and, for each folder, those inside.                                 *)
LEMMA TreeIsClosure ==
  ASSUME NEW top \in Catalogs
  PROVE  /\ top \subseteq TreeOf(top)
         /\ \A d \in FoldersOf(top) : d.children \subseteq TreeOf(top)
         /\ \A C : top \subseteq C /\ (\A d \in C : d.kind = "folder" => d.children \subseteq C)
              => TreeOf(top) \subseteq C
<1> DEFINE level == Levels(top)
<1>1. /\ MaxDepth \in Nat
      /\ \A d \in level[MaxDepth] : d.kind = "folder" => d.children = {}
  BY CatalogAssumption
<1>2. /\ level[0] = top
      /\ \A n \in 1 .. MaxDepth :
           level[n] = UNION {d.children : d \in {e \in level[n - 1] : e.kind = "folder"}}
  BY <1>1, LevelsAre
<1>3. TreeOf(top) = UNION {level[n] : n \in 0 .. MaxDepth}
  BY DEF TreeOf
<1> HIDE DEF level
<1>4. top \subseteq TreeOf(top)
  <2>1. 0 \in 0 .. MaxDepth
    BY <1>1
  <2> QED
    BY <1>2, <1>3, <2>1
<1>5. ASSUME NEW d \in FoldersOf(top) PROVE d.children \subseteq TreeOf(top)
  <2>1. d \in TreeOf(top) /\ d.kind = "folder"
    BY DEF FoldersOf
  <2>2. PICK n \in 0 .. MaxDepth : d \in level[n]
    BY <1>3, <2>1
  <2>3. CASE n = MaxDepth
    BY <1>1, <2>1, <2>2, <2>3
  <2>4. CASE n # MaxDepth
    <3>1. n + 1 \in 1 .. MaxDepth /\ n + 1 \in 0 .. MaxDepth /\ (n + 1) - 1 = n
      BY <1>1, <2>4
    <3>2. d.children \subseteq level[n + 1]
      BY <1>2, <2>1, <2>2, <3>1
    <3> QED
      BY <1>3, <3>1, <3>2
  <2> QED
    BY <2>3, <2>4
<1>6. ASSUME NEW C, top \subseteq C, \A d \in C : d.kind = "folder" => d.children \subseteq C
      PROVE  TreeOf(top) \subseteq C
  <2> DEFINE In == {n \in 0 .. MaxDepth : level[n] \subseteq C}
  <2>1. 0 \in In /\ In \in SUBSET (0 .. MaxDepth)
    BY <1>1, <1>2, <1>6
  <2>2. ASSUME NEW n \in 0 .. MaxDepth - 1, n \in In PROVE n + 1 \in In
    <3>1. n + 1 \in 1 .. MaxDepth /\ n + 1 \in 0 .. MaxDepth /\ (n + 1) - 1 = n
      BY <1>1
    <3>2. level[n + 1] = UNION {d.children : d \in {e \in level[n] : e.kind = "folder"}}
      BY <1>2, <3>1
    <3>3. level[n] \subseteq C
      BY <2>2
    <3>4. level[n + 1] \subseteq C
      BY <1>6, <3>2, <3>3
    <3> QED
      BY <3>1, <3>4
  <2> HIDE DEF In
  <2>3. In = 0 .. MaxDepth
    BY <1>1, <2>1, <2>2, UpTo
  <2>4. \A n \in 0 .. MaxDepth : level[n] \subseteq C
    BY <2>3 DEF In
  <2> QED
    BY <1>3, <2>4
<1> QED
  BY <1>4, <1>5, <1>6

(* The walk: what the top of the stack lists, and what becomes of it.      *)
LEMMA ListingProperties ==
  ASSUME NEW S, stack \in Seq(SUBSET S), stack # <<>>, NEW rest \in SUBSET S
  PROVE  /\ Len(stack) \in Nat \ {0} /\ DOMAIN stack = 1 .. Len(stack)
         /\ Children = stack[Len(stack)] /\ Children \subseteq S
         /\ Listing(rest) \in Seq(SUBSET S) /\ Listing(rest) # <<>>
         /\ Len(Listing(rest)) = Len(stack)
         /\ DOMAIN Listing(rest) = 1 .. Len(stack)
         /\ \A i \in 1 .. Len(stack) :
              Listing(rest)[i] = IF i = Len(stack) THEN rest ELSE stack[i]
<1>1. Len(stack) \in Nat \ {0} /\ DOMAIN stack = 1 .. Len(stack)
  BY LenProperties, EmptySeq
<1>2. Children = stack[Len(stack)] /\ Children \in SUBSET S
  BY <1>1, ElementOfSeq DEF Children, Last
<1>3. /\ Listing(rest) \in Seq(SUBSET S) /\ Len(Listing(rest)) = Len(stack)
      /\ \A i \in 1 .. Len(stack) :
           Listing(rest)[i] = IF i = Len(stack) THEN rest ELSE stack[i]
  BY <1>1, ExceptSeq DEF Listing
<1>4. Listing(rest) # <<>>
  BY <1>1, <1>3, EmptySeq
<1> QED
  BY <1>1, <1>2, <1>3, <1>4, LenProperties

LEMMA InitSets == Init => SetsInv
<1> SUFFICES ASSUME Init PROVE SetsInv
  OBVIOUS
<1>1. /\ catalog \in Catalogs /\ stage = "walking" /\ stack = <<catalog>>
      /\ loaded = [k \in AssetKinds |-> <<>>]
  BY DEF Init
<1>2. catalog \in SUBSET Tree
  BY <1>1, TreeIsClosure DEF Tree
<1>3. TypeInv
  <2>1. stack \in Seq(SUBSET Tree) /\ stack # <<>>
    BY <1>1, <1>2
  <2>2. \A k \in AssetKinds : loaded[k] = <<>> /\ ToSet(loaded[k]) = {}
    BY <1>1 DEF ToSet
  <2> QED
    BY <1>1, <2>1, <2>2, EmptySeq DEF TypeInv
<1>4. Entered({})
  <2>1. LoadedSets = {}
    BY <1>1 DEF LoadedSets, ToSet
  <2>2. DOMAIN stack = {1} /\ stack[1] = catalog
    BY <1>1
  <2>3. Listed = catalog
    BY <2>2 DEF Listed
  <2> QED
    BY <2>1, <2>2, <2>3 DEF Entered
<1>5. WalkInv
  BY <1>1, <1>4 DEF WalkInv, IsInjective
<1>6. EverySetLoadedOnce
  BY <1>1 DEF EverySetLoadedOnce
<1> QED
  BY <1>3, <1>5, <1>6 DEF SetsInv

(* Entering a folder lists its directories, which are listed nowhere else. *)
LEMMA EnterFolderKeeps ==
  ASSUME SetsInv, NEW d, EnterFolder(d)
  PROVE  SetsInv'
<1> DEFINE n == Len(stack)
           rest == Children \ {d}
           listing == Listing(rest)
<1>1. /\ TypeInv /\ WalkInv /\ stage = "walking" /\ stage' = "walking"
      /\ d \in Children /\ d.kind = "folder"
      /\ stack' = Append(listing, d.children)
      /\ UNCHANGED <<catalog, loaded>>
  BY DEF SetsInv, EnterFolder
<1>2. /\ catalog \in Catalogs /\ stack \in Seq(SUBSET Tree) /\ stack # <<>>
      /\ Tree' = Tree /\ FoldersOf(catalog)' = FoldersOf(catalog)
  BY <1>1 DEF TypeInv, Tree
<1>3. Children \subseteq Tree
  <2>1. {} \in SUBSET Tree
    OBVIOUS
  <2> QED
    BY <1>2, <2>1, ListingProperties
<1>4. rest \in SUBSET Tree
  BY <1>3
<1>5. /\ n \in Nat \ {0} /\ DOMAIN stack = 1 .. n /\ Children = stack[n]
      /\ listing \in Seq(SUBSET Tree) /\ listing # <<>> /\ Len(listing) = n
      /\ \A i \in 1 .. n : listing[i] = IF i = n THEN rest ELSE stack[i]
  BY <1>2, <1>4, ListingProperties
<1>6. d \in FoldersOf(catalog) /\ d.children \in SUBSET Tree
  <2>1. d \in FoldersOf(catalog)
    BY <1>1, <1>3 DEF FoldersOf, Tree
  <2> QED
    BY <1>2, <2>1, TreeIsClosure DEF Tree
<1> HIDE DEF listing, n
<1>7. /\ stack' \in Seq(SUBSET Tree) /\ stack' # <<>> /\ DOMAIN stack' = 1 .. n + 1
      /\ stack'[n + 1] = d.children
      /\ \A i \in 1 .. n : stack'[i] = IF i = n THEN rest ELSE stack[i]
  <2>1. /\ stack' \in Seq(SUBSET Tree) /\ stack' # <<>> /\ Len(stack') = n + 1
        /\ stack'[n + 1] = d.children /\ \A i \in 1 .. n : stack'[i] = listing[i]
    BY <1>1, <1>5, <1>6, AppendProperties
  <2>2. DOMAIN stack' = 1 .. n + 1
    BY <2>1, LenProperties
  <2> QED
    BY <1>5, <2>1, <2>2
<1>8. TypeInv'
  BY <1>1, <1>2, <1>7 DEF TypeInv
<1>9. PICK E \in SUBSET FoldersOf(catalog) : Entered(E)
  BY <1>1 DEF WalkInv
<1> DEFINE F == E \cup {d}
<1>10. /\ Listed \cup LoadedSets \cup E = catalog \cup UNION {e.children : e \in E}
       /\ E \cap Listed = {} /\ LoadedSets \cap Listed = {}
       /\ \A i, j \in 1 .. n : i # j => stack[i] \cap stack[j] = {}
  BY <1>5, <1>9 DEF Entered
<1>11. d \in Listed /\ d \notin E /\ d \notin LoadedSets
  <2>1. d \in Listed
    BY <1>1, <1>5 DEF Listed
  <2> QED
    BY <1>10, <2>1
<1>12. d.children \cap (Listed \cup LoadedSets \cup E) = {}
  <2>1. d.children \cap catalog = {}
    BY <1>2, <1>6, CatalogAssumption
  <2>2. \A e \in E : d.children \cap e.children = {}
    BY <1>2, <1>6, <1>11, CatalogAssumption
  <2> QED
    BY <1>10, <2>1, <2>2
<1>13. Listed' = (Listed \ {d}) \cup d.children
  <2>1. ASSUME NEW i \in 1 .. n, i # n PROVE d \notin stack[i]
    <3>1. n \in 1 .. n
      BY <1>5
    <3> QED
      BY <1>1, <1>5, <1>10, <2>1, <3>1
  <2>2. ASSUME NEW x \in Listed' PROVE x \in (Listed \ {d}) \cup d.children
    <3>1. PICK i \in 1 .. n + 1 : x \in stack'[i]
      BY <1>7 DEF Listed
    <3>2. CASE i = n + 1
      BY <1>7, <3>1, <3>2
    <3>3. CASE i = n
      <4>1. n \in 1 .. n /\ x \in rest
        BY <1>5, <1>7, <3>1, <3>3
      <4> QED
        BY <1>5, <4>1 DEF Listed
    <3>4. CASE i # n /\ i # n + 1
      <4>1. i \in 1 .. n /\ x \in stack[i]
        BY <1>5, <1>7, <3>1, <3>4
      <4> QED
        BY <1>5, <2>1, <3>4, <4>1 DEF Listed
    <3> QED
      BY <3>2, <3>3, <3>4
  <2>3. ASSUME NEW x \in Listed, x # d PROVE x \in Listed'
    <3>1. PICK i \in 1 .. n : x \in stack[i]
      BY <1>5 DEF Listed
    <3>2. x \in stack'[i]
      BY <1>5, <1>7, <2>3, <3>1
    <3>3. i \in DOMAIN stack'
      BY <1>5, <1>7
    <3> QED
      BY <3>2, <3>3 DEF Listed
  <2>4. d.children \subseteq Listed'
    <3>1. n + 1 \in DOMAIN stack'
      BY <1>5, <1>7
    <3> QED
      BY <1>7, <3>1 DEF Listed
  <2> QED
    BY <2>2, <2>3, <2>4
<1>14. LoadedSets' = LoadedSets
  BY <1>1 DEF LoadedSets
<1>15. Entered(F)'
  <2>1. (Listed' \cup LoadedSets' \cup F) = catalog' \cup UNION {e.children : e \in F}
    <3>1. (Listed' \cup LoadedSets' \cup F) = Listed \cup LoadedSets \cup E \cup d.children
      BY <1>11, <1>13, <1>14
    <3> QED
      BY <1>1, <1>10, <3>1
  <2>2. F \cap Listed' = {} /\ LoadedSets' \cap Listed' = {}
    BY <1>10, <1>11, <1>12, <1>13, <1>14
  <2>3. ASSUME NEW i \in 1 .. n + 1, NEW j \in 1 .. n + 1, i # j
        PROVE  stack'[i] \cap stack'[j] = {}
    <3>1. ASSUME NEW k \in 1 .. n PROVE stack'[k] \subseteq stack[k] /\ stack[k] \subseteq Listed
      BY <1>5, <1>7 DEF Listed
    <3>2. \A k \in 1 .. n + 1 : k \in 1 .. n \/ k = n + 1
      BY <1>5
    <3>3. CASE i \in 1 .. n /\ j \in 1 .. n
      BY <1>10, <2>3, <3>1, <3>3
    <3>4. CASE i = n + 1 /\ j \in 1 .. n
      BY <1>7, <1>12, <3>1, <3>4
    <3>5. CASE i \in 1 .. n /\ j = n + 1
      BY <1>7, <1>12, <3>1, <3>5
    <3> QED
      BY <2>3, <3>2, <3>3, <3>4, <3>5
  <2> QED
    BY <1>7, <2>1, <2>2, <2>3 DEF Entered
<1>16. WalkInv'
  <2>1. F \in SUBSET FoldersOf(catalog)'
    BY <1>2, <1>6
  <2> HIDE DEF F
  <2> QED
    BY <1>1, <1>15, <2>1 DEF WalkInv
<1>17. EverySetLoadedOnce'
  BY <1>1 DEF EverySetLoadedOnce
<1> QED
  BY <1>8, <1>16, <1>17 DEF SetsInv

(* An asset set that is loaded was listed in one place, and not loaded.    *)
LEMMA LoadSetKeeps ==
  ASSUME SetsInv, NEW d, LoadSet(d)
  PROVE  SetsInv'
<1> DEFINE n == Len(stack)
           rest == Children \ {d}
           kind == d.kind
<1>1. /\ TypeInv /\ WalkInv /\ stage = "walking" /\ stage' = "walking"
      /\ d \in Children /\ kind \in AssetKinds /\ d.contents = "ok"
      /\ stack' = Listing(rest)
      /\ loaded' = [loaded EXCEPT ![kind] = Append(loaded[kind], d)]
      /\ UNCHANGED catalog
  BY DEF SetsInv, LoadSet
<1>2. /\ catalog \in Catalogs /\ stack \in Seq(SUBSET Tree) /\ stack # <<>>
      /\ loaded \in [AssetKinds -> Seq(Tree)]
      /\ Tree' = Tree /\ FoldersOf(catalog)' = FoldersOf(catalog)
  BY <1>1 DEF TypeInv, Tree
<1>3. Children \subseteq Tree
  <2>1. {} \in SUBSET Tree
    OBVIOUS
  <2> QED
    BY <1>2, <2>1, ListingProperties
<1>4. rest \in SUBSET Tree /\ d \in Tree
  BY <1>1, <1>3
<1>5. /\ n \in Nat \ {0} /\ DOMAIN stack = 1 .. n /\ Children = stack[n]
      /\ stack' \in Seq(SUBSET Tree) /\ stack' # <<>> /\ DOMAIN stack' = 1 .. n
      /\ \A i \in 1 .. n : stack'[i] = IF i = n THEN rest ELSE stack[i]
  BY <1>1, <1>2, <1>4, ListingProperties
<1> HIDE DEF n, kind
<1>6. /\ loaded' \in [AssetKinds -> Seq(Tree)]
      /\ loaded'[kind] = Append(loaded[kind], d)
      /\ \A k \in AssetKinds \ {kind} : loaded'[k] = loaded[k]
      /\ loaded[kind] \in Seq(Tree)
  <2>1. loaded[kind] \in Seq(Tree)
    BY <1>1, <1>2
  <2>2. Append(loaded[kind], d) \in Seq(Tree)
    BY <1>4, <2>1, AppendProperties
  <2> QED
    BY <1>1, <1>2, <2>1, <2>2
<1>7. ToSet(loaded'[kind]) = ToSet(loaded[kind]) \cup {d}
  BY <1>4, <1>6, RangeOfAppend
<1>8. TypeInv'
  <2>1. ASSUME NEW k \in AssetKinds, NEW e \in ToSet(loaded'[k])
        PROVE  e.kind = k /\ e.contents = "ok"
    <3>1. CASE k = kind
      BY <1>1, <1>7, <2>1, <3>1 DEF TypeInv, kind
    <3>2. CASE k # kind
      BY <1>1, <1>6, <2>1, <3>2 DEF TypeInv
    <3> QED
      BY <3>1, <3>2
  <2>2. \A k \in AssetKinds : \A e \in ToSet(loaded'[k]) : e.kind = k /\ e.contents = "ok"
    BY <2>1
  <2> QED
    BY <1>1, <1>2, <1>5, <1>6, <2>2 DEF TypeInv
<1>9. PICK E \in SUBSET FoldersOf(catalog) : Entered(E)
  BY <1>1 DEF WalkInv
<1>10. /\ Listed \cup LoadedSets \cup E = catalog \cup UNION {e.children : e \in E}
       /\ E \cap Listed = {} /\ LoadedSets \cap Listed = {}
       /\ \A i, j \in 1 .. n : i # j => stack[i] \cap stack[j] = {}
  BY <1>5, <1>9 DEF Entered
<1>11. d \in Listed /\ d \notin E /\ d \notin LoadedSets
  <2>1. n \in DOMAIN stack
    BY <1>5
  <2>2. d \in Listed
    BY <1>1, <1>5, <2>1 DEF Listed
  <2> QED
    BY <1>10, <2>2
<1>12. Listed' = Listed \ {d}
  <2>1. ASSUME NEW i \in 1 .. n, i # n PROVE d \notin stack[i]
    <3>1. n \in 1 .. n
      BY <1>5
    <3> QED
      BY <1>1, <1>5, <1>10, <2>1, <3>1
  <2>2. \A i \in 1 .. n : stack'[i] = stack[i] \ {d}
    <3>1. ASSUME NEW i \in 1 .. n PROVE stack'[i] = stack[i] \ {d}
      BY <1>5, <2>1
    <3> QED
      BY <3>1
  <2>3. ASSUME NEW x
        PROVE  (\E i \in 1 .. n : x \in stack'[i]) <=> (\E i \in 1 .. n : x \in stack[i]) /\ x # d
    BY <2>2
  <2>4. /\ Listed = UNION {stack[i] : i \in 1 .. n}
        /\ Listed' = UNION {stack'[i] : i \in 1 .. n}
    BY <1>5 DEF Listed
  <2> DEFINE before == stack
             after == stack'
  <2>5. \A x : (\E i \in 1 .. n : x \in after[i]) <=> (\E i \in 1 .. n : x \in before[i]) /\ x # d
    BY <2>3
  <2> HIDE DEF before, after
  <2>6. UNION {after[i] : i \in 1 .. n} = (UNION {before[i] : i \in 1 .. n}) \ {d}
    BY <2>5
  <2> QED
    BY <2>4, <2>6 DEF before, after
<1>13. LoadedSets' = LoadedSets \cup {d}
  <2>1. \A k \in AssetKinds :
          ToSet(loaded'[k]) = ToSet(loaded[k]) \cup (IF k = kind THEN {d} ELSE {})
    BY <1>6, <1>7
  <2>2. kind \in AssetKinds
    BY <1>1
  <2> QED
    BY <2>1, <2>2 DEF LoadedSets
<1>14. Entered(E)'
  <2>1. Listed' \cup LoadedSets' \cup E = catalog' \cup UNION {e.children : e \in E}
    BY <1>1, <1>10, <1>11, <1>12, <1>13
  <2>2. E \cap Listed' = {} /\ LoadedSets' \cap Listed' = {}
    BY <1>10, <1>12, <1>13
  <2>3. \A i \in 1 .. n : stack'[i] \subseteq stack[i]
    BY <1>5
  <2>4. \A i, j \in 1 .. n : i # j => stack'[i] \cap stack'[j] = {}
    BY <1>10, <2>3
  <2> QED
    BY <1>5, <2>1, <2>2, <2>4 DEF Entered
<1>15. \A k \in AssetKinds : IsInjective(loaded'[k])
  <2>1. ASSUME NEW k \in AssetKinds, k # kind PROVE IsInjective(loaded'[k])
    <3>1. loaded'[k] = loaded[k]
      BY <1>6, <2>1
    <3> QED
      BY <1>1, <3>1 DEF WalkInv
  <2>2. IsInjective(loaded'[kind])
    <3> DEFINE s == loaded[kind]
               m == Len(s)
               t == Append(s, d)
    <3>1. /\ m \in Nat /\ DOMAIN s = 1 .. m /\ DOMAIN t = 1 .. m + 1
          /\ \A i \in 1 .. m : t[i] = s[i]
          /\ t[m + 1] = d
      <4>1. /\ Len(t) = m + 1 /\ \A i \in 1 .. m : t[i] = s[i]
            /\ t[m + 1] = d /\ t \in Seq(Tree)
        BY <1>4, <1>6, AppendProperties
      <4> QED
        BY <1>6, <4>1, LenProperties
    <3>2. \A i \in 1 .. m : s[i] # d
      BY <1>1, <1>11, <3>1 DEF LoadedSets, ToSet
    <3>3. IsInjective(s)
      BY <1>1 DEF WalkInv
    <3> HIDE DEF s, m, t
    <3>4. ASSUME NEW i \in 1 .. m + 1, NEW j \in 1 .. m + 1, t[i] = t[j]
          PROVE  i = j
      <4>1. \A k \in 1 .. m + 1 : k \in 1 .. m \/ k = m + 1
        BY <3>1
      <4>2. CASE i \in 1 .. m /\ j \in 1 .. m
        BY <3>1, <3>3, <3>4, <4>2 DEF IsInjective
      <4>3. CASE i = m + 1 /\ j \in 1 .. m
        BY <3>1, <3>2, <3>4, <4>3
      <4>4. CASE i \in 1 .. m /\ j = m + 1
        BY <3>1, <3>2, <3>4, <4>4
      <4> QED
        BY <4>1, <4>2, <4>3, <4>4
    <3>5. IsInjective(t)
      BY <3>1, <3>4 DEF IsInjective
    <3> QED
      BY <1>6, <3>5 DEF t, s
  <2> QED
    BY <2>1, <2>2
<1>16. WalkInv'
  <2>1. E \in SUBSET FoldersOf(catalog)'
    BY <1>2
  <2> QED
    BY <1>1, <1>14, <1>15, <2>1 DEF WalkInv
<1>17. EverySetLoadedOnce'
  BY <1>1 DEF EverySetLoadedOnce
<1> QED
  BY <1>8, <1>16, <1>17 DEF SetsInv

(* A folder is left when nothing of it is listed any more.                 *)
LEMMA LeaveFolderKeeps ==
  ASSUME SetsInv, LeaveFolder
  PROVE  SetsInv'
<1> DEFINE n == Len(stack)
<1>1. /\ TypeInv /\ WalkInv /\ stage = "walking" /\ stage' = "walking"
      /\ Children = {} /\ n > 1 /\ stack' = Front(stack)
      /\ UNCHANGED <<catalog, loaded>>
  BY DEF SetsInv, LeaveFolder
<1>2. /\ catalog \in Catalogs /\ stack \in Seq(SUBSET Tree) /\ stack # <<>>
      /\ Tree' = Tree /\ FoldersOf(catalog)' = FoldersOf(catalog)
  BY <1>1 DEF TypeInv, Tree
<1>3. n \in Nat \ {0} /\ DOMAIN stack = 1 .. n /\ stack[n] = {}
  <2>1. {} \in SUBSET Tree
    OBVIOUS
  <2> QED
    BY <1>1, <1>2, <2>1, ListingProperties
<1>4. /\ stack' \in Seq(SUBSET Tree) /\ stack' # <<>> /\ DOMAIN stack' = 1 .. n - 1
      /\ \A i \in 1 .. n - 1 : stack'[i] = stack[i]
  <2>1. \A i \in 1 .. n - 1 : stack[i] \in SUBSET Tree
    BY <1>2, <1>3, ElementOfSeq
  <2>2. n - 1 \in Int /\ 1 \in Int /\ 1 <= n - 1 /\ (n - 1) - 1 + 1 = n - 1
    BY <1>1, <1>3
  <2>3. /\ stack' \in Seq(SUBSET Tree) /\ Len(stack') = n - 1
        /\ \A i \in 1 .. n - 1 : stack'[i] = stack[i]
    <3> DEFINE f == SubSeq(stack, 1, n - 1)
    <3>1. /\ f \in Seq(SUBSET Tree) /\ Len(f) = n - 1
          /\ \A i \in 1 .. n - 1 : f[i] = stack[1 + i - 1]
      BY <2>1, <2>2, SubSeqProperties
    <3>2. stack' = f
      BY <1>1 DEF Front
    <3> HIDE DEF f
    <3> QED
      BY <3>1, <3>2
  <2>4. DOMAIN stack' = 1 .. n - 1
    BY <2>3, LenProperties
  <2>5. stack' # <<>>
    BY <2>2, <2>3, EmptySeq
  <2> QED
    BY <2>3, <2>4, <2>5
<1> HIDE DEF n
<1>5. Listed' = Listed
  <2>1. ASSUME NEW x, NEW i \in 1 .. n, x \in stack[i] PROVE i \in 1 .. n - 1
    BY <1>3, <2>1
  <2>2. \A i \in 1 .. n - 1 : i \in 1 .. n
    BY <1>3
  <2> QED
    BY <1>3, <1>4, <2>1, <2>2 DEF Listed
<1>6. TypeInv'
  BY <1>1, <1>2, <1>4 DEF TypeInv
<1>7. PICK E \in SUBSET FoldersOf(catalog) : Entered(E)
  BY <1>1 DEF WalkInv
<1>8. Entered(E)'
  <2>1. LoadedSets' = LoadedSets
    BY <1>1 DEF LoadedSets
  <2>2. \A i \in 1 .. n - 1 : i \in 1 .. n
    BY <1>3
  <2>3. \A i, j \in 1 .. n - 1 : i # j => stack'[i] \cap stack'[j] = {}
    BY <1>3, <1>4, <1>7, <2>2 DEF Entered
  <2> QED
    BY <1>1, <1>4, <1>5, <1>7, <2>1, <2>3 DEF Entered
<1>9. WalkInv'
  <2>1. E \in SUBSET FoldersOf(catalog)'
    BY <1>2
  <2> QED
    BY <1>1, <1>8, <2>1 DEF WalkInv
<1>10. EverySetLoadedOnce'
  BY <1>1 DEF EverySetLoadedOnce
<1> QED
  BY <1>6, <1>9, <1>10 DEF SetsInv

(* When nothing is listed any more, what was loaded and entered is closed  *)
(* under the directories inside, so all asset sets of the tree are loaded. *)
LEMMA EndWalkKeeps ==
  ASSUME SetsInv, EndWalk
  PROVE  SetsInv'
<1>1. /\ TypeInv /\ WalkInv /\ stage = "walking" /\ stage' = "images" /\ stack = <<{}>>
      /\ Len(loaded["appiconset"]) <= 1
      /\ UNCHANGED <<catalog, stack, loaded>>
  BY DEF SetsInv, EndWalk
<1>2. Tree' = Tree /\ catalog \in Catalogs /\ loaded \in [AssetKinds -> Seq(Tree)]
  BY <1>1 DEF TypeInv, Tree
<1>3. TypeInv'
  BY <1>1, <1>2 DEF TypeInv
<1>4. WalkInv'
  BY <1>1 DEF WalkInv
<1>5. PICK E \in SUBSET FoldersOf(catalog) : Entered(E)
  BY <1>1 DEF WalkInv
<1>6. LoadedSets \cup E = catalog \cup UNION {e.children : e \in E}
  <2>1. DOMAIN stack = {1} /\ stack[1] = {}
    BY <1>1
  <2>2. Listed = {}
    BY <2>1 DEF Listed
  <2> QED
    BY <1>5, <2>2 DEF Entered
<1>7. \A d \in LoadedSets : d.kind \in AssetKinds
  BY <1>1 DEF LoadedSets, TypeInv
<1>8. Tree \subseteq LoadedSets \cup E
  <2>1. ASSUME NEW d \in LoadedSets \cup E, d.kind = "folder"
        PROVE  d.children \subseteq LoadedSets \cup E
    <3>1. d \in E
      BY <1>7, <2>1 DEF AssetKinds
    <3> QED
      BY <1>6, <3>1
  <2>2. catalog \subseteq LoadedSets \cup E
    BY <1>6
  <2>3. \A C : catalog \subseteq C /\ (\A d \in C : d.kind = "folder" => d.children \subseteq C)
                 => TreeOf(catalog) \subseteq C
    BY <1>2, TreeIsClosure
  <2> QED
    BY <2>1, <2>2, <2>3 DEF Tree
<1>9. ASSUME NEW k \in AssetKinds PROVE ToSet(loaded[k]) = SetsIn(k)
  <2>1. ToSet(loaded[k]) \subseteq SetsIn(k)
    <3>1. loaded[k] \in Seq(Tree)
      BY <1>2
    <3>2. \A i \in DOMAIN loaded[k] : loaded[k][i] \in Tree
      BY <3>1, LenProperties, ElementOfSeq
    <3>3. ToSet(loaded[k]) \subseteq Tree
      BY <3>2 DEF ToSet
    <3> QED
      BY <1>1, <3>3 DEF TypeInv, SetsIn
  <2>2. ASSUME NEW d \in SetsIn(k) PROVE d \in ToSet(loaded[k])
    <3>1. d \in Tree /\ d.kind = k
      BY DEF SetsIn
    <3>2. d \notin E
      BY <3>1 DEF FoldersOf, AssetKinds
    <3>3. PICK j \in AssetKinds : d \in ToSet(loaded[j])
      BY <1>8, <3>1, <3>2 DEF LoadedSets
    <3>4. j = k
      BY <1>1, <3>1, <3>3 DEF TypeInv
    <3> QED
      BY <3>3, <3>4
  <2> QED
    BY <2>1, <2>2
<1>10. EverySetLoadedOnce'
  <2>1. \A k \in AssetKinds : ToSet(loaded'[k]) = SetsIn(k)' /\ IsInjective(loaded'[k])
    <3>1. \A k \in AssetKinds : SetsIn(k)' = SetsIn(k)
      BY <1>2 DEF SetsIn
    <3> QED
      BY <1>1, <1>9, <3>1 DEF WalkInv
  <2> QED
    BY <2>1 DEF EverySetLoadedOnce
<1> QED
  BY <1>3, <1>4, <1>10 DEF SetsInv

(* The rest of compile() neither loads nor forgets a set.                  *)
LEMMA LaterKeepsSets ==
  ASSUME SetsInv, UNCHANGED <<catalog, stack, loaded>>,
         stage' = "failed" \/ (stage # "walking" /\ stage # "failed" /\ stage' # "walking") \/ stage' = stage
  PROVE  SetsInv'
<1>1. TypeInv /\ WalkInv /\ EverySetLoadedOnce
  BY DEF SetsInv
<1>2. Tree' = Tree /\ Listed' = Listed /\ LoadedSets' = LoadedSets
      /\ \A k \in AssetKinds : SetsIn(k)' = SetsIn(k)
  BY DEF Tree, Listed, LoadedSets, SetsIn
<1>3. TypeInv'
  BY <1>1, <1>2 DEF TypeInv
<1>4. WalkInv'
  <2>1. \A E : Entered(E)' <=> Entered(E)
    BY <1>2 DEF Entered
  <2>2. stage' = "walking" => stage = "walking"
    OBVIOUS
  <2> QED
    BY <1>1, <2>1, <2>2 DEF WalkInv
<1>5. EverySetLoadedOnce'
  BY <1>1, <1>2 DEF EverySetLoadedOnce
<1> QED
  BY <1>3, <1>4, <1>5 DEF SetsInv

(* The walk keeps its invariant, and so does all that follows.             *)
LEMMA StepSets ==
  ASSUME SetsInv, [Next]_vars
  PROVE  SetsInv'
<1>1. ASSUME NEW e, Throw(e) PROVE SetsInv'
  BY <1>1, LaterKeepsSets DEF Throw
<1>2. ASSUME NEW p, NEW q, NEW jobs, NextLoop(p, q, jobs),
             p \notin {"walking", "failed"}, q # "walking"
      PROVE  SetsInv'
  BY <1>2, LaterKeepsSets DEF NextLoop
<1>3. ASSUME NEW rs, Produce(rs) PROVE SetsInv'
  BY <1>3, LaterKeepsSets DEF Produce
<1>4. CASE Walk
  <2>1. CASE LeaveFolder
    BY <2>1, LeaveFolderKeeps
  <2>2. CASE WalkFails
    BY <1>1, <2>2 DEF WalkFails
  <2>3. CASE EndWalk
    BY <2>3, EndWalkKeeps
  <2>4. CASE TooManyIconSets
    BY <1>1, <2>4 DEF TooManyIconSets
  <2>5. CASE Load
    BY <1>1, <2>5, EnterFolderKeeps, LoadSetKeeps DEF Load, LoadSetFails
  <2> QED
    BY <1>4, <2>1, <2>2, <2>3, <2>4, <2>5 DEF Walk
<1>5. CASE Render
  <2>1. CASE SkipImage \/ RenderImage \/ RenderColor
    BY <1>3, <2>1 DEF SkipImage, RenderImage, RenderColor
  <2>2. CASE RenderImageFails \/ RenderColorFails
    BY <1>1, <2>2 DEF RenderImageFails, RenderColorFails
  <2>3. CASE StartColors \/ StartPlist
    BY <1>2, <2>3 DEF StartColors, StartPlist
  <2> QED
    BY <1>5, <2>1, <2>2, <2>3 DEF Render
<1>6. CASE BundleIcons
  <2>1. CASE EmitIcon \/ CopyLooseFile
    BY <2>1, LaterKeepsSets DEF EmitIcon, CopyLooseFile
  <2>2. CASE RenderIcon
    BY <1>3, <2>2 DEF RenderIcon
  <2>3. CASE EmitIconFails \/ RenderIconFails \/ CopyLooseFileFails
    BY <1>1, <2>3 DEF EmitIconFails, RenderIconFails, CopyLooseFileFails
  <2>4. CASE StartIcons \/ StartLoose \/ Finish
    BY <1>2, <2>4 DEF StartIcons, StartLoose, Finish
  <2> QED
    BY <1>6, <2>1, <2>2, <2>3, <2>4 DEF BundleIcons
<1>7. CASE UNCHANGED vars
  BY <1>7, LaterKeepsSets DEF vars
<1> QED
  BY <1>4, <1>5, <1>6, <1>7 DEF Next, Returned

(* However directories are listed, the walk loads every asset set of the   *)
(* catalog once, those in folders included.                                *)
THEOREM WalkLoadsEverySet == Spec => []EverySetLoadedOnce
<1>1. SetsInv => EverySetLoadedOnce
  BY DEF SetsInv
<1> QED
  BY InitSets, StepSets, <1>1, PTL DEF Spec

-----------------------------------------------------------------------------
(* The jobs of the loops.                                                  *)

LEMMA JobsListed ==
  ASSUME NEW T, \A d \in T : d.entries \in Seq(ToSet(d.entries)), NEW sets \in Seq(T)
  PROVE  Jobs(sets) \in Seq(JobsFrom(T)) /\ ToSet(Jobs(sets)) = JobsFrom(ToSet(sets))
<1> DEFINE job(d, j) == [name |-> d.name, entry |-> d.entries[j]]
           S == JobsFrom(T)
           n == Len(sets)
           seqs == [i \in 1 .. n |-> [j \in DOMAIN sets[i].entries |-> job(sets[i], j)]]
<1>1. n \in Nat /\ DOMAIN sets = 1 .. n /\ \A i \in 1 .. n : sets[i] \in T
  BY LenProperties
<1>2. Jobs(sets) = FlattenSeq(seqs)
  BY <1>1 DEF Jobs
<1>3. \A d \in T : \A j \in DOMAIN d.entries : job(d, j) \in S
  BY DEF JobsFrom
<1>4. ASSUME NEW i \in 1 .. n
      PROVE  seqs[i] \in Seq(S) /\ ToSet(seqs[i]) = {job(sets[i], j) : j \in DOMAIN sets[i].entries}
  <2> DEFINE d == sets[i]
             m == Len(d.entries)
             s == [j \in DOMAIN d.entries |-> job(d, j)]
  <2>1. d \in T /\ seqs[i] = s
    BY <1>1
  <2>2. DOMAIN d.entries = 1 .. m /\ m \in Nat
    BY <2>1, LenProperties
  <2> HIDE DEF d, m, job, S
  <2>3. s = [j \in 1 .. m |-> job(d, j)] /\ \A j \in 1 .. m : job(d, j) \in S
    BY <1>3, <2>1, <2>2
  <2>4. s \in Seq(S) /\ DOMAIN s = DOMAIN d.entries /\ \A j \in DOMAIN s : s[j] = job(d, j)
    BY <2>2, <2>3
  <2> HIDE DEF s
  <2>5. ToSet(s) = {job(d, j) : j \in DOMAIN d.entries}
    BY <2>4 DEF ToSet
  <2> QED
    BY <2>1, <2>4, <2>5 DEF d
<1>5. seqs \in Seq(Seq(S)) /\ Len(seqs) = n
  <2> HIDE DEF S, job
  <2>1. \A i \in 1 .. n : seqs[i] \in Seq(S)
    BY <1>4
  <2>2. DOMAIN seqs = 1 .. n /\ seqs = [i \in 1 .. n |-> seqs[i]]
    OBVIOUS
  <2> HIDE DEF seqs
  <2> QED
    BY <1>1, <2>1, <2>2
<1>6. /\ FlattenSeq(seqs) \in Seq(S)
      /\ ToSet(FlattenSeq(seqs)) = UNION {ToSet(seqs[i]) : i \in 1 .. n}
  <2> HIDE DEF S, seqs
  <2> QED
    BY <1>5, RangeOfFlatten
<1>7. UNION {ToSet(seqs[i]) : i \in 1 .. n} = JobsFrom(ToSet(sets))
  <2>1. ToSet(sets) = {sets[i] : i \in 1 .. n}
    BY <1>1 DEF ToSet
  <2> DEFINE J(d) == {job(d, j) : j \in DOMAIN d.entries}
  <2>2. JobsFrom(ToSet(sets)) = UNION {J(d) : d \in ToSet(sets)}
    BY DEF JobsFrom
  <2>3. \A i \in 1 .. n : ToSet(seqs[i]) = J(sets[i])
    BY <1>4
  <2> HIDE DEF seqs, J, n
  <2> QED
    BY <2>1, <2>2, <2>3
<1> QED
  BY <1>2, <1>6, <1>7 DEF S

LEMMA LoadedJobs ==
  ASSUME TypeInv, NEW k \in AssetKinds
  PROVE  Jobs(loaded[k]) \in Seq(AllJobs) /\ ToSet(Jobs(loaded[k])) = JobsOf(k)
<1>1. loaded[k] \in Seq(Tree) /\ catalog \in Catalogs
  BY DEF TypeInv
<1>2. \A d \in Tree : d.entries \in Seq(ToSet(d.entries))
  BY <1>1, CatalogAssumption DEF Tree
<1> QED
  BY <1>1, <1>2, JobsListed DEF AllJobs, JobsOf

(* A rendition made of a job.                                              *)
LEMMA NewRenditionIs ==
  ASSUME NEW job \in AllJobs, NEW scale \in (0 .. 3) \cup {j.entry.scale : j \in AllJobs},
         NEW gamut \in {"none", "sRGB"} \cup {j.entry.gamut : j \in AllJobs},
         NEW body \in Bodies
  PROVE  /\ NewRendition(job, scale, gamut, body) \in Renditions
         /\ NewRendition(job, scale, gamut, body).name = job.name
         /\ NewRendition(job, scale, gamut, body).source = job.entry.file.stem
         /\ NewRendition(job, scale, gamut, body).idiom = job.entry.idiom
         /\ NewRendition(job, scale, gamut, body).dark = job.entry.dark
         /\ NewRendition(job, scale, gamut, body).scale = scale
         /\ NewRendition(job, scale, gamut, body).body = body
<1>1. NewRendition(job, scale, gamut, body) \in Renditions
  BY DEF Renditions
<1> QED
  BY <1>1 DEF NewRendition

(* What a source file gives is all that its entry asks for.                *)
LEMMA ImageRenditionsAre ==
  ASSUME NEW job \in AllJobs, job.entry.file # NoFile, job.entry.file.format \in SourceFormats
  PROVE  /\ ImageRenditions(job) \in Seq(Renditions)
         /\ \A r \in ToSet(ImageRenditions(job)) : r.body \notin {"color", "icon"}
         /\ \A w \in Wanted("imageset", job.entry) : \E r \in ToSet(ImageRenditions(job)) :
              /\ r.name = job.name /\ r.source = job.entry.file.stem
              /\ r.idiom = job.entry.idiom /\ r.dark = job.entry.dark
              /\ <<r.body, r.scale>> = w
<1> DEFINE Scales == (0 .. 3) \cup {j.entry.scale : j \in AllJobs}
           Gamuts == {"none", "sRGB"} \cup {j.entry.gamut : j \in AllJobs}
           R(scale, gamut, body) == NewRendition(job, scale, gamut, body)
           Like(r, w) == /\ r.name = job.name /\ r.source = job.entry.file.stem
                         /\ r.idiom = job.entry.idiom /\ r.dark = job.entry.dark
                         /\ <<r.body, r.scale>> = w
<1>1. ASSUME NEW scale \in Scales, NEW gamut \in Gamuts, NEW body \in Bodies
      PROVE  /\ R(scale, gamut, body) \in Renditions
             /\ Like(R(scale, gamut, body), <<body, scale>>)
             /\ R(scale, gamut, body).body = body
  BY NewRenditionIs
<1>2. /\ job.entry.scale \in Scales /\ {0, 1, 2, 3} \subseteq Scales
      /\ job.entry.gamut \in Gamuts /\ {"none", "sRGB"} \subseteq Gamuts
      /\ {"image", "svg", "jpeg"} \subseteq Bodies
  BY DEF Bodies
<1> HIDE DEF R, Scales, Gamuts
<1>3. ASSUME NEW r, ImageRenditions(job) = <<r>>, r \in Renditions, r.body \notin {"color", "icon"},
             NEW w, Wanted("imageset", job.entry) = {w}, Like(r, w)
      PROVE  /\ ImageRenditions(job) \in Seq(Renditions)
             /\ \A x \in ToSet(ImageRenditions(job)) : x.body \notin {"color", "icon"}
             /\ \A y \in Wanted("imageset", job.entry) : \E x \in ToSet(ImageRenditions(job)) : Like(x, y)
  <2>1. ToSet(<<r>>) = {r}
    BY DEF ToSet
  <2> HIDE DEF Like
  <2> QED
    BY <1>3, <2>1
<1>4. CASE job.entry.file.format = "png"
  <2>1. /\ ImageRenditions(job) = <<R(job.entry.scale, job.entry.gamut, "image")>>
        /\ Wanted("imageset", job.entry) = {<<"image", job.entry.scale>>}
    BY <1>4 DEF ImageRenditions, Wanted, R
  <2>2. /\ R(job.entry.scale, job.entry.gamut, "image") \in Renditions
        /\ Like(R(job.entry.scale, job.entry.gamut, "image"), <<"image", job.entry.scale>>)
        /\ R(job.entry.scale, job.entry.gamut, "image").body \notin {"color", "icon"}
    BY <1>1, <1>2
  <2> HIDE DEF Like
  <2>3. /\ ImageRenditions(job) \in Seq(Renditions)
        /\ \A x \in ToSet(ImageRenditions(job)) : x.body \notin {"color", "icon"}
        /\ \A y \in Wanted("imageset", job.entry) : \E x \in ToSet(ImageRenditions(job)) : Like(x, y)
    BY <1>3, <2>1, <2>2
  <2> QED
    BY <2>3 DEF Like
<1>5. CASE job.entry.file.format = "jpeg"
  <2>1. /\ ImageRenditions(job) = <<R(job.entry.scale, "none", "jpeg")>>
        /\ Wanted("imageset", job.entry) = {<<"jpeg", job.entry.scale>>}
    BY <1>5 DEF ImageRenditions, Wanted, R
  <2>2. /\ R(job.entry.scale, "none", "jpeg") \in Renditions
        /\ Like(R(job.entry.scale, "none", "jpeg"), <<"jpeg", job.entry.scale>>)
        /\ R(job.entry.scale, "none", "jpeg").body \notin {"color", "icon"}
    BY <1>1, <1>2
  <2> HIDE DEF Like
  <2>3. /\ ImageRenditions(job) \in Seq(Renditions)
        /\ \A x \in ToSet(ImageRenditions(job)) : x.body \notin {"color", "icon"}
        /\ \A y \in Wanted("imageset", job.entry) : \E x \in ToSet(ImageRenditions(job)) : Like(x, y)
    BY <1>3, <2>1, <2>2
  <2> QED
    BY <2>3 DEF Like
<1>6. CASE job.entry.file.format = "svg"
  <2> DEFINE v == R(1, "none", "svg")
             b == [s \in 1 .. 3 |-> R(s, "sRGB", "image")]
  <2>1. /\ ImageRenditions(job) = <<v>> \o b
        /\ Wanted("imageset", job.entry) = {<<"svg", 1>>} \cup {<<"image", s>> : s \in 1 .. 3}
    BY <1>6 DEF ImageRenditions, Wanted, R
  <2>2. \A s \in 1 .. 3 : /\ R(s, "sRGB", "image") \in Renditions
                          /\ Like(R(s, "sRGB", "image"), <<"image", s>>)
                          /\ R(s, "sRGB", "image").body \notin {"color", "icon"}
    <3>1. \A s \in 1 .. 3 : s \in Scales
      BY <1>2
    <3> QED
      BY <1>1, <1>2, <3>1
  <2>3. v \in Renditions /\ Like(v, <<"svg", 1>>) /\ v.body \notin {"color", "icon"}
    BY <1>1, <1>2
  <2>4. b \in Seq(Renditions) /\ ToSet(b) = {R(s, "sRGB", "image") : s \in 1 .. 3}
    <3>1. b \in Seq(Renditions)
      BY <2>2
    <3>2. DOMAIN b = 1 .. 3 /\ \A s \in 1 .. 3 : b[s] = R(s, "sRGB", "image")
      OBVIOUS
    <3> HIDE DEF b
    <3> QED
      BY <3>1, <3>2 DEF ToSet
  <2> HIDE DEF v, b, Like
  <2>5. <<v>> \in Seq(Renditions) /\ ToSet(<<v>>) = {v}
    BY <2>3 DEF ToSet
  <2>6. /\ ImageRenditions(job) \in Seq(Renditions)
        /\ ToSet(ImageRenditions(job)) = {v} \cup {R(s, "sRGB", "image") : s \in 1 .. 3}
    <3> DEFINE a == <<v>>
    <3>1. a \in Seq(Renditions) /\ ToSet(a) = {v}
      BY <2>5
    <3> HIDE DEF a
    <3>2. a \o b \in Seq(Renditions) /\ ToSet(a \o b) = ToSet(a) \cup ToSet(b)
      BY <2>4, <3>1, RangeOfConcat
    <3>3. ImageRenditions(job) = a \o b
      BY <2>1 DEF a
    <3> QED
      BY <2>4, <3>1, <3>2, <3>3
  <2>7. \A y \in Wanted("imageset", job.entry) : \E x \in ToSet(ImageRenditions(job)) : Like(x, y)
    BY <2>1, <2>2, <2>3, <2>6
  <2>8. \A x \in ToSet(ImageRenditions(job)) : x.body \notin {"color", "icon"}
    BY <2>2, <2>3, <2>6
  <2> QED
    BY <2>6, <2>7, <2>8 DEF Like
<1> QED
  BY <1>4, <1>5, <1>6 DEF SourceFormats

-----------------------------------------------------------------------------

(* A step that only adds renditions, and takes jobs from todo that it has  *)
(* dealt with, keeps the invariant of each loop.                           *)
LEMMA LoopGoesOn ==
  ASSUME NEW kind, NEW p, NEW later, LoopInv(kind, p, later), UNCHANGED <<loaded, stage>>,
         ToSet(rendered) \subseteq ToSet(rendered'),
         stage = p => \A job \in ToSet(todo) :
                        \/ job \in ToSet(todo')
                        \/ Usable(kind, job.entry) /\ Rendered(kind, job)'
  PROVE  LoopInv(kind, p, later)'
<1>1. JobsOf(kind)' = JobsOf(kind)
  BY DEF JobsOf
<1>2. ASSUME NEW job, Rendered(kind, job) PROVE Rendered(kind, job)'
  BY <1>2 DEF Rendered
<1>3. \A job : Usable(kind, job.entry)' <=> Usable(kind, job.entry)
  BY DEF Usable
<1>4. ASSUME stage \in {p} \cup later, NEW job \in JobsOf(kind)
      PROVE  \/ Usable(kind, job.entry) /\ Rendered(kind, job)'
             \/ stage = p /\ job \in ToSet(todo')
  BY <1>2, <1>4 DEF LoopInv
<1> QED
  BY <1>1, <1>3, <1>4 DEF LoopInv

(* When one loop gives way to the next, all its jobs are dealt with.       *)
LEMMA LoopEnds ==
  ASSUME NEW kind, NEW p, NEW later, LoopInv(kind, p, later),
         UNCHANGED <<loaded, rendered>>, todo = <<>>,
         stage' = p => JobsOf(kind) \subseteq ToSet(todo'),
         stage' \in later => stage' = p \/ stage \in {p} \cup later \/ JobsOf(kind) = {}
  PROVE  LoopInv(kind, p, later)'
<1>1. JobsOf(kind)' = JobsOf(kind) /\ ToSet(todo) = {}
  BY DEF JobsOf, ToSet
<1>2. \A job : /\ Rendered(kind, job)' <=> Rendered(kind, job)
               /\ Usable(kind, job.entry)' <=> Usable(kind, job.entry)
  BY DEF Rendered, Usable
<1>3. ASSUME stage' \in {p} \cup later, NEW job \in JobsOf(kind)
      PROVE  \/ Usable(kind, job.entry) /\ Rendered(kind, job)
             \/ stage' = p /\ job \in ToSet(todo')
  BY <1>1, <1>3 DEF LoopInv
<1> QED
  BY <1>1, <1>2, <1>3 DEF LoopInv

(* What is not known of the loops before they begin and after a failure.   *)
LEMMA OutsideLoops ==
  ASSUME stage \in {"walking", "failed"}
  PROVE  /\ LoopInv("imageset", "images", {"colors", "plist", "icons", "loose", "done"})
         /\ LoopInv("colorset", "colors", {"plist", "icons", "loose", "done"})
         /\ LoopInv("appiconset", "icons", {"loose", "done"})
BY DEF LoopInv

LEMMA InitJobs == Init => JobsInv
<1> SUFFICES ASSUME Init PROVE JobsInv
  OBVIOUS
<1>1. stage = "walking" /\ todo = <<>> /\ iconFiles = <<>> /\ rendered = <<>>
  BY DEF Init
<1>2. IconListInv
  <2>1. ToSet(iconFiles) = {}
    BY <1>1 DEF ToSet
  <2> QED
    BY <1>1, <2>1 DEF IconListInv
<1>3. /\ todo \in Seq(AllJobs) /\ iconFiles \in Seq(AllJobs)
      /\ rendered \in Seq(Renditions)
  BY <1>1, EmptySeq
<1> QED
  BY <1>1, <1>2, <1>3, OutsideLoops DEF JobsInv

(* A loop turns a job into renditions.                                     *)
LEMMA ProduceKeeps ==
  ASSUME SetsInv, JobsInv, NEW rs \in Seq(Renditions), Produce(rs), todo # <<>>,
         NEW k \in AssetKinds,
         <<stage, k>> \in {<<"images", "imageset">>, <<"colors", "colorset">>,
                           <<"icons", "appiconset">>},
         Usable(k, Job.entry),
         \A w \in Wanted(k, Job.entry) : \E r \in ToSet(rs) :
           /\ r.name = Job.name /\ r.source = Job.entry.file.stem
           /\ r.idiom = Job.entry.idiom /\ r.dark = Job.entry.dark
           /\ <<r.body, r.scale>> = w
  PROVE  JobsInv'
<1>1. /\ rendered' = rendered \o rs /\ todo' = Tail(todo)
      /\ UNCHANGED <<catalog, stage, loaded, iconFiles>>
  BY DEF Produce
<1>2. AllJobs' = AllJobs /\ Renditions' = Renditions
  BY <1>1 DEF AllJobs, Renditions, Tree
<1>3. rendered \in Seq(Renditions) /\ todo \in Seq(AllJobs) /\ iconFiles \in Seq(AllJobs)
  BY DEF JobsInv
<1>4. /\ rendered' \in Seq(Renditions)
      /\ ToSet(rendered') = ToSet(rendered) \cup ToSet(rs)
  BY <1>1, <1>3, RangeOfConcat
<1>5. /\ todo' \in Seq(AllJobs) /\ Job \in AllJobs
      /\ ToSet(todo) = {Job} \cup ToSet(todo')
  BY <1>1, <1>3, RangeOfTail DEF Job
<1>6. PICK j \in AllJobs : j = Job
  BY <1>5
<1>7. ASSUME NEW job, job = j
      PROVE  Usable(k, job.entry) /\ Rendered(k, job)'
  <2>1. Usable(k, job.entry) /\ \A w \in Wanted(k, job.entry) : \E r \in ToSet(rs) :
           /\ r.name = job.name /\ r.source = job.entry.file.stem
           /\ r.idiom = job.entry.idiom /\ r.dark = job.entry.dark
           /\ <<r.body, r.scale>> = w
    BY <1>6, <1>7
  <2>2. Wanted(k, job.entry)' = Wanted(k, job.entry)
    BY DEF Wanted
  <2> QED
    BY <1>4, <2>1, <2>2 DEF Rendered
<1>8. ASSUME NEW job \in ToSet(todo)
      PROVE  \/ job \in ToSet(todo')
             \/ Usable(k, job.entry) /\ Rendered(k, job)'
  <2>1. job \in ToSet(todo') \/ job = j
    BY <1>5, <1>6
  <2> QED
    BY <1>7, <2>1
<1>9. ToSet(rendered) \subseteq ToSet(rendered')
  BY <1>4
<1>10. LoopInv("imageset", "images", {"colors", "plist", "icons", "loose", "done"})'
  <2>1. stage = "images" => k = "imageset"
    OBVIOUS
  <2> QED
    BY <1>1, <1>8, <1>9, <2>1, LoopGoesOn DEF JobsInv
<1>11. LoopInv("colorset", "colors", {"plist", "icons", "loose", "done"})'
  <2>1. stage = "colors" => k = "colorset"
    OBVIOUS
  <2> QED
    BY <1>1, <1>8, <1>9, <2>1, LoopGoesOn DEF JobsInv
<1>12. LoopInv("appiconset", "icons", {"loose", "done"})'
  <2>1. stage = "icons" => k = "appiconset"
    OBVIOUS
  <2> QED
    BY <1>1, <1>8, <1>9, <2>1, LoopGoesOn DEF JobsInv
<1>13. IconListInv'
  <2>1. JobsOf("appiconset")' = JobsOf("appiconset")
    BY <1>1 DEF JobsOf
  <2>2. stage # "plist"
    OBVIOUS
  <2>3. stage = "icons" => ToSet(todo') \subseteq ToSet(iconFiles)
    BY <1>5 DEF JobsInv, IconListInv
  <2> QED
    BY <1>1, <2>1, <2>2, <2>3 DEF JobsInv, IconListInv
<1> QED
  BY <1>1, <1>2, <1>3, <1>4, <1>5, <1>10, <1>11, <1>12, <1>13 DEF JobsInv

(* A step that neither makes renditions nor touches the lists of jobs.     *)
LEMMA FailureKeepsJobs ==
  ASSUME JobsInv, UNCHANGED <<catalog, loaded, rendered, todo, iconFiles>>,
         stage' = stage \/ stage' = "failed"
  PROVE  JobsInv'
<1>1. AllJobs' = AllJobs /\ Renditions' = Renditions
  BY DEF AllJobs, Renditions, Tree
<1>2. \A k : JobsOf(k)' = JobsOf(k)
  BY DEF JobsOf
<1>3. IconListInv'
  BY <1>2 DEF JobsInv, IconListInv
<1>4. /\ LoopInv("imageset", "images", {"colors", "plist", "icons", "loose", "done"})'
      /\ LoopInv("colorset", "colors", {"plist", "icons", "loose", "done"})'
      /\ LoopInv("appiconset", "icons", {"loose", "done"})'
  <2>1. CASE stage' = "failed"
    BY <2>1 DEF LoopInv
  <2>2. CASE stage' = stage
    BY <2>2, LoopGoesOn DEF JobsInv
  <2> QED
    BY <2>1, <2>2
<1> QED
  BY <1>1, <1>3, <1>4 DEF JobsInv

(* The walk leaves the lists of jobs alone until it ends.                  *)
LEMMA WalkKeepsJobs ==
  ASSUME SetsInv, JobsInv, stage = "walking", stage' = "walking",
         UNCHANGED <<catalog, rendered, todo, iconFiles>>
  PROVE  JobsInv'
<1>1. AllJobs' = AllJobs /\ Renditions' = Renditions
  BY DEF AllJobs, Renditions, Tree
<1>2. IconListInv'
  BY DEF JobsInv, IconListInv
<1>3. /\ LoopInv("imageset", "images", {"colors", "plist", "icons", "loose", "done"})'
      /\ LoopInv("colorset", "colors", {"plist", "icons", "loose", "done"})'
      /\ LoopInv("appiconset", "icons", {"loose", "done"})'
  BY DEF LoopInv
<1> QED
  BY <1>1, <1>2, <1>3 DEF JobsInv


(* The images' loop starts with the entries of all image sets.             *)
LEMMA EndWalkStartsImages ==
  ASSUME SetsInv, JobsInv, EndWalk
  PROVE  JobsInv'
<1>1. /\ stage = "walking" /\ stage' = "images" /\ todo' = Jobs(loaded["imageset"])
      /\ UNCHANGED <<catalog, loaded, rendered, iconFiles>>
  BY DEF EndWalk
<1>2. AllJobs' = AllJobs /\ Renditions' = Renditions
  BY <1>1 DEF AllJobs, Renditions, Tree
<1>3. todo' \in Seq(AllJobs) /\ ToSet(todo') = JobsOf("imageset")
  BY <1>1, LoadedJobs DEF SetsInv, AssetKinds
<1>4. JobsOf("imageset")' = JobsOf("imageset")
  BY <1>1 DEF JobsOf
<1>5. LoopInv("imageset", "images", {"colors", "plist", "icons", "loose", "done"})'
  BY <1>1, <1>3, <1>4 DEF LoopInv
<1>6. /\ LoopInv("colorset", "colors", {"plist", "icons", "loose", "done"})'
      /\ LoopInv("appiconset", "icons", {"loose", "done"})'
  BY <1>1 DEF LoopInv
<1>7. IconListInv'
  BY <1>1 DEF JobsInv, IconListInv
<1> QED
  BY <1>1, <1>2, <1>3, <1>5, <1>6, <1>7 DEF JobsInv

(* The next loop starts with all entries that are its to deal with.        *)
LEMMA NextLoopKeeps ==
  ASSUME JobsInv, NEW p, NEW q, NEW jobs \in Seq(AllJobs), NextLoop(p, q, jobs),
         <<p, q>> \in {<<"images", "colors">>, <<"colors", "plist">>, <<"colors", "done">>,
                       <<"plist", "icons">>, <<"icons", "loose">>, <<"loose", "done">>},
         q = "colors" => ToSet(jobs) = JobsOf("colorset"),
         q \in {"plist", "icons"} => ToSet(jobs) = JobsOf("appiconset"),
         <<p, q>> = <<"colors", "done">> => JobsOf("appiconset") = {}
  PROVE  JobsInv'
<1>1. /\ stage = p /\ stage' = q /\ todo = <<>> /\ todo' = jobs
      /\ UNCHANGED <<catalog, loaded, rendered, iconFiles>>
  BY DEF NextLoop
<1>2. AllJobs' = AllJobs /\ Renditions' = Renditions
  BY <1>1 DEF AllJobs, Renditions, Tree
<1>3. JobsOf("appiconset")' = JobsOf("appiconset")
  BY <1>1 DEF JobsOf
<1>4. ToSet(todo') = ToSet(jobs)
  BY <1>1
<1>5. LoopInv("imageset", "images", {"colors", "plist", "icons", "loose", "done"})'
  <2>1. stage' # "images" /\ stage \in {"images", "colors", "plist", "icons", "loose", "done"}
    BY <1>1
  <2> QED
    BY <1>1, <2>1, LoopEnds DEF JobsInv
<1>6. LoopInv("colorset", "colors", {"plist", "icons", "loose", "done"})'
  <2>1. /\ stage' = "colors" => JobsOf("colorset") \subseteq ToSet(todo')
        /\ \/ stage' = "colors"
           \/ stage \in {"colors", "plist", "icons", "loose", "done"}
    BY <1>1, <1>4
  <2> QED
    BY <1>1, <2>1, LoopEnds DEF JobsInv
<1>7. LoopInv("appiconset", "icons", {"loose", "done"})'
  <2>1. /\ stage' = "icons" => JobsOf("appiconset") \subseteq ToSet(todo')
        /\ stage' \in {"loose", "done"} =>
             stage \in {"icons", "loose", "done"} \/ JobsOf("appiconset") = {}
    BY <1>1, <1>4
  <2> QED
    BY <1>1, <2>1, LoopEnds DEF JobsInv
<1>8. IconListInv'
  <2>1. ToSet(<<>>) = {}
    BY DEF ToSet
  <2>2. IconListInv
    BY DEF JobsInv
  <2>3. stage' \in {"walking", "images", "colors"} => iconFiles = <<>>
    BY <1>1, <2>2 DEF IconListInv
  <2>4. stage' = "plist" => ToSet(iconFiles) \cup ToSet(todo') = JobsOf("appiconset")
    BY <1>1, <1>4, <2>1, <2>2 DEF IconListInv
  <2>5. stage' \in {"icons", "loose", "done"} => ToSet(iconFiles) = JobsOf("appiconset")
    BY <1>1, <2>1, <2>2 DEF IconListInv
  <2>6. \A job \in ToSet(iconFiles) : Identified(job.entry)
    BY <2>2 DEF IconListInv
  <2>7. stage' = "icons" => ToSet(todo') \subseteq ToSet(iconFiles)
    BY <1>1, <1>4, <2>5
  <2> QED
    BY <1>1, <1>3, <2>3, <2>4, <2>5, <2>6, <2>7 DEF IconListInv
<1> QED
  BY <1>1, <1>2, <1>5, <1>6, <1>7, <1>8 DEF JobsInv

(* AppIconPlistEmitter takes icons whose file is there and whose size and  *)
(* scale are known.                                                        *)
LEMMA EmitIconKeepsJobs ==
  ASSUME JobsInv, EmitIcon
  PROVE  JobsInv'
<1>1. /\ stage = "plist" /\ todo # <<>> /\ Identified(Job.entry)
      /\ iconFiles' = Append(iconFiles, Job) /\ todo' = Tail(todo)
      /\ UNCHANGED <<catalog, stage, loaded, rendered>>
  BY DEF EmitIcon, At, Identified
<1>2. AllJobs' = AllJobs /\ Renditions' = Renditions
  BY <1>1 DEF AllJobs, Renditions, Tree
<1>3. todo \in Seq(AllJobs) /\ iconFiles \in Seq(AllJobs)
  BY DEF JobsInv
<1>4. /\ todo' \in Seq(AllJobs) /\ Job \in AllJobs
      /\ ToSet(todo) = {Job} \cup ToSet(todo')
  BY <1>1, <1>3, RangeOfTail DEF Job
<1>5. /\ iconFiles' \in Seq(AllJobs)
      /\ ToSet(iconFiles') = ToSet(iconFiles) \cup {Job}
  BY <1>1, <1>3, <1>4, RangeOfAppend
<1>6. /\ LoopInv("imageset", "images", {"colors", "plist", "icons", "loose", "done"})'
      /\ LoopInv("colorset", "colors", {"plist", "icons", "loose", "done"})'
      /\ LoopInv("appiconset", "icons", {"loose", "done"})'
  <2>1. ToSet(rendered) \subseteq ToSet(rendered')
    BY <1>1
  <2> QED
    BY <1>1, <2>1, LoopGoesOn DEF JobsInv
<1>7. IconListInv'
  <2>1. JobsOf("appiconset")' = JobsOf("appiconset")
    BY <1>1 DEF JobsOf
  <2>2. /\ ToSet(iconFiles) \cup ToSet(todo) = JobsOf("appiconset")
        /\ \A job \in ToSet(iconFiles) : Identified(job.entry)
    BY <1>1 DEF JobsInv, IconListInv
  <2>3. ToSet(iconFiles') \cup ToSet(todo') = JobsOf("appiconset")
    BY <1>4, <1>5, <2>2
  <2>4. \A job \in ToSet(iconFiles') : Identified(job.entry)
    BY <1>1, <1>5, <2>2
  <2> QED
    BY <1>1, <2>1, <2>3, <2>4 DEF IconListInv
<1> QED
  BY <1>1, <1>2, <1>4, <1>5, <1>6, <1>7 DEF JobsInv

(* The last loop only takes jobs from todo.                                *)
LEMMA CopyLooseFileKeepsJobs ==
  ASSUME JobsInv, CopyLooseFile
  PROVE  JobsInv'
<1>1. /\ stage = "loose" /\ todo # <<>> /\ todo' = Tail(todo)
      /\ UNCHANGED <<catalog, stage, loaded, rendered, iconFiles>>
  BY DEF CopyLooseFile, At
<1>2. AllJobs' = AllJobs /\ Renditions' = Renditions
  BY <1>1 DEF AllJobs, Renditions, Tree
<1>3. todo' \in Seq(AllJobs)
  BY <1>1, RangeOfTail DEF JobsInv
<1>4. /\ LoopInv("imageset", "images", {"colors", "plist", "icons", "loose", "done"})'
      /\ LoopInv("colorset", "colors", {"plist", "icons", "loose", "done"})'
      /\ LoopInv("appiconset", "icons", {"loose", "done"})'
  <2>1. ToSet(rendered) \subseteq ToSet(rendered')
    BY <1>1
  <2> QED
    BY <1>1, <2>1, LoopGoesOn DEF JobsInv
<1>5. IconListInv'
  <2>1. JobsOf("appiconset")' = JobsOf("appiconset")
    BY <1>1 DEF JobsOf
  <2> QED
    BY <1>1, <2>1 DEF JobsInv, IconListInv
<1> QED
  BY <1>1, <1>2, <1>3, <1>4, <1>5 DEF JobsInv


(* An image set's entry without a file gives nothing, and is sound.        *)
LEMMA SkipImageKeepsJobs ==
  ASSUME SetsInv, JobsInv, SkipImage
  PROVE  JobsInv'
<1>1. /\ stage = "images" /\ todo # <<>> /\ Job.entry.file = NoFile /\ Produce(<<>>)
  BY DEF SkipImage, At
<1>2. Wanted("imageset", Job.entry) = {}
  BY <1>1 DEF Wanted
<1>3. Usable("imageset", Job.entry)
  BY <1>1 DEF Usable
<1>4. <<>> \in Seq(Renditions) /\ "imageset" \in AssetKinds
  BY EmptySeq DEF AssetKinds
<1> QED
  BY <1>1, <1>2, <1>3, <1>4, ProduceKeeps

(* An image's file gives all its renditions.                               *)
LEMMA RenderImageKeepsJobs ==
  ASSUME SetsInv, JobsInv, RenderImage
  PROVE  JobsInv'
<1>1. /\ stage = "images" /\ todo # <<>> /\ Job.entry.file # NoFile
      /\ Job.entry.file.format \in SourceFormats
      /\ Job.entry.file.present /\ Job.entry.file.good
      /\ Produce(ImageRenditions(Job))
  BY DEF RenderImage, At
<1>2. PICK j \in AllJobs : j = Job
  BY <1>1, RangeOfTail DEF JobsInv, Job
<1>3. Usable("imageset", Job.entry) /\ "imageset" \in AssetKinds
  BY <1>1 DEF Usable, AssetKinds
<1>4. /\ ImageRenditions(j) \in Seq(Renditions)
      /\ \A w \in Wanted("imageset", j.entry) : \E r \in ToSet(ImageRenditions(j)) :
           /\ r.name = j.name /\ r.source = j.entry.file.stem
           /\ r.idiom = j.entry.idiom /\ r.dark = j.entry.dark
           /\ <<r.body, r.scale>> = w
  BY <1>1, <1>2, ImageRenditionsAre
<1>5. PICK rs \in Seq(Renditions) : rs = ImageRenditions(Job)
  BY <1>2, <1>4
<1>6. Produce(rs)
  BY <1>1, <1>5
<1>7. \A w \in Wanted("imageset", Job.entry) : \E r \in ToSet(rs) :
        /\ r.name = Job.name /\ r.source = Job.entry.file.stem
        /\ r.idiom = Job.entry.idiom /\ r.dark = Job.entry.dark
        /\ <<r.body, r.scale>> = w
  BY <1>2, <1>4, <1>5
<1> QED
  BY <1>1, <1>3, <1>6, <1>7, ProduceKeeps

(* A colour and an icon each give one rendition.                           *)
LEMMA SingleRenditionKeepsJobs ==
  ASSUME SetsInv, JobsInv, todo # <<>>, NEW k \in {"colorset", "appiconset"},
         <<stage, k>> \in {<<"colors", "colorset">>, <<"icons", "appiconset">>},
         Usable(k, Job.entry), NEW scale, NEW gamut, NEW body,
         IF k = "colorset"
         THEN scale = NoScale /\ gamut = Job.entry.gamut /\ body = "color"
         ELSE scale = Job.entry.scale /\ gamut = "sRGB" /\ body = "icon",
         Produce(<<NewRendition(Job, scale, gamut, body)>>)
  PROVE  JobsInv'
<1>1. PICK j \in AllJobs : j = Job
  BY RangeOfTail DEF JobsInv, Job
<1>2. /\ scale \in (0 .. 3) \cup {x.entry.scale : x \in AllJobs}
      /\ gamut \in {"none", "sRGB"} \cup {x.entry.gamut : x \in AllJobs}
      /\ body \in Bodies
      /\ Wanted(k, j.entry) = {<<body, scale>>}
  BY <1>1 DEF NoScale, Bodies, Wanted
<1>3. PICK r : r = NewRendition(j, scale, gamut, body)
  OBVIOUS
<1>4. /\ r \in Renditions
      /\ r.name = j.name /\ r.source = j.entry.file.stem
      /\ r.idiom = j.entry.idiom /\ r.dark = j.entry.dark
      /\ r.scale = scale /\ r.body = body
  BY <1>2, <1>3, NewRenditionIs
<1>5. PICK rs \in Seq(Renditions) : rs = <<r>> /\ ToSet(rs) = {r}
  <2>1. r \in Renditions
    BY <1>4
  <2> HIDE DEF Renditions
  <2>2. <<r>> \in Seq(Renditions)
    BY <2>1
  <2>3. ToSet(<<r>>) = {r}
    BY DEF ToSet
  <2> QED
    BY <2>2, <2>3
<1>6. Produce(rs)
  BY <1>1, <1>3, <1>5
<1>7. \A w \in Wanted(k, Job.entry) : \E x \in ToSet(rs) :
        /\ x.name = Job.name /\ x.source = Job.entry.file.stem
        /\ x.idiom = Job.entry.idiom /\ x.dark = Job.entry.dark
        /\ <<x.body, x.scale>> = w
  BY <1>1, <1>2, <1>4, <1>5
<1> QED
  BY <1>6, <1>7, ProduceKeeps DEF AssetKinds

LEMMA RenderColorKeepsJobs ==
  ASSUME SetsInv, JobsInv, RenderColor
  PROVE  JobsInv'
<1>1. /\ stage = "colors" /\ todo # <<>> /\ Job.entry.file.good
      /\ Produce(<<NewRendition(Job, NoScale, Job.entry.gamut, "color")>>)
  BY DEF RenderColor, At
<1>2. Usable("colorset", Job.entry)
  BY <1>1 DEF Usable
<1> QED
  BY <1>1, <1>2, SingleRenditionKeepsJobs

LEMMA RenderIconKeepsJobs ==
  ASSUME SetsInv, JobsInv, RenderIcon
  PROVE  JobsInv'
<1>1. /\ stage = "icons" /\ todo # <<>>
      /\ Job.entry.file.format = "png" /\ Job.entry.file.good
      /\ Produce(<<NewRendition(Job, Job.entry.scale, "sRGB", "icon")>>)
  BY DEF RenderIcon, At
<1>2. Identified(Job.entry)
  <2>1. Job \in ToSet(todo)
    BY <1>1, RangeOfTail DEF JobsInv, Job
  <2> QED
    BY <1>1, <2>1 DEF JobsInv, IconListInv
<1>3. Usable("appiconset", Job.entry)
  BY <1>1, <1>2 DEF Usable, Identified
<1> QED
  BY <1>1, <1>3, SingleRenditionKeepsJobs

(* The loops keep their invariant.                                         *)
LEMMA StepJobs ==
  ASSUME SetsInv, JobsInv, [Next]_vars
  PROVE  JobsInv'
<1>1. ASSUME NEW e, Throw(e) PROVE JobsInv'
  BY <1>1, FailureKeepsJobs DEF Throw
<1>2. /\ Jobs(loaded["colorset"]) \in Seq(AllJobs)
      /\ ToSet(Jobs(loaded["colorset"])) = JobsOf("colorset")
      /\ Jobs(loaded["appiconset"]) \in Seq(AllJobs)
      /\ ToSet(Jobs(loaded["appiconset"])) = JobsOf("appiconset")
  BY LoadedJobs DEF SetsInv, AssetKinds
<1>3. <<>> \in Seq(AllJobs) /\ iconFiles \in Seq(AllJobs)
  BY EmptySeq DEF JobsInv
<1>4. CASE Walk
  <2>1. CASE LeaveFolder
    BY <2>1, WalkKeepsJobs DEF LeaveFolder
  <2>2. CASE WalkFails
    BY <1>1, <2>2 DEF WalkFails
  <2>3. CASE EndWalk
    BY <2>3, EndWalkStartsImages
  <2>4. CASE TooManyIconSets
    BY <1>1, <2>4 DEF TooManyIconSets
  <2>5. ASSUME NEW d, EnterFolder(d) \/ LoadSet(d) PROVE JobsInv'
    BY <2>5, WalkKeepsJobs DEF EnterFolder, LoadSet
  <2>6. ASSUME NEW d, LoadSetFails(d) PROVE JobsInv'
    BY <1>1, <2>6 DEF LoadSetFails
  <2> QED
    BY <1>4, <2>1, <2>2, <2>3, <2>4, <2>5, <2>6 DEF Walk, Load
<1>5. CASE Render
  <2>1. CASE RenderImageFails \/ RenderColorFails
    BY <1>1, <2>1 DEF RenderImageFails, RenderColorFails
  <2>2. CASE StartColors
    BY <1>2, <2>2, NextLoopKeeps DEF StartColors
  <2>3. CASE StartPlist
    <3>1. CASE loaded["appiconset"] = <<>>
      <4>1. JobsOf("appiconset") = {}
        BY <3>1 DEF JobsOf, JobsFrom, ToSet
      <4> QED
        BY <1>3, <2>3, <3>1, <4>1, NextLoopKeeps DEF StartPlist
    <3>2. CASE loaded["appiconset"] # <<>>
      BY <1>2, <2>3, <3>2, NextLoopKeeps DEF StartPlist
    <3> QED
      BY <3>1, <3>2
  <2> QED
    BY <1>5, <2>1, <2>2, <2>3, SkipImageKeepsJobs, RenderImageKeepsJobs,
       RenderColorKeepsJobs DEF Render
<1>6. CASE BundleIcons
  <2>1. CASE EmitIconFails \/ RenderIconFails \/ CopyLooseFileFails
    BY <1>1, <2>1 DEF EmitIconFails, RenderIconFails, CopyLooseFileFails
  <2>2. CASE StartIcons
    <3>1. stage = "plist" /\ todo = <<>>
      BY <2>2 DEF StartIcons, NextLoop
    <3>2. ToSet(iconFiles) = JobsOf("appiconset")
      BY <3>1 DEF JobsInv, IconListInv, ToSet
    <3> QED
      BY <1>3, <2>2, <3>2, NextLoopKeeps DEF StartIcons
  <2>3. CASE StartLoose
    BY <1>3, <2>3, NextLoopKeeps DEF StartLoose
  <2>4. CASE Finish
    BY <1>3, <2>4, NextLoopKeeps DEF Finish
  <2> QED
    BY <1>6, <2>1, <2>2, <2>3, <2>4, EmitIconKeepsJobs, RenderIconKeepsJobs,
       CopyLooseFileKeepsJobs DEF BundleIcons
<1>7. CASE UNCHANGED vars
  BY <1>7, FailureKeepsJobs DEF vars
<1> QED
  BY <1>4, <1>5, <1>6, <1>7 DEF Next, Returned


(* Nothing that an asset set lists is lost on the way to the CAR writer:   *)
(* each entry of each set of the catalog has all its renditions, an SVG    *)
(* its vector and three bitmaps, when compile() succeeds.                  *)
THEOREM EveryEntryIsRendered == Spec => []EntriesRendered
<1>1. SetsInv /\ JobsInv => EntriesRendered
  <2> DEFINE e(x) == x[1].entries[x[2]]
             Shows(x, i, w) == /\ rendered[i].name = x[1].name
                             /\ rendered[i].source = e(x).file.stem
                             /\ rendered[i].idiom = e(x).idiom
                             /\ rendered[i].dark = e(x).dark
                             /\ <<rendered[i].body, rendered[i].scale>> = w
  <2> SUFFICES ASSUME SetsInv, JobsInv, stage = "done", NEW x \in EntriesIn,
                      NEW w \in Wanted(x[1].kind, e(x))
               PROVE  \E i \in DOMAIN rendered : Shows(x, i, w)
    <3>1. EntriesRendered <=>
            (stage = "done" => \A x \in EntriesIn : \A w \in Wanted(x[1].kind, e(x)) :
               \E i \in DOMAIN rendered : Shows(x, i, w))
      BY DEF EntriesRendered, Done
    <3> HIDE DEF e, Shows
    <3> QED
      BY <3>1
  <2>1. PICK d \in Tree : d.kind \in AssetKinds /\ \E j \in DOMAIN d.entries : x = <<d, j>>
    <3> DEFINE Of(t) == {<<t, j>> : j \in DOMAIN t.entries}
               Sets == {t \in Tree : t.kind \in AssetKinds}
    <3>1. EntriesIn = UNION {Of(t) : t \in Sets}
      BY DEF EntriesIn
    <3>2. PICK d \in Sets : x \in Of(d)
      <4> HIDE DEF Of, Sets
      <4> QED
        BY <3>1
    <3> QED
      BY <3>2
  <2>2. PICK i \in DOMAIN d.entries : x = <<d, i>>
    BY <2>1
  <2> DEFINE job == [name |-> d.name, entry |-> d.entries[i]]
  <2>3. job \in JobsOf(d.kind)
    <3>1. d \in ToSet(loaded[d.kind])
      BY <2>1 DEF SetsInv, EverySetLoadedOnce, SetsIn
    <3> QED
      BY <2>2, <3>1 DEF JobsOf, JobsFrom
  <2>4. job.name = d.name /\ job.entry = d.entries[i]
    OBVIOUS
  <2>5. x[1] = d /\ e(x) = job.entry
    BY <2>2
  <2> HIDE DEF job, e
  <2>6. Rendered(d.kind, job)
    BY <2>1, <2>3 DEF JobsInv, LoopInv, AssetKinds
  <2>7. PICK r \in ToSet(rendered) :
          /\ r.name = job.name /\ r.source = job.entry.file.stem
          /\ r.idiom = job.entry.idiom /\ r.dark = job.entry.dark
          /\ <<r.body, r.scale>> = w
    BY <2>5, <2>6 DEF Rendered
  <2> QED
    BY <2>4, <2>5, <2>7 DEF ToSet
<1> QED
  BY InitSets, InitJobs, StepSets, StepJobs, <1>1, PTL DEF Spec

(* compile() succeeds on sound input only: every Contents.json decoded,    *)
(* every file it refers to there, sound and of a format it takes, every    *)
(* icon of a known size and scale, and one icon set at most.               *)
THEOREM SuccessNeedsSoundInput == Spec => []SuccessMeansSoundInput
<1>1. SetsInv /\ JobsInv => SuccessMeansSoundInput
  <2> SUFFICES ASSUME SetsInv, JobsInv, stage = "done"
               PROVE  SuccessMeansSoundInput
    BY DEF SuccessMeansSoundInput, Done
  <2>1. /\ loaded \in [AssetKinds -> Seq(Tree)]
        /\ \A k \in AssetKinds : ToSet(loaded[k]) = SetsIn(k)
        /\ \A k \in AssetKinds : \A d \in ToSet(loaded[k]) : d.contents = "ok"
        /\ Len(loaded["appiconset"]) <= 1
    BY DEF SetsInv, TypeInv, WalkInv, EverySetLoadedOnce
  <2>2. /\ Cardinality(SetsIn("appiconset")) <= 1
        /\ loaded["appiconset"] # <<>> <=> Cardinality(SetsIn("appiconset")) = 1
    <3> DEFINE icons == loaded["appiconset"]
    <3>1. icons \in Seq(Tree) /\ Len(icons) <= 1 /\ ToSet(icons) = SetsIn("appiconset")
      BY <2>1 DEF AssetKinds
    <3> HIDE DEF icons
    <3>2. Len(icons) \in Nat /\ DOMAIN icons = 1 .. Len(icons)
      BY <3>1, LenProperties
    <3>3. CASE Len(icons) = 0
      <4>1. icons = <<>> /\ ToSet(icons) = {}
        BY <3>1, <3>2, <3>3 DEF ToSet
      <4>2. Cardinality(ToSet(icons)) = 0
        BY <4>1, FS_EmptySet
      <4> QED
        BY <3>1, <4>1, <4>2 DEF icons
    <3>4. CASE Len(icons) = 1
      <4>1. icons # <<>> /\ ToSet(icons) = {icons[1]}
        BY <3>1, <3>2, <3>4 DEF ToSet
      <4>2. Cardinality(ToSet(icons)) = 1
        BY <4>1, FS_Singleton
      <4> QED
        BY <3>1, <4>1, <4>2 DEF icons
    <3> QED
      BY <3>1, <3>2, <3>3, <3>4
  <2>3. ASSUME NEW d \in Tree, d.kind \in AssetKinds
        PROVE  /\ d.contents = "ok"
               /\ \A i \in DOMAIN d.entries : Usable(d.kind, d.entries[i])
    <3>1. d \in ToSet(loaded[d.kind])
      BY <2>1, <2>3 DEF SetsIn
    <3>2. ASSUME NEW i \in DOMAIN d.entries PROVE Usable(d.kind, d.entries[i])
      <4> DEFINE job == [name |-> d.name, entry |-> d.entries[i]]
      <4>1. job \in JobsOf(d.kind)
        BY <3>1 DEF JobsOf, JobsFrom
      <4>2. job.entry = d.entries[i]
        OBVIOUS
      <4> HIDE DEF job
      <4>3. Usable(d.kind, job.entry)
        BY <2>3, <4>1 DEF JobsInv, LoopInv, AssetKinds
      <4> QED
        BY <4>2, <4>3
    <3> QED
      BY <2>1, <2>3, <3>1, <3>2
  <2> QED
    BY <2>2, <2>3 DEF SuccessMeansSoundInput
<1> QED
  BY InitSets, InitJobs, StepSets, StepJobs, <1>1, PTL DEF Spec

-----------------------------------------------------------------------------
(* The renditions and loose files of the icons.                            *)

LEMMA OthersBeforeIcons ==
  ASSUME NEW S, NEW rs \in Seq(S), NEW xs \in Seq(S), NEW files,
         \A r \in ToSet(xs) : r.body # "icon", IconsLast(rs, files, 0)
  PROVE  IconsLast(rs \o xs, files, 0)
<1> DEFINE m == Len(rs)
           n == Len(xs)
           c == rs \o xs
<1>1. /\ m \in Nat /\ n \in Nat /\ c \in Seq(S) /\ Len(c) = m + n
      /\ DOMAIN xs = 1 .. n
      /\ \A i \in 1 .. m : c[i] = rs[i]
      /\ \A i \in m + 1 .. m + n : c[i] = xs[i - m]
  <2>1. m \in Nat /\ n \in Nat /\ DOMAIN xs = 1 .. n
    BY LenProperties
  <2>2. /\ c \in Seq(S) /\ Len(c) = m + n
        /\ \A i \in 1 .. m + n : c[i] = IF i <= m THEN rs[i] ELSE xs[i - m]
    BY ConcatProperties
  <2> HIDE DEF m, n, c
  <2> QED
    BY <2>1, <2>2
<1>2. \A i \in 1 .. m : rs[i].body # "icon"
  BY <1>1 DEF IconsLast
<1>3. \A i \in 1 .. n : xs[i].body # "icon"
  BY <1>1 DEF ToSet
<1> HIDE DEF m, n, c
<1>4. ASSUME NEW i \in 1 .. m + n PROVE c[i].body # "icon"
  <2>1. CASE i \in 1 .. m
    BY <1>1, <1>2, <2>1
  <2>2. CASE i \in m + 1 .. m + n
    <3>1. i - m \in 1 .. n
      BY <1>1, <2>2
    <3> QED
      BY <1>1, <1>3, <2>2, <3>1
  <2> QED
    BY <1>1, <2>1, <2>2
<1> QED
  <2>1. Len(c) - 0 = m + n /\ m + n \in Nat
    BY <1>1
  <2>2. 1 .. 0 = {}
    OBVIOUS
  <2>3. IconsLast(c, files, 0)
    BY <1>4, <2>1, <2>2 DEF IconsLast
  <2> QED
    BY <2>3 DEF c

LEMMA IconAddsToIcons ==
  ASSUME NEW S, NEW rs \in Seq(S), NEW x \in S, NEW files, NEW n,
         IconsLast(rs, files, n),
         x.body = "icon", x.source = files[n + 1].entry.file.stem
  PROVE  IconsLast(rs \o <<x>>, files, n + 1)
<1> DEFINE m == Len(rs)
           c == rs \o <<x>>
           others == m - n
<1>1. m \in Nat /\ n \in Nat /\ others \in Nat
  BY LenProperties DEF IconsLast
<1>2. /\ Len(c) = m + 1
      /\ \A i \in 1 .. m : c[i] = rs[i]
      /\ c[m + 1] = x
  <2>1. Len(c) = m + 1
    OBVIOUS
  <2>2. \A i \in 1 .. m : c[i] = rs[i]
    OBVIOUS
  <2>3. c[m + 1] = x
    OBVIOUS
  <2> QED
    BY <2>1, <2>2, <2>3
<1>3. /\ \A i \in 1 .. others : rs[i].body # "icon"
      /\ \A i \in 1 .. n : /\ rs[others + i].body = "icon"
                           /\ rs[others + i].source = files[i].entry.file.stem
  BY DEF IconsLast
<1>4. n + others = m
  BY <1>1
<1> HIDE DEF m, c, others
<1>5. Len(c) - (n + 1) = others
  BY <1>1, <1>2, <1>4
<1>6. ASSUME NEW i \in 1 .. others PROVE c[i].body # "icon"
  <2>1. i \in 1 .. m
    BY <1>1, <1>4
  <2> QED
    BY <1>2, <1>3, <2>1
<1>7. ASSUME NEW i \in 1 .. n + 1
      PROVE  c[others + i].body = "icon" /\ c[others + i].source = files[i].entry.file.stem
  <2>1. CASE i = n + 1
    <3>1. others + i = m + 1
      BY <1>1, <1>4, <2>1
    <3> QED
      BY <1>2, <2>1, <3>1
  <2>2. CASE i \in 1 .. n
    <3>1. others + i \in 1 .. m
      BY <1>1, <1>4, <2>2
    <3> QED
      BY <1>2, <1>3, <2>2, <3>1
  <2> QED
    BY <1>1, <2>1, <2>2
<1>8. n + 1 \in Nat
  BY <1>1
<1>9. IconsLast(c, files, n + 1)
  BY <1>1, <1>5, <1>6, <1>7, <1>8 DEF IconsLast
<1> QED
  BY <1>9 DEF c

LEMMA OneLessLeft ==
  ASSUME NEW S, NEW jobs \in Seq(S), jobs # <<>>, NEW files, Len(files) \in Nat,
         NEW n, LeftOf(jobs, files, n)
  PROVE  /\ LeftOf(Tail(jobs), files, n + 1)
         /\ Head(jobs) = files[n + 1]
         /\ n = Len(files) - Len(jobs) /\ n + 1 = Len(files) - Len(Tail(jobs))
<1> DEFINE l == Len(jobs)
           t == Tail(jobs)
<1>1. /\ l \in Nat \ {0} /\ Head(jobs) = jobs[1] /\ Len(t) = l - 1 /\ t \in Seq(S)
      /\ \A i \in 1 .. l - 1 : t[i] = jobs[i + 1]
  BY HeadTailProperties, EmptySeq, LenProperties
<1>2. DOMAIN jobs = 1 .. l /\ DOMAIN t = 1 .. l - 1
  BY <1>1, LenProperties
<1>3. /\ n \in Nat /\ l + n = Len(files)
      /\ \A i \in 1 .. l : jobs[i] = files[n + i]
  BY <1>2 DEF LeftOf
<1> HIDE DEF l, t
<1>4. ASSUME NEW i \in 1 .. l - 1 PROVE t[i] = files[(n + 1) + i]
  <2>1. i + 1 \in 1 .. l /\ n + (i + 1) = (n + 1) + i
    BY <1>1, <1>3
  <2> QED
    BY <1>1, <1>3, <2>1
<1>5. Len(t) + (n + 1) = Len(files) /\ n + 1 \in Nat
  BY <1>1, <1>3
<1>6. LeftOf(t, files, n + 1)
  BY <1>2, <1>4, <1>5 DEF LeftOf
<1>7. Head(jobs) = files[n + 1]
  <2>1. 1 \in 1 .. l
    BY <1>1
  <2> QED
    BY <1>1, <1>3, <2>1
<1>8. n = Len(files) - l /\ n + 1 = Len(files) - Len(t)
  BY <1>1, <1>3, <1>5
<1> QED
  BY <1>6, <1>7, <1>8 DEF l, t

LEMMA AllLeft ==
  ASSUME NEW S, NEW files \in Seq(S)
  PROVE  LeftOf(files, files, 0)
<1>1. Len(files) \in Nat /\ DOMAIN files = 1 .. Len(files)
  BY LenProperties
<1>2. \A i \in DOMAIN files : 0 + i = i
  BY <1>1
<1> QED
  BY <1>1, <1>2 DEF LeftOf


LEMMA InitOutput == Init => OutputInv
<1> SUFFICES ASSUME Init PROVE OutputInv
  OBVIOUS
<1>1. /\ stage = "walking" /\ rendered = <<>> /\ iconFiles = <<>> /\ looseFiles = <<>>
      /\ IconsRendered = 0
  BY DEF Init, IconsRendered
<1>2. IconsLast(rendered, iconFiles, 0)
  BY <1>1 DEF IconsLast
<1>3. LooseFilesOf(looseFiles, iconFiles)
  BY <1>1 DEF LooseFilesOf
<1>4. looseFiles \in Seq({LooseFile(job) : job \in AllJobs})
  BY <1>1, EmptySeq
<1> QED
  BY <1>1, <1>2, <1>3, <1>4 DEF OutputInv, IconRenditionsInv, LooseInv

LEMMA FailureKeepsOutput ==
  ASSUME OutputInv, UNCHANGED <<catalog, looseFiles>>, stage' = "failed"
  PROVE  OutputInv'
<1>1. AllJobs' = AllJobs /\ \A job : LooseFile(job)' = LooseFile(job)
  BY DEF AllJobs, Tree, LooseFile, LooseName, OutputName
<1>2. IconRenditionsInv' /\ LooseInv'
  BY DEF IconRenditionsInv, LooseInv
<1> QED
  BY <1>1, <1>2 DEF OutputInv

LEMMA StutterKeepsOutput ==
  ASSUME OutputInv, UNCHANGED <<catalog, stage, todo, rendered, iconFiles, looseFiles>>
  PROVE  OutputInv'
<1>1. AllJobs' = AllJobs
  BY DEF AllJobs, Tree
<1>2. IconRenditionsInv' /\ LooseInv'
  BY DEF OutputInv, IconRenditionsInv, LooseInv, IconsRendered, IconsLast, LeftOf,
         LooseFilesOf
<1> QED
  BY <1>1, <1>2 DEF OutputInv

(* Until the icons' loop begins, no icon is rendered and no file is loose. *)
LEMMA EarlyLoopsKeepOutput ==
  ASSUME OutputInv, UNCHANGED <<catalog, rendered, looseFiles>>,
         stage \in {"walking", "images", "colors", "plist"},
         stage' \in {"images", "colors", "plist"}
  PROVE  OutputInv'
<1>1. AllJobs' = AllJobs
  BY DEF AllJobs, Tree
<1>2. IconsRendered = 0 /\ IconsRendered' = 0 /\ looseFiles = <<>>
  BY DEF OutputInv, IconsRendered, LooseInv
<1>3. IconsLast(rendered, iconFiles, 0)
  BY <1>2 DEF OutputInv, IconRenditionsInv
<1>4. IconsLast(rendered', iconFiles', 0)
  <2>1. rendered' = rendered /\ 1 .. 0 = {}
    OBVIOUS
  <2> QED
    BY <1>3, <2>1 DEF IconsLast
<1>5. IconRenditionsInv'
  BY <1>2, <1>4 DEF IconRenditionsInv
<1>6. LooseInv'
  BY <1>2 DEF LooseInv, LooseFilesOf
<1> QED
  BY <1>1, <1>5, <1>6 DEF OutputInv

(* What images and colours give is no icon.                                *)
LEMMA OthersKeepOutput ==
  ASSUME JobsInv, OutputInv, stage \in {"images", "colors"},
         NEW rs \in Seq(Renditions), \A r \in ToSet(rs) : r.body # "icon", Produce(rs)
  PROVE  OutputInv'
<1>1. /\ rendered' = rendered \o rs
      /\ UNCHANGED <<catalog, stage, iconFiles, looseFiles>>
  BY DEF Produce
<1>2. AllJobs' = AllJobs
  BY <1>1 DEF AllJobs, Tree
<1>3. IconsRendered = 0 /\ IconsRendered' = 0
  BY <1>1 DEF IconsRendered
<1>4. IconsLast(rendered', iconFiles', 0)
  <2>1. rendered \in Seq(Renditions)
    BY DEF JobsInv
  <2>2. IconsLast(rendered, iconFiles, 0)
    BY <1>3 DEF OutputInv, IconRenditionsInv
  <2>3. IconsLast(rendered \o rs, iconFiles, 0)
    BY <2>1, <2>2, OthersBeforeIcons
  <2> QED
    BY <1>1, <2>3
<1>5. IconRenditionsInv'
  BY <1>1, <1>3, <1>4 DEF IconRenditionsInv
<1>6. LooseInv'
  BY <1>1 DEF OutputInv, LooseInv, LooseFilesOf
<1> QED
  BY <1>1, <1>2, <1>5, <1>6 DEF OutputInv

LEMMA OneRendition ==
  ASSUME NEW job \in AllJobs, NEW scale, NEW gamut, NEW body \in Bodies,
         scale \in {NoScale, job.entry.scale}, gamut \in {"sRGB", job.entry.gamut}
  PROVE  /\ NewRendition(job, scale, gamut, body) \in Renditions
         /\ NewRendition(job, scale, gamut, body).body = body
         /\ NewRendition(job, scale, gamut, body).source = job.entry.file.stem
<1>1. /\ scale \in (0 .. 3) \cup {x.entry.scale : x \in AllJobs}
      /\ gamut \in {"none", "sRGB"} \cup {x.entry.gamut : x \in AllJobs}
  BY DEF NoScale
<1> QED
  BY <1>1, NewRenditionIs

LEMMA RenderOthersKeepsOutput ==
  ASSUME JobsInv, OutputInv, SkipImage \/ RenderImage \/ RenderColor
  PROVE  OutputInv'
<1>1. todo \in Seq(AllJobs) /\ todo # <<>> /\ stage \in {"images", "colors"}
  BY DEF JobsInv, SkipImage, RenderImage, RenderColor, At
<1>2. PICK j \in AllJobs : j = Job
  BY <1>1, RangeOfTail DEF Job
<1>3. CASE SkipImage
  <2>1. <<>> \in Seq(Renditions) /\ ToSet(<<>>) = {}
    BY EmptySeq DEF ToSet
  <2> QED
    BY <1>1, <1>3, <2>1, OthersKeepOutput DEF SkipImage
<1>4. CASE RenderImage
  <2>1. j.entry.file # NoFile /\ j.entry.file.format \in SourceFormats
    BY <1>2, <1>4 DEF RenderImage
  <2>2. PICK rs \in Seq(Renditions) :
          rs = ImageRenditions(j) /\ \A r \in ToSet(rs) : r.body # "icon"
    BY <2>1, ImageRenditionsAre
  <2> QED
    BY <1>1, <1>2, <1>4, <2>2, OthersKeepOutput DEF RenderImage
<1>5. CASE RenderColor
  <2> DEFINE r == NewRendition(j, NoScale, j.entry.gamut, "color")
  <2>1. "color" \in Bodies
    BY DEF Bodies
  <2>2. r \in Renditions /\ r.body = "color"
    BY <2>1, OneRendition
  <2>3. Produce(<<r>>)
    BY <1>2, <1>5 DEF RenderColor
  <2> HIDE DEF r
  <2>4. <<r>> \in Seq(Renditions) /\ ToSet(<<r>>) = {r}
    BY <2>2 DEF ToSet
  <2> QED
    BY <1>1, <2>2, <2>3, <2>4, OthersKeepOutput
<1> QED
  BY <1>3, <1>4, <1>5

(* An icon's rendition follows those of the icons before it.               *)
LEMMA RenderIconKeepsOutput ==
  ASSUME JobsInv, OutputInv, RenderIcon
  PROVE  OutputInv'
<1>1. /\ stage = "icons" /\ todo # <<>>
      /\ Produce(<<NewRendition(Job, Job.entry.scale, "sRGB", "icon")>>)
  BY DEF RenderIcon, At
<1>2. /\ todo \in Seq(AllJobs) /\ iconFiles \in Seq(AllJobs) /\ rendered \in Seq(Renditions)
  BY DEF JobsInv
<1>3. PICK j \in AllJobs : j = Job
  BY <1>1, <1>2, RangeOfTail DEF Job
<1>4. PICK r \in Renditions : /\ r = NewRendition(j, j.entry.scale, "sRGB", "icon")
                              /\ r.body = "icon" /\ r.source = j.entry.file.stem
  <2>1. "icon" \in Bodies
    BY DEF Bodies
  <2> QED
    BY <2>1, OneRendition
<1>5. /\ rendered' = rendered \o <<r>> /\ todo' = Tail(todo)
      /\ UNCHANGED <<catalog, stage, iconFiles, looseFiles>>
  BY <1>1, <1>3, <1>4 DEF Produce
<1>6. AllJobs' = AllJobs
  BY <1>5 DEF AllJobs, Tree
<1>7. PICK n : n = IconsRendered
  OBVIOUS
<1>8. IconsLast(rendered, iconFiles, n) /\ LeftOf(todo, iconFiles, n)
  BY <1>1, <1>7 DEF OutputInv, IconRenditionsInv
<1>9. /\ LeftOf(Tail(todo), iconFiles, n + 1)
      /\ Head(todo) = iconFiles[n + 1]
      /\ n + 1 = Len(iconFiles) - Len(Tail(todo))
  BY <1>1, <1>2, <1>8, OneLessLeft, LenProperties
<1>10. IconsLast(rendered \o <<r>>, iconFiles, n + 1)
  <2>1. r.source = iconFiles[n + 1].entry.file.stem
    BY <1>3, <1>4, <1>9 DEF Job
  <2> QED
    BY <1>2, <1>4, <1>8, <2>1, IconAddsToIcons
<1>11. IconsRendered' = n + 1
  BY <1>1, <1>5, <1>9 DEF IconsRendered
<1>12. IconRenditionsInv'
  BY <1>5, <1>9, <1>10, <1>11 DEF IconRenditionsInv
<1>13. LooseInv'
  BY <1>1, <1>5 DEF OutputInv, LooseInv, LooseFilesOf
<1> QED
  BY <1>5, <1>6, <1>12, <1>13 DEF OutputInv

(* Each icon file is copied under its own name.                            *)
LEMMA CopyLooseFileKeepsOutput ==
  ASSUME JobsInv, OutputInv, CopyLooseFile
  PROVE  OutputInv'
<1>1. /\ stage = "loose" /\ todo # <<>>
      /\ looseFiles' = Append(looseFiles, LooseFile(Job)) /\ todo' = Tail(todo)
      /\ UNCHANGED <<catalog, stage, iconFiles, rendered>>
  BY DEF CopyLooseFile, At, LooseFile
<1>2. todo \in Seq(AllJobs) /\ iconFiles \in Seq(AllJobs)
  BY DEF JobsInv
<1>3. PICK j \in AllJobs : j = Job
  BY <1>1, <1>2, RangeOfTail DEF Job
<1>4. AllJobs' = AllJobs
  BY <1>1 DEF AllJobs, Tree
<1> DEFINE Files == {LooseFile(job) : job \in AllJobs}
           n == Len(looseFiles)
<1>5. /\ looseFiles \in Seq(Files) /\ LeftOf(todo, iconFiles, n)
      /\ LooseFilesOf(looseFiles, iconFiles)
  BY <1>1 DEF OutputInv, LooseInv
<1>6. LooseFile(j) \in Files
  OBVIOUS
<1>7. LooseFile(Job) = LooseFile(j)
  BY <1>3
<1>8. /\ n \in Nat /\ DOMAIN looseFiles = 1 .. n
      /\ looseFiles' \in Seq(Files) /\ Len(looseFiles') = n + 1
      /\ DOMAIN looseFiles' = 1 .. n + 1
      /\ \A i \in 1 .. n : looseFiles'[i] = looseFiles[i]
      /\ looseFiles'[n + 1] = LooseFile(j)
  <2> HIDE DEF Files
  <2> QED
    BY <1>1, <1>5, <1>6, <1>7, AppendProperties, LenProperties
<1>9. LeftOf(Tail(todo), iconFiles, n + 1) /\ Job = iconFiles[n + 1]
  BY <1>1, <1>2, <1>5, OneLessLeft, LenProperties DEF Job
<1>10. LooseFilesOf(looseFiles', iconFiles)
  <2>1. ASSUME NEW i \in 1 .. n + 1 PROVE looseFiles'[i] = LooseFile(iconFiles[i])
    <3>1. CASE i = n + 1
      BY <1>3, <1>8, <1>9, <3>1
    <3>2. CASE i \in 1 .. n
      BY <1>5, <1>8, <3>2 DEF LooseFilesOf
    <3> QED
      BY <1>8, <3>1, <3>2
  <2> QED
    BY <1>8, <2>1 DEF LooseFilesOf
<1>11. LooseInv'
  BY <1>1, <1>8, <1>9, <1>10 DEF LooseInv, LooseFilesOf
<1>12. IconRenditionsInv'
  BY <1>1 DEF OutputInv, IconRenditionsInv, IconsRendered
<1> QED
  BY <1>4, <1>8, <1>11, <1>12 DEF OutputInv


(* What is rendered of the icons, and copied, keeps its order.             *)
LEMMA StepOutput ==
  ASSUME SetsInv, JobsInv, OutputInv, [Next]_vars
  PROVE  OutputInv'
<1>1. ASSUME NEW e, Throw(e) PROVE OutputInv'
  BY <1>1, FailureKeepsOutput DEF Throw
<1>2. CASE Walk
  <2>1. CASE LeaveFolder
    BY <2>1, StutterKeepsOutput DEF LeaveFolder
  <2>2. CASE WalkFails
    BY <1>1, <2>2 DEF WalkFails
  <2>3. CASE EndWalk
    BY <2>3, EarlyLoopsKeepOutput DEF EndWalk
  <2>4. CASE TooManyIconSets
    BY <1>1, <2>4 DEF TooManyIconSets
  <2>5. ASSUME NEW d, EnterFolder(d) \/ LoadSet(d) PROVE OutputInv'
    BY <2>5, StutterKeepsOutput DEF EnterFolder, LoadSet
  <2>6. ASSUME NEW d, LoadSetFails(d) PROVE OutputInv'
    BY <1>1, <2>6 DEF LoadSetFails
  <2> QED
    BY <1>2, <2>1, <2>2, <2>3, <2>4, <2>5, <2>6 DEF Walk, Load
<1>3. CASE Render
  <2>1. CASE RenderImageFails \/ RenderColorFails
    BY <1>1, <2>1 DEF RenderImageFails, RenderColorFails
  <2>2. CASE StartColors
    BY <2>2, EarlyLoopsKeepOutput DEF StartColors, NextLoop
  <2>3. CASE StartPlist
    <3>1. CASE loaded["appiconset"] # <<>>
      BY <2>3, <3>1, EarlyLoopsKeepOutput DEF StartPlist, NextLoop
    <3>2. CASE loaded["appiconset"] = <<>>
      <4>1. /\ stage = "colors" /\ stage' = "done"
            /\ UNCHANGED <<catalog, rendered, iconFiles, looseFiles>>
        BY <2>3, <3>2 DEF StartPlist, NextLoop
      <4>2. iconFiles = <<>> /\ looseFiles = <<>> /\ IconsRendered = 0 /\ IconsRendered' = 0
        BY <4>1 DEF JobsInv, IconListInv, OutputInv, LooseInv, IconsRendered
      <4>3. AllJobs' = AllJobs
        BY <4>1 DEF AllJobs, Tree
      <4>4. IconRenditionsInv'
        BY <4>1, <4>2 DEF OutputInv, IconRenditionsInv, IconsLast
      <4>5. LooseInv'
        BY <4>1, <4>2 DEF LooseInv, LooseFilesOf
      <4> QED
        BY <4>1, <4>3, <4>4, <4>5 DEF OutputInv
    <3> QED
      BY <3>1, <3>2
  <2> QED
    BY <1>3, <2>1, <2>2, <2>3, RenderOthersKeepsOutput DEF Render
<1>4. CASE BundleIcons
  <2>1. CASE EmitIconFails \/ RenderIconFails \/ CopyLooseFileFails
    BY <1>1, <2>1 DEF EmitIconFails, RenderIconFails, CopyLooseFileFails
  <2>2. CASE EmitIcon
    BY <2>2, EarlyLoopsKeepOutput DEF EmitIcon, At
  <2> DEFINE n == Len(iconFiles)
  <2>3. iconFiles \in Seq(AllJobs) /\ n \in Nat /\ n - n = 0 /\ n - 0 = n
    BY LenProperties DEF JobsInv
  <2>4. CASE StartIcons
    <3>1. /\ stage = "plist" /\ stage' = "icons" /\ todo' = iconFiles
          /\ UNCHANGED <<catalog, rendered, iconFiles, looseFiles>>
      BY <2>4 DEF StartIcons, NextLoop
    <3>2. IconsRendered = 0 /\ IconsRendered' = 0
      BY <2>3, <3>1 DEF IconsRendered
    <3>3. LeftOf(iconFiles, iconFiles, 0)
      BY <2>3, AllLeft
    <3>4. IconRenditionsInv'
      BY <3>1, <3>2, <3>3 DEF OutputInv, IconRenditionsInv
    <3>5. LooseInv' /\ AllJobs' = AllJobs
      BY <3>1 DEF OutputInv, LooseInv, LooseFilesOf, AllJobs, Tree
    <3> QED
      BY <3>1, <3>4, <3>5 DEF OutputInv
  <2>5. CASE StartLoose
    <3>1. /\ stage = "icons" /\ stage' = "loose" /\ todo = <<>> /\ todo' = iconFiles
          /\ UNCHANGED <<catalog, rendered, iconFiles, looseFiles>>
      BY <2>5 DEF StartLoose, NextLoop
    <3>2. IconsRendered = n /\ IconsRendered' = n
      <4>1. Len(todo) = 0
        BY <3>1
      <4> QED
        BY <2>3, <3>1, <4>1 DEF IconsRendered
    <3>3. LeftOf(iconFiles, iconFiles, 0)
      BY <2>3, AllLeft
    <3>4. IconRenditionsInv'
      BY <3>1, <3>2 DEF OutputInv, IconRenditionsInv
    <3>5. looseFiles = <<>> /\ Len(looseFiles) = 0
      BY <3>1 DEF OutputInv, LooseInv
    <3>6. LooseInv' /\ AllJobs' = AllJobs
      BY <3>1, <3>3, <3>5 DEF LooseInv, LooseFilesOf, AllJobs, Tree
    <3> QED
      BY <3>1, <3>4, <3>6 DEF OutputInv
  <2>6. CASE Finish
    <3>1. /\ stage = "loose" /\ stage' = "done" /\ todo = <<>>
          /\ UNCHANGED <<catalog, rendered, iconFiles, looseFiles>>
      BY <2>6 DEF Finish, NextLoop
    <3>2. Len(looseFiles) = n
      <4>1. LeftOf(todo, iconFiles, Len(looseFiles)) /\ Len(todo) = 0
        BY <3>1 DEF OutputInv, LooseInv
      <4> QED
        BY <2>3, <4>1 DEF LeftOf
    <3>3. IconRenditionsInv'
      BY <3>1 DEF OutputInv, IconRenditionsInv, IconsRendered
    <3>4. LooseInv' /\ AllJobs' = AllJobs
      BY <3>1, <3>2 DEF OutputInv, LooseInv, LooseFilesOf, AllJobs, Tree
    <3> QED
      BY <3>1, <3>3, <3>4 DEF OutputInv
  <2> QED
    BY <1>4, <2>1, <2>2, <2>4, <2>5, <2>6, RenderIconKeepsOutput,
       CopyLooseFileKeepsOutput DEF BundleIcons
<1>5. CASE UNCHANGED vars
  BY <1>5, StutterKeepsOutput DEF vars
<1> QED
  BY <1>2, <1>3, <1>4, <1>5 DEF Next, Returned

(* Every icon the property list declares is backed by a loose file, and    *)
(* the loose files are those of the icon renditions of the compiled        *)
(* catalog, in their order.                                                *)
THEOREM LooseFilesBackIcons == Spec => []IconFilesBacked
<1>1. JobsInv /\ OutputInv => IconFilesBacked
  <2> SUFFICES ASSUME JobsInv, OutputInv, stage = "done" PROVE IconFilesBacked
    BY DEF IconFilesBacked, Done
  <2> DEFINE n == Len(looseFiles)
             others == Len(rendered) - n
  <2>1. /\ IconsLast(rendered, iconFiles, n)
        /\ n = Len(iconFiles) /\ LooseFilesOf(looseFiles, iconFiles)
    BY DEF OutputInv, IconRenditionsInv, IconsRendered, LooseInv
  <2>2. DOMAIN looseFiles = 1 .. n /\ DOMAIN iconFiles = 1 .. n
    BY <2>1, LenProperties DEF JobsInv, OutputInv
  <2>3. ASSUME NEW i \in 1 .. n
        PROVE  /\ looseFiles[i].name[1] = OutputName(iconFiles[i])
               /\ looseFiles[i].source = iconFiles[i].entry.file.stem
    <3>1. looseFiles[i] = LooseFile(iconFiles[i])
      BY <2>1, <2>2 DEF LooseFilesOf
    <3> QED
      BY <3>1 DEF LooseFile, LooseName
  <2>4. ASSUME NEW name \in CFBundleIconFiles
        PROVE  \E i \in DOMAIN looseFiles : looseFiles[i].name[1] = name
    <3>1. PICK i \in DOMAIN iconFiles : name = OutputName(iconFiles[i])
      BY <2>4 DEF CFBundleIconFiles, FilesOf
    <3> QED
      BY <2>2, <2>3, <3>1
  <2>5. /\ \A i \in 1 .. others : rendered[i].body # "icon"
        /\ \A i \in 1 .. n : /\ rendered[others + i].body = "icon"
                             /\ rendered[others + i].source = iconFiles[i].entry.file.stem
    BY <2>1 DEF IconsLast
  <2>6. \A i \in DOMAIN looseFiles :
           /\ rendered[others + i].body = "icon"
           /\ rendered[others + i].source = looseFiles[i].source
    BY <2>2, <2>3, <2>5
  <2> QED
    BY <2>4, <2>5, <2>6 DEF IconFilesBacked
<1> QED
  BY InitSets, InitJobs, InitOutput, StepSets, StepJobs, StepOutput, <1>1, PTL DEF Spec

-----------------------------------------------------------------------------
(* Where a join of sequences has their items.                              *)

(* The join of the first sequences does not depend on the others.          *)
LEMMA JoinsAgree ==
  ASSUME NEW S, NEW s \in Seq(Seq(S)), NEW t \in Seq(Seq(S)), Len(s) <= Len(t),
         \A i \in 1 .. Len(s) : s[i] = t[i],
         NEW F, NEW G, Joins(F, s, S), Joins(G, t, S)
  PROVE  F[Len(s)] = G[Len(s)]
<1> DEFINE n == Len(s)
           T == {k \in 0 .. n : F[k] = G[k]}
<1>1. /\ n \in Nat /\ F[0] = <<>> /\ G[0] = <<>>
      /\ \A i \in 1 .. n : F[i] = F[i - 1] \o s[i] /\ G[i] = G[i - 1] \o s[i]
  <2>1. n \in Nat /\ Len(t) \in Nat /\ \A i \in 1 .. n : i \in 1 .. Len(t)
    BY LenProperties
  <2> QED
    BY <2>1 DEF Joins
<1>2. 0 \in T
  BY <1>1
<1>3. ASSUME NEW k \in 0 .. n - 1, k \in T PROVE k + 1 \in T
  <2>1. k + 1 \in 1 .. n /\ k + 1 \in 0 .. n /\ (k + 1) - 1 = k
    BY <1>1
  <2>2. F[k] = G[k]
    BY <1>3
  <2> QED
    BY <1>1, <2>1, <2>2
<1>4. T \in SUBSET (0 .. n)
  OBVIOUS
<1> HIDE DEF n
<1>5. n \in 0 .. n /\ n \in T
  <2> HIDE DEF T
  <2>1. T = 0 .. n
    BY <1>1, <1>2, <1>3, <1>4, UpTo
  <2> QED
    BY <1>1, <2>1
<1> QED
  BY <1>5 DEF n

(* A sequence more adds its items at the end.                              *)
LEMMA FlattenAppend ==
  ASSUME NEW S, NEW s \in Seq(Seq(S)), NEW x \in Seq(S)
  PROVE  FlattenSeq(Append(s, x)) = FlattenSeq(s) \o x
<1> DEFINE n == Len(s)
           t == Append(s, x)
<1>1. /\ n \in Nat /\ t \in Seq(Seq(S)) /\ Len(t) = n + 1 /\ n <= Len(t)
      /\ \A i \in 1 .. n : s[i] = t[i]
      /\ t[n + 1] = x
  BY LenProperties, AppendProperties
<1> HIDE DEF n, t
<1>2. PICK F : Joins(F, s, S) /\ FlattenSeq(s) = F[n]
  BY FlattenJoins DEF n
<1>3. PICK G : Joins(G, t, S) /\ FlattenSeq(t) = G[n + 1]
  BY <1>1, FlattenJoins
<1>4. F[n] = G[n]
  BY <1>1, <1>2, <1>3, JoinsAgree, SMTT(30) DEF n
<1>5. G[n + 1] = G[n] \o x
  <2>1. n + 1 \in 1 .. n + 1 /\ (n + 1) - 1 = n
    BY <1>1
  <2> QED
    BY <1>1, <1>3, <2>1 DEF Joins
<1> QED
  BY <1>2, <1>3, <1>4, <1>5 DEF t

(* W[x] cells for each x.                                                  *)
Cells(W) == UNION {{<<x, m>> : m \in 1 .. W[x]} : x \in DOMAIN W}

Lengths(seqs) == [i \in 1 .. Len(seqs) |-> Len(seqs[i])]

(* What the cells are.                                                     *)
LEMMA InCells ==
  ASSUME NEW W
  PROVE  /\ \A c \in Cells(W) : /\ c = <<c[1], c[2]>> /\ c[1] \in DOMAIN W
                                /\ c[2] \in 1 .. W[c[1]]
         /\ \A x \in DOMAIN W : \A m \in 1 .. W[x] :
              <<x, m>> \in Cells(W) /\ <<x, m>>[1] = x /\ <<x, m>>[2] = m
BY DEF Cells

(* Where a join has the items of the sequences.                            *)
Locates(at, seqs, flat) ==
  /\ at \in Bijection(Cells(Lengths(seqs)), 1 .. Len(flat))
  /\ \A c \in Cells(Lengths(seqs)) : flat[at[c]] = seqs[c[1]][c[2]]

(* The same of the first k sequences.                                      *)
LocatesUpTo(k, at, seqs, flat) ==
  LET cells == {c \in Cells(Lengths(seqs)) : c[1] <= k} IN
  /\ at \in [cells -> 1 .. Len(flat)]
  /\ \A c, d \in cells : at[c] = at[d] => c = d
  /\ \A m \in 1 .. Len(flat) : \E c \in cells : at[c] = m
  /\ \A c \in cells : flat[at[c]] = seqs[c[1]][c[2]]

(* The next sequence.                                                      *)
LEMMA LocatesOneMore ==
  ASSUME NEW S, NEW seqs \in Seq(Seq(S)), NEW k \in Nat, k + 1 \in 1 .. Len(seqs),
         NEW flat \in Seq(S), NEW at, LocatesUpTo(k, at, seqs, flat)
  PROVE  \E next : LocatesUpTo(k + 1, next, seqs, flat \o seqs[k + 1])
<1> DEFINE W == Lengths(seqs)
           old == {c \in Cells(W) : c[1] <= k}
           new == {c \in Cells(W) : c[1] <= k + 1}
           n == Len(flat)
           x == seqs[k + 1]
           m == Len(x)
           both == flat \o x
           next == [c \in new |-> IF c[1] = k + 1 THEN n + c[2] ELSE at[c]]
<1>1. /\ n \in Nat /\ m \in Nat /\ x \in Seq(S) /\ Len(both) = n + m
      /\ \A i \in 1 .. n : i \in 1 .. n + m /\ both[i] = flat[i]
      /\ \A i \in 1 .. m : n + i \in 1 .. n + m /\ both[n + i] = x[i]
  <2>1. x \in Seq(S) /\ n \in Nat
    BY LenProperties, ElementOfSeq
  <2>2. m \in Nat /\ Len(both) = n + m
    BY <2>1, LenProperties, ConcatProperties
  <2>3. \A i \in 1 .. n + m : both[i] = IF i <= n THEN flat[i] ELSE x[i - n]
    BY <2>1, ConcatProperties
  <2> HIDE DEF both, x, m, n
  <2>4. \A i \in 1 .. n : i \in 1 .. n + m /\ i <= n
    BY <2>1, <2>2
  <2>5. \A i \in 1 .. m : n + i \in 1 .. n + m /\ ~(n + i <= n) /\ (n + i) - n = i
    BY <2>1, <2>2
  <2> QED
    BY <2>1, <2>2, <2>3, <2>4, <2>5
<1>2. /\ at \in [old -> 1 .. n]
      /\ \A c, d \in old : at[c] = at[d] => c = d
      /\ \A i \in 1 .. n : \E c \in old : at[c] = i
      /\ \A c \in old : flat[at[c]] = seqs[c[1]][c[2]]
  BY DEF LocatesUpTo
<1>3. DOMAIN W = 1 .. Len(seqs) /\ W[k + 1] = m /\ Len(seqs) \in Nat
  BY LenProperties DEF Lengths
<1>4. /\ \A c \in Cells(W) : /\ c = <<c[1], c[2]>> /\ c[1] \in DOMAIN W
                             /\ c[2] \in 1 .. W[c[1]]
      /\ \A i \in DOMAIN W : \A j \in 1 .. W[i] :
           <<i, j>> \in Cells(W) /\ <<i, j>>[1] = i /\ <<i, j>>[2] = j
  BY InCells
<1> HIDE DEF W, n, m, both, x
<1>5. ASSUME NEW c \in new PROVE c \in old \/ (c[1] = k + 1 /\ c[2] \in 1 .. m /\ c = <<k + 1, c[2]>>)
  <2>1. /\ c = <<c[1], c[2]>> /\ c[1] \in 1 .. Len(seqs) /\ c[2] \in 1 .. W[c[1]]
        /\ c \in Cells(W) /\ c[1] <= k + 1
    BY <1>3, <1>4
  <2>2. c[1] <= k \/ c[1] = k + 1
    BY <2>1
  <2>3. CASE c[1] <= k
    BY <2>1, <2>3
  <2>4. CASE c[1] = k + 1
    BY <1>3, <2>1, <2>4
  <2> QED
    BY <2>2, <2>3, <2>4
<1>6. ASSUME NEW c \in old PROVE c \in new /\ c[1] # k + 1
  BY <1>3, <1>4
<1>7. ASSUME NEW i \in 1 .. m PROVE <<k + 1, i>> \in new
  <2>1. k + 1 \in DOMAIN W /\ i \in 1 .. W[k + 1]
    BY <1>3
  <2>2. <<k + 1, i>> \in Cells(W) /\ <<k + 1, i>>[1] = k + 1
    BY <1>4, <2>1
  <2> QED
    BY <2>2
<1> HIDE DEF old, new
<1>8. \A c \in old : next[c] = at[c] /\ at[c] \in 1 .. n
  BY <1>2, <1>6
<1>9. \A c \in new : c \notin old => next[c] = n + c[2] /\ c[2] \in 1 .. m /\ c = <<k + 1, c[2]>>
  BY <1>5
<1>10. next = [c \in new |-> next[c]]
  OBVIOUS
<1> HIDE DEF next
<1>11. ASSUME NEW c \in new
       PROVE  /\ next[c] \in 1 .. n + m
              /\ c \in old => next[c] \in 1 .. n
              /\ c \notin old => next[c] \notin 1 .. n
  <2>1. CASE c \in old
    <3>1. next[c] \in 1 .. n
      BY <1>8, <2>1
    <3> QED
      BY <1>1, <2>1, <3>1
  <2>2. CASE c \notin old
    <3>1. PICK i \in 1 .. m : c[2] = i /\ next[c] = n + i
      BY <1>9, <2>2
    <3>2. n + i \notin 1 .. n
      BY <1>1
    <3> QED
      BY <1>1, <2>2, <3>1, <3>2
  <2> QED
    BY <2>1, <2>2
<1>12. ASSUME NEW c \in new, NEW d \in new, next[c] = next[d] PROVE c = d
  <2>1. CASE c \in old /\ d \in old
    BY <1>2, <1>8, <1>12, <2>1
  <2>2. CASE c \in old /\ d \notin old
    BY <1>11, <1>12, <2>2
  <2>3. CASE c \notin old /\ d \in old
    BY <1>11, <1>12, <2>3
  <2>4. CASE c \notin old /\ d \notin old
    <3>1. c[2] = d[2]
      BY <1>1, <1>9, <1>12, <2>4
    <3> QED
      BY <1>9, <2>4, <3>1
  <2> QED
    BY <2>1, <2>2, <2>3, <2>4
<1>13. ASSUME NEW i \in 1 .. n + m PROVE \E c \in new : next[c] = i
  <2>1. CASE i \in 1 .. n
    BY <1>2, <1>6, <1>8, <2>1
  <2>2. CASE i \notin 1 .. n
    <3>1. i - n \in 1 .. m /\ n + (i - n) = i
      BY <1>1, <2>2
    <3> DEFINE c == <<k + 1, i - n>>
    <3>2. c \in new /\ c[2] = i - n /\ c[1] = k + 1
      BY <1>7, <3>1
    <3>3. c \notin old
      BY <1>6, <3>2
    <3> QED
      BY <1>9, <3>1, <3>2, <3>3
  <2> QED
    BY <2>1, <2>2
<1>14. ASSUME NEW c \in new PROVE both[next[c]] = seqs[c[1]][c[2]]
  <2>1. CASE c \in old
    BY <1>1, <1>2, <1>8, <2>1, ZenonT(60)
  <2>2. CASE c \notin old
    <3>1. next[c] = n + c[2] /\ c[2] \in 1 .. m /\ c[1] = k + 1
      BY <1>5, <1>9, <2>2
    <3> QED
      BY <1>1, <3>1 DEF x
  <2> QED
    BY <2>1, <2>2
<1>15. next \in [new -> 1 .. n + m]
  BY <1>10, <1>11
<1>16. LocatesUpTo(k + 1, next, seqs, both)
  <2>1. Len(both) = n + m
    BY <1>1
  <2> QED
    BY <1>12, <1>13, <1>14, <1>15, <2>1 DEF LocatesUpTo, new, W
<1> QED
  BY <1>16 DEF both, x

(* A join has every item of its sequences, in one place each.              *)
LEMMA FlattenAt ==
  ASSUME NEW S, NEW seqs \in Seq(Seq(S))
  PROVE  \E at : Locates(at, seqs, FlattenSeq(seqs))
<1> DEFINE n == Len(seqs)
<1>1. n \in Nat
  BY LenProperties
<1>2. PICK F : Joins(F, seqs, S) /\ FlattenSeq(seqs) = F[n]
  BY FlattenJoins
<1>3. /\ \A k \in 0 .. n : F[k] \in Seq(S)
      /\ F[0] = <<>> /\ \A i \in 1 .. n : F[i] = F[i - 1] \o seqs[i]
  BY <1>2 DEF Joins
<1> DEFINE T == {k \in 0 .. n : \E at : LocatesUpTo(k, at, seqs, F[k])}
<1>4. 0 \in T
  <2> DEFINE cells == {c \in Cells(Lengths(seqs)) : c[1] <= 0}
             at == [c \in cells |-> 0]
  <2>1. cells = {}
    <3>1. \A c \in Cells(Lengths(seqs)) : c[1] \in 1 .. n
      BY InCells DEF Lengths
    <3> QED
      BY <1>1, <3>1
  <2>2. 1 .. Len(F[0]) = {}
    BY <1>3
  <2>3. at \in [cells -> 1 .. Len(F[0])]
    BY <2>1
  <2> HIDE DEF at, cells
  <2>4. LocatesUpTo(0, at, seqs, F[0])
    BY <2>1, <2>2, <2>3 DEF LocatesUpTo, cells
  <2>5. 0 \in 0 .. n
    BY <1>1
  <2> QED
    BY <2>4, <2>5
<1>5. ASSUME NEW k \in 0 .. n - 1, k \in T PROVE k + 1 \in T
  <2>1. /\ k \in Nat /\ k \in 0 .. n /\ k + 1 \in 0 .. n /\ k + 1 \in 1 .. n /\ (k + 1) - 1 = k
    BY <1>1
  <2>2. PICK at : LocatesUpTo(k, at, seqs, F[k])
    BY <1>5
  <2>3. F[k + 1] = F[k] \o seqs[k + 1] /\ F[k] \in Seq(S)
    BY <1>3, <2>1
  <2>4. \E next : LocatesUpTo(k + 1, next, seqs, F[k] \o seqs[k + 1])
    BY <2>1, <2>2, <2>3, LocatesOneMore
  <2> QED
    BY <2>1, <2>3, <2>4
<1>6. T = 0 .. n
  <2>1. T \in SUBSET (0 .. n)
    OBVIOUS
  <2> HIDE DEF T
  <2> QED
    BY <1>1, <1>4, <1>5, <2>1, UpTo
<1>7. \E at : LocatesUpTo(n, at, seqs, F[n])
  <2>1. n \in T
    <3> HIDE DEF T
    <3> QED
      BY <1>1, <1>6
  <2> QED
    BY <2>1
<1>8. PICK at : LocatesUpTo(n, at, seqs, F[n])
  BY <1>7
<1> DEFINE cells == {c \in Cells(Lengths(seqs)) : c[1] <= n}
<1>9. cells = Cells(Lengths(seqs))
  <2>1. \A c \in Cells(Lengths(seqs)) : c[1] \in 1 .. n
    BY InCells DEF Lengths
  <2> QED
    BY <1>1, <2>1
<1>10. /\ at \in [cells -> 1 .. Len(F[n])]
       /\ \A c, d \in cells : at[c] = at[d] => c = d
       /\ \A m \in 1 .. Len(F[n]) : \E c \in cells : at[c] = m
       /\ \A c \in cells : F[n][at[c]] = seqs[c[1]][c[2]]
  BY <1>8 DEF LocatesUpTo
<1> HIDE DEF cells, T
<1>11. at \in Bijection(cells, 1 .. Len(F[n]))
  BY <1>10, Fun_IsBij
<1> QED
  BY <1>2, <1>9, <1>10, <1>11 DEF Locates

-----------------------------------------------------------------------------
(* Where the jobs of directories are.                                      *)

(* As many cells for as many others.                                       *)
LEMMA CellsAlike ==
  ASSUME NEW V, NEW W, NEW f \in Bijection(DOMAIN V, DOMAIN W),
         \A x \in DOMAIN V : V[x] = W[f[x]]
  PROVE  ExistsBijection(Cells(V), Cells(W))
<1> DEFINE A == Cells(V)
           B == Cells(W)
           g == [c \in A |-> <<f[c[1]], c[2]>>]
<1>1. /\ \A c \in A : c = <<c[1], c[2]>> /\ c[1] \in DOMAIN V /\ c[2] \in 1 .. V[c[1]]
      /\ \A x \in DOMAIN V : \A m \in 1 .. V[x] :
           <<x, m>> \in A /\ <<x, m>>[1] = x /\ <<x, m>>[2] = m
  BY InCells
<1>2. /\ \A c \in B : c = <<c[1], c[2]>> /\ c[1] \in DOMAIN W /\ c[2] \in 1 .. W[c[1]]
      /\ \A x \in DOMAIN W : \A m \in 1 .. W[x] :
           <<x, m>> \in B /\ <<x, m>>[1] = x /\ <<x, m>>[2] = m
  BY InCells
<1>3. /\ \A x \in DOMAIN V : f[x] \in DOMAIN W
      /\ \A x, y \in DOMAIN V : f[x] = f[y] => x = y
      /\ \A z \in DOMAIN W : \E x \in DOMAIN V : f[x] = z
  BY Fun_BijectionProperties
<1> HIDE DEF A, B
<1>4. ASSUME NEW c \in A PROVE g[c] = <<f[c[1]], c[2]>> /\ g[c] \in B
  <2>1. f[c[1]] \in DOMAIN W /\ c[2] \in 1 .. W[f[c[1]]]
    BY <1>1, <1>3
  <2> QED
    BY <1>2, <2>1
<1>5. g \in [A -> B]
  BY <1>4
<1> HIDE DEF g
<1>6. ASSUME NEW c \in A, NEW d \in A, g[c] = g[d] PROVE c = d
  <2>1. f[c[1]] = f[d[1]] /\ c[2] = d[2]
    BY <1>4, <1>6
  <2>2. c[1] = d[1]
    BY <1>1, <1>3, <2>1
  <2>3. c = <<c[1], c[2]>> /\ d = <<d[1], d[2]>>
    BY <1>1, Zenon
  <2> QED
    BY <2>1, <2>2, <2>3, Zenon
<1>7. ASSUME NEW e \in B PROVE \E c \in A : g[c] = e
  <2>1. e = <<e[1], e[2]>> /\ e[1] \in DOMAIN W /\ e[2] \in 1 .. W[e[1]]
    BY <1>2
  <2>2. PICK x \in DOMAIN V : f[x] = e[1]
    BY <1>3, <2>1
  <2>3. /\ <<x, e[2]>> \in A /\ <<x, e[2]>>[1] = x /\ <<x, e[2]>>[2] = e[2]
    BY <1>1, <2>1, <2>2
  <2>4. g[<<x, e[2]>>] = e
    BY <1>4, <2>1, <2>2, <2>3
  <2> QED
    BY <2>3, <2>4
<1>8. g \in Bijection(A, B)
  BY <1>5, <1>6, <1>7, Fun_IsBij
<1> QED
  BY <1>8 DEF ExistsBijection, A, B

(* The entries of directories.                                             *)
EntriesOf(sets) == UNION {{<<d, i>> : i \in DOMAIN d.entries} : d \in sets}

(* The entries of directories, and their jobs.                             *)
JobAt(x) == [name |-> x[1].name, entry |-> x[1].entries[x[2]]]

Listings(T) == \A d \in T : d.entries \in Seq(ToSet(d.entries))

(* Each entry of directories that are listed once has its place among the  *)
(* jobs.                                                                   *)
PlacesJobs(at, sets) ==
  /\ at \in Bijection(EntriesOf(ToSet(sets)), 1 .. Len(Jobs(sets)))
  /\ \A x \in EntriesOf(ToSet(sets)) : Jobs(sets)[at[x]] = JobAt(x)

(* There is such a place for each.                                         *)
LEMMA JobsPlaced ==
  ASSUME NEW T, Listings(T), NEW sets \in Seq(T), IsInjective(sets)
  PROVE  \E at : PlacesJobs(at, sets)
<1> DEFINE job(d, j) == [name |-> d.name, entry |-> d.entries[j]]
           S == JobsFrom(T)
           n == Len(sets)
           seqs == [i \in 1 .. n |-> [j \in DOMAIN sets[i].entries |-> job(sets[i], j)]]
           E == EntriesOf(ToSet(sets))
           C == Cells(Lengths(seqs))
           flat == FlattenSeq(seqs)
<1>1. n \in Nat /\ DOMAIN sets = 1 .. n /\ \A i \in 1 .. n : sets[i] \in T
  BY LenProperties
<1>2. Jobs(sets) = flat
  BY <1>1 DEF Jobs
<1>3. \A d \in T : \A j \in DOMAIN d.entries : job(d, j) \in S
  BY DEF JobsFrom
<1>4. ASSUME NEW i \in 1 .. n
      PROVE  /\ seqs[i] \in Seq(S) /\ DOMAIN sets[i].entries = 1 .. Len(seqs[i])
             /\ \A j \in 1 .. Len(seqs[i]) : seqs[i][j] = job(sets[i], j)
  <2> DEFINE d == sets[i]
             m == Len(d.entries)
             s == [j \in DOMAIN d.entries |-> job(d, j)]
  <2>1. d \in T /\ seqs[i] = s
    BY <1>1
  <2>2. DOMAIN d.entries = 1 .. m /\ m \in Nat
    BY <2>1, LenProperties DEF Listings
  <2> HIDE DEF d, m, job, S
  <2>3. s = [j \in 1 .. m |-> job(d, j)] /\ \A j \in 1 .. m : job(d, j) \in S
    BY <1>3, <2>1, <2>2
  <2>4. s \in Seq(S) /\ Len(s) = m /\ \A j \in 1 .. m : s[j] = job(d, j)
    BY <2>2, <2>3
  <2> HIDE DEF s
  <2> QED
    BY <2>1, <2>2, <2>4 DEF d
<1>5. seqs \in Seq(Seq(S)) /\ Len(seqs) = n
  <2> HIDE DEF S, job
  <2>1. \A i \in 1 .. n : seqs[i] \in Seq(S)
    BY <1>4
  <2>2. DOMAIN seqs = 1 .. n /\ seqs = [i \in 1 .. n |-> seqs[i]]
    OBVIOUS
  <2> HIDE DEF seqs
  <2> QED
    BY <1>1, <2>1, <2>2
<1> HIDE DEF seqs, S, E, C, flat, n
<1>6. PICK at : Locates(at, seqs, flat)
  BY <1>5, FlattenAt DEF flat
<1>7. at \in Bijection(C, 1 .. Len(flat)) /\ \A c \in C : flat[at[c]] = seqs[c[1]][c[2]]
  BY <1>6 DEF Locates, C
<1> DEFINE place == [d \in ToSet(sets) |-> CHOOSE i \in 1 .. n : sets[i] = d]
<1>8. /\ \A d \in ToSet(sets) : place[d] \in 1 .. n /\ sets[place[d]] = d
      /\ \A i \in 1 .. n : sets[i] \in ToSet(sets) /\ place[sets[i]] = i
  <2>1. ASSUME NEW d \in ToSet(sets) PROVE place[d] \in 1 .. n /\ sets[place[d]] = d
    <3>1. \E i \in 1 .. n : sets[i] = d
      BY <1>1 DEF ToSet
    <3> QED
      BY <3>1
  <2>2. ASSUME NEW i \in 1 .. n PROVE sets[i] \in ToSet(sets) /\ place[sets[i]] = i
    <3>1. sets[i] \in ToSet(sets)
      BY <1>1 DEF ToSet
    <3>2. place[sets[i]] \in 1 .. n /\ sets[place[sets[i]]] = sets[i]
      BY <2>1, <3>1
    <3> QED
      BY <1>1, <3>1, <3>2 DEF IsInjective
  <2> QED
    BY <2>1, <2>2
<1> HIDE DEF place
<1> DEFINE g == [x \in E |-> <<place[x[1]], x[2]>>]
<1>9. /\ \A x \in E : x = <<x[1], x[2]>> /\ x[1] \in ToSet(sets) /\ x[2] \in DOMAIN x[1].entries
      /\ \A d \in ToSet(sets) : \A j \in DOMAIN d.entries :
           <<d, j>> \in E /\ <<d, j>>[1] = d /\ <<d, j>>[2] = j
  BY DEF E, EntriesOf
<1>10. /\ \A c \in C : /\ c = <<c[1], c[2]>> /\ c[1] \in 1 .. n
                      /\ c[2] \in DOMAIN sets[c[1]].entries
       /\ \A i \in 1 .. n : \A j \in DOMAIN sets[i].entries :
            <<i, j>> \in C /\ <<i, j>>[1] = i /\ <<i, j>>[2] = j
  <2>1. \A i \in 1 .. n : Lengths(seqs)[i] = Len(seqs[i])
    BY <1>5 DEF Lengths
  <2>2. DOMAIN Lengths(seqs) = 1 .. n
    BY <1>5 DEF Lengths
  <2>3. \A i \in 1 .. n : 1 .. Lengths(seqs)[i] = DOMAIN sets[i].entries
    BY <1>4, <2>1
  <2> QED
    <3> DEFINE W == Lengths(seqs)
    <3>1. /\ \A c \in C : c = <<c[1], c[2]>> /\ c[1] \in DOMAIN W /\ c[2] \in 1 .. W[c[1]]
          /\ \A x \in DOMAIN W : \A m \in 1 .. W[x] :
               <<x, m>> \in C /\ <<x, m>>[1] = x /\ <<x, m>>[2] = m
      BY InCells DEF C
    <3> HIDE DEF W
    <3>2. DOMAIN W = 1 .. n /\ \A i \in 1 .. n : 1 .. W[i] = DOMAIN sets[i].entries
      BY <2>2, <2>3 DEF W
    <3> QED
      BY <3>1, <3>2, ZenonT(60)
<1>11. ASSUME NEW x \in E PROVE g[x] = <<place[x[1]], x[2]>> /\ g[x] \in C
  <2>1. place[x[1]] \in 1 .. n /\ sets[place[x[1]]] = x[1]
    BY <1>8, <1>9
  <2>2. x[2] \in DOMAIN sets[place[x[1]]].entries
    BY <1>9, <2>1
  <2> QED
    BY <1>10, <2>1, <2>2
<1>12. g \in [E -> C]
  BY <1>11
<1> HIDE DEF g
<1>13. ASSUME NEW x \in E, NEW y \in E, g[x] = g[y] PROVE x = y
  <2>1. place[x[1]] = place[y[1]] /\ x[2] = y[2]
    BY <1>11, <1>13
  <2>2. x[1] = y[1]
    BY <1>8, <1>9, <2>1
  <2>3. x = <<x[1], x[2]>> /\ y = <<y[1], y[2]>>
    BY <1>9, Zenon
  <2> QED
    BY <2>1, <2>2, <2>3, Zenon
<1>14. ASSUME NEW c \in C PROVE \E x \in E : g[x] = c
  <2>1. c = <<c[1], c[2]>> /\ c[1] \in 1 .. n /\ c[2] \in DOMAIN sets[c[1]].entries
    BY <1>10
  <2>2. sets[c[1]] \in ToSet(sets) /\ place[sets[c[1]]] = c[1]
    BY <1>8, <2>1
  <2> DEFINE x == <<sets[c[1]], c[2]>>
  <2>3. x \in E /\ x[1] = sets[c[1]] /\ x[2] = c[2]
    BY <1>9, <2>1, <2>2
  <2> HIDE DEF x
  <2>4. g[x] = c
    BY <1>11, <2>1, <2>2, <2>3
  <2> QED
    BY <2>3, <2>4
<1>15. g \in Bijection(E, C)
  BY <1>12, <1>13, <1>14, Fun_IsBij
<1> DEFINE f == [x \in E |-> at[g[x]]]
<1>16. f \in Bijection(E, 1 .. Len(flat))
  BY <1>7, <1>15, Fun_BijTransitive
<1>17. ASSUME NEW x \in E PROVE flat[f[x]] = JobAt(x)
  <2>1. f[x] = at[g[x]] /\ g[x] \in C
    BY <1>11
  <2>2. g[x][1] = place[x[1]] /\ g[x][2] = x[2]
    BY <1>11
  <2>3. flat[f[x]] = seqs[place[x[1]]][x[2]]
    BY <1>7, <2>1, <2>2
  <2>4. place[x[1]] \in 1 .. n /\ sets[place[x[1]]] = x[1] /\ x[2] \in DOMAIN x[1].entries
    BY <1>8, <1>9
  <2>5. seqs[place[x[1]]][x[2]] = job(x[1], x[2])
    BY <1>4, <2>4
  <2> QED
    BY <2>3, <2>5 DEF JobAt
<1> HIDE DEF f
<1> QED
  BY <1>2, <1>16, <1>17 DEF PlacesJobs, E

-----------------------------------------------------------------------------
(* The renditions that entries must have, one cell for each: counting      *)
(* cells counts renditions, in whatever order the entries come.            *)

(* A set is as large as another it has a bijection to.                     *)
LEMMA SameSize ==
  ASSUME NEW S, NEW T, ExistsBijection(S, T), IsFiniteSet(T)
  PROVE  IsFiniteSet(S) /\ Cardinality(S) = Cardinality(T)
<1>1. PICK f \in Bijection(S, T) : TRUE
  BY DEF ExistsBijection
<1>2. f \in Injection(S, T)
  BY Fun_BijectionProperties
<1>3. IsFiniteSet(S)
  BY <1>2, FS_Injection
<1> QED
  BY <1>3, FS_Bijection

(* How many renditions an entry of a set must have.                        *)
Weight(x) == Cardinality(Wanted(x[1].kind, x[1].entries[x[2]]))

WeightsOf(entries) == [x \in entries |-> Weight(x)]

CellsOf(entries) == Cells(WeightsOf(entries))

(* What the cells of entries are.                                          *)
LEMMA InCellsOf ==
  ASSUME NEW E
  PROVE  /\ \A c \in CellsOf(E) : /\ c = <<c[1], c[2]>> /\ c[1] \in E
                                  /\ c[2] \in 1 .. Weight(c[1])
         /\ \A x \in E : \A m \in 1 .. Weight(x) :
              <<x, m>> \in CellsOf(E) /\ <<x, m>>[1] = x /\ <<x, m>>[2] = m
<1> DEFINE W == WeightsOf(E)
           C == Cells(W)
<1>1. DOMAIN W = E /\ \A x \in E : W[x] = Weight(x)
  BY DEF WeightsOf
<1>2. /\ \A c \in C : c = <<c[1], c[2]>> /\ c[1] \in DOMAIN W /\ c[2] \in 1 .. W[c[1]]
      /\ \A x \in DOMAIN W : \A m \in 1 .. W[x] :
           <<x, m>> \in C /\ <<x, m>>[1] = x /\ <<x, m>>[2] = m
  BY InCells
<1> HIDE DEF W, C
<1>3. /\ \A c \in C : c = <<c[1], c[2]>> /\ c[1] \in E /\ c[2] \in 1 .. Weight(c[1])
      /\ \A x \in E : \A m \in 1 .. Weight(x) :
           <<x, m>> \in C /\ <<x, m>>[1] = x /\ <<x, m>>[2] = m
  BY <1>1, <1>2
<1> QED
  BY <1>3 DEF C, W, CellsOf

(* One entry more, and its cells.                                          *)
LEMMA MoreCells ==
  ASSUME NEW E, NEW x, x \notin E, Weight(x) \in Nat, IsFiniteSet(CellsOf(E))
  PROVE  /\ IsFiniteSet(CellsOf(E \cup {x}))
         /\ Cardinality(CellsOf(E \cup {x})) = Cardinality(CellsOf(E)) + Weight(x)
<1> DEFINE A == CellsOf(E)
           B == CellsOf(E \cup {x})
           N == 1 .. Weight(x)
           X == {<<x, m>> : m \in N}
           f == [m \in N |-> <<x, m>>]
<1>1. IsFiniteSet(N) /\ Cardinality(N) = Weight(x)
  BY FS_Interval
<1>2. f \in Bijection(N, X)
  <2>1. f \in [N -> X]
    OBVIOUS
  <2>2. \A m, k \in N : f[m] = f[k] => m = k
    OBVIOUS
  <2>3. \A c \in X : \E m \in N : f[m] = c
    OBVIOUS
  <2> HIDE DEF f, X, N
  <2> QED
    BY <2>1, <2>2, <2>3, Fun_IsBij
<1>3. IsFiniteSet(X) /\ Cardinality(X) = Weight(x)
  <2> HIDE DEF f, X, N
  <2> QED
    BY <1>1, <1>2, FS_Bijection DEF ExistsBijection
<1>4. B = A \cup X
  <2>1. ASSUME NEW c \in B PROVE c \in A \cup X
    <3>1. c = <<c[1], c[2]>> /\ c[1] \in E \cup {x} /\ c[2] \in 1 .. Weight(c[1])
      BY InCellsOf
    <3>2. CASE c[1] \in E
      <4>1. <<c[1], c[2]>> \in A
        BY <3>1, <3>2, InCellsOf
      <4> QED
        BY <3>1, <4>1
    <3>3. CASE c[1] = x
      <4>1. c[2] \in N /\ c = <<x, c[2]>>
        BY <3>1, <3>3
      <4> QED
        BY <4>1
    <3> QED
      BY <3>1, <3>2, <3>3
  <2>2. ASSUME NEW c \in A PROVE c \in B
    <3>1. c = <<c[1], c[2]>> /\ c[1] \in E \cup {x} /\ c[2] \in 1 .. Weight(c[1])
      BY InCellsOf
    <3>2. <<c[1], c[2]>> \in B
      BY <3>1, InCellsOf
    <3> QED
      BY <3>1, <3>2
  <2>3. ASSUME NEW c \in X PROVE c \in B
    BY InCellsOf
  <2> HIDE DEF A, B, X
  <2> QED
    BY <2>1, <2>2, <2>3
<1>5. A \cap X = {}
  <2>1. \A c \in A : c[1] \in E
    BY InCellsOf
  <2>2. \A c \in X : c[1] = x
    OBVIOUS
  <2> HIDE DEF A, X
  <2> QED
    BY <2>1, <2>2
<1>0. IsFiniteSet(A)
  OBVIOUS
<1> HIDE DEF X, N, f, A, B
<1>6. IsFiniteSet(A \cup X) /\ Cardinality(A \cup X) = Cardinality(A) + Cardinality(X) - Cardinality(A \cap X)
  BY <1>0, <1>3, FS_Union
<1>7. Cardinality(A \cap X) = 0 /\ Cardinality(A) \in Nat
  BY <1>0, <1>5, FS_EmptySet, FS_CardinalityType
<1>8. IsFiniteSet(B) /\ Cardinality(B) = Cardinality(A) + Weight(x)
  <2>1. PICK n \in Nat : n = Cardinality(A)
    BY <1>7
  <2>2. PICK m \in Nat : m = Weight(x)
    OBVIOUS
  <2>3. n + m - 0 = n + m
    OBVIOUS
  <2> QED
    BY <1>3, <1>4, <1>6, <1>7, <2>1, <2>2, <2>3
<1> QED
  BY <1>8 DEF A, B

(* Entries that are finite in number and weight have finitely many cells.  *)
LEMMA CellsFinite ==
  ASSUME NEW E, IsFiniteSet(E), \A x \in E : Weight(x) \in Nat
  PROVE  \A s \in SUBSET E : IsFiniteSet(CellsOf(s)) /\ Cardinality(CellsOf(s)) \in Nat
<1> DEFINE n == Cardinality(E)
           T == {k \in 0 .. n : \A s \in SUBSET E :
                   Cardinality(s) = k => IsFiniteSet(CellsOf(s))}
<1>1. /\ n \in Nat
      /\ \A s \in SUBSET E : IsFiniteSet(s) /\ Cardinality(s) \in Nat /\ Cardinality(s) \in 0 .. n
  BY FS_CardinalityType, FS_Subset
<1>2. 0 \in T
  <2>1. ASSUME NEW s \in SUBSET E, Cardinality(s) = 0 PROVE IsFiniteSet(CellsOf(s))
    <3>1. s = {}
      BY <1>1, <2>1, FS_EmptySet
    <3>2. CellsOf(s) = {}
      BY <3>1, InCellsOf
    <3> QED
      BY <3>2, FS_EmptySet
  <2> QED
    BY <1>1, <2>1
<1>3. ASSUME NEW k \in 0 .. n - 1, k \in T PROVE k + 1 \in T
  <2>1. k + 1 \in 0 .. n /\ k \in 0 .. n /\ k + 1 # 0
    BY <1>1
  <2>2. ASSUME NEW s \in SUBSET E, Cardinality(s) = k + 1 PROVE IsFiniteSet(CellsOf(s))
    <3>1. s # {}
      <4>1. Cardinality({}) = 0
        BY FS_EmptySet
      <4> HIDE DEF T
      <4> QED
        BY <2>1, <2>2, <4>1
    <3>2. PICK x \in s : TRUE
      BY <3>1
    <3>3. Cardinality(s \ {x}) = k /\ s \ {x} \in SUBSET E /\ (s \ {x}) \cup {x} = s
      <4>1. Cardinality(s \ {x}) = Cardinality(s) - 1
        BY <1>1, <3>2, FS_RemoveElement
      <4>2. (k + 1) - 1 = k
        BY <2>1
      <4> HIDE DEF T
      <4> QED
        BY <2>2, <3>2, <4>1, <4>2
    <3>4. IsFiniteSet(CellsOf(s \ {x})) /\ x \notin s \ {x} /\ Weight(x) \in Nat
      BY <1>3, <3>2, <3>3
    <3> DEFINE r == s \ {x}
    <3> HIDE DEF r
    <3>5. IsFiniteSet(CellsOf(r \cup {x}))
      BY <3>4, MoreCells DEF r
    <3> QED
      BY <3>3, <3>5 DEF r
  <2> QED
    BY <2>1, <2>2
<1>4. T = 0 .. n
  <2>1. T \in SUBSET (0 .. n)
    OBVIOUS
  <2> HIDE DEF T
  <2> QED
    BY <1>1, <1>2, <1>3, <2>1, UpTo
<1>5. ASSUME NEW s \in SUBSET E PROVE IsFiniteSet(CellsOf(s))
  <2>1. PICK k \in T : k = Cardinality(s)
    <3> HIDE DEF T
    <3> QED
      BY <1>1, <1>4
  <2> QED
    BY <2>1
<1> QED
  BY <1>5, FS_CardinalityType

(* The sum of the weights is the number of cells.                          *)
LEMMA FoldCounts ==
  ASSUME NEW E, IsFiniteSet(E), \A x \in E : Weight(x) \in Nat
  PROVE  FoldSet(LAMBDA x, n : n + Cardinality(Wanted(x[1].kind, x[1].entries[x[2]])), 0, E)
           = Cardinality(CellsOf(E))
<1> DEFINE Picked(s) == CHOOSE x \in s : TRUE
           Step(g) == [s \in SUBSET E |->
                         IF s = {} THEN 0 ELSE g[s \ {Picked(s)}] + Weight(Picked(s))]
           sum == CHOOSE g : g = Step(g)
           G == [s \in SUBSET E |-> Cardinality(CellsOf(s))]
<1>1. FoldSet(LAMBDA x, n : n + Cardinality(Wanted(x[1].kind, x[1].entries[x[2]])), 0, E)
        = sum[E]
  BY DEF FoldSet, MapThenFoldSet, Weight
<1>2. \A s \in SUBSET E : IsFiniteSet(CellsOf(s)) /\ Cardinality(CellsOf(s)) \in Nat
  BY CellsFinite
<1>3. \A s \in SUBSET E : s # {} => Picked(s) \in s
  OBVIOUS
<1> HIDE DEF Picked
<1>4. ASSUME NEW s \in SUBSET E, s # {}
      PROVE  /\ s \ {Picked(s)} \in SUBSET E
             /\ Cardinality(CellsOf(s)) = Cardinality(CellsOf(s \ {Picked(s)})) + Weight(Picked(s))
  <2> DEFINE x == Picked(s)
             r == s \ {x}
  <2>1. x \in s /\ r \in SUBSET E /\ x \notin r /\ r \cup {x} = s /\ Weight(x) \in Nat
    BY <1>3, <1>4
  <2> HIDE DEF x, r
  <2>2. Cardinality(CellsOf(r \cup {x})) = Cardinality(CellsOf(r)) + Weight(x)
    BY <1>2, <2>1, MoreCells
  <2> QED
    BY <2>1, <2>2 DEF x, r
<1>5. Cardinality(CellsOf({})) = 0
  <2>1. CellsOf({}) = {}
    BY InCellsOf
  <2> QED
    BY <2>1, FS_EmptySet
<1>6. G = Step(G)
  <2>1. ASSUME NEW s \in SUBSET E
        PROVE  G[s] = IF s = {} THEN 0 ELSE G[s \ {Picked(s)}] + Weight(Picked(s))
    <3>1. CASE s = {}
      BY <1>5, <3>1
    <3>2. CASE s # {}
      BY <1>4, <3>2
    <3> QED
      BY <3>1, <3>2
  <2>2. G = [s \in SUBSET E |-> G[s]]
    OBVIOUS
  <2> HIDE DEF G
  <2> QED
    BY <2>1, <2>2
<1>7. sum = Step(sum)
  <2> HIDE DEF Step, G
  <2> QED
    BY <1>6
<1> HIDE DEF sum
<1>8. /\ sum[{}] = 0
      /\ \A s \in SUBSET E : s # {} => sum[s] = sum[s \ {Picked(s)}] + Weight(Picked(s))
  <2>1. {} \in SUBSET E
    OBVIOUS
  <2> QED
    BY <1>7, <2>1
<1> HIDE DEF Step, G
<1> DEFINE n == Cardinality(E)
           T == {k \in 0 .. n : \A s \in SUBSET E :
                   Cardinality(s) = k => sum[s] = Cardinality(CellsOf(s))}
<1>9. /\ n \in Nat
      /\ \A s \in SUBSET E : IsFiniteSet(s) /\ Cardinality(s) \in Nat /\ Cardinality(s) \in 0 .. n
  BY FS_CardinalityType, FS_Subset
<1>10. 0 \in T
  <2>1. ASSUME NEW s \in SUBSET E, Cardinality(s) = 0 PROVE sum[s] = Cardinality(CellsOf(s))
    <3>1. s = {}
      BY <1>9, <2>1, FS_EmptySet
    <3> QED
      BY <1>5, <1>8, <3>1
  <2> QED
    BY <1>9, <2>1
<1>11. ASSUME NEW k \in 0 .. n - 1, k \in T PROVE k + 1 \in T
  <2>1. k + 1 \in 0 .. n /\ k \in 0 .. n /\ k + 1 # 0
    BY <1>9
  <2>2. ASSUME NEW s \in SUBSET E, Cardinality(s) = k + 1
        PROVE  sum[s] = Cardinality(CellsOf(s))
    <3>1. s # {}
      <4>1. Cardinality({}) = 0
        BY FS_EmptySet
      <4> HIDE DEF T
      <4> QED
        BY <2>1, <2>2, <4>1
    <3>2. Picked(s) \in s /\ s \ {Picked(s)} \in SUBSET E
      BY <1>3, <3>1
    <3>3. Cardinality(s \ {Picked(s)}) = k
      BY <1>9, <2>1, <2>2, <3>2, FS_RemoveElement
    <3>4. sum[s \ {Picked(s)}] = Cardinality(CellsOf(s \ {Picked(s)}))
      BY <1>11, <3>2, <3>3
    <3> QED
      BY <1>4, <1>8, <3>1, <3>4
  <2> QED
    BY <2>1, <2>2
<1>12. T = 0 .. n
  <2>1. T \in SUBSET (0 .. n)
    OBVIOUS
  <2> HIDE DEF T
  <2> QED
    BY <1>9, <1>10, <1>11, <2>1, UpTo
<1>13. sum[E] = Cardinality(CellsOf(E))
  <2>1. n \in T
    <3> HIDE DEF T
    <3> QED
      BY <1>9, <1>12
  <2> QED
    BY <2>1
<1> QED
  BY <1>1, <1>13

-----------------------------------------------------------------------------
(* What the loops make of their jobs.                                      *)

(* What compile() makes of an entry that it does not fail on.              *)
Made(kind, job) ==
  IF kind = "colorset" THEN <<NewRendition(job, NoScale, job.entry.gamut, "color")>>
  ELSE IF kind = "appiconset" THEN <<NewRendition(job, job.entry.scale, "sRGB", "icon")>>
  ELSE IF job.entry.file = NoFile THEN <<>>
  ELSE ImageRenditions(job)

MadeOfEach(kind, jobs) == [i \in 1 .. Len(jobs) |-> Made(kind, jobs[i])]
MadeOf(kind, jobs) == FlattenSeq(MadeOfEach(kind, jobs))

(* An entry that it can make something of, or need not.                    *)
Known(kind, job) ==
  kind = "imageset" => job.entry.file = NoFile \/ job.entry.file.format \in SourceFormats

AllKnown(kind, jobs) == \A i \in 1 .. Len(jobs) : Known(kind, jobs[i])

(* An entry gives as many renditions as it must have.                      *)
LEMMA MadeIs ==
  ASSUME NEW kind \in AssetKinds, NEW job \in AllJobs, Known(kind, job)
  PROVE  /\ Made(kind, job) \in Seq(Renditions)
         /\ Len(Made(kind, job)) = Cardinality(Wanted(kind, job.entry))
         /\ \A r \in ToSet(Made(kind, job)) :
              r.body \in {"color", "icon"} <=> kind # "imageset"
<1> DEFINE Single(scale, gamut, body) == <<NewRendition(job, scale, gamut, body)>>
<1>1. ASSUME NEW scale, NEW gamut, NEW body \in Bodies,
             scale \in {NoScale, job.entry.scale}, gamut \in {"sRGB", job.entry.gamut}
      PROVE  /\ Single(scale, gamut, body) \in Seq(Renditions)
             /\ Len(Single(scale, gamut, body)) = 1
             /\ \A r \in ToSet(Single(scale, gamut, body)) : r.body = body
  <2>1. PICK r \in Renditions : r = NewRendition(job, scale, gamut, body) /\ r.body = body
    BY <1>1, OneRendition
  <2>2. Single(scale, gamut, body) = <<r>>
    BY <2>1
  <2> HIDE DEF Single, Renditions
  <2>3. <<r>> \in Seq(Renditions) /\ Len(<<r>>) = 1
    OBVIOUS
  <2>4. ToSet(<<r>>) = {r}
    BY DEF ToSet
  <2> QED
    BY <2>1, <2>2, <2>3, <2>4
<1>2. CASE kind = "colorset"
  <2>1. Made(kind, job) = Single(NoScale, job.entry.gamut, "color")
    BY <1>2 DEF Made
  <2>2. Wanted(kind, job.entry) = {<<"color", NoScale>>}
    BY <1>2 DEF Wanted
  <2>3. "color" \in Bodies
    BY DEF Bodies
  <2> HIDE DEF Single
  <2>4. /\ Made(kind, job) \in Seq(Renditions) /\ Len(Made(kind, job)) = 1
        /\ \A r \in ToSet(Made(kind, job)) : r.body = "color"
    BY <1>1, <2>1, <2>3
  <2>5. Cardinality(Wanted(kind, job.entry)) = 1
    BY <2>2, FS_Singleton
  <2> QED
    BY <1>2, <2>4, <2>5
<1>3. CASE kind = "appiconset"
  <2>1. Made(kind, job) = Single(job.entry.scale, "sRGB", "icon")
    BY <1>3 DEF Made
  <2>2. Wanted(kind, job.entry) = {<<"icon", job.entry.scale>>}
    BY <1>3 DEF Wanted
  <2>3. "icon" \in Bodies
    BY DEF Bodies
  <2> HIDE DEF Single
  <2>4. /\ Made(kind, job) \in Seq(Renditions) /\ Len(Made(kind, job)) = 1
        /\ \A r \in ToSet(Made(kind, job)) : r.body = "icon"
    BY <1>1, <2>1, <2>3
  <2>5. Cardinality(Wanted(kind, job.entry)) = 1
    BY <2>2, FS_Singleton
  <2> QED
    BY <1>3, <2>4, <2>5
<1>4. CASE kind = "imageset" /\ job.entry.file = NoFile
  <2>1. Made(kind, job) = <<>> /\ Wanted(kind, job.entry) = {}
    BY <1>4 DEF Made, Wanted
  <2>2. ToSet(Made(kind, job)) = {} /\ Len(Made(kind, job)) = 0 /\ Made(kind, job) \in Seq(Renditions)
    BY <2>1, EmptySeq DEF ToSet
  <2> QED
    BY <2>1, <2>2, FS_EmptySet
<1>5. CASE kind = "imageset" /\ job.entry.file # NoFile
  <2>1. /\ Made(kind, job) = ImageRenditions(job)
        /\ job.entry.file.format \in SourceFormats
    BY <1>5 DEF Made, Known
  <2>2. /\ Made(kind, job) \in Seq(Renditions)
        /\ \A r \in ToSet(Made(kind, job)) : r.body \notin {"color", "icon"}
    BY <1>5, <2>1, ImageRenditionsAre
  <2>3. Len(Made(kind, job)) = Cardinality(Wanted(kind, job.entry))
    <3>1. CASE job.entry.file.format = "png"
      <4>1. /\ ImageRenditions(job) = <<NewRendition(job, job.entry.scale, job.entry.gamut, "image")>>
            /\ Wanted(kind, job.entry) = {<<"image", job.entry.scale>>}
        BY <1>5, <3>1 DEF ImageRenditions, Wanted
      <4>2. Len(ImageRenditions(job)) = 1
        BY <4>1
      <4> QED
        BY <2>1, <4>1, <4>2, FS_Singleton
    <3>2. CASE job.entry.file.format = "jpeg"
      <4>1. /\ ImageRenditions(job) = <<NewRendition(job, job.entry.scale, "none", "jpeg")>>
            /\ Wanted(kind, job.entry) = {<<"jpeg", job.entry.scale>>}
        BY <1>5, <3>2 DEF ImageRenditions, Wanted
      <4>2. Len(ImageRenditions(job)) = 1
        BY <4>1
      <4> QED
        BY <2>1, <4>1, <4>2, FS_Singleton
    <3>3. CASE job.entry.file.format = "svg"
      <4> DEFINE v == NewRendition(job, 1, "none", "svg")
                 R(s) == NewRendition(job, s, "sRGB", "image")
                 b == [s \in 1 .. 3 |-> R(s)]
      <4>1. /\ ImageRenditions(job) = <<v>> \o b
            /\ Wanted(kind, job.entry) = {<<"svg", 1>>} \cup {<<"image", s>> : s \in 1 .. 3}
        BY <1>5, <3>3 DEF ImageRenditions, Wanted
      <4> HIDE DEF v, R
      <4>2. Len(<<v>> \o b) = 4
        OBVIOUS
      <4>3. Cardinality({<<"svg", 1>>} \cup {<<"image", s>> : s \in 1 .. 3}) = 4
        <5> DEFINE p == <<"svg", 1>>
                   x == <<"image", 1>>
                   y == <<"image", 2>>
                   z == <<"image", 3>>
        <5>1. {<<"image", s>> : s \in 1 .. 3} = {x} \cup {y} \cup {z}
          OBVIOUS
        <5>2. p # x /\ p # y /\ p # z /\ x # y /\ x # z /\ y # z
          OBVIOUS
        <5> HIDE DEF p, x, y, z
        <5>3. IsFiniteSet({p}) /\ Cardinality({p}) = 1
          BY FS_Singleton
        <5>4. IsFiniteSet({p} \cup {x}) /\ Cardinality({p} \cup {x}) = 2
          BY <5>2, <5>3, FS_AddElement
        <5>5. IsFiniteSet({p} \cup {x} \cup {y}) /\ Cardinality({p} \cup {x} \cup {y}) = 3
          <6> DEFINE S == {p} \cup {x}
          <6>1. y \notin S
            BY <5>2
          <6>2. IsFiniteSet(S) /\ Cardinality(S) = 2
            BY <5>4
          <6> HIDE DEF S
          <6>a. /\ IsFiniteSet(S \cup {y})
                /\ Cardinality(S \cup {y}) = IF y \in S THEN Cardinality(S) ELSE Cardinality(S) + 1
            BY <6>2, FS_AddElement, Zenon
          <6>3. IsFiniteSet(S \cup {y}) /\ Cardinality(S \cup {y}) = 3
            BY <6>1, <6>2, <6>a
          <6> QED
            BY <6>3 DEF S
        <5>6. Cardinality({p} \cup {x} \cup {y} \cup {z}) = 4
          <6> DEFINE S == {p} \cup {x} \cup {y}
          <6>1. z \notin S
            BY <5>2
          <6>2. IsFiniteSet(S) /\ Cardinality(S) = 3
            BY <5>5
          <6> HIDE DEF S
          <6>a. Cardinality(S \cup {z}) =
                  IF z \in S THEN Cardinality(S) ELSE Cardinality(S) + 1
            BY <6>2, FS_AddElement, Zenon
          <6>3. Cardinality(S \cup {z}) = 4
            BY <6>1, <6>2, <6>a
          <6> QED
            BY <6>3 DEF S
        <5>7. {p} \cup {<<"image", s>> : s \in 1 .. 3} = {p} \cup {x} \cup {y} \cup {z}
          BY <5>1
        <5> QED
          BY <5>6, <5>7 DEF p
      <4> QED
        BY <2>1, <4>1, <4>2, <4>3
    <3> QED
      BY <2>1, <3>1, <3>2, <3>3 DEF SourceFormats
  <2> QED
    BY <1>5, <2>2, <2>3
<1> QED
  BY <1>2, <1>3, <1>4, <1>5 DEF AssetKinds

(* What is made of each of several jobs.                                   *)
LEMMA MadeOfEachIs ==
  ASSUME NEW kind \in AssetKinds, NEW jobs \in Seq(AllJobs), AllKnown(kind, jobs)
  PROVE  /\ MadeOfEach(kind, jobs) \in Seq(Seq(Renditions))
         /\ Len(MadeOfEach(kind, jobs)) = Len(jobs)
         /\ \A i \in 1 .. Len(jobs) :
              /\ jobs[i] \in AllJobs
              /\ MadeOfEach(kind, jobs)[i] = Made(kind, jobs[i])
<1> DEFINE n == Len(jobs)
           seqs == MadeOfEach(kind, jobs)
<1>1. n \in Nat /\ \A i \in 1 .. n : jobs[i] \in AllJobs
  BY LenProperties
<1>2. seqs = [i \in 1 .. n |-> seqs[i]] /\ \A i \in 1 .. n : seqs[i] = Made(kind, jobs[i])
  BY DEF MadeOfEach
<1>3. \A i \in 1 .. n : Made(kind, jobs[i]) \in Seq(Renditions)
  BY <1>1, MadeIs DEF AllKnown
<1> HIDE DEF n, seqs
<1>4. \A i \in 1 .. n : seqs[i] \in Seq(Renditions)
  BY <1>2, <1>3
<1> DEFINE T == Seq(Renditions)
<1> HIDE DEF T
<1>5. \A i \in 1 .. n : seqs[i] \in T
  BY <1>4 DEF T
<1>6. seqs \in Seq(T) /\ Len(seqs) = n
  BY <1>1, <1>2, <1>5
<1> QED
  BY <1>1, <1>2, <1>6 DEF n, seqs, T

(* What is made of all of them.                                            *)
LEMMA MadeOfIs ==
  ASSUME NEW kind \in AssetKinds, NEW jobs \in Seq(AllJobs), AllKnown(kind, jobs)
  PROVE  /\ MadeOf(kind, jobs) \in Seq(Renditions)
         /\ ToSet(MadeOf(kind, jobs)) = UNION {ToSet(Made(kind, job)) : job \in ToSet(jobs)}
         /\ \A r \in ToSet(MadeOf(kind, jobs)) :
              r.body \in {"color", "icon"} <=> kind # "imageset"
<1> DEFINE n == Len(jobs)
           seqs == MadeOfEach(kind, jobs)
<1>1. /\ seqs \in Seq(Seq(Renditions)) /\ Len(seqs) = n
      /\ \A i \in 1 .. n : jobs[i] \in AllJobs /\ seqs[i] = Made(kind, jobs[i])
  BY MadeOfEachIs
<1>2. n \in Nat /\ DOMAIN jobs = 1 .. n
  BY LenProperties
<1>3. MadeOf(kind, jobs) = FlattenSeq(seqs)
  BY DEF MadeOf
<1> HIDE DEF n, seqs
<1>4. /\ FlattenSeq(seqs) \in Seq(Renditions)
      /\ ToSet(FlattenSeq(seqs)) = UNION {ToSet(seqs[i]) : i \in 1 .. n}
  BY <1>1, RangeOfFlatten
<1>5. ToSet(jobs) = {jobs[i] : i \in 1 .. n}
  BY <1>2 DEF ToSet
<1> DEFINE Items(job) == ToSet(Made(kind, job))
<1>a. \A i \in 1 .. n : ToSet(seqs[i]) = Items(jobs[i])
  BY <1>1
<1> HIDE DEF Items
<1>6. UNION {ToSet(seqs[i]) : i \in 1 .. n} = UNION {Items(job) : job \in ToSet(jobs)}
  BY <1>5, <1>a
<1>7. \A i \in 1 .. n : \A r \in ToSet(Made(kind, jobs[i])) :
         r.body \in {"color", "icon"} <=> kind # "imageset"
  BY <1>1, MadeIs DEF AllKnown, n
<1>8. \A job \in ToSet(jobs) : \A r \in Items(job) :
         r.body \in {"color", "icon"} <=> kind # "imageset"
  BY <1>5, <1>7 DEF Items
<1>9. /\ MadeOf(kind, jobs) \in Seq(Renditions)
      /\ ToSet(MadeOf(kind, jobs)) = UNION {Items(job) : job \in ToSet(jobs)}
  BY <1>3, <1>4, <1>6
<1>10. \A r \in ToSet(MadeOf(kind, jobs)) :
          r.body \in {"color", "icon"} <=> kind # "imageset"
  BY <1>8, <1>9
<1> QED
  BY <1>9, <1>10 DEF Items

(* One entry more.                                                         *)
LEMMA MadeOfMore ==
  ASSUME NEW kind \in AssetKinds, NEW jobs \in Seq(AllJobs), AllKnown(kind, jobs),
         NEW job \in AllJobs, Known(kind, job)
  PROVE  /\ AllKnown(kind, Append(jobs, job))
         /\ MadeOf(kind, Append(jobs, job)) = MadeOf(kind, jobs) \o Made(kind, job)
<1> DEFINE n == Len(jobs)
           more == Append(jobs, job)
           seqs == MadeOfEach(kind, jobs)
           all == MadeOfEach(kind, more)
           x == Made(kind, job)
<1>1. /\ n \in Nat /\ more \in Seq(AllJobs) /\ Len(more) = n + 1
      /\ \A i \in 1 .. n : more[i] = jobs[i]
      /\ more[n + 1] = job
      /\ \A i \in 1 .. n + 1 : i \in 1 .. n \/ i = n + 1
  <2>1. n \in Nat
    BY LenProperties
  <2> QED
    BY <2>1, AppendProperties
<1>2. AllKnown(kind, more)
  BY <1>1 DEF AllKnown
<1>3. /\ seqs \in Seq(Seq(Renditions)) /\ Len(seqs) = n
      /\ \A i \in 1 .. n : seqs[i] = Made(kind, jobs[i])
  BY MadeOfEachIs
<1>4. all = [i \in 1 .. n + 1 |-> Made(kind, more[i])]
  BY <1>1 DEF MadeOfEach
<1>5. x \in Seq(Renditions)
  BY MadeIs
<1> DEFINE T == Seq(Renditions)
<1> HIDE DEF n, more, seqs, all, x, T
<1>6. /\ Append(seqs, x) \in Seq(T) /\ Len(Append(seqs, x)) = n + 1
      /\ \A i \in 1 .. n : Append(seqs, x)[i] = seqs[i]
      /\ Append(seqs, x)[n + 1] = x
  BY <1>3, <1>5, AppendProperties DEF T
<1>7. all = Append(seqs, x)
  <2> DEFINE y == Append(seqs, x)
  <2>1. y \in Seq(T) /\ Len(y) = n + 1
    BY <1>6
  <2>2. \A i \in 1 .. n + 1 : y[i] = Made(kind, more[i])
    <3>1. \A i \in 1 .. n : y[i] = Made(kind, more[i])
      BY <1>1, <1>3, <1>6
    <3>2. y[n + 1] = Made(kind, more[n + 1])
      BY <1>1, <1>6 DEF x
    <3> QED
      BY <1>1, <3>1, <3>2
  <2> HIDE DEF y
  <2>3. y = [i \in 1 .. n + 1 |-> y[i]]
    BY <2>1
  <2>4. all = y
    BY <1>4, <2>2, <2>3
  <2> QED
    BY <2>4 DEF y
<1>8. FlattenSeq(Append(seqs, x)) = FlattenSeq(seqs) \o x
  BY <1>3, <1>5, FlattenAppend
<1> QED
  BY <1>2, <1>7, <1>8 DEF MadeOf, all, seqs, x, more

(* Directories of one kind, in any order, give as many renditions as their *)
(* entries must have.                                                      *)
LEMMA MadeCounted ==
  ASSUME catalog \in Catalogs, NEW kind \in AssetKinds, NEW q \in Seq(Tree), IsInjective(q),
         \A d \in ToSet(q) : d.kind = kind, AllKnown(kind, Jobs(q))
  PROVE  LET E == EntriesOf(ToSet(q)) IN
         /\ IsFiniteSet(E) /\ \A x \in E : Weight(x) \in Nat
         /\ IsFiniteSet(CellsOf(E))
         /\ Len(MadeOf(kind, Jobs(q))) = Cardinality(CellsOf(E))
<1> DEFINE E == EntriesOf(ToSet(q))
           J == Jobs(q)
           n == Len(J)
           seqs == MadeOfEach(kind, J)
           V == WeightsOf(E)
           W == Lengths(seqs)
           flat == FlattenSeq(seqs)
<1>1. Listings(Tree)
  BY CatalogAssumption DEF Listings, Tree
<1>2. J \in Seq(AllJobs)
  BY <1>1, JobsListed DEF Listings, AllJobs
<1>3. n \in Nat
  BY <1>2, LenProperties
<1>4. PICK at : PlacesJobs(at, q)
  BY <1>1, JobsPlaced
<1>5. at \in Bijection(E, 1 .. n) /\ \A x \in E : J[at[x]] = JobAt(x)
  BY <1>4 DEF PlacesJobs
<1>6. /\ seqs \in Seq(Seq(Renditions)) /\ Len(seqs) = n
      /\ \A i \in 1 .. n : J[i] \in AllJobs /\ seqs[i] = Made(kind, J[i])
  BY <1>2, MadeOfEachIs
<1>7. DOMAIN W = 1 .. n /\ \A i \in 1 .. n : W[i] = Len(seqs[i])
  BY <1>6 DEF Lengths
<1>8. DOMAIN V = E /\ \A x \in E : V[x] = Weight(x)
  BY DEF WeightsOf
<1>9. \A x \in E : at[x] \in 1 .. n
  BY <1>5, Fun_BijectionProperties
<1>10. \A x \in E : x[1].kind = kind
  BY DEF EntriesOf
<1>11. AllKnown(kind, J)
  OBVIOUS
<1>12. MadeOf(kind, Jobs(q)) = flat
  BY DEF MadeOf
<1> HIDE DEF E, J, n, seqs, V, W, flat
<1>13. ASSUME NEW x \in E PROVE V[x] = W[at[x]] /\ V[x] \in Nat
  <2>1. PICK i \in 1 .. n : i = at[x]
    BY <1>9
  <2>2. PICK job \in AllJobs : job = J[i]
    BY <1>6
  <2>3. job = JobAt(x) /\ seqs[i] = Made(kind, job) /\ Known(kind, job)
    BY <1>5, <1>6, <1>11, <2>1, <2>2 DEF AllKnown, n
  <2>4. job.entry = x[1].entries[x[2]]
    BY <2>3 DEF JobAt
  <2>5. Weight(x) = Cardinality(Wanted(kind, job.entry))
    BY <1>10, <2>4 DEF Weight
  <2>6. /\ Made(kind, job) \in Seq(Renditions)
        /\ Len(Made(kind, job)) = Cardinality(Wanted(kind, job.entry))
    BY <2>3, MadeIs
  <2>7. Len(Made(kind, job)) \in Nat
    BY <2>6, LenProperties
  <2> QED
    BY <1>7, <1>8, <2>1, <2>3, <2>5, <2>6, <2>7
<1>14. ExistsBijection(Cells(V), Cells(W))
  <2>1. at \in Bijection(DOMAIN V, DOMAIN W)
    BY <1>5, <1>7, <1>8
  <2>2. \A x \in DOMAIN V : V[x] = W[at[x]]
    BY <1>8, <1>13
  <2> QED
    BY <2>1, <2>2, CellsAlike
<1>15. PICK loc : Locates(loc, seqs, flat)
  BY <1>6, FlattenAt DEF flat
<1>16. ExistsBijection(Cells(W), 1 .. Len(flat))
  BY <1>15 DEF Locates, ExistsBijection, W
<1>17. flat \in Seq(Renditions)
  BY <1>6, RangeOfFlatten DEF flat
<1>18. Len(flat) \in Nat
  BY <1>17, LenProperties
<1>19. IsFiniteSet(1 .. Len(flat)) /\ Cardinality(1 .. Len(flat)) = Len(flat)
  <2>1. PICK m \in Nat : m = Len(flat)
    BY <1>18
  <2>2. IsFiniteSet(1 .. m) /\ Cardinality(1 .. m) = m
    BY FS_Interval
  <2> QED
    BY <2>1, <2>2
<1>20. IsFiniteSet(Cells(W)) /\ Cardinality(Cells(W)) = Len(flat)
  BY <1>16, <1>19, SameSize
<1>21. IsFiniteSet(Cells(V)) /\ Cardinality(Cells(V)) = Len(flat)
  BY <1>14, <1>20, SameSize
<1>22. Cells(V) = CellsOf(E)
  BY DEF CellsOf, V
<1>23. IsFiniteSet(E)
  <2>1. IsFiniteSet(1 .. n)
    BY <1>3, FS_Interval
  <2>2. ExistsBijection(E, 1 .. n)
    BY <1>5 DEF ExistsBijection
  <2> QED
    BY <2>1, <2>2, SameSize
<1>24. \A x \in E : Weight(x) \in Nat
  BY <1>8, <1>13
<1> QED
  BY <1>12, <1>21, <1>22, <1>23, <1>24 DEF E

(* Cells of different entries.                                             *)
LEMMA CellsOfUnion ==
  ASSUME NEW A, NEW B, A \cap B = {}, IsFiniteSet(CellsOf(A)), IsFiniteSet(CellsOf(B))
  PROVE  /\ IsFiniteSet(CellsOf(A \cup B))
         /\ Cardinality(CellsOf(A \cup B)) = Cardinality(CellsOf(A)) + Cardinality(CellsOf(B))
<1> DEFINE X == CellsOf(A)
           Y == CellsOf(B)
           Z == CellsOf(A \cup B)
<1>1. Z = X \cup Y
  <2>1. ASSUME NEW c \in Z PROVE c \in X \cup Y
    <3>1. c = <<c[1], c[2]>> /\ c[1] \in A \cup B /\ c[2] \in 1 .. Weight(c[1])
      BY InCellsOf
    <3>2. c[1] \in A => <<c[1], c[2]>> \in X
      BY <3>1, InCellsOf
    <3>3. c[1] \in B => <<c[1], c[2]>> \in Y
      BY <3>1, InCellsOf
    <3> QED
      BY <3>1, <3>2, <3>3
  <2>2. ASSUME NEW c, c \in X \/ c \in Y PROVE c \in Z
    <3>1. c = <<c[1], c[2]>> /\ c[1] \in A \cup B /\ c[2] \in 1 .. Weight(c[1])
      BY <2>2, InCellsOf
    <3>2. <<c[1], c[2]>> \in Z
      BY <3>1, InCellsOf
    <3> QED
      BY <3>1, <3>2
  <2> HIDE DEF X, Y, Z
  <2> QED
    BY <2>1, <2>2
<1>2. X \cap Y = {}
  <2>1. \A c \in X : c[1] \in A
    BY InCellsOf
  <2>2. \A c \in Y : c[1] \in B
    BY InCellsOf
  <2> HIDE DEF X, Y
  <2> QED
    BY <2>1, <2>2
<1>3. IsFiniteSet(X) /\ IsFiniteSet(Y)
  OBVIOUS
<1> HIDE DEF X, Y, Z
<1>4. /\ IsFiniteSet(X \cup Y)
      /\ Cardinality(X \cup Y) = Cardinality(X) + Cardinality(Y) - Cardinality(X \cap Y)
  BY <1>3, FS_Union
<1>5. Cardinality(X \cap Y) = 0
  BY <1>2, FS_EmptySet
<1>6. PICK m \in Nat : m = Cardinality(X)
  BY <1>3, FS_CardinalityType
<1>7. PICK k \in Nat : k = Cardinality(Y)
  BY <1>3, FS_CardinalityType
<1>8. m + k - 0 = m + k
  OBVIOUS
<1>9. IsFiniteSet(Z) /\ Cardinality(Z) = Cardinality(X) + Cardinality(Y)
  BY <1>1, <1>4, <1>5, <1>6, <1>7, <1>8
<1> QED
  BY <1>9 DEF X, Y, Z

-----------------------------------------------------------------------------
(* The loops make what their jobs give, no more and no less.               *)

(* Of jobs (from the set S) all but those left are dealt with: their       *)
(* renditions are rs, after those that were there before.                  *)
Progress(S, kind, jobs, left, before, rs) ==
  \E past \in Seq(S) :
    /\ AllKnown(kind, past)
    /\ jobs = past \o left
    /\ rs = before \o MadeOf(kind, past)

(* The renditions of all sets of a kind.                                   *)
Whole(kind) == MadeOf(kind, Jobs(loaded[kind]))

(* What the loops have made so far, in each phase.                         *)
MadeInv ==
  /\ stage = "walking" => rendered = <<>>
  /\ stage = "images" =>
       Progress(AllJobs, "imageset", Jobs(loaded["imageset"]), todo, <<>>, rendered)
  /\ stage = "colors" =>
       Progress(AllJobs, "colorset", Jobs(loaded["colorset"]), todo,
                Whole("imageset"), rendered)
  /\ stage = "plist" =>
       /\ rendered = Whole("imageset") \o Whole("colorset")
       /\ iconFiles \o todo = Jobs(loaded["appiconset"])
  /\ stage = "icons" =>
       Progress(AllJobs, "appiconset", Jobs(loaded["appiconset"]), todo,
                Whole("imageset") \o Whole("colorset"), rendered)
  /\ stage \in {"loose", "done"} =>
       rendered = (Whole("imageset") \o Whole("colorset")) \o Whole("appiconset")
  /\ stage \in {"colors", "plist", "icons", "loose", "done"} =>
       AllKnown("imageset", Jobs(loaded["imageset"]))

(* Nothing is made of no jobs.                                             *)
LEMMA NothingMade ==
  ASSUME NEW kind
  PROVE  MadeOf(kind, <<>>) = <<>> /\ AllKnown(kind, <<>>)
<1> DEFINE seqs == MadeOfEach(kind, <<>>)
<1>1. seqs = <<>>
  BY DEF MadeOfEach
<1>2. FlattenSeq(<<>>) = <<>>
  BY DEF FlattenSeq
<1> QED
  BY <1>1, <1>2 DEF MadeOf, AllKnown

(* A loop begins, deals with a job, and ends.                              *)
LEMMA ProgressStarts ==
  ASSUME NEW kind, NEW jobs \in Seq(AllJobs), NEW before \in Seq(Renditions)
  PROVE  Progress(AllJobs, kind, jobs, jobs, before, before)
<1>1. <<>> \in Seq(AllJobs) /\ <<>> \in Seq(Renditions)
  BY EmptySeq
<1>2. jobs = <<>> \o jobs
  BY ConcatEmptySeq
<1>3. before = before \o <<>>
  BY ConcatEmptySeq
<1> QED
  BY <1>1, <1>2, <1>3, NothingMade DEF Progress

LEMMA ProgressGoesOn ==
  ASSUME NEW kind \in AssetKinds, NEW jobs, NEW left \in Seq(AllJobs), left # <<>>,
         NEW before \in Seq(Renditions), NEW rs,
         Progress(AllJobs, kind, jobs, left, before, rs), Known(kind, Head(left))
  PROVE  Progress(AllJobs, kind, jobs, Tail(left), before, rs \o Made(kind, Head(left)))
<1>1. PICK past \in Seq(AllJobs) :
        /\ AllKnown(kind, past) /\ jobs = past \o left
        /\ rs = before \o MadeOf(kind, past)
  BY DEF Progress
<1> DEFINE h == Head(left)
           t == Tail(left)
           more == Append(past, h)
           m == MadeOf(kind, past)
           x == Made(kind, h)
<1>2. h \in AllJobs /\ t \in Seq(AllJobs)
  BY RangeOfTail
<1>3. Known(kind, h)
  OBVIOUS
<1>4. more \in Seq(AllJobs)
  BY <1>2, AppendProperties
<1>5. AllKnown(kind, more) /\ MadeOf(kind, more) = m \o x
  BY <1>1, <1>2, <1>3, MadeOfMore
<1>6. x \in Seq(Renditions)
  BY <1>2, <1>3, MadeIs
<1>7. m \in Seq(Renditions)
  BY <1>1, MadeOfIs
<1>8. (before \o m) \o x = before \o (m \o x)
  <2> HIDE DEF m, x
  <2> QED
    BY <1>6, <1>7, ConcatAssociative, SMTT(30)
<1>9. past \o left = more \o t
  <2>1. left = <<h>> \o t
    BY RangeOfTail
  <2>2. more = past \o <<h>> /\ <<h>> \in Seq(AllJobs)
    BY <1>2
  <2> HIDE DEF h, t, more
  <2>3. past \o (<<h>> \o t) = (past \o <<h>>) \o t
    BY <1>2, <2>2, ConcatAssociative, SMTT(40)
  <2> QED
    BY <2>1, <2>2, <2>3
<1> HIDE DEF h, t, more, m, x
<1>10. Progress(AllJobs, kind, jobs, t, before, rs \o x)
  BY <1>1, <1>4, <1>5, <1>8, <1>9 DEF Progress, m
<1> QED
  BY <1>10 DEF t, x, h

LEMMA ProgressEnds ==
  ASSUME NEW kind, NEW jobs, NEW before, NEW rs,
         Progress(AllJobs, kind, jobs, <<>>, before, rs)
  PROVE  AllKnown(kind, jobs) /\ rs = before \o MadeOf(kind, jobs)
<1>1. PICK past \in Seq(AllJobs) :
        /\ AllKnown(kind, past) /\ jobs = past \o <<>>
        /\ rs = before \o MadeOf(kind, past)
  BY DEF Progress
<1>2. jobs = past
  BY <1>1, ConcatEmptySeq
<1> QED
  BY <1>1, <1>2

(* Colours and icons are all known.                                        *)
LEMMA OthersKnown ==
  ASSUME NEW kind, kind # "imageset", NEW jobs
  PROVE  AllKnown(kind, jobs)
BY DEF AllKnown, Known

(* What all renditions of a kind are.                                      *)
LEMMA WholeIs ==
  ASSUME SetsInv, NEW kind \in AssetKinds, AllKnown(kind, Jobs(loaded[kind]))
  PROVE  /\ Jobs(loaded[kind]) \in Seq(AllJobs)
         /\ Whole(kind) \in Seq(Renditions)
         /\ \A r \in ToSet(Whole(kind)) :
              r.body \in {"color", "icon"} <=> kind # "imageset"
<1>1. Jobs(loaded[kind]) \in Seq(AllJobs)
  BY LoadedJobs DEF SetsInv
<1> QED
  BY <1>1, MadeOfIs DEF Whole

-----------------------------------------------------------------------------
(* The invariant holds at first, and each step keeps it.                   *)
LEMMA InitMade == Init => MadeInv
BY DEF Init, MadeInv

(* A failure leaves nothing to say.                                        *)
LEMMA FailureKeepsMade ==
  ASSUME NEW e, Throw(e)
  PROVE  MadeInv'
BY DEF Throw, MadeInv

(* Nor does it change where nothing does.                                  *)
LEMMA StutterKeepsMade ==
  ASSUME MadeInv, UNCHANGED <<catalog, stage, loaded, todo, rendered, iconFiles>>
  PROVE  MadeInv'
<1>1. AllJobs' = AllJobs /\ \A k : Whole(k)' = Whole(k)
  BY DEF AllJobs, Tree, Whole
<1> QED
  BY <1>1 DEF MadeInv

(* The walk makes nothing.                                                 *)
LEMMA WalkKeepsMade ==
  ASSUME MadeInv, stage = "walking", stage' = "walking", UNCHANGED rendered
  PROVE  MadeInv'
BY DEF MadeInv

(* The end of the walk begins the first loop.                              *)
LEMMA EndWalkKeepsMade ==
  ASSUME SetsInv, MadeInv, EndWalk
  PROVE  MadeInv'
<1>1. /\ stage = "walking" /\ stage' = "images" /\ todo' = Jobs(loaded["imageset"])
      /\ UNCHANGED <<catalog, loaded, rendered>>
  BY DEF EndWalk
<1>2. AllJobs' = AllJobs
  BY <1>1 DEF AllJobs, Tree
<1>3. Jobs(loaded["imageset"]) \in Seq(AllJobs)
  BY LoadedJobs DEF SetsInv, AssetKinds
<1>4. rendered = <<>> /\ <<>> \in Seq(Renditions)
  BY <1>1, EmptySeq DEF MadeInv
<1>5. Progress(AllJobs, "imageset", Jobs(loaded["imageset"]), Jobs(loaded["imageset"]), <<>>, <<>>)
  BY <1>3, <1>4, ProgressStarts
<1> QED
  BY <1>1, <1>2, <1>4, <1>5 DEF MadeInv

(* Rendering an entry, or skipping it.                                     *)
LEMMA RenderKeepsMade ==
  ASSUME SetsInv, JobsInv, MadeInv, SkipImage \/ RenderImage \/ RenderColor \/ RenderIcon
  PROVE  MadeInv'
<1>1. todo \in Seq(AllJobs) /\ todo # <<>>
  BY DEF JobsInv, SkipImage, RenderImage, RenderColor, RenderIcon, At
<1>2. <<>> \in Seq(Renditions)
  BY EmptySeq
<1>3. CASE SkipImage \/ RenderImage
  <2>1. /\ stage = "images" /\ Known("imageset", Job)
        /\ rendered' = rendered \o Made("imageset", Job)
        /\ todo' = Tail(todo)
        /\ UNCHANGED <<catalog, stage, loaded, iconFiles>>
    BY <1>3 DEF SkipImage, RenderImage, At, Produce, Known, Made
  <2>2. Progress(AllJobs, "imageset", Jobs(loaded["imageset"]), todo, <<>>, rendered)
    BY <2>1 DEF MadeInv
  <2>3. Progress(AllJobs, "imageset", Jobs(loaded["imageset"]), Tail(todo), <<>>,
                 rendered \o Made("imageset", Job))
    BY <1>1, <1>2, <2>1, <2>2, ProgressGoesOn DEF Job, AssetKinds
  <2>4. AllJobs' = AllJobs
    BY <2>1 DEF AllJobs, Tree
  <2> QED
    BY <2>1, <2>3, <2>4 DEF MadeInv
<1>4. CASE RenderColor
  <2>1. /\ stage = "colors" /\ Known("colorset", Job)
        /\ rendered' = rendered \o Made("colorset", Job)
        /\ todo' = Tail(todo)
        /\ UNCHANGED <<catalog, stage, loaded, iconFiles>>
    BY <1>4 DEF RenderColor, At, Produce, Known, Made
  <2>2. /\ Progress(AllJobs, "colorset", Jobs(loaded["colorset"]), todo,
                    Whole("imageset"), rendered)
        /\ AllKnown("imageset", Jobs(loaded["imageset"]))
    BY <2>1 DEF MadeInv
  <2>3. Whole("imageset") \in Seq(Renditions)
    BY <2>2, WholeIs DEF AssetKinds
  <2>4. Progress(AllJobs, "colorset", Jobs(loaded["colorset"]), Tail(todo),
                 Whole("imageset"), rendered \o Made("colorset", Job))
    BY <1>1, <2>1, <2>2, <2>3, ProgressGoesOn DEF Job, AssetKinds
  <2>5. AllJobs' = AllJobs /\ Whole("imageset")' = Whole("imageset")
    BY <2>1 DEF AllJobs, Tree, Whole
  <2> QED
    BY <2>1, <2>2, <2>4, <2>5 DEF MadeInv
<1>5. CASE RenderIcon
  <2>1. /\ stage = "icons" /\ Known("appiconset", Job)
        /\ rendered' = rendered \o Made("appiconset", Job)
        /\ todo' = Tail(todo)
        /\ UNCHANGED <<catalog, stage, loaded, iconFiles>>
    BY <1>5 DEF RenderIcon, At, Produce, Known, Made
  <2> DEFINE before == Whole("imageset") \o Whole("colorset")
  <2>2. /\ Progress(AllJobs, "appiconset", Jobs(loaded["appiconset"]), todo, before, rendered)
        /\ AllKnown("imageset", Jobs(loaded["imageset"]))
    BY <2>1 DEF MadeInv
  <2>3. Whole("imageset") \in Seq(Renditions) /\ Whole("colorset") \in Seq(Renditions)
    BY <2>2, WholeIs, OthersKnown DEF AssetKinds
  <2>4. before \in Seq(Renditions)
    BY <2>3, ConcatProperties
  <2> HIDE DEF before
  <2>5. Progress(AllJobs, "appiconset", Jobs(loaded["appiconset"]), Tail(todo), before,
                 rendered \o Made("appiconset", Job))
    BY <1>1, <2>1, <2>2, <2>4, ProgressGoesOn DEF Job, AssetKinds
  <2>6. AllJobs' = AllJobs /\ before' = before
    BY <2>1 DEF AllJobs, Tree, Whole, before
  <2> QED
    BY <2>1, <2>2, <2>5, <2>6 DEF MadeInv, before
<1> QED
  BY <1>3, <1>4, <1>5

(* Each loop begins with all entries of its kind, the loop before having   *)
(* dealt with its own.                                                     *)
LEMMA LoopsKeepMade ==
  ASSUME SetsInv, JobsInv, MadeInv,
         StartColors \/ StartPlist \/ EmitIcon \/ StartIcons \/ StartLoose \/ CopyLooseFile \/ Finish
  PROVE  MadeInv'
<1>1. UNCHANGED <<catalog, loaded, rendered>>
  BY DEF StartColors, StartPlist, EmitIcon, StartIcons, StartLoose, CopyLooseFile, Finish, NextLoop
<1>2. AllJobs' = AllJobs /\ \A k : Whole(k)' = Whole(k)
  BY <1>1 DEF AllJobs, Tree, Whole
<1>3. /\ Jobs(loaded["colorset"]) \in Seq(AllJobs)
      /\ Jobs(loaded["appiconset"]) \in Seq(AllJobs)
  BY LoadedJobs DEF SetsInv, AssetKinds
<1>4. /\ todo \in Seq(AllJobs) /\ iconFiles \in Seq(AllJobs)
  BY DEF JobsInv
<1>5. ASSUME AllKnown("imageset", Jobs(loaded["imageset"]))
      PROVE  /\ Whole("imageset") \in Seq(Renditions) /\ Whole("colorset") \in Seq(Renditions)
             /\ Whole("imageset") \o Whole("colorset") \in Seq(Renditions)
  <2>1. Whole("imageset") \in Seq(Renditions) /\ Whole("colorset") \in Seq(Renditions)
    BY <1>5, WholeIs, OthersKnown DEF AssetKinds
  <2> QED
    BY <2>1, ConcatProperties
<1>6. CASE StartColors
  <2>1. /\ stage = "images" /\ stage' = "colors" /\ todo = <<>>
        /\ todo' = Jobs(loaded["colorset"])
    BY <1>6 DEF StartColors, NextLoop
  <2>2. /\ AllKnown("imageset", Jobs(loaded["imageset"]))
        /\ rendered = <<>> \o Whole("imageset")
    BY <2>1, ProgressEnds DEF MadeInv, Whole
  <2>3. rendered = Whole("imageset")
    BY <1>5, <2>2, ConcatEmptySeq
  <2>4. Progress(AllJobs, "colorset", Jobs(loaded["colorset"]), Jobs(loaded["colorset"]),
                 Whole("imageset"), Whole("imageset"))
    BY <1>3, <1>5, <2>2, ProgressStarts
  <2> QED
    BY <1>1, <1>2, <2>1, <2>2, <2>3, <2>4 DEF MadeInv
<1>7. CASE StartPlist
  <2>1. /\ stage = "colors" /\ todo = <<>>
        /\ \/ /\ loaded["appiconset"] = <<>>
              /\ stage' = "done" /\ todo' = <<>>
           \/ /\ stage' = "plist" /\ todo' = Jobs(loaded["appiconset"])
        /\ iconFiles' = iconFiles
    BY <1>7 DEF StartPlist, NextLoop
  <2>2. /\ AllKnown("imageset", Jobs(loaded["imageset"]))
        /\ rendered = Whole("imageset") \o Whole("colorset")
    BY <2>1, ProgressEnds DEF MadeInv, Whole
  <2>3. iconFiles = <<>>
    BY <2>1 DEF JobsInv, IconListInv
  <2>4. CASE stage' = "plist"
    <3>1. iconFiles \o todo' = Jobs(loaded["appiconset"])
      BY <1>3, <2>1, <2>3, <2>4, ConcatEmptySeq
    <3> QED
      BY <1>1, <1>2, <2>1, <2>2, <2>4, <3>1 DEF MadeInv
  <2>5. CASE stage' = "done"
    <3>1. loaded["appiconset"] = <<>>
      BY <2>1, <2>5
    <3>2. Jobs(<<>>) = <<>>
      BY DEF Jobs, FlattenSeq
    <3>3. Whole("appiconset") = <<>>
      BY <3>1, <3>2, NothingMade DEF Whole
    <3>4. rendered = (Whole("imageset") \o Whole("colorset")) \o Whole("appiconset")
      BY <1>5, <2>2, <3>3, ConcatEmptySeq
    <3> QED
      BY <1>1, <1>2, <2>2, <2>5, <3>4 DEF MadeInv
  <2> QED
    BY <2>1, <2>4, <2>5
<1>8. CASE EmitIcon
  <2>1. /\ stage = "plist" /\ stage' = "plist" /\ todo # <<>> /\ todo' = Tail(todo)
        /\ iconFiles' = Append(iconFiles, Head(todo))
    BY <1>8 DEF EmitIcon, At, Job
  <2>2. /\ iconFiles \o todo = Jobs(loaded["appiconset"])
        /\ rendered = Whole("imageset") \o Whole("colorset")
        /\ AllKnown("imageset", Jobs(loaded["imageset"]))
    BY <2>1 DEF MadeInv
  <2>3. iconFiles' \o todo' = iconFiles \o todo
    <3> DEFINE h == Head(todo)
               t == Tail(todo)
    <3>1. h \in AllJobs /\ t \in Seq(AllJobs)
      BY <1>4, <2>1, RangeOfTail
    <3>2. todo = <<h>> \o t
      BY <1>4, <2>1
    <3>3. Append(iconFiles, h) = iconFiles \o <<h>> /\ <<h>> \in Seq(AllJobs)
      BY <1>4, <3>1
    <3> HIDE DEF h, t
    <3>4. iconFiles \o (<<h>> \o t) = (iconFiles \o <<h>>) \o t
      BY <1>4, <3>1, <3>3, ConcatAssociative, SMTT(30)
    <3>5. iconFiles' = Append(iconFiles, h) /\ todo' = t
      BY <2>1 DEF h, t
    <3> QED
      BY <3>2, <3>3, <3>4, <3>5
  <2> QED
    BY <1>1, <1>2, <2>1, <2>2, <2>3 DEF MadeInv
<1>9. CASE StartIcons
  <2>1. /\ stage = "plist" /\ stage' = "icons" /\ todo = <<>> /\ todo' = iconFiles
    BY <1>9 DEF StartIcons, NextLoop
  <2>2. /\ iconFiles \o todo = Jobs(loaded["appiconset"])
        /\ rendered = Whole("imageset") \o Whole("colorset")
        /\ AllKnown("imageset", Jobs(loaded["imageset"]))
    BY <2>1 DEF MadeInv
  <2>3. iconFiles = Jobs(loaded["appiconset"])
    BY <1>4, <2>1, <2>2, ConcatEmptySeq
  <2>4. Progress(AllJobs, "appiconset", Jobs(loaded["appiconset"]), iconFiles,
                 Whole("imageset") \o Whole("colorset"), rendered)
    BY <1>4, <1>5, <2>2, <2>3, ProgressStarts
  <2> QED
    BY <1>1, <1>2, <2>1, <2>2, <2>4 DEF MadeInv
<1>10. CASE StartLoose
  <2>1. stage = "icons" /\ stage' = "loose" /\ todo = <<>>
    BY <1>10 DEF StartLoose, NextLoop
  <2>2. /\ rendered = (Whole("imageset") \o Whole("colorset")) \o Whole("appiconset")
        /\ AllKnown("imageset", Jobs(loaded["imageset"]))
    BY <2>1, ProgressEnds DEF MadeInv, Whole
  <2> QED
    BY <1>1, <1>2, <2>1, <2>2 DEF MadeInv
<1>11. CASE CopyLooseFile \/ Finish
  <2>1. stage = "loose" /\ stage' \in {"loose", "done"}
    BY <1>11 DEF CopyLooseFile, Finish, NextLoop, At
  <2> QED
    BY <1>1, <1>2, <2>1 DEF MadeInv
<1> QED
  BY <1>6, <1>7, <1>8, <1>9, <1>10, <1>11

(* Every step keeps the invariant.                                         *)
LEMMA StepMade ==
  ASSUME SetsInv, JobsInv, MadeInv, [Next]_vars
  PROVE  MadeInv'
<1>1. CASE Walk
  <2>1. CASE LeaveFolder
    BY <2>1, WalkKeepsMade DEF LeaveFolder
  <2>2. CASE WalkFails \/ TooManyIconSets
    BY <2>2, FailureKeepsMade DEF WalkFails, TooManyIconSets
  <2>3. CASE EndWalk
    BY <2>3, EndWalkKeepsMade
  <2>4. ASSUME NEW d, EnterFolder(d) \/ LoadSet(d) PROVE MadeInv'
    BY <2>4, WalkKeepsMade DEF EnterFolder, LoadSet
  <2>5. ASSUME NEW d, LoadSetFails(d) PROVE MadeInv'
    BY <2>5, FailureKeepsMade DEF LoadSetFails
  <2> QED
    BY <1>1, <2>1, <2>2, <2>3, <2>4, <2>5 DEF Walk, Load
<1>2. CASE RenderImageFails \/ RenderColorFails \/ EmitIconFails \/ RenderIconFails \/ CopyLooseFileFails
  BY <1>2, FailureKeepsMade DEF RenderImageFails, RenderColorFails, EmitIconFails,
     RenderIconFails, CopyLooseFileFails
<1>3. CASE UNCHANGED vars
  BY <1>3, StutterKeepsMade DEF vars
<1>4. CASE Render \/ BundleIcons
  BY <1>2, <1>4, RenderKeepsMade, LoopsKeepMade DEF Render, BundleIcons
<1> QED
  BY <1>1, <1>3, <1>4 DEF Next, Returned

-----------------------------------------------------------------------------
(* The order of directories.                                               *)

(* The leaf of RENDITIONS is proved about where the CAR writer is.  It     *)
(* depends on none of the writer's parameters and variables, so any values *)
(* will do that the writer's assumptions hold of (StoredAlike shows that   *)
(* they hold of these).                                                    *)
Leaf == INSTANCE CARWriterProofs WITH
  Inputs <- {}, MaxU32 <- 0, CSISize <- [b \in Bodies |-> 0],
  renditions <- <<>>, section <- "", blocks <- <<>>, variables <- <<>>, phase <- "",
  offset <- 0, placed <- 0, index <- 0, named <- 0, header <- 0

(* The same renditions in another order are stored alike, if no two share  *)
(* a key.                                                                  *)
LEMMA StoredAlike ==
  ASSUME NEW n \in Nat, NEW rs, NEW qs, DOMAIN rs = 1 .. n, DOMAIN qs = 1 .. n,
         \A i \in 1 .. n : IsRendition(rs[i]),
         \A i \in 1 .. n : \E j \in 1 .. n : qs[j] = rs[i],
         \A i, j \in 1 .. n : RenditionKey(rs[i]) = RenditionKey(rs[j]) => i = j
  PROVE  Stored(qs) = Stored(rs)
<1>1. \A r : Leaf!IsRendition(r) <=> IsRendition(r)
  BY DEF IsRendition, Leaf!IsRendition, Bodies, Leaf!Bodies, IdiomByte, Leaf!IdiomByte
<1>2. \A r : Leaf!RenditionKey(r) = RenditionKey(r)
  BY DEF Leaf!RenditionKey, RenditionKey, Leaf!IdiomByte, IdiomByte, Leaf!PartOf, PartOf,
     Leaf!BitmapElement, BitmapElement, Leaf!DarkAppearance, DarkAppearance,
     Leaf!AnyAppearance, AnyAppearance
<1>3. \A key : Leaf!Encode(key) = Encode(key)
  BY DEF Leaf!Encode, Encode, Leaf!KeyFormat, KeyFormat
<1>4. \A S : Leaf!Cardinality(S) = Cardinality(S)
  BY DEF Leaf!Cardinality, Cardinality
<1>5. \A e, f : Leaf!KeyLess(e, f) <=> KeyLess(e, f)
  BY DEF Leaf!KeyLess, KeyLess, Leaf!ByteLess, ByteLess
<1>6. ASSUME NEW q PROVE Leaf!InLeaf(q) = Stored(q)
  <2> DEFINE s == [i \in DOMAIN q |-> [key |-> Encode(RenditionKey(q[i])), source |-> q[i].source]]
             t == [i \in DOMAIN q |-> [key |-> Leaf!Encode(Leaf!RenditionKey(q[i])),
                                       source |-> q[i].source]]
             I == DOMAIN s
             Less(i, j) == KeyLess(s[i], s[j]) \/ (i < j /\ ~KeyLess(s[j], s[i]))
             LeafLess(i, j) == Leaf!KeyLess(s[i], s[j]) \/ (i < j /\ ~Leaf!KeyLess(s[j], s[i]))
             Place(i) == 1 + Cardinality({j \in I : Less(j, i)})
             LeafPlace(i) == 1 + Leaf!Cardinality({j \in I : LeafLess(j, i)})
             Nth(k) == CHOOSE i \in I : Place(i) = k
             LeafNth(k) == CHOOSE i \in I : LeafPlace(i) = k
  <2>1. t = s
    BY <1>2, <1>3
  <2>2. Stored(q) = [k \in 1 .. Cardinality(I) |-> s[Nth(k)]]
    BY Zenon DEF Stored, Sorted, SortedAt
  <2>3. Leaf!Sorted(s, Leaf!KeyLess) = [k \in 1 .. Leaf!Cardinality(I) |-> s[LeafNth(k)]]
    BY Zenon DEF Leaf!Sorted, Leaf!SortedAt
  <2>4. Leaf!InLeaf(q) = Leaf!Sorted(t, Leaf!KeyLess)
    BY Zenon DEF Leaf!InLeaf
  <2>5. \A i, j : LeafLess(i, j) <=> Less(i, j)
    BY <1>5
  <2> HIDE DEF s, t, I, Less, LeafLess
  <2>6. \A i : {j \in I : LeafLess(j, i)} = {j \in I : Less(j, i)}
    BY <2>5
  <2>7. \A i : LeafPlace(i) = Place(i)
    BY <1>4, <2>6
  <2> HIDE DEF Place, LeafPlace
  <2>8. \A k : LeafNth(k) = Nth(k)
    BY <2>7
  <2> HIDE DEF Nth, LeafNth
  <2>9. [k \in 1 .. Leaf!Cardinality(I) |-> s[LeafNth(k)]] = [k \in 1 .. Cardinality(I) |-> s[Nth(k)]]
    BY <1>4, <2>8
  <2>10. Leaf!InLeaf(q) = Leaf!Sorted(s, Leaf!KeyLess)
    BY <2>1, <2>4, Zenon
  <2> QED
    BY <2>2, <2>3, <2>9, <2>10
<1>7. Leaf!Reordered(n, rs, qs)
  BY <1>1, <1>2 DEF Leaf!Reordered
<1>8. Leaf!CARAssumption /\ Leaf!InputAssumption /\ Leaf!TreeAssumption
  BY TreeAssumption
     DEF Leaf!CARAssumption, Leaf!InputAssumption, Leaf!TreeAssumption, Bodies, Leaf!Bodies
<1>9. Leaf!InLeaf(rs) = Leaf!InLeaf(qs)
  BY <1>7, <1>8, Leaf!RenditionsSortAlike, Zenon
     DEF Leaf!CARAssumption, Leaf!InputAssumption, Leaf!TreeAssumption
<1> QED
  BY <1>6, <1>9

(* Renditions of a catalog are renditions to the CAR writer.               *)
LEMMA RenditionsAre ==
  ASSUME catalog \in Catalogs, NEW r \in Renditions
  PROVE  IsRendition(r)
<1>1. PICK job \in AllJobs, scale \in (0 .. 3) \cup {j.entry.scale : j \in AllJobs},
           gamut \in {"none", "sRGB"} \cup {j.entry.gamut : j \in AllJobs},
           body \in Bodies : r = NewRendition(job, scale, gamut, body)
  BY DEF Renditions
<1>2. ASSUME NEW j \in AllJobs
      PROVE  /\ j.name.utf8 \in Seq(Nat) /\ j.name.nfc \in Seq(Nat) /\ j.name.hash \in Nat
             /\ j.entry.idiom \in DOMAIN IdiomByte /\ j.entry.scale \in Nat
             /\ j.entry.dark \in BOOLEAN
  <2>1. PICK d \in Tree : \E i \in DOMAIN d.entries :
          j = [name |-> d.name, entry |-> d.entries[i]]
    BY DEF AllJobs, JobsFrom
  <2>2. PICK i \in DOMAIN d.entries : j = [name |-> d.name, entry |-> d.entries[i]]
    BY <2>1
  <2>3. PICK e : e = d.entries[i]
    OBVIOUS
  <2>4. j.name = d.name /\ j.entry = e /\ e \in ToSet(d.entries)
    BY <2>2, <2>3 DEF ToSet
  <2> DEFINE q == [name |-> d.name, idiom |-> e.idiom, scale |-> e.scale,
                   dark |-> e.dark, body |-> "image"]
  <2>5. IsRendition(q)
    BY <2>4, CatalogAssumption DEF Tree
  <2>6. q.name = j.name /\ q.idiom = j.entry.idiom /\ q.scale = j.entry.scale /\ q.dark = j.entry.dark
    BY <2>4
  <2> HIDE DEF q
  <2> QED
    BY <2>5, <2>6 DEF IsRendition
<1>3. scale \in Nat
  BY <1>2
<1>4. /\ r.name = job.name /\ r.idiom = job.entry.idiom /\ r.dark = job.entry.dark
      /\ r.scale = scale /\ r.body = body
  BY <1>1, NewRenditionIs
<1> QED
  BY <1>2, <1>3, <1>4 DEF IsRendition

(* A compilation that succeeds has the renditions of all its sets.         *)
LEMMA AllMade ==
  ASSUME SetsInv, MadeInv, stage = "done"
  PROVE  \A k \in AssetKinds :
           /\ loaded[k] \in Seq(Tree) /\ IsInjective(loaded[k])
           /\ ToSet(loaded[k]) = SetsIn(k)
           /\ \A d \in ToSet(loaded[k]) : d.kind = k
           /\ AllKnown(k, Jobs(loaded[k]))
           /\ Whole(k) \in Seq(Renditions)
           /\ Len(Whole(k)) \in Nat
<1>1. AllKnown("imageset", Jobs(loaded["imageset"]))
  BY DEF MadeInv
<1>2. ASSUME NEW k \in AssetKinds PROVE AllKnown(k, Jobs(loaded[k]))
  BY <1>1, OthersKnown
<1>3. ASSUME NEW k \in AssetKinds PROVE Whole(k) \in Seq(Renditions) /\ Len(Whole(k)) \in Nat
  <2>1. Whole(k) \in Seq(Renditions)
    BY <1>2, WholeIs
  <2> QED
    BY <2>1, LenProperties
<1>4. /\ loaded \in [AssetKinds -> Seq(Tree)]
      /\ \A k \in AssetKinds : IsInjective(loaded[k]) /\ ToSet(loaded[k]) = SetsIn(k)
  BY DEF SetsInv, TypeInv, EverySetLoadedOnce
<1>5. \A k \in AssetKinds : \A d \in SetsIn(k) : d.kind = k
  BY DEF SetsIn
<1> QED
  BY <1>2, <1>3, <1>4, <1>5

(* Cells of three disjoint sets of entries add up.                         *)
LEMMA ThreeCounts ==
  ASSUME NEW A, NEW B, NEW C, A \cap B = {}, A \cap C = {}, B \cap C = {},
         IsFiniteSet(CellsOf(A)), IsFiniteSet(CellsOf(B)), IsFiniteSet(CellsOf(C))
  PROVE  Cardinality(CellsOf(A \cup B \cup C)) =
           Cardinality(CellsOf(A)) + Cardinality(CellsOf(B)) + Cardinality(CellsOf(C))
<1> DEFINE D == A \cup B
<1>1. IsFiniteSet(CellsOf(D)) /\ Cardinality(CellsOf(D)) = Cardinality(CellsOf(A)) + Cardinality(CellsOf(B))
  BY CellsOfUnion
<1>2. D \cap C = {}
  OBVIOUS
<1> HIDE DEF D
<1>3. Cardinality(CellsOf(D \cup C)) = Cardinality(CellsOf(D)) + Cardinality(CellsOf(C))
  BY <1>1, <1>2, CellsOfUnion
<1> QED
  BY <1>1, <1>3 DEF D

(* Nothing is rendered twice.                                              *)
LEMMA CountsAreRight ==
  ASSUME SetsInv, MadeInv
  PROVE  RenditionsCounted
<1> SUFFICES ASSUME stage = "done" PROVE RenditionsCounted
  BY DEF RenditionsCounted, Done
<1> DEFINE EntriesAt(k) == EntriesOf(ToSet(loaded[k]))
           A == EntriesAt("imageset")
           B == EntriesAt("colorset")
           C == EntriesAt("appiconset")
<1>1. catalog \in Catalogs
  BY DEF SetsInv, TypeInv
<1>2. ASSUME NEW k \in AssetKinds
      PROVE  /\ IsFiniteSet(EntriesAt(k)) /\ \A x \in EntriesAt(k) : Weight(x) \in Nat
             /\ IsFiniteSet(CellsOf(EntriesAt(k)))
             /\ Len(Whole(k)) = Cardinality(CellsOf(EntriesAt(k)))
             /\ \A x \in EntriesAt(k) : x[1].kind = k
  <2>1. /\ loaded[k] \in Seq(Tree) /\ IsInjective(loaded[k])
        /\ \A d \in ToSet(loaded[k]) : d.kind = k
        /\ AllKnown(k, Jobs(loaded[k]))
    BY AllMade
  <2>2. /\ IsFiniteSet(EntriesAt(k)) /\ \A x \in EntriesAt(k) : Weight(x) \in Nat
        /\ IsFiniteSet(CellsOf(EntriesAt(k)))
        /\ Len(MadeOf(k, Jobs(loaded[k]))) = Cardinality(CellsOf(EntriesAt(k)))
    BY <1>1, <2>1, MadeCounted
  <2>3. \A x \in EntriesAt(k) : x[1].kind = k
    BY <2>1 DEF EntriesOf
  <2> QED
    BY <2>2, <2>3 DEF Whole
<1>3. EntriesIn = A \cup B \cup C
  <2> DEFINE Of(d) == {<<d, i>> : i \in DOMAIN d.entries}
             Sets == {t \in Tree : t.kind \in AssetKinds}
  <2>1. EntriesIn = UNION {Of(d) : d \in Sets}
    BY DEF EntriesIn
  <2>2. \A k : EntriesAt(k) = UNION {Of(d) : d \in ToSet(loaded[k])}
    BY DEF EntriesOf
  <2>3. \A k \in AssetKinds : ToSet(loaded[k]) = {t \in Tree : t.kind = k}
    BY AllMade DEF SetsIn
  <2>4. Sets = ToSet(loaded["imageset"]) \cup ToSet(loaded["colorset"]) \cup ToSet(loaded["appiconset"])
    BY <2>3 DEF AssetKinds
  <2> HIDE DEF Of, Sets
  <2> QED
    BY <2>1, <2>2, <2>4
<1> HIDE DEF EntriesAt
<1>4. /\ IsFiniteSet(A) /\ IsFiniteSet(B) /\ IsFiniteSet(C)
      /\ \A x \in A \cup B \cup C : Weight(x) \in Nat
      /\ IsFiniteSet(CellsOf(A)) /\ IsFiniteSet(CellsOf(B)) /\ IsFiniteSet(CellsOf(C))
      /\ Len(Whole("imageset")) = Cardinality(CellsOf(A))
      /\ Len(Whole("colorset")) = Cardinality(CellsOf(B))
      /\ Len(Whole("appiconset")) = Cardinality(CellsOf(C))
      /\ A \cap B = {} /\ A \cap C = {} /\ B \cap C = {}
  BY <1>2 DEF AssetKinds
<1> HIDE DEF A, B, C
<1>5. IsFiniteSet(A \cup B \cup C)
  <2>1. IsFiniteSet(A \cup B)
    BY <1>4, FS_Union
  <2> QED
    BY <1>4, <2>1, FS_Union
<1>6. FoldSet(LAMBDA x, n : n + Cardinality(Wanted(x[1].kind, x[1].entries[x[2]])), 0, EntriesIn)
        = Cardinality(CellsOf(A \cup B \cup C))
  BY <1>3, <1>4, <1>5, FoldCounts
<1>7. Len(rendered) = Len(Whole("imageset")) + Len(Whole("colorset")) + Len(Whole("appiconset"))
  <2>1. rendered = (Whole("imageset") \o Whole("colorset")) \o Whole("appiconset")
    BY DEF MadeInv
  <2>2. /\ Whole("imageset") \in Seq(Renditions) /\ Whole("colorset") \in Seq(Renditions)
        /\ Whole("appiconset") \in Seq(Renditions)
    BY AllMade DEF AssetKinds
  <2>3. /\ Whole("imageset") \o Whole("colorset") \in Seq(Renditions)
        /\ Len(Whole("imageset") \o Whole("colorset")) = Len(Whole("imageset")) + Len(Whole("colorset"))
    BY <2>2, ConcatProperties
  <2> QED
    BY <2>1, <2>2, <2>3, ConcatProperties
<1>8. Cardinality(CellsOf(A \cup B \cup C)) =
        Cardinality(CellsOf(A)) + Cardinality(CellsOf(B)) + Cardinality(CellsOf(C))
  BY <1>4, ThreeCounts
<1> QED
  BY <1>4, <1>6, <1>7, <1>8 DEF RenditionsCounted

(* An order of the same sets.                                              *)
LEMMA Relisted ==
  ASSUME NEW T, NEW sets \in Seq(T), IsInjective(sets),
         NEW q \in [DOMAIN sets -> ToSet(sets)], IsInjective(q)
  PROVE  q \in Seq(T) /\ ToSet(q) = ToSet(sets)
<1> DEFINE n == Len(sets)
           I == 1 .. n
           S == ToSet(sets)
<1>1. n \in Nat /\ DOMAIN sets = I /\ \A i \in I : sets[i] \in T
  BY LenProperties
<1>2. S = {sets[i] : i \in I}
  BY <1>1 DEF ToSet
<1>3. q \in [I -> S] /\ \A i \in I : q[i] \in T
  BY <1>1, <1>2
<1>4. q \in Seq(T)
  <2> HIDE DEF S, n
  <2>1. DOMAIN q = I /\ q = [i \in I |-> q[i]]
    BY <1>3
  <2> QED
    BY <1>1, <1>3, <2>1
<1>5. sets \in [I -> S]
  <2> HIDE DEF S, n
  <2>1. sets = [i \in I |-> sets[i]]
    BY <1>1
  <2> QED
    BY <1>2, <2>1
<1> HIDE DEF n, S
<1>6. sets \in Bijection(I, S)
  <2>1. sets \in Injection(I, S)
    BY <1>5 DEF Injection
  <2>2. sets \in Surjection(I, S)
    BY <1>2, <1>5 DEF Surjection
  <2> QED
    BY <2>1, <2>2 DEF Bijection
<1>7. q \in Injection(I, S)
  BY <1>3 DEF Injection
<1> HIDE DEF I
<1>8. IsFiniteSet(I)
  BY <1>1, FS_Interval DEF I
<1>9. IsFiniteSet(S) /\ Cardinality(S) = Cardinality(I)
  BY <1>6, <1>8, FS_Bijection DEF ExistsBijection
<1>10. q \in Surjection(I, S)
  <2>1. Cardinality(I) = Cardinality(S) <=> q \in Surjection(I, S)
    BY <1>7, <1>9, FS_Injection, Zenon
  <2> QED
    BY <1>9, <2>1
<1>11. ToSet(q) = S
  BY <1>3, <1>10 DEF Surjection, ToSet
<1> QED
  BY <1>4, <1>11 DEF S

(* A sequence and the set of its items.                                    *)
LEMMA InRange ==
  ASSUME NEW R, NEW s \in Seq(R)
  PROVE  /\ \A i \in 1 .. Len(s) : s[i] \in ToSet(s)
         /\ \A r \in ToSet(s) : \E i \in 1 .. Len(s) : s[i] = r
         /\ ToSet(s) \subseteq R
BY LenProperties DEF ToSet

(* The renditions of images are in front.                                  *)
LEMMA ImagesInFront ==
  ASSUME NEW R, NEW A \in Seq(R), NEW B \in Seq(R),
         \A r \in ToSet(A) : r.body \notin {"color", "icon"},
         \A r \in ToSet(B) : r.body \in {"color", "icon"}
  PROVE  LET all == A \o B
             images == Cardinality({i \in DOMAIN all : all[i].body \notin {"color", "icon"}})
         IN  SubSeq(all, images + 1, Len(all)) = B
<1> DEFINE all == A \o B
           a == Len(A)
           b == Len(B)
           M == {i \in DOMAIN all : all[i].body \notin {"color", "icon"}}
<1>1. /\ a \in Nat /\ b \in Nat /\ DOMAIN B = 1 .. b
      /\ \A i \in 1 .. a : A[i].body \notin {"color", "icon"} /\ A[i] \in R
      /\ \A i \in 1 .. b : B[i].body \in {"color", "icon"} /\ B[i] \in R
  BY LenProperties, InRange
<1>2. /\ all \in Seq(R) /\ Len(all) = a + b
      /\ \A i \in 1 .. a + b : all[i] = IF i <= a THEN A[i] ELSE B[i - a]
  BY ConcatProperties
<1>3. DOMAIN all = 1 .. a + b
  BY <1>2, LenProperties
<1> HIDE DEF all, a, b
<1>4. ASSUME NEW i \in 1 .. a + b
      PROVE  /\ i \in 1 .. a => all[i] = A[i]
             /\ i \notin 1 .. a => all[i] = B[i - a] /\ i - a \in 1 .. b
             /\ all[i].body \notin {"color", "icon"} <=> i \in 1 .. a
  <2>1. i \in 1 .. a => all[i] = A[i]
    BY <1>1, <1>2
  <2>2. i \notin 1 .. a => all[i] = B[i - a] /\ i - a \in 1 .. b
    BY <1>1, <1>2
  <2> QED
    BY <1>1, <2>1, <2>2
<1>5. 1 .. a \subseteq 1 .. a + b
  BY <1>1
<1>6. M = 1 .. a
  BY <1>3, <1>4, <1>5
<1> HIDE DEF M
<1>7. Cardinality(M) = a
  BY <1>1, <1>6, FS_Interval
<1>8. SubSeq(all, a + 1, a + b) = B
  <2> DEFINE t == SubSeq(all, a + 1, a + b)
  <2>1. \A i \in a + 1 .. a + b : all[i] \in R
    BY <1>1, <1>4
  <2>2. /\ t \in Seq(R)
        /\ Len(t) = IF a + 1 <= a + b THEN (a + b) - (a + 1) + 1 ELSE 0
        /\ \A i \in 1 .. (a + b) - (a + 1) + 1 : t[i] = all[(a + 1) + i - 1]
    BY <1>1, <2>1, SubSeqProperties
  <2>3. Len(t) = b /\ \A i \in 1 .. b : t[i] = all[a + i]
    BY <1>1, <2>2
  <2>4. \A i \in 1 .. b : a + i \in 1 .. a + b /\ a + i \notin 1 .. a /\ (a + i) - a = i
    BY <1>1
  <2>5. ASSUME NEW i \in 1 .. b PROVE t[i] = B[i]
    <3>1. all[a + i] = B[(a + i) - a]
      BY <1>4, <2>4
    <3> QED
      BY <2>3, <2>4, <3>1
  <2> HIDE DEF t
  <2>6. t = B
    <3>1. Len(B) = b
      BY DEF b
    <3> QED
      BY <2>2, <2>3, <2>5, <3>1, SeqEqual, Zenon
  <2> QED
    BY <2>6 DEF t
<1>9. SubSeq(all, Cardinality(M) + 1, Len(all)) = B
  BY <1>2, <1>7, <1>8
<1> QED
  BY <1>9 DEF all, M

(* The renditions of the same image sets, in another order of the sets.    *)
LEMMA OtherOrderIs ==
  ASSUME SetsInv, MadeInv, stage = "done", NEW rs \in OtherOrders
  PROVE  \E A \in Seq(Renditions), B \in Seq(Renditions) :
           /\ rs = A \o B
           /\ rendered = Whole("imageset") \o B
           /\ Len(A) = Len(Whole("imageset"))
           /\ ToSet(A) = ToSet(Whole("imageset"))
<1> DEFINE kind == "imageset"
           sets == loaded["imageset"]
           W == Whole("imageset")
           B == Whole("colorset") \o Whole("appiconset")
           rest == SubSeq(rendered, Cardinality({i \in DOMAIN rendered :
                            rendered[i].body \notin {"color", "icon"}}) + 1, Len(rendered))
           Of(job) == IF job.entry.file = NoFile THEN <<>> ELSE ImageRenditions(job)
           From(q) == FlattenSeq([i \in DOMAIN Jobs(q) |-> Of(Jobs(q)[i])])
<1>1. catalog \in Catalogs
  BY DEF SetsInv, TypeInv
<1>2. /\ sets \in Seq(Tree) /\ IsInjective(sets) /\ kind \in AssetKinds
      /\ \A d \in ToSet(sets) : d.kind = "imageset"
      /\ AllKnown("imageset", Jobs(sets))
  BY AllMade DEF AssetKinds
<1>3. \A k \in AssetKinds :
        /\ Whole(k) \in Seq(Renditions)
        /\ \A r \in ToSet(Whole(k)) : r.body \in {"color", "icon"} <=> k # "imageset"
  BY AllMade, WholeIs
<1>4. /\ W \in Seq(Renditions) /\ Whole("colorset") \in Seq(Renditions)
      /\ Whole("appiconset") \in Seq(Renditions)
      /\ \A r \in ToSet(W) : r.body \notin {"color", "icon"}
      /\ \A r \in ToSet(Whole("colorset")) : r.body \in {"color", "icon"}
      /\ \A r \in ToSet(Whole("appiconset")) : r.body \in {"color", "icon"}
  BY <1>3 DEF AssetKinds
<1>5. B \in Seq(Renditions) /\ \A r \in ToSet(B) : r.body \in {"color", "icon"}
  BY <1>4, RangeOfConcat
<1>6. rendered = W \o B
  <2>1. rendered = (W \o Whole("colorset")) \o Whole("appiconset")
    BY DEF MadeInv
  <2> QED
    BY <1>4, <2>1, ConcatAssociative
<1>7. rest = B
  <2> DEFINE all == W \o B
             front == {i \in DOMAIN all : all[i].body \notin {"color", "icon"}}
  <2> HIDE DEF W, B
  <2>1. SubSeq(all, Cardinality(front) + 1, Len(all)) = B
    BY <1>4, <1>5, ImagesInFront
  <2> QED
    BY <1>6, <2>1, Zenon
<1>8. PICK q \in [DOMAIN sets -> ToSet(sets)] : IsInjective(q) /\ rs = From(q) \o rest
  BY Zenon DEF OtherOrders
<1>9. q \in Seq(Tree) /\ ToSet(q) = ToSet(sets)
  BY <1>2, <1>8, Relisted, Zenon
<1>10. Listings(Tree)
  BY <1>1, CatalogAssumption DEF Listings, Tree
<1>11. /\ Jobs(q) \in Seq(AllJobs) /\ Jobs(sets) \in Seq(AllJobs)
       /\ ToSet(Jobs(q)) = ToSet(Jobs(sets))
  BY <1>2, <1>9, <1>10, JobsListed DEF Listings, AllJobs
<1>12. AllKnown("imageset", Jobs(q))
  BY <1>2, <1>11, InRange DEF AllKnown
<1>13. From(q) = MadeOf("imageset", Jobs(q))
  <2> DEFINE J == Jobs(q)
  <2>1. DOMAIN J = 1 .. Len(J)
    BY <1>11, LenProperties
  <2>2. \A job : Of(job) = Made("imageset", job)
    BY DEF Made
  <2> HIDE DEF J, Of
  <2>3. [i \in DOMAIN J |-> Of(J[i])] = MadeOfEach("imageset", J)
    BY <2>1, <2>2 DEF MadeOfEach
  <2> QED
    BY <2>3 DEF MadeOf, J
<1>14. /\ From(q) \in Seq(Renditions) /\ ToSet(From(q)) = ToSet(W)
       /\ Len(From(q)) = Len(W)
  <2>1. /\ MadeOf("imageset", Jobs(q)) \in Seq(Renditions)
        /\ ToSet(MadeOf("imageset", Jobs(q))) = ToSet(MadeOf("imageset", Jobs(sets)))
    BY <1>2, <1>11, <1>12, MadeOfIs
  <2>2. Len(MadeOf("imageset", Jobs(q))) = Len(MadeOf("imageset", Jobs(sets)))
    BY <1>1, <1>2, <1>8, <1>9, <1>12, MadeCounted
  <2> HIDE DEF From
  <2> QED
    BY <1>13, <2>1, <2>2 DEF Whole
<1> HIDE DEF From, rest, W, B
<1>15. /\ rs = From(q) \o B /\ rendered = W \o B /\ B \in Seq(Renditions)
  BY <1>5, <1>6, <1>7, <1>8
<1> QED
  BY <1>14, <1>15 DEF W

(* What is stored does not depend on the order.                            *)
LEMMA OrderForgotten ==
  ASSUME SetsInv, MadeInv
  PROVE  DeterministicUnlessKeysClash
<1> SUFFICES ASSUME stage = "done",
                    IsInjective([i \in DOMAIN rendered |-> RenditionKey(rendered[i])]),
                    NEW rs \in OtherOrders
             PROVE  Stored(rs) = Stored(rendered)
  BY DEF DeterministicUnlessKeysClash, Done
<1> DEFINE W == Whole("imageset")
<1>1. catalog \in Catalogs
  BY DEF SetsInv, TypeInv
<1>2. PICK A \in Seq(Renditions), B \in Seq(Renditions) :
        /\ rs = A \o B /\ rendered = W \o B
        /\ Len(A) = Len(W) /\ ToSet(A) = ToSet(W)
  BY OtherOrderIs
<1>3. W \in Seq(Renditions)
  BY AllMade DEF AssetKinds
<1> HIDE DEF W
<1> DEFINE a == Len(W)
           b == Len(B)
           n == a + b
<1>4. a \in Nat /\ b \in Nat /\ n \in Nat
  BY <1>3, LenProperties
<1>5. /\ rendered \in Seq(Renditions) /\ Len(rendered) = n
      /\ \A i \in 1 .. n : rendered[i] = IF i <= a THEN W[i] ELSE B[i - a]
  BY <1>2, <1>3, ConcatProperties
<1>6. /\ rs \in Seq(Renditions) /\ Len(rs) = n
      /\ \A i \in 1 .. n : rs[i] = IF i <= a THEN A[i] ELSE B[i - a]
  <2>1. /\ A \o B \in Seq(Renditions) /\ Len(A \o B) = Len(A) + b
        /\ \A i \in 1 .. Len(A) + b : (A \o B)[i] = IF i <= Len(A) THEN A[i] ELSE B[i - Len(A)]
    BY ConcatProperties
  <2>2. rs = A \o B /\ Len(A) = a
    BY <1>2
  <2> HIDE DEF a, b
  <2> QED
    BY <2>1, <2>2
<1> HIDE DEF n
<1>7. DOMAIN rendered = 1 .. n /\ DOMAIN rs = 1 .. n
  BY <1>5, <1>6, LenProperties
<1>8. \A i \in 1 .. n : IsRendition(rendered[i])
  <2>1. \A i \in 1 .. n : rendered[i] \in Renditions
    BY <1>5, LenProperties
  <2> QED
    BY <1>1, <2>1, RenditionsAre
<1>9. ASSUME NEW i \in 1 .. n PROVE \E j \in 1 .. n : rs[j] = rendered[i]
  <2>1. CASE i <= a
    <3>1. i \in 1 .. a /\ rendered[i] = W[i]
      BY <1>4, <1>5, <2>1
    <3>2. W[i] \in ToSet(A)
      BY <1>2, <1>3, <3>1, InRange
    <3>3. PICK j \in 1 .. a : A[j] = W[i]
      BY <1>2, <3>2, InRange
    <3>4. j \in 1 .. n /\ rs[j] = A[j]
      BY <1>4, <1>6 DEF n
    <3> QED
      BY <3>1, <3>3, <3>4
  <2>2. CASE ~ (i <= a)
    BY <1>5, <1>6, <2>2
  <2> QED
    BY <2>1, <2>2
<1>10. \A i, j \in 1 .. n : RenditionKey(rendered[i]) = RenditionKey(rendered[j]) => i = j
  BY <1>7 DEF IsInjective
<1> QED
  BY <1>4, <1>7, <1>8, <1>9, <1>10, StoredAlike

-----------------------------------------------------------------------------
(* A compilation that succeeds stores for each entry of each set as many   *)
(* renditions as it must have, whatever the catalog, and the order in      *)
(* which the host lists directories does not show in the leaf of           *)
(* RENDITIONS unless two renditions share a key.                           *)
THEOREM CatalogAloneDecides == Spec => []CatalogDecides
<1>1. SetsInv /\ MadeInv => CatalogDecides
  BY CountsAreRight, OrderForgotten DEF CatalogDecides
<1> QED
  BY InitSets, InitJobs, InitMade, StepSets, StepJobs, StepMade, <1>1, PTL DEF Spec

=============================================================================
