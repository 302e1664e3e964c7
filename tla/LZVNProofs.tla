------------------------------ MODULE LZVNProofs ------------------------------
(***************************************************************************)
(* The two halves of the LZVN codec, each by itself.                       *)
(*                                                                         *)
(* lzvn_encode_base.c, for every text and every size of the destination:   *)
(* the positions the search carries from one step to the next are sound,   *)
(* what is written stays inside the destination, the wide stores included, *)
(* and the instruction that opens a match is decoded to what it was made   *)
(* of.  What is emitted is a list of pieces; where each begins, and how    *)
(* long the bytes of all of them are, are recursive functions, which       *)
(* Recursion shows to exist.                                               *)
(*                                                                         *)
(* lzvn_decode stays in its buffers whatever bytes it is given: for every  *)
(* stream, every split of it into calls and every size of the destination. *)
(***************************************************************************)
EXTENDS LZVNEncoder, LZVNDecoder, SequenceTheorems, WellFoundedInduction, TLAPS

----------------------------------------------------------------------------
(* Sequences and functions defined by recursion over positions.            *)

IsSeq(q) == q \in Seq({q[i] : i \in 1 .. Len(q)})

LEMMA LeastElement ==
  ASSUME NEW T \in SUBSET Nat, T # {}
  PROVE  \E x \in T : \A y \in T : x <= y
<1>1. \E x \in T : \A y \in T : ~(<<y, x>> \in OpToRel(<, Nat))
  BY NatLessThanWellFounded, WFMin
<1>2. PICK x \in T : \A y \in T : ~(<<y, x>> \in OpToRel(<, Nat))
  BY <1>1
<1>3. ASSUME NEW y \in T PROVE x <= y
  <2>1. x \in Nat /\ y \in Nat
    OBVIOUS
  <2>2. <<y, x>> \in OpToRel(<, Nat) <=> y < x
    BY <2>1 DEF OpToRel
  <2>3. ~(y < x)
    BY <1>2, <2>2, Zenon
  <2> QED
    BY <2>1, <2>3
<1> QED
  BY <1>3

(* A property of 0 that every number hands on to the next.                 *)
LEMMA UpTo ==
  ASSUME NEW n \in Nat, NEW T \in SUBSET (0 .. n), 0 \in T,
         \A k \in 0 .. n - 1 : k \in T => k + 1 \in T
  PROVE  T = 0 .. n
<1> DEFINE Rest == (0 .. n) \ T
<1>1. SUFFICES ASSUME Rest # {} PROVE FALSE
  OBVIOUS
<1>2. Rest \in SUBSET Nat
  OBVIOUS
<1>3. PICK k \in Rest : \A j \in Rest : k <= j
  BY <1>1, <1>2, LeastElement
<1>4. k \in 0 .. n /\ k \notin T /\ k # 0
  BY <1>3
<1>5. k - 1 \in 0 .. n - 1 /\ k - 1 \in 0 .. n /\ k - 1 < k /\ (k - 1) + 1 = k
  BY <1>4
<1>6. k - 1 \in T
  BY <1>3, <1>5
<1> QED
  BY <1>4, <1>5, <1>6

(* A function on 1 .. n + 1 given by its first value and by a step.         *)
Steps(g, n, first, step) ==
  g[1] = first /\ \A i \in 1 .. n : g[i + 1] = step[<<i, g[i]>>]

LEMMA Recursion ==
  ASSUME NEW n \in Nat, NEW S, NEW first \in S, NEW step \in [(1 .. n) \X S -> S]
  PROVE  \E g \in [1 .. n + 1 -> S] : Steps(g, n, first, step)
<1> DEFINE Defined(k, g) == g[1] = first /\ \A i \in 1 .. k : g[i + 1] = step[<<i, g[i]>>]
           T == {k \in 0 .. n : \E g \in [1 .. k + 1 -> S] : Defined(k, g)}
<1>1. 0 \in T
  <2>1. [i \in 1 .. 0 + 1 |-> first] \in [1 .. 0 + 1 -> S]
    OBVIOUS
  <2>2. Defined(0, [i \in 1 .. 0 + 1 |-> first])
    OBVIOUS
  <2> HIDE DEF Defined
  <2> QED
    BY <2>1, <2>2
<1>2. ASSUME NEW k \in 0 .. n - 1, k \in T PROVE k + 1 \in T
  <2>1. PICK g \in [1 .. k + 1 -> S] : Defined(k, g)
    BY <1>2
  <2>2. k + 1 \in 1 .. n /\ k + 1 \in Nat /\ k \in Nat /\ g[k + 1] \in S
    BY <2>1
  <2> DEFINE next == step[<<k + 1, g[k + 1]>>]
             h == [i \in 1 .. (k + 1) + 1 |-> IF i <= k + 1 THEN g[i] ELSE next]
  <2>3. next \in S
    BY <2>2
  <2> HIDE DEF next
  <2>4. h \in [1 .. (k + 1) + 1 -> S]
    BY <2>1, <2>2, <2>3
  <2>5. h[1] = first
    BY <2>1, <2>2
  <2>6. ASSUME NEW i \in 1 .. k + 1 PROVE h[i + 1] = step[<<i, h[i]>>]
    <3>1. h[i] = g[i]
      BY <2>2
    <3>2. CASE i = k + 1
      <4>1. h[i + 1] = next
        BY <2>2, <3>2
      <4> HIDE DEF h
      <4> QED
        BY <3>1, <3>2, <4>1 DEF next
    <3>3. CASE i # k + 1
      <4>1. i \in 1 .. k /\ h[i + 1] = g[i + 1]
        BY <2>2, <3>3
      <4> HIDE DEF h
      <4> QED
        BY <2>1, <3>1, <4>1
    <3> QED
      BY <3>2, <3>3
  <2>7. Defined(k + 1, h)
    BY <2>5, <2>6
  <2> HIDE DEF h, Defined
  <2> QED
    BY <2>2, <2>4, <2>7
<1> HIDE DEF Defined
<1>3. T \in SUBSET (0 .. n)
  OBVIOUS
<1> HIDE DEF T
<1>4. T = 0 .. n
  BY <1>1, <1>2, <1>3, UpTo
<1>5. \E g \in [1 .. n + 1 -> S] : Defined(n, g)
  BY <1>4 DEF T
<1> QED
  BY <1>5 DEF Defined, Steps

LEMMA SomeSeq ==
  ASSUME NEW S, NEW q \in Seq(S)
  PROVE  IsSeq(q)
<1>1. Len(q) \in Nat /\ q \in [1 .. Len(q) -> S]
  BY LenProperties
<1>2. q \in [1 .. Len(q) -> {q[i] : i \in 1 .. Len(q)}]
  BY <1>1
<1> QED
  BY SMTT(30), <1>1, <1>2 DEF IsSeq

LEMMA ConcatSeq ==
  ASSUME NEW p, NEW q, IsSeq(p), IsSeq(q)
  PROVE  /\ IsSeq(p \o q) /\ Len(p \o q) = Len(p) + Len(q)
         /\ Len(p) \in Nat /\ Len(q) \in Nat
<1> DEFINE A == {p[i] : i \in 1 .. Len(p)}
           B == {q[i] : i \in 1 .. Len(q)}
<1>1. p \in Seq(A) /\ q \in Seq(B)
  BY DEF IsSeq
<1> HIDE DEF A, B
<1>2. Len(p) \in Nat /\ Len(q) \in Nat /\ p \in [1 .. Len(p) -> A] /\ q \in [1 .. Len(q) -> B]
  BY <1>1, LenProperties
<1>3. p \in [1 .. Len(p) -> A \cup B] /\ q \in [1 .. Len(q) -> A \cup B]
  BY <1>2
<1>4. p \in Seq(A \cup B) /\ q \in Seq(A \cup B)
  BY <1>2, <1>3
<1>5. p \o q \in Seq(A \cup B) /\ Len(p \o q) = Len(p) + Len(q)
  BY <1>4, ConcatProperties
<1> QED
  BY <1>2, <1>5, SomeSeq

LEMMA FunctionSeq ==
  ASSUME NEW n \in Nat, NEW S, NEW f \in [1 .. n -> S]
  PROVE  IsSeq(f) /\ Len(f) = n /\ f \in Seq(S)
<1>1. f \in Seq(S)
  OBVIOUS
<1>2. Len(f) = n
  BY <1>1, LenProperties
<1> QED
  BY <1>1, <1>2, SomeSeq

(* The length of sequences put together is the sum of theirs.              *)
LEMMA FlattenLen ==
  ASSUME NEW V, NEW seqs \in Seq(Seq(V)),
         NEW off \in [1 .. Len(seqs) + 1 -> Nat], off[1] = 0,
         \A i \in 1 .. Len(seqs) : off[i + 1] = off[i] + Len(seqs[i])
  PROVE  FlattenSeq(seqs) \in Seq(V) /\ Len(FlattenSeq(seqs)) = off[Len(seqs) + 1]
<1> DEFINE n == Len(seqs)
<1>1. n \in Nat /\ \A i \in 1 .. n : seqs[i] \in Seq(V)
  BY LenProperties, ElementOfSeq
<1>2. CASE n = 0
  <2>1. FlattenSeq(seqs) = seqs
    BY <1>2 DEF FlattenSeq
  <2>2. seqs = <<>>
    BY <1>2, EmptySeq
  <2>3. <<>> \in Seq(V) /\ Len(<<>>) = 0
    BY EmptySeq
  <2> QED
    BY <1>2, <2>1, <2>2, <2>3
<1>3. CASE n # 0
  <2> DEFINE Flat(f) == f = [i \in 1 .. Len(seqs) |-> IF i = 1 THEN seqs[i] ELSE f[i - 1] \o seqs[i]]
             flatten == CHOOSE f : Flat(f)
             step == [e \in (1 .. n - 1) \X Seq(V) |-> e[2] \o seqs[e[1] + 1]]
  <2>1. FlattenSeq(seqs) = flatten[n]
    BY <1>3 DEF FlattenSeq
  <2>2. n - 1 \in Nat /\ (n - 1) + 1 = n /\ seqs[1] \in Seq(V)
    BY <1>1, <1>3
  <2>3. step \in [(1 .. n - 1) \X Seq(V) -> Seq(V)]
    <3>1. ASSUME NEW e \in (1 .. n - 1) \X Seq(V) PROVE e[2] \o seqs[e[1] + 1] \in Seq(V)
      <4>1. e[2] \in Seq(V) /\ e[1] + 1 \in 1 .. n
        BY <1>1
      <4> QED
        BY <1>1, <4>1, ConcatProperties
    <3> QED
      BY <3>1
  <2>4. PICK g \in [1 .. (n - 1) + 1 -> Seq(V)] :
          g[1] = seqs[1] /\ \A i \in 1 .. n - 1 : g[i + 1] = step[<<i, g[i]>>]
    <3> DEFINE m == n - 1
               W == Seq(V)
    <3>1. m \in Nat /\ seqs[1] \in W /\ step \in [(1 .. m) \X W -> W]
      BY <2>2, <2>3
    <3> HIDE DEF m, W, step
    <3>2. \E g \in [1 .. m + 1 -> W] : Steps(g, m, seqs[1], step)
      BY <3>1, Recursion
    <3> QED
      BY <3>2 DEF m, W, Steps
  <2>5. g \in [1 .. n -> Seq(V)]
    BY <2>2, <2>4
  <2>6. ASSUME NEW i \in 1 .. n - 1 PROVE g[i + 1] = g[i] \o seqs[i + 1]
    <3>1. g[i] \in Seq(V)
      <4>1. i \in 1 .. n
        BY <1>1
      <4> QED
        BY <2>5, <4>1, Zenon
    <3>2. step[<<i, g[i]>>] = g[i] \o seqs[i + 1]
      BY <3>1
    <3> QED
      BY <2>4, <3>2
  <2>7. Flat(g)
    <3>1. ASSUME NEW i \in 1 .. n PROVE g[i] = IF i = 1 THEN seqs[i] ELSE g[i - 1] \o seqs[i]
      <4>1. CASE i = 1
        BY <2>4, <4>1
      <4>2. CASE i # 1
        <5>1. i - 1 \in 1 .. n - 1 /\ (i - 1) + 1 = i
          BY <1>1, <4>2
        <5>2. g[(i - 1) + 1] = g[i - 1] \o seqs[(i - 1) + 1]
          BY <2>6, <5>1
        <5> QED
          BY <4>2, <5>1, <5>2
      <4> QED
        BY <4>1, <4>2
    <3> QED
      BY <2>5, <3>1
  <2> HIDE DEF step, Flat
  <2>8. Flat(flatten)
    BY <2>7
  <2> DEFINE f == flatten
  <2>9. f = [i \in 1 .. n |-> IF i = 1 THEN seqs[i] ELSE f[i - 1] \o seqs[i]]
    BY <2>8 DEF Flat
  <2> HIDE DEF f
  <2> DEFINE T == {k \in 0 .. n - 1 : f[k + 1] \in Seq(V) /\ Len(f[k + 1]) = off[k + 2]}
  <2>10. 0 \in T
    <3>1. 1 \in 1 .. n /\ 0 \in 0 .. n - 1 /\ 0 + 1 = 1 /\ 0 + 2 = 1 + 1
      BY <1>1, <1>3
    <3>2. f[1] = seqs[1] /\ off[1 + 1] = 0 + Len(seqs[1])
      BY <2>9, <3>1
    <3>3. Len(seqs[1]) \in Nat
      BY <2>2, LenProperties
    <3> QED
      BY <2>2, <3>1, <3>2, <3>3
  <2>11. ASSUME NEW k \in 0 .. (n - 1) - 1, k \in T PROVE k + 1 \in T
    <3>1. /\ k + 1 \in 0 .. n - 1 /\ k + 2 \in 1 .. n /\ (k + 1) + 1 = k + 2 /\ (k + 1) + 2 = (k + 2) + 1
          /\ (k + 2) - 1 = k + 1 /\ k + 2 # 1
      BY <1>1
    <3>2. f[k + 2] = f[(k + 2) - 1] \o seqs[k + 2]
      BY <2>9, <3>1
    <3>3. f[k + 1] \in Seq(V) /\ Len(f[k + 1]) = off[k + 2] /\ seqs[k + 2] \in Seq(V)
      BY <1>1, <2>11, <3>1
    <3>4. off[(k + 2) + 1] = off[k + 2] + Len(seqs[k + 2])
      BY <3>1
    <3>5. f[k + 2] = f[k + 1] \o seqs[k + 2]
      BY <3>1, <3>2
    <3>6. f[k + 2] \in Seq(V) /\ Len(f[k + 2]) = off[k + 2] + Len(seqs[k + 2])
      <4> DEFINE p == f[k + 1]
                 q == seqs[k + 2]
                 r == f[k + 2]
      <4>1. p \in Seq(V) /\ q \in Seq(V) /\ r = p \o q /\ Len(p) = off[k + 2]
        BY <3>3, <3>5
      <4> HIDE DEF p, q, r
      <4>2. r \in Seq(V) /\ Len(r) = Len(p) + Len(q)
        BY <4>1, ConcatProperties
      <4>3. r \in Seq(V) /\ Len(r) = off[k + 2] + Len(q)
        BY <4>1, <4>2
      <4> QED
        BY <4>3 DEF q, r
    <3> QED
      BY <3>1, <3>4, <3>6
  <2>12. T \in SUBSET (0 .. n - 1)
    OBVIOUS
  <2> HIDE DEF T
  <2>13. T = 0 .. n - 1
    BY <2>2, <2>10, <2>11, <2>12, UpTo
  <2>14. n - 1 \in T /\ (n - 1) + 2 = n + 1
    BY <1>1, <1>3, <2>13
  <2>15. f[(n - 1) + 1] \in Seq(V) /\ Len(f[(n - 1) + 1]) = off[(n - 1) + 2]
    BY <2>14 DEF T
  <2> QED
    BY <2>1, <2>2, <2>14, <2>15 DEF f
<1> QED
  BY <1>1, <1>2, <1>3

(* What the first value is and every step hands on, all values are.        *)
LEMMA AllNat ==
  ASSUME NEW n \in Nat, NEW f, f[1] \in Nat,
         \A i \in 1 .. n : f[i] \in Nat => f[i + 1] \in Nat
  PROVE  \A i \in 1 .. n + 1 : f[i] \in Nat
<1> DEFINE T == {k \in 0 .. n : f[k + 1] \in Nat}
<1>1. 0 \in T
  OBVIOUS
<1>2. ASSUME NEW k \in 0 .. n - 1, k \in T PROVE k + 1 \in T
  <2>1. k + 1 \in 1 .. n /\ f[k + 1] \in Nat
    BY <1>2
  <2> QED
    BY <2>1
<1>3. T \in SUBSET (0 .. n)
  OBVIOUS
<1> HIDE DEF T
<1>4. T = 0 .. n
  BY <1>1, <1>2, <1>3, UpTo
<1>5. ASSUME NEW i \in 1 .. n + 1 PROVE f[i] \in Nat
  <2>1. i - 1 \in 0 .. n /\ (i - 1) + 1 = i
    OBVIOUS
  <2>2. i - 1 \in T
    BY <1>4, <2>1
  <2> QED
    BY <2>1, <2>2 DEF T
<1> QED
  BY <1>5

----------------------------------------------------------------------------
(* The pieces of an instruction.                                           *)

PieceType == [code : Seq(Int), literals : Nat, need : Int, touched : Int]

LEMMA OffsetsSum ==
  ASSUME NEW p \in Seq(PieceType)
  PROVE  /\ Offsets(p) \in [1 .. Len(p) + 1 -> Nat] /\ Offsets(p)[1] = 0
         /\ \A i \in 1 .. Len(p) :
              /\ Len(p[i].code) \in Nat /\ p[i].literals \in Nat
              /\ Offsets(p)[i + 1] = Offsets(p)[i] + (Len(p[i].code) + p[i].literals)
<1> DEFINE n == Len(p)
           Flat(f) == f = [i \in 1 .. Len(p) + 1 |->
                             IF i = 1 THEN 0
                             ELSE f[i - 1] + Len(p[i - 1].code) + p[i - 1].literals]
           offset == CHOOSE f : Flat(f)
           step == [e \in (1 .. n) \X Nat |-> e[2] + (Len(p[e[1]].code) + p[e[1]].literals)]
<1>1. n \in Nat /\ \A i \in 1 .. n : p[i] \in PieceType
  BY LenProperties, ElementOfSeq
<1>2. \A i \in 1 .. n : Len(p[i].code) \in Nat /\ p[i].literals \in Nat
  <2> TAKE i \in 1 .. n
  <2>1. p[i].code \in Seq(Int) /\ p[i].literals \in Nat
    BY <1>1 DEF PieceType
  <2> QED
    BY <2>1, LenProperties
<1>3. Offsets(p) = offset
  BY DEF Offsets
<1> HIDE DEF n
<1>4. step \in [(1 .. n) \X Nat -> Nat]
  BY SMTT(30), <1>2
<1> HIDE DEF step
<1>5. \E g \in [1 .. n + 1 -> Nat] : Steps(g, n, 0, step)
  BY <1>1, <1>4, Recursion
<1>6. PICK g \in [1 .. n + 1 -> Nat] : Steps(g, n, 0, step)
  BY <1>5
<1>7. Flat(g)
  <2>1. ASSUME NEW i \in 1 .. n + 1
        PROVE  g[i] = IF i = 1 THEN 0 ELSE g[i - 1] + Len(p[i - 1].code) + p[i - 1].literals
    <3>1. CASE i = 1
      BY <1>6, <3>1 DEF Steps
    <3>2. CASE i # 1
      <4>1. i - 1 \in 1 .. n /\ i - 1 \in 1 .. n + 1 /\ (i - 1) + 1 = i
        BY <1>1, <3>2
      <4>2. g[i] = step[<<i - 1, g[i - 1]>>] /\ g[i - 1] \in Nat
        BY <1>6, <4>1 DEF Steps
      <4>3. step[<<i - 1, g[i - 1]>>] = g[i - 1] + (Len(p[i - 1].code) + p[i - 1].literals)
        BY <4>1, <4>2 DEF step
      <4> QED
        BY <1>2, <3>2, <4>1, <4>2, <4>3
    <3> QED
      BY <3>1, <3>2
  <2> QED
    BY <1>6, <2>1 DEF n
<1> HIDE DEF Flat
<1>8. Flat(offset)
  BY <1>7
<1> DEFINE f == offset
<1>9. f = [i \in 1 .. n + 1 |-> IF i = 1 THEN 0
                                ELSE f[i - 1] + Len(p[i - 1].code) + p[i - 1].literals]
  BY <1>8 DEF Flat, n
<1> HIDE DEF f
<1>10. f[1] = 0
  BY <1>1, <1>9
<1>11. ASSUME NEW i \in 1 .. n PROVE f[i + 1] = f[i] + Len(p[i].code) + p[i].literals
  <2>1. i + 1 \in 1 .. n + 1 /\ (i + 1) - 1 = i /\ i + 1 # 1
    BY <1>1
  <2>2. f[i + 1] = f[(i + 1) - 1] + Len(p[(i + 1) - 1].code) + p[(i + 1) - 1].literals
    BY <1>9, <2>1
  <2> QED
    BY <2>1, <2>2
<1>12. ASSUME NEW i \in 1 .. n, f[i] \in Nat PROVE f[i + 1] \in Nat
  <2>1. f[i + 1] = f[i] + Len(p[i].code) + p[i].literals
    BY <1>11
  <2>2. f[i] \in Nat /\ Len(p[i].code) \in Nat /\ p[i].literals \in Nat
    BY <1>2, <1>12
  <2>3. \A a, b, c \in Nat : a + b + c \in Nat
    OBVIOUS
  <2> QED
    BY SMTT(30), <2>1, <2>2, <2>3
<1>13. \A i \in 1 .. n + 1 : f[i] \in Nat
  <2>1. f[1] \in Nat
    BY <1>10
  <2> QED
    BY <1>1, <1>12, <2>1, AllNat, Zenon
<1>14. f \in [1 .. n + 1 -> Nat]
  BY <1>9, <1>13
<1>15. ASSUME NEW i \in 1 .. n PROVE f[i + 1] = f[i] + (Len(p[i].code) + p[i].literals)
  <2>1. f[i] \in Nat
    BY <1>1, <1>13
  <2> QED
    BY <1>2, <1>11, <2>1
<1> QED
  BY <1>2, <1>3, <1>10, <1>14, <1>15 DEF f, n

LEMMA Wider ==
  ASSUME NEW A, NEW B, A \subseteq B, NEW q \in Seq(A)
  PROVE  q \in Seq(B)
<1>1. Len(q) \in Nat /\ q \in [1 .. Len(q) -> A]
  BY LenProperties
<1>2. q \in [1 .. Len(q) -> B]
  BY <1>1
<1> QED
  BY <1>1, <1>2

(* What the pieces come to is written, no byte more.                       *)
LEMMA BytesLen ==
  ASSUME NEW p \in Seq(PieceType), NEW t, NEW from \in Nat
  PROVE  IsSeq(Bytes(p, t, from)) /\ Len(Bytes(p, t, from)) = Offsets(p)[Len(p) + 1]
<1> DEFINE n == Len(p)
           Flat(f) == f = [i \in 1 .. Len(p) + 1 |-> IF i = 1 THEN from ELSE f[i - 1] + p[i - 1].literals]
           chosen == CHOOSE f : Flat(f)
           step == [e \in (1 .. n) \X Nat |-> e[2] + p[e[1]].literals]
<1>1. n \in Nat /\ DOMAIN p = 1 .. n /\ \A i \in 1 .. n : p[i] \in PieceType
  BY LenProperties, ElementOfSeq
<1>2. \A i \in 1 .. n : p[i].code \in Seq(Int) /\ p[i].literals \in Nat
  BY <1>1 DEF PieceType
<1>3. Bytes(p, t, from) =
        FlattenSeq([i \in DOMAIN p |-> p[i].code \o SubSeq(t, chosen[i] + 1, chosen[i + 1])])
  BY DEF Bytes
<1> HIDE DEF n
<1>4. step \in [(1 .. n) \X Nat -> Nat]
  BY <1>2
<1> HIDE DEF step
<1>5. \E g \in [1 .. n + 1 -> Nat] : Steps(g, n, from, step)
  BY <1>1, <1>4, Recursion
<1>6. PICK g \in [1 .. n + 1 -> Nat] : Steps(g, n, from, step)
  BY <1>5
<1>7. Flat(g)
  <2>1. ASSUME NEW i \in 1 .. n + 1
        PROVE  g[i] = IF i = 1 THEN from ELSE g[i - 1] + p[i - 1].literals
    <3>1. CASE i = 1
      BY <1>6, <3>1 DEF Steps
    <3>2. CASE i # 1
      <4>1. i - 1 \in 1 .. n /\ i - 1 \in 1 .. n + 1 /\ (i - 1) + 1 = i
        BY <1>1, <3>2
      <4>2. g[i] = step[<<i - 1, g[i - 1]>>] /\ g[i - 1] \in Nat
        BY <1>6, <4>1 DEF Steps
      <4>3. step[<<i - 1, g[i - 1]>>] = g[i - 1] + p[i - 1].literals
        BY <4>1, <4>2 DEF step
      <4> QED
        BY <3>2, <4>2, <4>3
    <3> QED
      BY <3>1, <3>2
  <2> QED
    BY <1>6, <2>1 DEF n
<1> HIDE DEF Flat
<1>8. Flat(chosen)
  BY <1>7
<1> DEFINE f == chosen
<1>9. f = [i \in 1 .. n + 1 |-> IF i = 1 THEN from ELSE f[i - 1] + p[i - 1].literals]
  BY <1>8 DEF Flat, n
<1> HIDE DEF f
<1>10. f[1] \in Nat
  BY <1>1, <1>9
<1>11. ASSUME NEW i \in 1 .. n PROVE f[i + 1] = f[i] + p[i].literals
  <2>1. i + 1 \in 1 .. n + 1 /\ (i + 1) - 1 = i /\ i + 1 # 1
    BY <1>1
  <2>2. f[i + 1] = f[(i + 1) - 1] + p[(i + 1) - 1].literals
    BY <1>9, <2>1
  <2> QED
    BY <2>1, <2>2
<1>12. ASSUME NEW i \in 1 .. n, f[i] \in Nat PROVE f[i + 1] \in Nat
  <2>1. f[i] \in Nat /\ p[i].literals \in Nat
    BY <1>2, <1>12
  <2> QED
    BY <1>11, <2>1
<1>13. \A i \in 1 .. n + 1 : f[i] \in Nat
  BY <1>1, <1>10, <1>12, AllNat, Zenon
<1> DEFINE V == Int \cup {t[j] : j \in Int}
           seqs == [i \in 1 .. n |-> p[i].code \o SubSeq(t, f[i] + 1, f[i + 1])]
<1>14. ASSUME NEW i \in 1 .. n
       PROVE  seqs[i] \in Seq(V) /\ Len(seqs[i]) = Len(p[i].code) + p[i].literals
  <2>1. i \in 1 .. n + 1 /\ i + 1 \in 1 .. n + 1
    BY <1>1
  <2>2. f[i] \in Nat /\ f[i + 1] \in Nat
    BY <1>13, <2>1
  <2>3. f[i + 1] = f[i] + p[i].literals /\ p[i].literals \in Nat
    BY <1>2, <1>11
  <2> DEFINE lits == SubSeq(t, f[i] + 1, f[i + 1])
             a == f[i] + 1
             b == f[i + 1]
  <2>4. a \in Int /\ b \in Int /\ (IF a <= b THEN b - a + 1 ELSE 0) = p[i].literals
    BY SMTT(30), <2>2, <2>3
  <2>5. lits \in Seq(V) /\ Len(lits) = p[i].literals
    <3>1. \A j \in a .. b : t[j] \in V
      OBVIOUS
    <3>2. lits = SubSeq(t, a, b)
      OBVIOUS
    <3> HIDE DEF V, lits, a, b
    <3>3. SubSeq(t, a, b) \in Seq(V) /\ Len(SubSeq(t, a, b)) = IF a <= b THEN b - a + 1 ELSE 0
      BY <2>4, <3>1, SubSeqProperties
    <3> QED
      BY <2>4, <3>2, <3>3
  <2>6. p[i].code \in Seq(V)
    <3>1. Int \subseteq V
      OBVIOUS
    <3> HIDE DEF V
    <3> QED
      BY <1>2, <3>1, Wider
  <2>7. seqs[i] = p[i].code \o lits
    OBVIOUS
  <2> HIDE DEF V, lits, seqs
  <2> QED
    BY <2>5, <2>6, <2>7, ConcatProperties
<1>15. seqs \in Seq(Seq(V)) /\ Len(seqs) = n
  <2>1. seqs \in [1 .. n -> Seq(V)]
    BY <1>14
  <2> HIDE DEF V, seqs
  <2> QED
    BY <1>1, <2>1, FunctionSeq
<1>16. Bytes(p, t, from) = FlattenSeq(seqs)
  BY <1>1, <1>3 DEF f
<1> HIDE DEF V, seqs
<1> DEFINE off == Offsets(p)
<1>17. /\ off \in [1 .. n + 1 -> Nat] /\ off[1] = 0
       /\ \A i \in 1 .. n : off[i + 1] = off[i] + (Len(p[i].code) + p[i].literals)
  BY OffsetsSum DEF n
<1> HIDE DEF off
<1>18. \A i \in 1 .. Len(seqs) : off[i + 1] = off[i] + Len(seqs[i])
  BY <1>14, <1>15, <1>17
<1>19. FlattenSeq(seqs) \in Seq(V) /\ Len(FlattenSeq(seqs)) = off[Len(seqs) + 1]
  <2>1. off \in [1 .. Len(seqs) + 1 -> Nat]
    BY <1>15, <1>17
  <2> QED
    BY <1>15, <1>17, <1>18, <2>1, FlattenLen
<1> QED
  BY <1>15, <1>16, <1>19, SomeSeq DEF off, n

----------------------------------------------------------------------------
(* The instruction that opens a match is decoded to what it was made of,   *)
(* for every literal count, match length and distance of the format.       *)


(* At most three literals go with a match, and a match that is opened has  *)
(* a length that its form can hold.                                        *)
LEMMA LiteralsWithinBounded ==
  ASSUME NEW L \in Nat
  PROVE  LiteralsWithin(L) \in 0 .. 3
<1>1. LongCount \in Nat \ {0}
  BY LongCountAssumption
<1>2. L % LongCount \in Nat
  BY <1>1
<1> QED
  BY <1>2 DEF LiteralsWithin

(* Which instruction the opcodes with a three-bit last field stand for.    *)
LEMMA OtherOpcodes ==
  ASSUME NEW op \in 0 .. 111 \cup 128 .. 159 \cup 192 .. 207
  PROVE  /\ op % 8 <= 5 => Instruction(op) = "sml_d"
         /\ op % 8 = 7 => Instruction(op) = "lrg_d"
         /\ op % 8 = 6 /\ op >= 64 => Instruction(op) = "pre_d"
<1>1. /\ op \notin 240 .. 255 /\ op \notin 224 .. 239
      /\ op \notin 112 .. 127 \cup 208 .. 223 /\ op \notin 160 .. 191
      /\ op \in Int
  OBVIOUS
<1>2. Instruction(op) =
        IF op % 8 <= 5 THEN "sml_d"
        ELSE IF op % 8 = 7 THEN "lrg_d"
        ELSE IF op >= 64 THEN "pre_d"
        ELSE IF op = 6 THEN "eos"
        ELSE IF op \in {14, 22} THEN "nop" ELSE "udef"
  BY <1>1 DEF Instruction
<1>3. op % 8 = 7 => ~(op % 8 <= 5)
  BY <1>1
<1>4. op % 8 = 6 => ~(op % 8 <= 5) /\ op % 8 # 7
  BY <1>1
<1> QED
  BY <1>2, <1>3, <1>4

(* The literal and match fields of those instructions.                     *)
LEMMA FieldsOfShort ==
  ASSUME NEW op \in Nat, Instruction(op) \in {"sml_d", "lrg_d", "pre_d"},
         NEW second \in Nat
  PROVE  LiteralOf(op, second) = op \div 64 /\ MatchOf(op, second) = ((op \div 8) % 8) + 3
BY DEF LiteralOf, MatchOf

(* The three fields of an opcode that holds a match of up to 10 bytes.     *)
LEMMA ShortFields ==
  ASSUME NEW w \in 0 .. 3, NEW y \in 0 .. 7 - 2 * w, NEW low \in 0 .. 7,
         NEW op, op = 64 * w + 8 * y + low
  PROVE  /\ op \in 0 .. 111 \cup 128 .. 159 \cup 192 .. 207
         /\ op % 8 = low /\ op \div 64 = w /\ (op \div 8) % 8 = y
         /\ w # 0 => op >= 64
OBVIOUS

LEMMA TwoBytes ==
  ASSUME NEW a \in Int, 0 <= a, a <= 65535,
         NEW q \in Int, NEW r \in Int, 0 <= r, r < 256, a = 256 * q + r
  PROVE  0 <= q /\ q <= 255 /\ r % 4 = a % 4 /\ (a < 1536 => q <= 5)
OBVIOUS

LEMMA BytesOf ==
  ASSUME NEW a \in Int, 0 <= a, a <= 65535
  PROVE  /\ a \div 256 \in 0 .. 255 /\ a % 256 \in 0 .. 255
         /\ 256 * (a \div 256) + (a % 256) = a
         /\ (a % 256) % 4 = a % 4
         /\ a < 1536 => a \div 256 <= 5
<1> DEFINE q == a \div 256
           r == a % 256
<1>1. q \in Int /\ r \in Int /\ 0 <= r /\ r < 256 /\ a = 256 * q + r
  OBVIOUS
<1> HIDE DEF q, r
<1>2. 0 <= q /\ q <= 255 /\ r % 4 = a % 4 /\ (a < 1536 => q <= 5)
  BY <1>1, TwoBytes
<1>3. q \in 0 .. 255 /\ r \in 0 .. 255
  BY <1>1, <1>2
<1> QED
  BY <1>1, <1>2, <1>3 DEF q, r

(* The opcode of the form for middle distances, whose match length is      *)
(* parted: its two low bits share the two operand bytes with the distance. *)
LEMMA MediumOpcode ==
  ASSUME NEW w \in 0 .. 3, NEW q \in 0 .. 7,
         NEW op, op = 160 + q + 8 * w
  PROVE  op \in 160 .. 191 /\ (op \div 8) % 4 = w /\ op % 8 = q
OBVIOUS

(* What has to be shown of an opcode with none, one or two operand bytes.  *)
LEMMA ReadsBackOne ==
  ASSUME NEW L, NEW M, NEW D, NEW previous, NEW op \in 0 .. 255,
         <<op>> = Opening(L, M, D, previous).code,
         Instruction(op) \notin {"eos", "nop", "udef"}, OpcodeLength(op) = 1,
         LiteralOf(op, 0) = LiteralsWithin(L),
         MatchOf(op, 0) = OpeningLength(L, M, D, previous),
         DistanceOf(op, 0, 0, previous) = D
  PROVE  OpeningDecodes(L, M, D, previous)
<1> DEFINE code == <<op>>
<1>1. /\ Len(code) = 1 /\ Len(code) \in 1 .. 3 /\ code[1] = op /\ 0 \in 0 .. 255
      /\ 0 = (IF Len(code) > 1 THEN code[2] ELSE 0)
      /\ 0 = (IF Len(code) > 2 THEN code[3] ELSE 0)
  OBVIOUS
<1>2. Opening(L, M, D, previous).code = code /\ OpcodeLength(op) = Len(code)
  BY <1>1
<1> HIDE DEF code
<1> DEFINE made == Opening(L, M, D, previous).code
<1>3. /\ made[1] = op /\ OpcodeLength(op) = Len(made)
      /\ (IF Len(made) > 1 THEN made[2] ELSE 0) = 0
      /\ (IF Len(made) > 2 THEN made[3] ELSE 0) = 0
  BY <1>1, <1>2
<1>4. op \in 0 .. 255 /\ 0 \in 0 .. 255 /\ 0 \in 0 .. 255
  BY <1>1
<1> QED
  BY <1>3, <1>4 DEF OpeningDecodes

LEMMA ReadsBackTwo ==
  ASSUME NEW L, NEW M, NEW D, NEW previous, NEW op \in 0 .. 255, NEW second \in 0 .. 255,
         <<op, second>> = Opening(L, M, D, previous).code,
         Instruction(op) \notin {"eos", "nop", "udef"}, OpcodeLength(op) = 2,
         LiteralOf(op, second) = LiteralsWithin(L),
         MatchOf(op, second) = OpeningLength(L, M, D, previous),
         DistanceOf(op, second, 0, previous) = D
  PROVE  OpeningDecodes(L, M, D, previous)
<1> DEFINE code == <<op, second>>
<1>1. /\ Len(code) = 2 /\ Len(code) \in 1 .. 3 /\ code[1] = op /\ 0 \in 0 .. 255
      /\ second = (IF Len(code) > 1 THEN code[2] ELSE 0)
      /\ 0 = (IF Len(code) > 2 THEN code[3] ELSE 0)
  OBVIOUS
<1>2. Opening(L, M, D, previous).code = code /\ OpcodeLength(op) = Len(code)
  BY <1>1
<1> HIDE DEF code
<1> DEFINE made == Opening(L, M, D, previous).code
<1>3. /\ made[1] = op /\ OpcodeLength(op) = Len(made)
      /\ (IF Len(made) > 1 THEN made[2] ELSE 0) = second
      /\ (IF Len(made) > 2 THEN made[3] ELSE 0) = 0
  BY <1>1, <1>2
<1>4. op \in 0 .. 255 /\ second \in 0 .. 255 /\ 0 \in 0 .. 255
  BY <1>1
<1> QED
  BY <1>3, <1>4 DEF OpeningDecodes

LEMMA ReadsBackThree ==
  ASSUME NEW L, NEW M, NEW D, NEW previous,
         NEW op \in 0 .. 255, NEW second \in 0 .. 255, NEW third \in 0 .. 255,
         <<op, second, third>> = Opening(L, M, D, previous).code,
         Instruction(op) \notin {"eos", "nop", "udef"}, OpcodeLength(op) = 3,
         LiteralOf(op, second) = LiteralsWithin(L),
         MatchOf(op, second) = OpeningLength(L, M, D, previous),
         DistanceOf(op, second, third, previous) = D
  PROVE  OpeningDecodes(L, M, D, previous)
<1> DEFINE code == <<op, second, third>>
<1>1. /\ Len(code) = 3 /\ Len(code) \in 1 .. 3 /\ code[1] = op
      /\ second = (IF Len(code) > 1 THEN code[2] ELSE 0)
      /\ third = (IF Len(code) > 2 THEN code[3] ELSE 0)
  OBVIOUS
<1>2. Opening(L, M, D, previous).code = code /\ OpcodeLength(op) = Len(code)
  BY <1>1
<1> HIDE DEF code
<1> DEFINE made == Opening(L, M, D, previous).code
<1>3. made = code
  BY <1>2
<1> HIDE DEF made
<1>4. /\ made[1] = op /\ OpcodeLength(op) = Len(made)
      /\ (IF Len(made) > 1 THEN made[2] ELSE 0) = second
      /\ (IF Len(made) > 2 THEN made[3] ELSE 0) = third
  BY <1>1, <1>2, <1>3
<1>5. op \in 0 .. 255 /\ second \in 0 .. 255 /\ third \in 0 .. 255
  BY <1>1
<1> QED
  BY <1>4, <1>5 DEF OpeningDecodes, made

(* emit(): the encoder's opcode is an instruction with a literal, a match  *)
(* and a distance, as long as it was written, and it reads back as what    *)
(* was written, though the opcodes of the forms overlap beyond the ranges  *)
(* the encoder keeps to.                                                   *)
THEOREM OpeningReadsBack ==
  ASSUME NEW L \in Nat, NEW M \in Nat, M >= 3, NEW D \in Nat, 1 <= D, D <= MaxDistance,
         NEW previous \in Nat
  PROVE  OpeningDecodes(L, M, D, previous)
<1> DEFINE w == LiteralsWithin(L)
           first == Lesser(M, 10 - 2 * w)
           medium == IsMedium(M, D, previous, w, first)
           x == OpeningLength(L, M, D, previous)
           wide == 4 * D + ((x - 3) % 4)
           code == Opening(L, M, D, previous).code
<1>1. w \in 0 .. 3
  BY LiteralsWithinBounded
<1>2. first \in 3 .. 10 - 2 * w
  BY <1>1 DEF Lesser
<1>3. x = IF medium THEN M ELSE first
  BY DEF OpeningLength
<1>4. code = IF D = previous
               THEN IF w = 0 THEN <<240 + x>> ELSE <<64 * w + 8 * (x - 3) + 6>>
             ELSE IF D < ShortDistance
               THEN <<(D \div 256) + 64 * w + 8 * (x - 3), D % 256>>
             ELSE IF medium
               THEN <<160 + ((x - 3) \div 4) + 8 * w, wide % 256, wide \div 256>>
             ELSE <<64 * w + 8 * (x - 3) + 7, D % 256, D \div 256>>
  BY DEF Opening, Piece
<1>5. medium => D # previous /\ D >= 1536 /\ D <= 16383 /\ M <= 34
  BY DEF IsMedium, ShortDistance, LongDistance
<1>6. /\ D \div 256 \in 0 .. 255 /\ D % 256 \in 0 .. 255
      /\ 256 * (D \div 256) + (D % 256) = D
      /\ D < 1536 => D \div 256 <= 5
  BY BytesOf DEF MaxDistance
<1> HIDE DEF w, first, medium, x, code
<1>7. CASE D = previous /\ w = 0
  <2>1. code = <<240 + x>> /\ x \in 3 .. 10
    BY <1>2, <1>3, <1>4, <1>5, <1>7
  <2> DEFINE op == 240 + x
  <2>2. op \in 241 .. 255 /\ op % 16 = x
    BY <2>1
  <2>3. code = <<op>>
    BY <2>1
  <2> HIDE DEF op
  <2>4. Instruction(op) = "sml_m" /\ op \in 0 .. 255
    BY <2>2 DEF Instruction
  <2>5. OpcodeLength(op) = 1
    BY <2>4 DEF OpcodeLength
  <2>6. LiteralOf(op, 0) = 0 /\ MatchOf(op, 0) = op % 16
    BY <2>4 DEF LiteralOf, MatchOf
  <2>7. DistanceOf(op, 0, 0, previous) = previous
    BY <2>4 DEF DistanceOf
  <2>8. /\ LiteralOf(op, 0) = LiteralsWithin(L) /\ MatchOf(op, 0) = OpeningLength(L, M, D, previous)
        /\ DistanceOf(op, 0, 0, previous) = D
    BY <1>7, <2>2, <2>6, <2>7 DEF w, x
  <2>9. <<op>> = Opening(L, M, D, previous).code /\ Instruction(op) \notin {"eos", "nop", "udef"}
    BY <2>3, <2>4 DEF code
  <2> QED
    BY <2>4, <2>5, <2>8, <2>9, ReadsBackOne
<1>8. CASE D = previous /\ w # 0
  <2> DEFINE op == 64 * w + 8 * (x - 3) + 6
  <2>1. code = <<op>> /\ x \in 3 .. 10 - 2 * w /\ w \in 1 .. 3
    BY <1>1, <1>2, <1>3, <1>4, <1>5, <1>8
  <2>2. /\ op \in 64 .. 111 \cup 128 .. 159 \cup 192 .. 207
        /\ op % 8 = 6 /\ op \div 64 = w /\ (op \div 8) % 8 = x - 3
    BY <2>1
  <2> HIDE DEF op
  <2>3. Instruction(op) = "pre_d"
    BY <2>2, OtherOpcodes
  <2>4. OpcodeLength(op) = 1
    BY <2>3 DEF OpcodeLength
  <2>5. LiteralOf(op, 0) = w /\ MatchOf(op, 0) = x
    BY <2>1, <2>2, <2>3, FieldsOfShort
  <2>6. DistanceOf(op, 0, 0, previous) = D
    BY <1>8, <2>3 DEF DistanceOf
  <2>7. op \in 0 .. 255 /\ <<op>> = Opening(L, M, D, previous).code
        /\ Instruction(op) \notin {"eos", "nop", "udef"}
    BY <2>1, <2>2, <2>3 DEF code
  <2>8. LiteralOf(op, 0) = LiteralsWithin(L) /\ MatchOf(op, 0) = OpeningLength(L, M, D, previous)
    BY <2>5 DEF w, x
  <2> QED
    BY <2>4, <2>6, <2>7, <2>8, ReadsBackOne
<1>9. CASE D # previous /\ D < 1536
  <2> DEFINE op == (D \div 256) + 64 * w + 8 * (x - 3)
  <2>1. code = <<op, D % 256>> /\ x \in 3 .. 10 - 2 * w
    BY <1>1, <1>2, <1>3, <1>4, <1>5, <1>9 DEF ShortDistance
  <2>2. x - 3 \in 0 .. 7 - 2 * w /\ D \div 256 \in 0 .. 5 /\ x = (x - 3) + 3
        /\ op = 64 * w + 8 * (x - 3) + (D \div 256)
    BY <1>1, <1>6, <1>9, <2>1
  <2> HIDE DEF op
  <2> DEFINE y == x - 3
             low == D \div 256
  <2>3. y \in 0 .. 7 - 2 * w /\ low \in 0 .. 7 /\ low <= 5 /\ op = 64 * w + 8 * y + low
    BY <2>2
  <2> HIDE DEF op, y, low
  <2>4. /\ op \in 0 .. 111 \cup 128 .. 159 \cup 192 .. 207
        /\ op % 8 = low /\ op \div 64 = w /\ (op \div 8) % 8 = y
    BY SMTT(60), <1>1, <2>3, ShortFields
  <2>5. Instruction(op) = "sml_d"
    BY <2>3, <2>4, OtherOpcodes
  <2>6. OpcodeLength(op) = 2
    BY <2>5 DEF OpcodeLength
  <2> DEFINE second == D % 256
  <2>7. second \in 0 .. 255 /\ second \in Nat /\ op \in 0 .. 255 /\ op \in Nat
        /\ 256 * (op % 8) + second = D
    BY <1>6, <2>4 DEF low
  <2>8. code = <<op, second>>
    BY <2>1
  <2> HIDE DEF second
  <2>9. LiteralOf(op, second) = w /\ MatchOf(op, second) = x
    BY <2>2, <2>4, <2>5, <2>7, FieldsOfShort DEF y
  <2>10. DistanceOf(op, second, 0, previous) = D
    BY <2>5, <2>7 DEF DistanceOf
  <2>11. <<op, second>> = Opening(L, M, D, previous).code
         /\ Instruction(op) \notin {"eos", "nop", "udef"}
    BY <2>5, <2>8 DEF code
  <2>12. LiteralOf(op, second) = LiteralsWithin(L)
         /\ MatchOf(op, second) = OpeningLength(L, M, D, previous)
    BY <2>9 DEF w, x
  <2> QED
    BY ZenonT(60), <2>6, <2>7, <2>10, <2>11, <2>12, ReadsBackTwo
<1>10. CASE medium
  <2> DEFINE op == 160 + ((x - 3) \div 4) + 8 * w
             second == wide % 256
             third == wide \div 256
  <2>1. code = <<op, second, third>> /\ x \in 3 .. 34
    BY <1>3, <1>4, <1>5, <1>10 DEF ShortDistance
  <2> DEFINE y == x - 3
  <2>2. y \in 0 .. 31 /\ x = y + 3 /\ D \in Int /\ 0 <= D /\ D <= 16383
    BY <1>5, <1>10, <2>1
  <2> DEFINE q == y \div 4
             r == y % 4
  <2>3. /\ q \in 0 .. 7 /\ op = 160 + q + 8 * w
        /\ r \in 0 .. 3 /\ wide = 4 * D + r
    <3>1. q \in 0 .. 7 /\ r \in 0 .. 3
      BY <2>2
    <3> QED
      BY Zenon, <3>1
  <2> HIDE DEF y, op, wide, q, r
  <2>4. op \in 160 .. 191 /\ (op \div 8) % 4 = w /\ op % 8 = q
    BY <1>1, <2>3, MediumOpcode
  <2>5. /\ second \in 0 .. 255 /\ third \in 0 .. 255 /\ second % 4 = r
        /\ (256 * third + second) \div 4 = D
    <3>1. /\ wide \in Int /\ 0 <= wide /\ wide <= 65535
          /\ wide % 4 = r /\ wide \div 4 = D
      BY <2>2, <2>3
    <3>2. /\ second \in 0 .. 255 /\ third \in 0 .. 255
          /\ 256 * third + second = wide /\ second % 4 = wide % 4
      BY <3>1, BytesOf
    <3> QED
      BY <3>1, <3>2
  <2>6. 4 * (op % 8) + (second % 4) = y
    BY <2>2, <2>4, <2>5 DEF q, r
  <2> HIDE DEF second, third
  <2>7. Instruction(op) = "med_d" /\ op \in 0 .. 255
    BY <2>4 DEF Instruction
  <2>8. OpcodeLength(op) = 3
    BY <2>7 DEF OpcodeLength
  <2>9. LiteralOf(op, second) = w
    BY <2>4, <2>7 DEF LiteralOf
  <2>10. MatchOf(op, second) = 4 * (op % 8) + (second % 4) + 3
    BY <2>7 DEF MatchOf
  <2>11. DistanceOf(op, second, third, previous) = D
    BY <2>7, <2>5 DEF DistanceOf
  <2>12. MatchOf(op, second) = x
    BY <2>2, <2>10, <2>6
  <2>13. <<op, second, third>> = Opening(L, M, D, previous).code
         /\ Instruction(op) \notin {"eos", "nop", "udef"}
    BY <2>1, <2>7 DEF code
  <2>14. LiteralOf(op, second) = LiteralsWithin(L)
         /\ MatchOf(op, second) = OpeningLength(L, M, D, previous)
    BY <2>9, <2>12 DEF w, x
  <2> QED
    BY ZenonT(60), <2>7, <2>8, <2>11, <2>13, <2>14, <2>5, ReadsBackThree
<1>11. CASE D # previous /\ D >= 1536 /\ ~medium
  <2> DEFINE op == 64 * w + 8 * (x - 3) + 7
  <2>1. code = <<op, D % 256, D \div 256>> /\ x \in 3 .. 10 - 2 * w
    BY <1>2, <1>3, <1>4, <1>11 DEF ShortDistance
  <2> DEFINE y == x - 3
             low == 7
             second == D % 256
             third == D \div 256
  <2>2. y \in 0 .. 7 - 2 * w /\ x = y + 3 /\ low \in 0 .. 7 /\ low = 7
        /\ op = 64 * w + 8 * y + low
    BY <1>1, <2>1
  <2> HIDE DEF op, y, low
  <2>3. /\ op \in 0 .. 111 \cup 128 .. 159 \cup 192 .. 207
        /\ op % 8 = low /\ op \div 64 = w /\ (op \div 8) % 8 = y
    BY SMTT(60), <1>1, <2>2, ShortFields
  <2>4. Instruction(op) = "lrg_d"
    BY <2>2, <2>3, OtherOpcodes
  <2>5. OpcodeLength(op) = 3
    BY <2>4 DEF OpcodeLength
  <2>6. /\ second \in 0 .. 255 /\ second \in Nat /\ third \in 0 .. 255 /\ third \in Nat
        /\ op \in 0 .. 255 /\ op \in Nat /\ 256 * third + second = D
    BY <1>6, <2>3
  <2>7. code = <<op, second, third>>
    BY <2>1
  <2> HIDE DEF second, third
  <2>8. LiteralOf(op, second) = w /\ MatchOf(op, second) = x
    BY <2>2, <2>3, <2>4, <2>6, FieldsOfShort
  <2>9. DistanceOf(op, second, third, previous) = D
    BY <2>4, <2>6 DEF DistanceOf
  <2>10. <<op, second, third>> = Opening(L, M, D, previous).code
         /\ Instruction(op) \notin {"eos", "nop", "udef"}
    BY <2>4, <2>7 DEF code
  <2>11. LiteralOf(op, second) = LiteralsWithin(L)
         /\ MatchOf(op, second) = OpeningLength(L, M, D, previous)
    BY <2>8 DEF w, x
  <2> QED
    BY ZenonT(60), <2>5, <2>6, <2>9, <2>10, <2>11, ReadsBackThree
<1> QED
  BY <1>7, <1>8, <1>9, <1>10, <1>11

(* A piece that is asked as much room as it writes and touches.            *)
Careful(e) ==
  e \in PieceType /\ Len(e.code) + e.literals <= e.need /\ e.touched <= e.need

(* A part of a count n that is split LongCount at a time.                  *)
LEMMA Split ==
  ASSUME NEW n \in Nat, NEW least \in 1 .. 4,
         NEW i \in 1 .. (n + LongCount - least) \div LongCount
  PROVE  Lesser(LongCount, n - LongCount * (i - 1)) \in least .. LongCount
<1> DEFINE q == (n + LongCount - least) \div LongCount
<1>1. LongCount \in Nat /\ LongCount >= 16
  BY LongCountAssumption
<1>2. n + LongCount - least \in Int
  BY <1>1
<1>3. q \in Int /\ LongCount * q <= n + LongCount - least
  <2>1. \A a \in Int, K \in Nat : K >= 1 => a \div K \in Int /\ K * (a \div K) <= a
    OBVIOUS
  <2> QED
    BY <1>1, <1>2, <2>1
<1> HIDE DEF q
<1>4. i \in Nat /\ i <= q /\ i - 1 \in Nat
  BY <1>3 DEF q
<1>5. LongCount * i <= LongCount * q
  <2>1. \A a, b \in Int, K \in Nat : a <= b => K * a <= K * b
    OBVIOUS
  <2> QED
    BY <1>1, <1>3, <1>4, <2>1
<1>6. LongCount * (i - 1) = LongCount * i - LongCount /\ LongCount * i \in Nat
      /\ LongCount * q \in Int /\ LongCount * (i - 1) \in Int
  BY <1>1, <1>3, <1>4
<1> DEFINE before == LongCount * (i - 1)
<1>7. n - before \in Int /\ n - before >= least
  <2>1. LongCount * i <= n + LongCount - least
    BY <1>1, <1>3, <1>5, <1>6
  <2> QED
    BY <1>1, <1>6, <2>1
<1> HIDE DEF before
<1>8. Lesser(LongCount, n - before) \in least .. LongCount
  BY <1>1, <1>6, <1>7 DEF Lesser
<1> QED
  BY <1>8 DEF before

LEMMA Parts ==
  ASSUME NEW n \in Nat
  PROVE  \E k \in Nat : k = (n + LongCount - 4) \div LongCount
<1>1. LongCount \in Nat /\ LongCount >= 16
  BY LongCountAssumption
<1>2. n + LongCount - 4 \in Nat
  BY <1>1
<1>3. \A a \in Nat, K \in Nat : K >= 1 => a \div K \in Nat
  OBVIOUS
<1> QED
  BY <1>1, <1>2, <1>3

LEMMA OpcodeLen ==
  ASSUME NEW base \in Int, NEW n \in Int
  PROVE  Opcode(base, n) \in Seq(Int) /\ Len(Opcode(base, n)) \in 1 .. 2
<1>1. CASE n > 15
  BY <1>1 DEF Opcode
<1>2. CASE ~(n > 15)
  BY <1>2 DEF Opcode
<1> QED
  BY <1>1, <1>2

LEMMA LiteralPieceCareful ==
  ASSUME NEW n \in Nat, NEW touched \in Nat, touched <= n + 8
  PROVE  Careful(LiteralPiece(n, touched))
<1> DEFINE code == Opcode(224, n)
<1>1. code \in Seq(Int) /\ Len(code) \in 1 .. 2
  BY OpcodeLen
<1>2. LiteralPiece(n, touched) =
        [code |-> code, literals |-> n, need |-> n + 10, touched |-> Len(code) + touched]
  BY DEF LiteralPiece, Piece
<1> DEFINE size == Len(code)
<1>3. size \in 1 .. 2 /\ size + n <= n + 10 /\ size + touched <= n + 10 /\ size + touched \in Int
  <2>1. size \in 1 .. 2
    BY <1>1
  <2> HIDE DEF size
  <2> QED
    BY <2>1
<1>4. LiteralPiece(n, touched).code = code /\ LiteralPiece(n, touched).literals = n
      /\ LiteralPiece(n, touched).need = n + 10 /\ LiteralPiece(n, touched).touched = size + touched
      /\ Len(code) = size
  BY <1>2
<1>5. LiteralPiece(n, touched) \in PieceType
  BY <1>1, <1>2, <1>3 DEF PieceType
<1> HIDE DEF code, size
<1> QED
  BY <1>3, <1>4, <1>5 DEF Careful

(* A sequence of such pieces.                                              *)
AllCareful(p) == IsSeq(p) /\ \A i \in 1 .. Len(p) : Careful(p[i])

LEMMA CarefulFunction ==
  ASSUME NEW n \in Nat, NEW f, f = [i \in 1 .. n |-> f[i]], \A i \in 1 .. n : Careful(f[i])
  PROVE  AllCareful(f)
<1>1. f \in [1 .. n -> {f[i] : i \in 1 .. n}]
  OBVIOUS
<1>2. IsSeq(f) /\ Len(f) = n
  BY <1>1, FunctionSeq
<1> QED
  BY <1>2 DEF AllCareful

LEMMA CarefulConcat ==
  ASSUME NEW p, NEW q, AllCareful(p), AllCareful(q)
  PROVE  AllCareful(p \o q)
<1> DEFINE S == {p[i] : i \in 1 .. Len(p)} \cup {q[i] : i \in 1 .. Len(q)}
<1>1. p \in Seq(S) /\ q \in Seq(S)
  BY Wider DEF AllCareful, IsSeq
<1>2. \A e \in S : Careful(e)
  BY DEF AllCareful
<1> HIDE DEF S
<1>3. p \o q \in Seq(S)
  BY <1>1, ConcatProperties
<1>4. \A i \in 1 .. Len(p \o q) : (p \o q)[i] \in S
  BY <1>3, ElementOfSeq
<1> QED
  BY <1>2, <1>3, <1>4, SomeSeq DEF AllCareful

LEMMA LiteralsBeforeCareful ==
  ASSUME NEW L \in Nat
  PROVE  AllCareful(LiteralsBefore(L))
<1> DEFINE n(i) == Lesser(LongCount, L - LongCount * (i - 1))
           f == LiteralsBefore(L)
<1>1. PICK k \in Nat : k = (L + LongCount - 4) \div LongCount
  BY Parts
<1>2. f = [i \in 1 .. k |-> LiteralPiece(n(i), 8 * ((n(i) + 7) \div 8))]
  BY <1>1 DEF LiteralsBefore
<1>3. ASSUME NEW i \in 1 .. k PROVE n(i) \in Nat
  <2>1. n(i) \in 4 .. LongCount
    BY <1>1, Split
  <2> HIDE DEF n
  <2> QED
    BY <2>1, LongCountAssumption
<1> HIDE DEF n, f
<1>4. ASSUME NEW i \in 1 .. k PROVE Careful(f[i])
  <2> DEFINE t == 8 * ((n(i) + 7) \div 8)
  <2>1. t \in Nat /\ t <= n(i) + 8
    BY <1>3
  <2>2. f[i] = LiteralPiece(n(i), t)
    BY <1>2
  <2> HIDE DEF t
  <2> QED
    BY <1>3, <2>1, <2>2, LiteralPieceCareful
<1>5. AllCareful(f)
  <2>1. f = [i \in 1 .. k |-> f[i]]
    BY <1>2
  <2> QED
    BY <1>4, <2>1, CarefulFunction
<1> QED
  BY <1>5 DEF f

LEMMA CountsOf ==
  ASSUME NEW n \in Nat
  PROVE  \E k \in Nat : /\ DOMAIN Counts(n) = 1 .. k
                        /\ \A i \in 1 .. k : Counts(n)[i] \in Nat
<1>1. LongCount \in Nat /\ LongCount >= 16
  BY LongCountAssumption
<1>2. n + LongCount - 1 \in Nat
  BY <1>1
<1>3. \A a \in Nat, K \in Nat : K >= 1 => a \div K \in Nat
  OBVIOUS
<1>4. PICK k \in Nat : k = (n + LongCount - 1) \div LongCount
  BY <1>1, <1>2, <1>3
<1>5. Counts(n) = [i \in 1 .. k |-> Lesser(LongCount, n - LongCount * (i - 1))]
  BY <1>4 DEF Counts
<1>6. ASSUME NEW i \in 1 .. k PROVE Counts(n)[i] \in Nat
  <2>1. Lesser(LongCount, n - LongCount * (i - 1)) \in 1 .. LongCount
    BY <1>4, Split
  <2> QED
    BY <1>1, <1>5, <2>1
<1> QED
  BY <1>5, <1>6

LEMMA EmitLiteralCareful ==
  ASSUME NEW n \in Nat
  PROVE  AllCareful(EmitLiteral(n))
<1> DEFINE c == Counts(n)
           f == EmitLiteral(n)
<1>1. PICK k \in Nat : DOMAIN c = 1 .. k /\ \A i \in 1 .. k : c[i] \in Nat
  BY CountsOf
<1>2. f = [i \in 1 .. k |-> LiteralPiece(c[i], c[i])]
  BY <1>1 DEF EmitLiteral
<1> HIDE DEF c, f
<1>3. ASSUME NEW i \in 1 .. k PROVE Careful(f[i])
  <2>1. c[i] \in Nat /\ c[i] <= c[i] + 8
    BY <1>1
  <2> QED
    BY <1>2, <2>1, LiteralPieceCareful
<1>4. f = [i \in 1 .. k |-> f[i]]
  BY <1>2
<1>5. AllCareful(f)
  BY <1>3, <1>4, CarefulFunction
<1> QED
  BY <1>5 DEF f

LEMMA MatchesAfterCareful ==
  ASSUME NEW n \in Nat
  PROVE  AllCareful(MatchesAfter(n))
<1> DEFINE c == Counts(n)
           f == MatchesAfter(n)
<1>1. PICK k \in Nat : DOMAIN c = 1 .. k /\ \A i \in 1 .. k : c[i] \in Nat
  BY CountsOf
<1>2. f = [i \in 1 .. k |-> LET code == Opcode(240, c[i]) IN Piece(code, 0, Len(code), Len(code))]
  BY <1>1 DEF MatchesAfter
<1> HIDE DEF c, f
<1>3. ASSUME NEW i \in 1 .. k PROVE Careful(f[i])
  <2> DEFINE code == Opcode(240, c[i])
  <2>1. f[i] = [code |-> code, literals |-> 0, need |-> Len(code), touched |-> Len(code)]
    BY <1>2 DEF Piece
  <2>2. c[i] \in Int
    BY <1>1
  <2>3. code \in Seq(Int) /\ Len(code) \in 1 .. 2
    <3>1. \A m \in Int : Opcode(240, m) \in Seq(Int) /\ Len(Opcode(240, m)) \in 1 .. 2
      BY OpcodeLen
    <3> QED
      BY <2>2, <3>1, Zenon
  <2> HIDE DEF code
  <2> QED
    BY <2>1, <2>3 DEF Careful, PieceType
<1>4. f = [i \in 1 .. k |-> f[i]]
  BY <1>2
<1>5. AllCareful(f)
  BY <1>3, <1>4, CarefulFunction
<1> QED
  BY <1>5 DEF f

LEMMA OpeningCareful ==
  ASSUME NEW L \in Nat, NEW M \in Nat, M >= 3, NEW D \in Int, NEW previous
  PROVE  /\ Careful(Opening(L, M, D, previous))
         /\ OpeningLength(L, M, D, previous) \in Nat
         /\ M - OpeningLength(L, M, D, previous) \in Nat
<1> DEFINE within == LiteralsWithin(L)
           first == Lesser(M, 10 - 2 * within)
           x == OpeningLength(L, M, D, previous)
           e == Opening(L, M, D, previous)
<1>1. within \in 0 .. 3
  BY LiteralsWithinBounded
<1> HIDE DEF within
<1>2. first \in Nat /\ first <= M
  BY <1>1 DEF Lesser
<1>3. x = M \/ x = first
  BY DEF OpeningLength, within
<1> HIDE DEF first, x
<1>4. x \in Nat /\ M - x \in Nat
  BY <1>2, <1>3
<1> DEFINE wide == 4 * D + ((x - 3) % 4)
           same == IF within = 0 THEN <<240 + x>> ELSE <<64 * within + 8 * (x - 3) + 6>>
           short == <<(D \div 256) + 64 * within + 8 * (x - 3), D % 256>>
           medium == <<160 + ((x - 3) \div 4) + 8 * within, wide % 256, wide \div 256>>
           long == <<64 * within + 8 * (x - 3) + 7, D % 256, D \div 256>>
<1>5. \E code \in {same, short, medium, long} :
        e = [code |-> code, literals |-> within, need |-> 8, touched |-> Len(code) + 4]
  BY DEF Opening, Piece, within, x
<1>6. same \in Seq(Int) /\ Len(same) \in 1 .. 3
  <2>1. CASE within = 0
    BY <1>4, <2>1
  <2>2. CASE within # 0
    BY <1>1, <1>4, <2>2
  <2> QED
    BY <2>1, <2>2
<1>7. short \in Seq(Int) /\ Len(short) \in 1 .. 3
  BY <1>1, <1>4
<1>8. medium \in Seq(Int) /\ Len(medium) \in 1 .. 3
  <2>1. wide \in Int
    BY <1>4
  <2> HIDE DEF wide
  <2>2. wide % 256 \in Int /\ wide \div 256 \in Int
    BY <2>1
  <2>3. 160 + ((x - 3) \div 4) + 8 * within \in Int
    BY <1>1, <1>4
  <2> QED
    BY <2>2, <2>3
<1>9. long \in Seq(Int) /\ Len(long) \in 1 .. 3
  BY <1>1, <1>4
<1> HIDE DEF same, short, medium, long
<1>10. PICK code \in {same, short, medium, long} :
         e = [code |-> code, literals |-> within, need |-> 8, touched |-> Len(code) + 4]
  BY <1>5
<1>11. code \in Seq(Int) /\ Len(code) \in 1 .. 3
  BY <1>6, <1>7, <1>8, <1>9
<1> HIDE DEF e
<1> DEFINE size == Len(code)
<1>12. size + within <= 8 /\ size + 4 <= 8 /\ size + 4 \in Int
  <2>1. size \in 1 .. 3
    BY <1>11
  <2> HIDE DEF size
  <2> QED
    BY <1>1, <2>1
<1>13. e \in PieceType
  BY <1>1, <1>10, <1>11, <1>12 DEF PieceType
<1>14. e.code = code /\ e.literals = within /\ e.need = 8 /\ e.touched = size + 4
  BY <1>10
<1>15. Careful(e)
  BY <1>12, <1>13, <1>14 DEF Careful
<1> QED
  BY <1>4, <1>15 DEF e, x

LEMMA EmitCareful ==
  ASSUME NEW L \in Nat, NEW M \in Nat, M >= 3, NEW D \in Int, NEW previous
  PROVE  AllCareful(Emit(L, M, D, previous))
<1> DEFINE e == Opening(L, M, D, previous)
           rest == M - OpeningLength(L, M, D, previous)
<1>1. Careful(e) /\ rest \in Nat
  BY OpeningCareful
<1> HIDE DEF e, rest
<1>2. AllCareful(<<e>>)
  <2>1. <<e>> \in Seq({e}) /\ Len(<<e>>) = 1 /\ <<e>>[1] = e
    OBVIOUS
  <2>2. IsSeq(<<e>>)
    BY <2>1, SomeSeq
  <2> QED
    BY <1>1, <2>1, <2>2 DEF AllCareful
<1>3. AllCareful(LiteralsBefore(L)) /\ AllCareful(MatchesAfter(rest))
  BY <1>1, LiteralsBeforeCareful, MatchesAfterCareful
<1>4. AllCareful(LiteralsBefore(L) \o <<e>> \o MatchesAfter(rest))
  BY <1>2, <1>3, CarefulConcat
<1> QED
  BY <1>4 DEF Emit, e, rest

(* What fits is written inside the room, the wide stores included.         *)
LEMMA FitsInRoom ==
  ASSUME NEW p, AllCareful(p), NEW room \in Int, Fits(p, room)
  PROVE  /\ p \in Seq(PieceType)
         /\ \A i \in DOMAIN p : Offsets(p)[i] + p[i].touched <= room
         /\ Offsets(p)[Len(p) + 1] \in Nat
         /\ Offsets(p)[Len(p) + 1] = 0 \/ Offsets(p)[Len(p) + 1] <= room
<1>1. p \in Seq(PieceType)
  <2>1. {p[i] : i \in 1 .. Len(p)} \subseteq PieceType
    BY DEF AllCareful, Careful
  <2> QED
    BY <2>1, Wider DEF AllCareful, IsSeq
<1> DEFINE n == Len(p)
           off == Offsets(p)
<1>2. n \in Nat /\ DOMAIN p = 1 .. n
  BY <1>1, LenProperties
<1>3. /\ off \in [1 .. n + 1 -> Nat] /\ off[1] = 0
      /\ \A i \in 1 .. n : /\ Len(p[i].code) \in Nat /\ p[i].literals \in Nat
                           /\ off[i + 1] = off[i] + (Len(p[i].code) + p[i].literals)
  BY <1>1, OffsetsSum
<1>4. \A i \in 1 .. n : off[i] + p[i].need < room
  BY <1>2 DEF Fits
<1>5. \A i \in 1 .. n : /\ p[i].need \in Int /\ p[i].touched \in Int /\ p[i].touched <= p[i].need
                        /\ Len(p[i].code) + p[i].literals <= p[i].need
  BY <1>2 DEF AllCareful, Careful, PieceType
<1> HIDE DEF n, off
<1>6. ASSUME NEW i \in 1 .. n PROVE off[i] + p[i].touched <= room /\ off[i + 1] <= room
  <2>1. off[i] \in Nat
    BY <1>2, <1>3
  <2> DEFINE size == Len(p[i].code) + p[i].literals
             o == off[i]
  <2>2. size \in Nat /\ size <= p[i].need /\ off[i + 1] = o + size
    BY <1>3, <1>5
  <2>3. /\ o + p[i].need < room /\ p[i].need \in Int /\ p[i].touched \in Int
        /\ p[i].touched <= p[i].need /\ o \in Nat
    BY <1>4, <1>5, <2>1
  <2> HIDE DEF size, o
  <2>4. o + p[i].touched <= room /\ o + size <= room
    BY <2>2, <2>3
  <2> QED
    BY <2>2, <2>4 DEF o
<1>7. off[n + 1] \in Nat
  BY <1>2, <1>3
<1>8. off[n + 1] = 0 \/ off[n + 1] <= room
  <2>1. CASE n = 0
    BY <1>3, <2>1
  <2>2. CASE n # 0
    <3>1. n \in 1 .. n
      BY <1>2, <2>2
    <3> QED
      BY <1>6, <3>1
  <2> QED
    BY <2>1, <2>2
<1> QED
  BY <1>1, <1>2, <1>6, <1>7, <1>8 DEF n, off

----------------------------------------------------------------------------
(* The invariant.                                                          *)

MatchType == [mBegin : Int, mEnd : Int, M : Int, D : Int, K : Int]

EncoderTypes ==
  /\ text \in Seq(0 .. 255) /\ dstSize \in Nat
  /\ enc \in {"start", "search", "rest", "end", "encoded", "failed"}
  /\ srcCurrent \in Nat /\ srcLiteral \in Nat /\ srcLiteral <= SrcEnd
  /\ pending \in MatchType
  /\ dPrev \in Nat /\ dPrev <= srcLiteral

(* A match from a byte not yet encoded on, at a distance the format has.   *)
Repeats(m) ==
  /\ srcLiteral <= m.mBegin
  /\ m.mBegin + 8 <= SrcEnd
  /\ m.mEnd = m.mBegin + m.M
  /\ m.mEnd <= SrcEnd
  /\ m.M >= 3
  /\ m.D \in 1 .. MaxDistance
  /\ m.D <= m.mBegin
  /\ \A p \in m.mBegin .. m.mEnd - 1 : Agree(p, m.D)

(* How far the search is, and what it holds back.                          *)
SearchInv ==
  /\ enc = "start" => srcCurrent = 0 /\ srcLiteral = 0 /\ pending.M = 0
  /\ enc = "search" =>
       /\ srcCurrent + 8 <= SrcEnd
       /\ srcCurrent - srcLiteral <= Backlog + 1
       /\ pending.M = 0 => srcCurrent - srcLiteral <= Backlog
       /\ pending.M # 0 => Repeats(pending)

TableInv ==
  \A h \in DOMAIN table :
    \A k \in 1 .. 4 : table[h][k] \in Nat /\ table[h][k] <= srcCurrent

PayloadInv == IsSeq(payload) /\ Len(payload) <= dstSize

EncoderInv == EncoderTypes /\ SearchInv /\ TableInv /\ PayloadInv

LEMMA Distances ==
  ASSUME NEW D \in 1 .. MaxDistance
  PROVE  D \in Nat
<1>1. MaxDistance \in Nat
  BY SMTT(60) DEF MaxDistance
<1> QED
  BY <1>1

(* Forward and backward only bytes that agree are taken in.                *)
LEMMA ForwardSound ==
  ASSUME text \in Seq(0 .. 255), srcCurrent \in Nat, srcCurrent + 8 < SrcEnd, NEW D, Matches(D)
  PROVE  /\ ForwardEnd(D) \in Nat /\ srcCurrent + 3 <= ForwardEnd(D) /\ ForwardEnd(D) <= SrcEnd
         /\ \A p \in srcCurrent .. ForwardEnd(D) - 1 : Agree(p, D)
<1> DEFINE free == SrcEnd - 4 - srcCurrent + 3
           blocks == free \div 4
           stop == srcCurrent + 4 * (IF blocks > 1 THEN blocks ELSE 1)
           differ == {p \in srcCurrent .. stop - 1 : ~Agree(p, D)}
           e == ForwardEnd(D)
<1>1. SrcEnd \in Nat
  BY LenProperties DEF SrcEnd
<1>2. stop \in Nat /\ srcCurrent + 4 <= stop /\ stop <= SrcEnd
  <2>1. free \in Nat
    BY <1>1
  <2>2. blocks \in Nat /\ 4 * blocks <= free
    <3> HIDE DEF free
    <3> QED
      BY <2>1
  <2> HIDE DEF blocks
  <2>3. CASE blocks > 1
    BY <1>1, <2>2, <2>3
  <2>4. CASE ~(blocks > 1)
    BY <1>1, <2>2, <2>4
  <2> QED
    BY <2>3, <2>4
<1>3. e = IF differ = {} THEN stop ELSE CHOOSE p \in differ : \A q \in differ : p <= q
  BY DEF ForwardEnd
<1> HIDE DEF stop, e
<1>4. CASE differ = {}
  BY <1>1, <1>2, <1>3, <1>4 DEF e
<1>5. CASE differ # {}
  <2>1. differ \in SUBSET Nat
    BY <1>2
  <2>2. \E p \in differ : \A q \in differ : p <= q
    BY <1>5, <2>1, LeastElement
  <2>3. e \in differ /\ \A q \in differ : e <= q
    BY <1>3, <1>5, <2>2
  <2>4. e \in srcCurrent .. stop - 1 /\ ~Agree(e, D)
    BY <2>3
  <2>5. e \notin srcCurrent .. srcCurrent + 2
    BY <2>4 DEF Matches
  <2>6. e \in Nat /\ srcCurrent + 3 <= e /\ e <= SrcEnd
    BY <1>1, <1>2, <2>4, <2>5
  <2>7. ASSUME NEW p \in srcCurrent .. e - 1 PROVE Agree(p, D)
    <3>1. p \in srcCurrent .. stop - 1 /\ ~(e <= p)
      BY <1>2, <2>4
    <3> QED
      BY <2>3, <3>1
  <2> QED
    BY <2>6, <2>7 DEF e
<1> QED
  BY <1>4, <1>5

LEMMA BackwardSound ==
  ASSUME srcCurrent \in Nat, srcLiteral \in Nat, srcLiteral <= srcCurrent,
         NEW D \in Nat, D <= srcCurrent
  PROVE  /\ BackwardBegin(D) \in Nat /\ BackwardBegin(D) <= srcCurrent
         /\ srcLiteral <= BackwardBegin(D) /\ D <= BackwardBegin(D)
         /\ \A p \in BackwardBegin(D) .. srcCurrent - 1 : Agree(p, D)
<1> DEFINE least == IF D > srcLiteral THEN D ELSE srcLiteral
           Same(b) == \A p \in b .. srcCurrent - 1 : Agree(p, D)
           Begins(b) == Same(b) /\ (b > least => ~Agree(b - 1, D))
           T == {b \in least .. srcCurrent : Same(b)}
           begin == BackwardBegin(D)
<1>1. least \in Nat /\ least <= srcCurrent /\ srcLiteral <= least /\ D <= least
  OBVIOUS
<1>2. begin = CHOOSE b \in least .. srcCurrent : Begins(b)
  BY DEF BackwardBegin
<1> HIDE DEF least
<1>3. Same(srcCurrent)
  OBVIOUS
<1>4. T \in SUBSET Nat /\ srcCurrent \in T
  BY <1>1, <1>3
<1>5. PICK b \in T : \A c \in T : b <= c
  BY <1>4, LeastElement
<1>6. b \in least .. srcCurrent /\ Same(b)
  BY <1>5
<1>7. ASSUME b > least, Agree(b - 1, D) PROVE FALSE
  <2>1. b - 1 \in least .. srcCurrent /\ ~(b <= b - 1)
    BY <1>1, <1>6, <1>7
  <2>2. ASSUME NEW p \in b - 1 .. srcCurrent - 1 PROVE Agree(p, D)
    <3>1. p = b - 1 \/ p \in b .. srcCurrent - 1
      BY <1>1, <1>6
    <3> QED
      BY <1>6, <1>7, <3>1
  <2>3. b - 1 \in T
    BY <2>1, <2>2
  <2> QED
    BY <1>5, <2>1, <2>3
<1>8. Begins(b)
  BY <1>6, <1>7
<1> HIDE DEF begin, Begins
<1>9. begin \in least .. srcCurrent /\ Begins(begin)
  BY <1>2, <1>6, <1>8
<1>10. begin \in Nat /\ begin <= srcCurrent /\ srcLiteral <= begin /\ D <= begin
  BY <1>1, <1>9
<1> QED
  BY <1>9, <1>10 DEF Begins, begin

LEMMA FindMatchSound ==
  ASSUME EncoderTypes, srcCurrent + 8 < SrcEnd, srcLiteral <= srcCurrent,
         NEW D, Matches(D), D <= srcCurrent
  PROVE  FindMatch(D) \in MatchType /\ Repeats(FindMatch(D))
<1> DEFINE b == BackwardBegin(D)
           e == ForwardEnd(D)
           m == FindMatch(D)
<1>1. D \in Nat /\ D \in 1 .. MaxDistance
  <2>1. D \in 1 .. MaxDistance
    BY DEF Matches
  <2> QED
    BY <2>1, Distances
<1>2. srcCurrent \in Nat /\ srcLiteral \in Nat /\ text \in Seq(0 .. 255) /\ SrcEnd \in Nat
  BY LenProperties DEF EncoderTypes, SrcEnd
<1>3. /\ e \in Nat /\ srcCurrent + 3 <= e /\ e <= SrcEnd
      /\ \A p \in srcCurrent .. e - 1 : Agree(p, D)
  BY <1>2, ForwardSound
<1>4. /\ b \in Nat /\ b <= srcCurrent /\ srcLiteral <= b /\ D <= b
      /\ \A p \in b .. srcCurrent - 1 : Agree(p, D)
  BY <1>1, <1>2, BackwardSound
<1>5. \E k \in Int : m = [mBegin |-> b, mEnd |-> e, M |-> e - b, D |-> D, K |-> k]
  <2>1. e - b - (IF D < ShortDistance THEN 2 ELSE 3) \in Int
    BY <1>3, <1>4
  <2> QED
    BY <2>1 DEF FindMatch
<1> HIDE DEF b, e, m
<1>6. e - b \in Int /\ e - b >= 3 /\ e = b + (e - b) /\ b + 8 <= SrcEnd
  BY <1>2, <1>3, <1>4
<1>7. m \in MatchType /\ m.mBegin = b /\ m.mEnd = e /\ m.M = e - b /\ m.D = D
  BY <1>1, <1>3, <1>4, <1>5, <1>6 DEF MatchType
<1>8. ASSUME NEW p \in b .. e - 1 PROVE Agree(p, D)
  <2>1. p \in b .. srcCurrent - 1 \/ p \in srcCurrent .. e - 1
    BY <1>2, <1>3, <1>4
  <2> QED
    BY <1>3, <1>4, <2>1
<1>9. Repeats(m)
  BY <1>1, <1>3, <1>4, <1>6, <1>7, <1>8 DEF Repeats
<1> QED
  BY <1>7, <1>9 DEF m

Held(m) == m \in MatchType /\ (m.M # 0 => Repeats(m))

(* Whatever the search comes up with repeats earlier bytes.                *)
LEMMA IncomingHeld ==
  ASSUME EncoderTypes, TableInv, srcCurrent + 8 < SrcEnd, srcLiteral <= srcCurrent
  PROVE  Held(Incoming)
<1> DEFINE entry == Entry(Hash(srcCurrent))
           best == Tried(Tried(Tried(Tried(NoMatch, srcCurrent - entry[1]), srcCurrent - entry[2]),
                               srcCurrent - entry[3]), srcCurrent - entry[4])
           again == FindMatch(dPrev)
           m == [again EXCEPT !.K = again.M - 1]
<1>1. Held(NoMatch)
  BY DEF Held, NoMatch, MatchType
<1>2. srcCurrent \in Nat /\ dPrev \in Nat /\ dPrev <= srcCurrent
  BY DEF EncoderTypes
<1>3. ASSUME NEW k \in 1 .. 4 PROVE srcCurrent - entry[k] <= srcCurrent
  <2>1. entry[k] \in Nat
    <3>1. CASE Hash(srcCurrent) \in DOMAIN table
      BY <3>1 DEF TableInv, Entry
    <3>2. CASE Hash(srcCurrent) \notin DOMAIN table
      <4>1. entry = <<0, 0, 0, 0>>
        BY <3>2 DEF Entry
      <4> HIDE DEF entry
      <4> QED
        BY <4>1
    <3> QED
      BY <3>1, <3>2
  <2> HIDE DEF entry
  <2> QED
    BY <1>2, <2>1
<1>4. ASSUME NEW one, Held(one), NEW two, Held(two) PROVE Held(Better(one, two))
  BY <1>4 DEF Better
<1>5. ASSUME NEW one, Held(one), NEW D, D <= srcCurrent PROVE Held(Tried(one, D))
  <2>1. CASE Matches(D)
    <3>1. Held(FindMatch(D))
      BY <1>5, <2>1, FindMatchSound DEF Held
    <3> QED
      BY <1>4, <1>5, <2>1, <3>1 DEF Tried
  <2>2. CASE ~Matches(D)
    BY <1>5, <2>2 DEF Tried
  <2> QED
    BY <2>1, <2>2
<1> HIDE DEF entry
<1>6. Held(best)
  <2>1. /\ srcCurrent - entry[1] <= srcCurrent /\ srcCurrent - entry[2] <= srcCurrent
        /\ srcCurrent - entry[3] <= srcCurrent /\ srcCurrent - entry[4] <= srcCurrent
    BY <1>3
  <2> QED
    BY <1>1, <1>5, <2>1
<1>7. CASE dPrev # 0 /\ Matches(dPrev)
  <2>1. again \in MatchType /\ Repeats(again)
    BY <1>2, <1>7, FindMatchSound
  <2> HIDE DEF again
  <2>2. again.M - 1 \in Int
    BY <2>1 DEF MatchType
  <2>3. m \in MatchType /\ m.mBegin = again.mBegin /\ m.mEnd = again.mEnd /\ m.M = again.M
        /\ m.D = again.D
    BY <2>1, <2>2 DEF MatchType
  <2>4. Held(m)
    BY <2>1, <2>3 DEF Held, Repeats
  <2>5. Incoming = Better(best, m)
    BY <1>7 DEF Incoming, entry, again
  <2> QED
    BY <1>4, <1>6, <2>4, <2>5
<1>8. CASE ~(dPrev # 0 /\ Matches(dPrev))
  <2>1. Incoming = best
    BY <1>8 DEF Incoming, entry
  <2> QED
    BY <1>6, <2>1
<1> QED
  BY <1>7, <1>8

----------------------------------------------------------------------------
(* What is emitted fits, and moves the first byte not yet encoded.         *)

LEMMA Written ==
  ASSUME PayloadInv, dstSize \in Nat, NEW pieces, AllCareful(pieces), Fits(pieces, Room),
         NEW from \in Nat, payload' = payload \o Bytes(pieces, text, from), UNCHANGED dstSize
  PROVE  PayloadInv'
<1> DEFINE bytes == Bytes(pieces, text, from)
<1>1. IsSeq(payload) /\ Len(payload) <= dstSize
  BY DEF PayloadInv
<1>2. Len(payload) \in Nat
  BY <1>1, LenProperties DEF IsSeq
<1>3. Room \in Int /\ Room = dstSize - 8 - Len(payload)
  BY <1>2 DEF Room
<1> DEFINE size == Offsets(pieces)[Len(pieces) + 1]
<1>4. pieces \in Seq(PieceType) /\ size \in Nat /\ (size = 0 \/ size <= Room)
  BY <1>3, FitsInRoom
<1>5. IsSeq(bytes) /\ Len(bytes) = size
  BY <1>4, BytesLen
<1> HIDE DEF bytes, size
<1>6. IsSeq(payload \o bytes) /\ Len(payload \o bytes) = Len(payload) + size
  BY <1>1, <1>5, ConcatSeq
<1>7. Len(payload) + size <= dstSize
  BY <1>1, <1>2, <1>3, <1>4
<1>8. payload' = payload \o bytes
  BY DEF bytes
<1> QED
  BY <1>6, <1>7, <1>8 DEF PayloadInv

LEMMA MatchEmitted ==
  ASSUME EncoderTypes, PayloadInv, NEW m, m \in MatchType, Repeats(m),
         EmitMatch(m), UNCHANGED <<text, dstSize>>
  PROVE  /\ PayloadInv'
         /\ srcLiteral' = m.mEnd /\ srcLiteral' \in Nat /\ srcLiteral' <= SrcEnd
         /\ srcLiteral + 3 <= srcLiteral'
         /\ dPrev' \in Nat /\ dPrev' <= srcLiteral'
<1>1. /\ srcLiteral \in Nat /\ dstSize \in Nat /\ SrcEnd \in Nat
      /\ m.mBegin \in Int /\ m.M \in Int /\ m.D \in Int /\ m.mEnd \in Int
  BY LenProperties DEF EncoderTypes, MatchType, SrcEnd
<1>2. /\ srcLiteral <= m.mBegin /\ m.mEnd = m.mBegin + m.M /\ m.mEnd <= SrcEnd /\ m.M >= 3
      /\ m.D \in 1 .. MaxDistance /\ m.D <= m.mBegin
  BY DEF Repeats
<1>3. m.mBegin - srcLiteral \in Nat /\ m.M \in Nat
  BY <1>1, <1>2
<1>4. AllCareful(MatchPieces(m))
  BY <1>1, <1>2, <1>3, EmitCareful DEF MatchPieces
<1>5. PayloadInv'
  BY <1>1, <1>4, Written DEF EmitMatch
<1>6. srcLiteral' = m.mEnd /\ dPrev' = m.D
  BY DEF EmitMatch
<1>7. m.D \in Nat
  BY <1>2, Distances
<1>8. m.mEnd \in Nat /\ m.D <= m.mEnd /\ srcLiteral + 3 <= m.mEnd
  BY <1>1, <1>2, <1>7
<1> QED
  BY <1>2, <1>5, <1>6, <1>7, <1>8

LEMMA LiteralsEmitted ==
  ASSUME EncoderTypes, PayloadInv, NEW n \in Nat, srcLiteral + n <= SrcEnd,
         EmitLiterals(n), UNCHANGED <<text, dstSize>>
  PROVE  /\ PayloadInv'
         /\ srcLiteral' = srcLiteral + n /\ srcLiteral' \in Nat /\ srcLiteral' <= SrcEnd
         /\ dPrev' \in Nat /\ dPrev' <= srcLiteral'
<1>1. srcLiteral \in Nat /\ dstSize \in Nat /\ dPrev \in Nat /\ dPrev <= srcLiteral
  BY DEF EncoderTypes
<1>2. AllCareful(EmitLiteral(n))
  BY EmitLiteralCareful
<1>3. PayloadInv'
  BY <1>1, <1>2, Written DEF EmitLiterals
<1>4. srcLiteral' = srcLiteral + n /\ dPrev' = dPrev
  BY DEF EmitLiterals
<1> QED
  BY <1>1, <1>3, <1>4

LEMMA Committed ==
  ASSUME EncoderTypes, TableInv, Commit
  PROVE  TableInv'
<1> DEFINE h == Hash(srcCurrent)
           learnt == [k \in 1 .. 4 |-> IF k = 1 THEN srcCurrent ELSE Entry(h)[k - 1]]
<1>1. /\ table' = [x \in DOMAIN table \cup {h} |-> IF x = h THEN learnt ELSE table[x]]
      /\ srcCurrent' = srcCurrent + 1
  BY DEF Commit
<1>2. srcCurrent \in Nat
  BY DEF EncoderTypes
<1>3. ASSUME NEW k \in 1 .. 4 PROVE Entry(h)[k] \in Nat /\ Entry(h)[k] <= srcCurrent
  <2>1. CASE h \in DOMAIN table
    BY <2>1 DEF TableInv, Entry
  <2>2. CASE h \notin DOMAIN table
    <3>1. Entry(h) = <<0, 0, 0, 0>>
      BY <2>2 DEF Entry
    <3> HIDE DEF h
    <3> QED
      BY <1>2, <3>1
  <2> QED
    BY <2>1, <2>2
<1> HIDE DEF h
<1>4. ASSUME NEW k \in 1 .. 4 PROVE learnt[k] \in Nat /\ learnt[k] <= srcCurrent
  <2>1. CASE k = 1
    BY <1>2, <2>1
  <2>2. CASE k # 1
    <3>1. k - 1 \in 1 .. 4 /\ learnt[k] = Entry(h)[k - 1]
      BY <2>2
    <3> HIDE DEF learnt
    <3> QED
      BY <1>3, <3>1
  <2> QED
    BY <2>1, <2>2
<1> HIDE DEF learnt
<1>5. ASSUME NEW x \in DOMAIN table', NEW k \in 1 .. 4
      PROVE  table'[x][k] \in Nat /\ table'[x][k] <= srcCurrent
  <2>1. CASE x = h
    BY <1>1, <1>4, <2>1
  <2>2. CASE x # h
    BY <1>1, <2>2 DEF TableInv
  <2> QED
    BY <2>1, <2>2
<1>6. ASSUME NEW x \in DOMAIN table', NEW k \in 1 .. 4
      PROVE  table'[x][k] \in Nat /\ table'[x][k] <= srcCurrent'
  <2> DEFINE v == table'[x][k]
  <2>1. v \in Nat /\ v <= srcCurrent
    BY <1>5
  <2> HIDE DEF v
  <2>2. v \in Nat /\ v <= srcCurrent'
    BY <1>1, <1>2, <2>1
  <2> QED
    BY <2>2 DEF v
<1> QED
  BY <1>6 DEF TableInv

----------------------------------------------------------------------------
(* The invariant holds initially, and every step keeps it.                 *)

LEMMA EncoderInvStarts == InitEncoder => EncoderInv
<1> SUFFICES ASSUME InitEncoder PROVE EncoderInv
  OBVIOUS
<1>1. text \in Seq(0 .. 255) /\ dstSize \in Nat
  BY InputsAssumption DEF InitEncoder
<1>2. Len(text) \in Nat
  BY <1>1, LenProperties
<1>3. /\ enc = "start" /\ srcCurrent = 0 /\ srcLiteral = 0 /\ payload = <<>>
      /\ pending = NoMatch /\ dPrev = 0 /\ table = << >>
  BY DEF InitEncoder
<1>4. NoMatch \in MatchType /\ NoMatch.M = 0
  BY DEF NoMatch, MatchType
<1>5. EncoderTypes
  BY <1>1, <1>2, <1>3, <1>4 DEF EncoderTypes, SrcEnd
<1>6. SearchInv
  BY <1>3, <1>4 DEF SearchInv
<1>7. TableInv
  BY <1>3 DEF TableInv
<1>8. PayloadInv
  <2>1. <<>> \in Seq({}) /\ Len(<<>>) = 0
    OBVIOUS
  <2>2. IsSeq(<<>>)
    BY <2>1, SomeSeq
  <2> QED
    BY <1>1, <1>3, <2>1, <2>2 DEF PayloadInv
<1> QED
  BY <1>5, <1>6, <1>7, <1>8 DEF EncoderInv

(* A step of the search that leaves the text alone and commits.            *)
LEMMA SearchGoesOn ==
  ASSUME EncoderInv, Searching, Commit, PayloadInv',
         srcLiteral' \in Nat, srcLiteral' <= SrcEnd,
         dPrev' \in Nat, dPrev' <= srcLiteral',
         pending' \in MatchType,
         srcCurrent + 1 - srcLiteral' <= Backlog + 1,
         pending'.M = 0 => srcCurrent + 1 - srcLiteral' <= Backlog,
         pending'.M # 0 => Repeats(pending)'
  PROVE  EncoderInv'
<1>1. UNCHANGED <<text, dstSize, enc>> /\ srcCurrent' = srcCurrent + 1
  BY DEF Commit
<1>2. /\ EncoderTypes /\ TableInv /\ srcCurrent \in Nat /\ enc = "search"
      /\ srcCurrent < SrcEnd - 8
  BY DEF EncoderInv, EncoderTypes, Searching, SrcCurrentEnd, MinMargin
<1>3. SrcEnd \in Nat /\ SrcEnd' = SrcEnd
  BY <1>1, <1>2, LenProperties DEF EncoderTypes, SrcEnd
<1>4. EncoderTypes'
  <2>1. srcCurrent' \in Nat
    BY <1>1, <1>2
  <2> QED
    BY <1>1, <1>2, <1>3, <2>1 DEF EncoderTypes
<1>5. SearchInv'
  <2>1. srcCurrent' + 8 <= SrcEnd'
    BY <1>1, <1>2, <1>3
  <2>2. /\ srcCurrent' - srcLiteral' <= Backlog + 1
        /\ pending'.M = 0 => srcCurrent' - srcLiteral' <= Backlog
    <3> DEFINE next == srcLiteral'
               now == srcCurrent'
    <3>1. next \in Int /\ now = srcCurrent + 1
      BY <1>1
    <3>2. srcCurrent + 1 - next <= Backlog + 1 /\ (pending'.M = 0 => srcCurrent + 1 - next <= Backlog)
      OBVIOUS
    <3> HIDE DEF next, now
    <3>3. now - next <= Backlog + 1 /\ (pending'.M = 0 => now - next <= Backlog)
      BY <1>2, <3>1, <3>2, BacklogAssumption
    <3> QED
      BY <3>3 DEF next, now
  <2> QED
    BY <1>1, <1>2, <2>1, <2>2 DEF SearchInv
<1>6. TableInv'
  BY <1>2, Committed
<1> QED
  BY <1>4, <1>5, <1>6 DEF EncoderInv

(* A step after which nothing is searched any more.                        *)
LEMMA SearchEnds ==
  ASSUME EncoderInv, enc' \in {"rest", "end", "encoded", "failed"}, PayloadInv',
         UNCHANGED <<text, dstSize, srcCurrent, table>>,
         srcLiteral' \in Nat, srcLiteral' <= SrcEnd,
         dPrev' \in Nat, dPrev' <= srcLiteral',
         pending' \in MatchType
  PROVE  EncoderInv'
<1>1. EncoderTypes'
  BY DEF EncoderInv, EncoderTypes, SrcEnd
<1>2. SearchInv'
  BY DEF SearchInv
<1>3. TableInv'
  BY DEF EncoderInv, TableInv
<1> QED
  BY <1>1, <1>2, <1>3 DEF EncoderInv

(* A match stays what it is while no byte behind its first is encoded.     *)
LEMMA HeldNext ==
  ASSUME NEW m, Held(m), pending' = m, text' = text, m.M # 0 => srcLiteral' <= m.mBegin
  PROVE  Held(pending)'
<1>1. m \in MatchType
  BY DEF Held
<1>2. CASE m.M = 0
  BY <1>1, <1>2 DEF Held
<1>3. CASE m.M # 0
  <2>1. Repeats(m)
    BY <1>3 DEF Held
  <2>2. Repeats(pending)'
    BY <1>3, <2>1 DEF Repeats, Agree, Byte, SrcEnd
  <2> QED
    BY <1>1, <2>2 DEF Held
<1> QED
  BY <1>2, <1>3

LEMMA GaveUp ==
  ASSUME EncoderInv, GiveUp, pending' \in MatchType
  PROVE  EncoderInv'
<1>1. /\ enc' = "rest"
      /\ UNCHANGED <<text, dstSize, srcCurrent, srcLiteral, payload, dPrev, table>>
  BY DEF GiveUp
<1>2. /\ srcLiteral \in Nat /\ srcLiteral <= SrcEnd /\ dPrev \in Nat /\ dPrev <= srcLiteral
      /\ PayloadInv
  BY DEF EncoderInv, EncoderTypes
<1>3. PayloadInv'
  BY <1>1, <1>2 DEF PayloadInv
<1> QED
  BY <1>1, <1>2, <1>3, SearchEnds

(* What is known wherever the search goes on.                              *)
LEMMA SearchFacts ==
  ASSUME EncoderInv, Searching
  PROVE  /\ EncoderTypes /\ TableInv /\ PayloadInv
         /\ srcCurrent \in Nat /\ srcLiteral \in Nat /\ SrcEnd \in Nat /\ Backlog \in Nat
         /\ LongCount \in Nat /\ LongCount <= Backlog
         /\ srcLiteral <= SrcEnd /\ srcCurrent + 8 < SrcEnd
         /\ pending \in MatchType /\ dPrev \in Nat /\ dPrev <= srcLiteral
         /\ srcCurrent - srcLiteral <= Backlog + 1
         /\ pending.M = 0 => srcCurrent - srcLiteral <= Backlog
         /\ pending.M # 0 => Repeats(pending)
<1>1. EncoderTypes /\ TableInv /\ PayloadInv /\ SearchInv /\ enc = "search"
  BY DEF EncoderInv, Searching
<1>2. srcCurrent \in Nat /\ SrcEnd \in Nat
  BY <1>1, LenProperties DEF EncoderTypes, SrcEnd
<1>3. srcCurrent + 8 < SrcEnd
  <2>1. srcCurrent < SrcEnd - 8
    BY DEF Searching, SrcCurrentEnd, MinMargin
  <2> QED
    BY <1>2, <2>1
<1>4. Backlog \in Nat /\ LongCount \in Nat /\ LongCount <= Backlog
  BY BacklogAssumption, LongCountAssumption
<1>5. /\ srcCurrent - srcLiteral <= Backlog + 1
      /\ pending.M = 0 => srcCurrent - srcLiteral <= Backlog
      /\ pending.M # 0 => Repeats(pending)
  BY <1>1 DEF SearchInv
<1> QED
  BY <1>1, <1>2, <1>3, <1>4, <1>5 DEF EncoderTypes

(* What was emitted before stays emitted, and the search moves on.         *)
LEMMA NothingEmitted ==
  ASSUME EncoderInv, Searching, Commit, UNCHANGED <<srcLiteral, payload, dPrev>>,
         Held(pending)', srcCurrent - srcLiteral <= Backlog,
         pending'.M = 0 => srcCurrent - srcLiteral < Backlog
  PROVE  EncoderInv'
<1>1. /\ UNCHANGED text /\ srcCurrent \in Nat /\ srcLiteral \in Nat /\ Backlog \in Nat
      /\ srcLiteral <= SrcEnd /\ dPrev \in Nat /\ dPrev <= srcLiteral /\ PayloadInv
  BY SearchFacts DEF Commit
<1>2. UNCHANGED dstSize
  BY DEF Commit
<1>3. PayloadInv'
  BY <1>1, <1>2 DEF PayloadInv
<1>4. /\ srcCurrent + 1 - srcLiteral <= Backlog + 1
      /\ pending'.M = 0 => srcCurrent + 1 - srcLiteral <= Backlog
  BY <1>1
<1>5. pending' \in MatchType /\ (pending'.M # 0 => Repeats(pending)')
  BY DEF Held
<1> QED
  BY <1>1, <1>3, <1>4, <1>5, SearchGoesOn

LEMMA SkipEmittedStep ==
  ASSUME EncoderInv, SkipEmitted
  PROVE  EncoderInv'
<1>1. Searching /\ srcCurrent < srcLiteral /\ Commit /\ UNCHANGED <<srcLiteral, payload, pending, dPrev>>
  BY DEF SkipEmitted
<1>2. /\ srcCurrent \in Nat /\ srcLiteral \in Nat /\ Backlog \in Nat /\ LongCount \in Nat
      /\ LongCount <= Backlog /\ pending \in MatchType /\ (pending.M # 0 => Repeats(pending))
      /\ UNCHANGED text
  BY <1>1, SearchFacts DEF Commit
<1>3. Held(pending)'
  <2>1. pending.M # 0 => srcLiteral' <= pending.mBegin
    BY <1>1, <1>2 DEF Repeats
  <2> QED
    BY <1>1, <1>2, <2>1, HeldNext DEF Held
<1>4. srcCurrent - srcLiteral < Backlog
  BY <1>1, <1>2, LongCountAssumption
<1>5. srcCurrent - srcLiteral <= Backlog
  BY <1>2, <1>4
<1> QED
  BY <1>1, <1>3, <1>4, <1>5, NothingEmitted

LEMMA NothingFoundStep ==
  ASSUME EncoderInv, NothingFound
  PROVE  EncoderInv'
<1>1. Searching /\ ~TooManyLiterals /\ Commit /\ UNCHANGED <<srcLiteral, payload, pending, dPrev>>
  BY DEF NothingFound, Looking
<1>2. /\ srcCurrent \in Nat /\ srcLiteral \in Nat /\ Backlog \in Nat
      /\ pending \in MatchType /\ (pending.M # 0 => Repeats(pending)) /\ UNCHANGED text
  BY <1>1, SearchFacts DEF Commit
<1>3. Held(pending)'
  <2>1. pending.M # 0 => srcLiteral' <= pending.mBegin
    BY <1>1, <1>2 DEF Repeats
  <2> QED
    BY <1>1, <1>2, <2>1, HeldNext DEF Held
<1>4. srcCurrent - srcLiteral < Backlog /\ srcCurrent - srcLiteral <= Backlog
  BY <1>1, <1>2 DEF TooManyLiterals
<1> QED
  BY <1>1, <1>3, <1>4, NothingEmitted

LEMMA KeepIncomingStep ==
  ASSUME EncoderInv, KeepIncoming
  PROVE  EncoderInv'
<1>1. /\ Searching /\ srcCurrent >= srcLiteral /\ Incoming.M # 0 /\ pending.M = 0
      /\ pending' = Incoming /\ Commit /\ UNCHANGED <<srcLiteral, payload, dPrev>>
  BY DEF KeepIncoming, Looking
<1>2. /\ EncoderTypes /\ TableInv /\ srcCurrent \in Nat /\ srcLiteral \in Nat
      /\ srcCurrent + 8 < SrcEnd /\ UNCHANGED text /\ srcCurrent - srcLiteral <= Backlog
  BY <1>1, SearchFacts DEF Commit
<1>3. Held(Incoming)
  BY <1>1, <1>2, IncomingHeld
<1>4. Held(pending)'
  <2>1. Incoming.M # 0 => srcLiteral' <= Incoming.mBegin
    BY <1>1, <1>3 DEF Held, Repeats
  <2> QED
    BY <1>1, <1>2, <1>3, <2>1, HeldNext
<1> QED
  BY <1>1, <1>2, <1>4, NothingEmitted

(* A match is emitted, and what is pending then begins behind it.          *)
LEMMA EmittedAndOn ==
  ASSUME EncoderInv, Searching, NEW m, m \in MatchType, Repeats(m), EmitMatch(m), Commit,
         Held(pending)'
  PROVE  EncoderInv'
<1>1. /\ EncoderTypes /\ PayloadInv /\ UNCHANGED <<text, dstSize>>
      /\ srcCurrent \in Nat /\ srcLiteral \in Nat /\ Backlog \in Nat
      /\ srcCurrent - srcLiteral <= Backlog + 1
  BY SearchFacts DEF Commit
<1>2. /\ PayloadInv'
      /\ srcLiteral' \in Nat /\ srcLiteral' <= SrcEnd
      /\ srcLiteral + 3 <= srcLiteral'
      /\ dPrev' \in Nat /\ dPrev' <= srcLiteral'
  BY <1>1, MatchEmitted
<1> DEFINE next == srcLiteral'
<1>3. next \in Nat /\ srcLiteral + 3 <= next
  BY <1>2
<1> HIDE DEF next
<1>4. srcCurrent + 1 - next <= Backlog
  BY <1>1, <1>3
<1>5. srcCurrent + 1 - next <= Backlog + 1
  BY <1>1, <1>3
<1>6. pending' \in MatchType /\ (pending'.M # 0 => Repeats(pending)')
  BY DEF Held
<1>7. srcCurrent + 1 - srcLiteral' <= Backlog /\ srcCurrent + 1 - srcLiteral' <= Backlog + 1
  BY <1>4, <1>5 DEF next
<1> QED
  BY <1>2, <1>6, <1>7, SearchGoesOn

LEMMA NoMatchHeld == pending' = NoMatch => Held(pending)'
<1>1. NoMatch \in MatchType /\ NoMatch.M = 0
  BY DEF NoMatch, MatchType
<1> QED
  BY <1>1 DEF Held

LEMMA FlushPendingStep ==
  ASSUME EncoderInv, FlushPending
  PROVE  EncoderInv'
<1>1. /\ Searching /\ pending.M # 0
      /\ \/ EmitMatch(pending) /\ pending' = NoMatch /\ Commit
         \/ GiveUp /\ UNCHANGED pending
  BY DEF FlushPending, Looking
<1>2. pending \in MatchType /\ Repeats(pending)
  BY <1>1, SearchFacts
<1>3. CASE EmitMatch(pending) /\ pending' = NoMatch /\ Commit
  BY <1>1, <1>2, <1>3, EmittedAndOn, NoMatchHeld
<1>4. CASE GiveUp /\ UNCHANGED pending
  BY <1>2, <1>4, GaveUp
<1> QED
  BY <1>1, <1>3, <1>4

LEMMA FlushLiteralsStep ==
  ASSUME EncoderInv, FlushLiterals
  PROVE  EncoderInv'
<1>1. /\ Searching /\ TooManyLiterals /\ pending.M = 0 /\ UNCHANGED pending
      /\ \/ EmitLiterals(LongCount) /\ Commit
         \/ GiveUp
  BY DEF FlushLiterals, Looking
<1>2. /\ EncoderTypes /\ PayloadInv /\ srcCurrent \in Nat /\ srcLiteral \in Nat /\ SrcEnd \in Nat
      /\ Backlog \in Nat /\ LongCount \in Nat /\ LongCount <= Backlog
      /\ srcCurrent + 8 < SrcEnd /\ pending \in MatchType
      /\ srcCurrent - srcLiteral <= Backlog
  BY <1>1, SearchFacts
<1>3. CASE EmitLiterals(LongCount) /\ Commit
  <2>1. UNCHANGED <<text, dstSize>>
    BY <1>3 DEF Commit
  <2>2. srcLiteral + LongCount <= SrcEnd
    BY <1>1, <1>2 DEF TooManyLiterals
  <2>3. /\ PayloadInv' /\ srcLiteral' = srcLiteral + LongCount /\ srcLiteral' \in Nat
        /\ srcLiteral' <= SrcEnd /\ dPrev' \in Nat /\ dPrev' <= srcLiteral'
    BY <1>2, <1>3, <2>1, <2>2, LiteralsEmitted
  <2>4. /\ srcCurrent + 1 - (srcLiteral + LongCount) <= Backlog + 1
        /\ srcCurrent + 1 - (srcLiteral + LongCount) <= Backlog
    BY <1>2, LongCountAssumption
  <2>5. srcCurrent + 1 - srcLiteral' <= Backlog + 1 /\ srcCurrent + 1 - srcLiteral' <= Backlog
    BY <2>3, <2>4
  <2>6. pending' \in MatchType /\ pending'.M = 0
    BY <1>1, <1>2
  <2> QED
    BY <1>1, <1>3, <2>3, <2>5, <2>6, SearchGoesOn
<1>4. CASE GiveUp
  BY <1>1, <1>2, <1>4, GaveUp
<1> QED
  BY <1>1, <1>3, <1>4

LEMMA EmitPendingStep ==
  ASSUME EncoderInv, EmitPendingKeepIncoming
  PROVE  EncoderInv'
<1>1. /\ Searching /\ srcCurrent >= srcLiteral /\ pending.M # 0 /\ pending.mEnd <= Incoming.mBegin
      /\ \/ EmitMatch(pending) /\ pending' = Incoming /\ Commit
         \/ GiveUp /\ UNCHANGED pending
  BY DEF EmitPendingKeepIncoming, Looking
<1>2. /\ EncoderTypes /\ TableInv /\ srcCurrent \in Nat /\ srcLiteral \in Nat
      /\ srcCurrent + 8 < SrcEnd /\ pending \in MatchType /\ Repeats(pending)
  BY <1>1, SearchFacts
<1>3. Held(Incoming)
  BY <1>1, <1>2, IncomingHeld
<1>4. CASE EmitMatch(pending) /\ pending' = Incoming /\ Commit
  <2>1. srcLiteral' = pending.mEnd /\ UNCHANGED text
    BY <1>4 DEF EmitMatch, Commit
  <2>2. Held(pending)'
    BY <1>1, <1>3, <1>4, <2>1, HeldNext
  <2> QED
    BY <1>1, <1>2, <1>4, <2>2, EmittedAndOn
<1>5. CASE GiveUp /\ UNCHANGED pending
  BY <1>2, <1>5, GaveUp
<1> QED
  BY <1>1, <1>4, <1>5

LEMMA EmitBetterStep ==
  ASSUME EncoderInv, EmitBetter
  PROVE  EncoderInv'
<1> DEFINE better == IF Incoming.K > pending.K THEN Incoming ELSE pending
<1>1. /\ Searching /\ srcCurrent >= srcLiteral /\ Incoming.M # 0 /\ pending.M # 0
      /\ \/ EmitMatch(better) /\ pending' = NoMatch /\ Commit
         \/ GiveUp /\ pending' = better
  BY DEF EmitBetter, Looking
<1>2. /\ EncoderTypes /\ TableInv /\ srcCurrent \in Nat /\ srcLiteral \in Nat
      /\ srcCurrent + 8 < SrcEnd /\ pending \in MatchType /\ Repeats(pending)
  BY <1>1, SearchFacts
<1>3. Incoming \in MatchType /\ Repeats(Incoming)
  BY <1>1, <1>2, IncomingHeld DEF Held
<1>4. better \in MatchType /\ Repeats(better)
  BY <1>2, <1>3
<1> HIDE DEF better
<1>5. CASE EmitMatch(better) /\ pending' = NoMatch /\ Commit
  BY <1>1, <1>4, <1>5, EmittedAndOn, NoMatchHeld
<1>6. CASE GiveUp /\ pending' = better
  BY <1>4, <1>6, GaveUp
<1> QED
  BY <1>1, <1>5, <1>6

LEMMA StartStep ==
  ASSUME EncoderInv, StartEncoder
  PROVE  EncoderInv'
<1>1. /\ enc = "start"
      /\ UNCHANGED <<text, dstSize, srcCurrent, srcLiteral, payload, pending, dPrev, table>>
      /\ enc' \in {"failed", "rest"} \/ (enc' = "search" /\ SrcEnd >= 8)
  BY DEF StartEncoder, MinSrcSize
<1>2. EncoderTypes /\ SearchInv /\ TableInv /\ PayloadInv
  BY DEF EncoderInv
<1>3. PayloadInv' /\ TableInv' /\ EncoderTypes'
  BY <1>1, <1>2 DEF PayloadInv, TableInv, EncoderTypes, SrcEnd
<1>4. SearchInv'
  <2>1. srcCurrent = 0 /\ srcLiteral = 0 /\ pending.M = 0
    BY <1>1, <1>2 DEF SearchInv
  <2>2. CASE enc' = "search" /\ SrcEnd >= 8
    <3>1. SrcEnd' >= 8
      BY <1>1, <2>2 DEF SrcEnd
    <3>2. 0 + 8 <= SrcEnd'
      <4>1. SrcEnd \in Nat /\ SrcEnd' = SrcEnd
        BY <1>1, <1>2, LenProperties DEF EncoderTypes, SrcEnd
      <4> QED
        BY <2>2, <4>1
    <3>3. 0 - 0 <= Backlog + 1 /\ 0 - 0 <= Backlog
      BY BacklogAssumption
    <3> QED
      BY <1>1, <2>1, <2>2, <3>2, <3>3 DEF SearchInv
  <2>3. CASE enc' \in {"failed", "rest"}
    BY <2>3 DEF SearchInv
  <2> QED
    BY <1>1, <2>2, <2>3
<1> QED
  BY <1>3, <1>4 DEF EncoderInv

LEMMA EndSearchStep ==
  ASSUME EncoderInv, EndSearch
  PROVE  EncoderInv'
<1>1. /\ enc' = "rest"
      /\ UNCHANGED <<text, dstSize, srcCurrent, srcLiteral, payload, pending, dPrev, table>>
  BY DEF EndSearch
<1>2. /\ srcLiteral \in Nat /\ srcLiteral <= SrcEnd /\ dPrev \in Nat /\ dPrev <= srcLiteral
      /\ PayloadInv /\ pending \in MatchType
  BY DEF EncoderInv, EncoderTypes
<1>3. PayloadInv'
  BY <1>1, <1>2 DEF PayloadInv
<1> QED
  BY <1>1, <1>2, <1>3, SearchEnds

LEMMA EmitRestStep ==
  ASSUME EncoderInv, EmitRest
  PROVE  EncoderInv'
<1>1. /\ enc' = "end" /\ UNCHANGED <<text, dstSize, srcCurrent, pending, table>>
      /\ \/ EmitLiterals(SrcEnd - srcLiteral)
         \/ UNCHANGED <<payload, srcLiteral, dPrev>>
  BY DEF EmitRest
<1>2. /\ EncoderTypes /\ PayloadInv
      /\ srcLiteral \in Nat /\ srcLiteral <= SrcEnd /\ dPrev \in Nat /\ dPrev <= srcLiteral
      /\ pending \in MatchType
  BY DEF EncoderInv, EncoderTypes
<1>3. SrcEnd \in Nat
  BY <1>2, LenProperties DEF EncoderTypes, SrcEnd
<1>4. CASE EmitLiterals(SrcEnd - srcLiteral)
  <2>1. SrcEnd - srcLiteral \in Nat /\ srcLiteral + (SrcEnd - srcLiteral) <= SrcEnd
    BY <1>2, <1>3
  <2>2. /\ PayloadInv' /\ srcLiteral' \in Nat /\ srcLiteral' <= SrcEnd
        /\ dPrev' \in Nat /\ dPrev' <= srcLiteral'
    BY <1>1, <1>2, <1>4, <2>1, LiteralsEmitted
  <2> QED
    BY <1>1, <1>2, <2>2, SearchEnds
<1>5. CASE UNCHANGED <<payload, srcLiteral, dPrev>>
  <2>1. PayloadInv'
    BY <1>1, <1>2, <1>5 DEF PayloadInv
  <2> QED
    BY <1>1, <1>2, <1>5, <2>1, SearchEnds
<1> QED
  BY <1>1, <1>4, <1>5

LEMMA EndStreamStep ==
  ASSUME EncoderInv, EndStream
  PROVE  EncoderInv'
<1> DEFINE mark == IF Len(payload) + 8 <= dstSize THEN EndOfStream ELSE <<>>
<1>1. /\ enc' \in {"encoded", "failed"} /\ payload' = payload \o mark
      /\ UNCHANGED <<text, dstSize, srcCurrent, srcLiteral, pending, dPrev, table>>
  BY DEF EndStream
<1>2. /\ srcLiteral \in Nat /\ srcLiteral <= SrcEnd /\ dPrev \in Nat /\ dPrev <= srcLiteral
      /\ PayloadInv /\ pending \in MatchType /\ dstSize \in Nat
  BY DEF EncoderInv, EncoderTypes
<1>3. IsSeq(payload) /\ Len(payload) <= dstSize /\ Len(payload) \in Nat
  BY <1>2, LenProperties DEF PayloadInv, IsSeq
<1>4. IsSeq(mark) /\ Len(mark) \in {0, 8} /\ (Len(mark) = 8 => Len(payload) + 8 <= dstSize)
  <2>1. CASE Len(payload) + 8 <= dstSize
    <3>1. EndOfStream \in Seq(Nat) /\ Len(EndOfStream) = 8
      BY DEF EndOfStream
    <3> QED
      BY <2>1, <3>1, SomeSeq
  <2>2. CASE ~(Len(payload) + 8 <= dstSize)
    <3>1. <<>> \in Seq({}) /\ Len(<<>>) = 0
      OBVIOUS
    <3>2. IsSeq(<<>>)
      BY <3>1, SomeSeq
    <3>3. mark = <<>>
      BY <2>2
    <3> HIDE DEF mark
    <3> QED
      BY <3>1, <3>2, <3>3
  <2> QED
    BY <2>1, <2>2
<1> HIDE DEF mark
<1>5. IsSeq(payload \o mark) /\ Len(payload \o mark) = Len(payload) + Len(mark)
  BY <1>3, <1>4, ConcatSeq
<1>6. Len(payload) + Len(mark) <= dstSize
  <2>1. CASE Len(mark) = 0
    BY <1>3, <2>1
  <2>2. CASE Len(mark) = 8
    BY <1>4, <2>2
  <2> QED
    BY <1>4, <2>1, <2>2
<1>7. PayloadInv'
  BY <1>1, <1>5, <1>6 DEF PayloadInv
<1> QED
  BY <1>1, <1>2, <1>7, SearchEnds

LEMMA EncoderInvKept == EncoderInv /\ [NextEncoder]_encVars => EncoderInv'
<1> SUFFICES ASSUME EncoderInv, [NextEncoder]_encVars PROVE EncoderInv'
  OBVIOUS
<1>1. CASE NextEncoder
  BY <1>1, StartStep, SkipEmittedStep, NothingFoundStep, FlushPendingStep, FlushLiteralsStep,
     KeepIncomingStep, EmitPendingStep, EmitBetterStep, EndSearchStep, EmitRestStep, EndStreamStep
     DEF NextEncoder
<1>2. CASE UNCHANGED encVars
  <2>1. /\ UNCHANGED <<text, dstSize, enc, srcCurrent, srcLiteral, payload, pending, dPrev, table>>
    BY <1>2 DEF encVars
  <2>2. EncoderTypes' /\ TableInv' /\ PayloadInv'
    BY <2>1 DEF EncoderInv, EncoderTypes, TableInv, PayloadInv, SrcEnd
  <2>3. SearchInv'
    BY <2>1 DEF EncoderInv, SearchInv, Repeats, Agree, Byte, SrcEnd
  <2> QED
    BY <2>2, <2>3 DEF EncoderInv
<1> QED
  BY <1>1, <1>2

LEMMA EncoderInvSuffices ==
  ASSUME EncoderInv
  PROVE  PositionsSound /\ StoresInBounds
<1>1. EncoderTypes /\ SearchInv /\ PayloadInv
  BY DEF EncoderInv
<1>2. PendingSound
  BY <1>1 DEF PendingSound, SearchInv, Repeats
<1>3. LiteralBacklogBounded
  BY <1>1 DEF LiteralBacklogBounded, SearchInv
<1>4. StoresInBounds
  <2> SUFFICES ASSUME enc = "search", pending.M # 0, Fits(MatchPieces(pending), Room)
               PROVE  \A i \in DOMAIN MatchPieces(pending) :
                        Offsets(MatchPieces(pending))[i] + MatchPieces(pending)[i].touched <= Room
    BY <1>1 DEF StoresInBounds, PayloadInv
  <2>1. Repeats(pending) /\ pending \in MatchType /\ srcLiteral \in Nat /\ dstSize \in Nat
    BY <1>1 DEF SearchInv, EncoderTypes
  <2>2. pending.M \in Nat /\ pending.M >= 3 /\ pending.D \in Int /\ pending.mBegin - srcLiteral \in Nat
    BY <2>1 DEF Repeats, MatchType
  <2>3. AllCareful(MatchPieces(pending))
    BY <2>2, EmitCareful DEF MatchPieces
  <2>4. Len(payload) \in Nat
    BY <1>1, LenProperties DEF PayloadInv, IsSeq
  <2>5. Room \in Int
    BY <2>1, <2>4 DEF Room
  <2> QED
    BY <2>3, <2>5, FitsInRoom
<1> QED
  BY <1>2, <1>3, <1>4 DEF PositionsSound

(* What the encoder carries from one step to the next is sound: the match  *)
(* it holds back repeats earlier bytes of the source and begins where      *)
(* nothing is encoded yet, and the literals never lag too far behind.      *)
THEOREM CarriesSoundPositions == EncoderSpec => []PositionsSound
<1>1. EncoderSpec => []EncoderInv
  BY EncoderInvStarts, EncoderInvKept, PTL DEF EncoderSpec
<1>2. EncoderInv => PositionsSound
  BY EncoderInvSuffices
<1> QED
  BY <1>1, <1>2, PTL

(* No wide store of emit() reaches the end of the destination, and what is *)
(* written never exceeds the room that was given.                          *)
THEOREM StaysInDestination == EncoderSpec => []StoresInBounds
<1>1. EncoderSpec => []EncoderInv
  BY EncoderInvStarts, EncoderInvKept, PTL DEF EncoderSpec
<1>2. EncoderInv => StoresInBounds
  BY EncoderInvSuffices
<1> QED
  BY <1>1, <1>2, PTL

----------------------------------------------------------------------------
(* What is refused lacks room: an account of the pieces that are written.  *)

(* Seven times what the pieces come to, added up piece by piece, stays     *)
(* within w.                                                               *)
PieceSize(e) == Len(e.code) + e.literals

Account(p, c) ==
  /\ c \in [1 .. Len(p) + 1 -> Nat] /\ c[1] = 0
  /\ \A i \in 1 .. Len(p) : c[i] + 7 * PieceSize(p[i]) <= c[i + 1]

Costs(p, w) ==
  /\ p \in Seq(PieceType)
  /\ \E c \in [1 .. Len(p) + 1 -> Nat] : Account(p, c) /\ c[Len(p) + 1] <= w

LEMMA SizeOf ==
  ASSUME NEW p \in Seq(PieceType), NEW i \in 1 .. Len(p)
  PROVE  PieceSize(p[i]) \in Nat
<1>1. p[i] \in PieceType
  BY ElementOfSeq
<1>2. p[i].code \in Seq(Int) /\ p[i].literals \in Nat
  BY <1>1 DEF PieceType
<1> QED
  BY <1>2, LenProperties DEF PieceSize

LEMMA AccountHolds ==
  ASSUME NEW p \in Seq(PieceType), NEW c, Account(p, c)
  PROVE  \A i \in 1 .. Len(p) + 1 : 7 * Offsets(p)[i] <= c[i]
<1> DEFINE n == Len(p)
           off == Offsets(p)
<1>1. n \in Nat
  BY LenProperties
<1>2. /\ off \in [1 .. n + 1 -> Nat] /\ off[1] = 0
      /\ \A i \in 1 .. n : off[i + 1] = off[i] + PieceSize(p[i])
  BY OffsetsSum DEF PieceSize
<1>3. /\ c \in [1 .. n + 1 -> Nat] /\ c[1] = 0
      /\ \A i \in 1 .. n : c[i] + 7 * PieceSize(p[i]) <= c[i + 1]
  BY DEF Account
<1>4. \A i \in 1 .. n : PieceSize(p[i]) \in Nat
  BY SizeOf
<1> HIDE DEF n, off
<1> DEFINE T == {k \in 0 .. n : 7 * off[k + 1] <= c[k + 1]}
<1>5. 0 \in T
  BY <1>1, <1>2, <1>3
<1>6. ASSUME NEW k \in 0 .. n - 1, k \in T PROVE k + 1 \in T
  <2>1. k + 1 \in 1 .. n /\ k + 1 \in 0 .. n /\ k + 1 \in 1 .. n + 1 /\ (k + 1) + 1 \in 1 .. n + 1
    BY <1>1
  <2>2. PICK s \in Nat : s = PieceSize(p[k + 1])
    BY <1>4, <2>1
  <2>3. PICK o \in Nat : o = off[k + 1]
    BY <1>2, <2>1
  <2>4. PICK a \in Nat : a = c[k + 1]
    BY <1>3, <2>1
  <2>5. PICK b \in Nat : b = c[(k + 1) + 1]
    BY <1>3, <2>1
  <2>6. off[(k + 1) + 1] = o + s /\ a + 7 * s <= b /\ 7 * o <= a
    BY <1>2, <1>3, <1>6, <2>1, <2>2, <2>3, <2>4, <2>5
  <2>7. 7 * (o + s) <= b
    BY <2>6
  <2> QED
    BY <2>1, <2>5, <2>6, <2>7
<1>7. T \in SUBSET (0 .. n)
  OBVIOUS
<1> HIDE DEF T
<1>8. T = 0 .. n
  BY <1>1, <1>5, <1>6, <1>7, UpTo
<1>9. ASSUME NEW i \in 1 .. n + 1 PROVE 7 * off[i] <= c[i]
  <2>1. i - 1 \in 0 .. n /\ (i - 1) + 1 = i
    BY <1>1
  <2>2. i - 1 \in T
    BY <1>8, <2>1
  <2> QED
    BY <2>1, <2>2 DEF T
<1> QED
  BY <1>9 DEF n, off

LEMMA CostsHold ==
  ASSUME NEW p, NEW w \in Nat, Costs(p, w)
  PROVE  /\ p \in Seq(PieceType) /\ Offsets(p)[Len(p) + 1] \in Nat
         /\ 7 * Offsets(p)[Len(p) + 1] <= w
<1>1. p \in Seq(PieceType)
  BY DEF Costs
<1>2. PICK c \in [1 .. Len(p) + 1 -> Nat] : Account(p, c) /\ c[Len(p) + 1] <= w
  BY DEF Costs
<1>3. Len(p) \in Nat /\ Len(p) + 1 \in 1 .. Len(p) + 1
  <2>1. Len(p) \in Nat
    BY <1>1, LenProperties
  <2> QED
    BY <2>1
<1>4. 7 * Offsets(p)[Len(p) + 1] <= c[Len(p) + 1]
  BY <1>1, <1>2, <1>3, AccountHolds
<1>5. Offsets(p)[Len(p) + 1] \in Nat /\ c[Len(p) + 1] \in Nat
  BY <1>1, <1>2, <1>3, OffsetsSum
<1> QED
  BY <1>1, <1>2, <1>4, <1>5

LEMMA CostsConcat ==
  ASSUME NEW p, NEW q, NEW w \in Nat, NEW v \in Nat, Costs(p, w), Costs(q, v)
  PROVE  Costs(p \o q, w + v)
<1> DEFINE n == Len(p)
           m == Len(q)
<1>1. p \in Seq(PieceType) /\ q \in Seq(PieceType) /\ n \in Nat /\ m \in Nat
  BY LenProperties DEF Costs
<1>2. PICK c \in [1 .. n + 1 -> Nat] : Account(p, c) /\ c[n + 1] <= w
  BY DEF Costs
<1>3. PICK d \in [1 .. m + 1 -> Nat] : Account(q, d) /\ d[m + 1] <= v
  BY DEF Costs
<1>4. /\ p \o q \in Seq(PieceType) /\ Len(p \o q) = n + m
      /\ \A i \in 1 .. n : (p \o q)[i] = p[i]
      /\ \A i \in 1 .. m : (p \o q)[n + i] = q[i]
  <2>1. /\ p \o q \in Seq(PieceType) /\ Len(p \o q) = n + m
        /\ \A i \in 1 .. Len(p) + Len(q) : (p \o q)[i] = IF i <= Len(p) THEN p[i] ELSE q[i - Len(p)]
    BY <1>1, ConcatProperties
  <2> QED
    BY <1>1, <2>1
<1>5. c[1] = 0 /\ \A i \in 1 .. n : c[i] + 7 * PieceSize(p[i]) <= c[i + 1]
  BY <1>2 DEF Account
<1>6. d[1] = 0 /\ \A i \in 1 .. m : d[i] + 7 * PieceSize(q[i]) <= d[i + 1]
  BY <1>3 DEF Account
<1>7. (\A i \in 1 .. n : PieceSize(p[i]) \in Nat) /\ (\A i \in 1 .. m : PieceSize(q[i]) \in Nat)
  BY <1>1, SizeOf
<1> HIDE DEF n, m
<1>8. PICK e \in Nat : e = c[n + 1] /\ e <= w
  BY <1>1, <1>2
<1> DEFINE both == [i \in 1 .. (n + m) + 1 |-> IF i <= n THEN c[i] ELSE e + d[i - n]]
           pq == p \o q
<1>9. both \in [1 .. (n + m) + 1 -> Nat]
  <2>1. ASSUME NEW i \in 1 .. (n + m) + 1
        PROVE  (IF i <= n THEN c[i] ELSE e + d[i - n]) \in Nat
    <3>1. CASE i <= n
      BY <1>1, <3>1
    <3>2. CASE ~(i <= n)
      <4>1. i - n \in 1 .. m + 1
        BY <1>1, <3>2
      <4>2. d[i - n] \in Nat
        BY <4>1
      <4> QED
        BY <3>2, <4>2
    <3> QED
      BY <3>1, <3>2
  <2> QED
    BY <2>1
<1>10. \A i \in 1 .. n + 1 : both[i] = c[i]
  <2> SUFFICES ASSUME NEW i \in 1 .. n + 1 PROVE both[i] = c[i]
    OBVIOUS
  <2>1. CASE i <= n
    BY <1>1, <2>1
  <2>2. CASE i = n + 1
    <3>1. i - n = 1 /\ i \in 1 .. (n + m) + 1 /\ ~(i <= n)
      BY <1>1, <2>2
    <3>2. both[i] = e + d[i - n]
      BY <3>1
    <3> QED
      BY <1>6, <1>8, <2>2, <3>1, <3>2
  <2> QED
    BY <1>1, <2>1, <2>2
<1>11. \A i \in 1 .. m + 1 : both[n + i] = e + d[i]
  BY <1>1
<1> HIDE DEF both
<1>12. ASSUME NEW i \in 1 .. n + m PROVE both[i] + 7 * PieceSize(pq[i]) <= both[i + 1]
  <2>1. CASE i <= n
    <3>1. i \in 1 .. n /\ i \in 1 .. n + 1 /\ i + 1 \in 1 .. n + 1
      BY <1>1, <2>1
    <3> QED
      BY <1>4, <1>5, <1>10, <3>1
  <2>2. CASE ~(i <= n)
    <3>1. PICK j \in 1 .. m : i = n + j
      <4>1. i - n \in 1 .. m /\ i = n + (i - n)
        BY <1>1, <2>2
      <4> QED
        BY <4>1
    <3>2. j \in 1 .. m + 1 /\ j + 1 \in 1 .. m + 1 /\ n + (j + 1) = i + 1
      BY <1>1, <3>1
    <3>3. pq[i] = q[j] /\ both[i] = e + d[j] /\ both[i + 1] = e + d[j + 1]
      BY <1>4, <1>11, <3>1, <3>2
    <3>4. PICK x \in Nat : x = d[j]
      BY <3>2
    <3>5. PICK y \in Nat : y = d[j + 1]
      BY <3>2
    <3>6. PICK s \in Nat : s = PieceSize(q[j])
      BY <1>7
    <3>7. x + 7 * s <= y
      BY <1>6, <3>4, <3>5, <3>6
    <3>8. (e + x) + 7 * s <= e + y
      BY <3>7
    <3> QED
      BY <3>3, <3>4, <3>5, <3>6, <3>8
  <2> QED
    BY <2>1, <2>2
<1>13. both[1] = 0 /\ both[(n + m) + 1] <= w + v
  <2>1. 1 \in 1 .. n + 1 /\ m + 1 \in 1 .. m + 1 /\ n + (m + 1) = (n + m) + 1
    BY <1>1
  <2>2. both[(n + m) + 1] = e + d[m + 1] /\ d[m + 1] \in Nat /\ d[m + 1] <= v
    BY <1>3, <1>11, <2>1 DEF m
  <2> QED
    BY <1>5, <1>8, <1>10, <2>1, <2>2
<1>14. Account(pq, both)
  <2>1. Len(pq) = n + m
    BY <1>4
  <2> HIDE DEF pq
  <2> QED
    BY <1>9, <1>12, <1>13, <2>1 DEF Account
<1> HIDE DEF pq
<1>15. \E x \in [1 .. Len(pq) + 1 -> Nat] : Account(pq, x) /\ x[Len(pq) + 1] <= w + v
  BY <1>4, <1>9, <1>13, <1>14 DEF pq
<1> QED
  BY <1>4, <1>15 DEF Costs, pq

(* How many parts a count is split into, and how far they come.            *)
LEMMA PartsReach ==
  ASSUME NEW n \in Nat, NEW least \in 1 .. 4
  PROVE  \E k \in Nat : /\ k = (n + LongCount - least) \div LongCount
                        /\ LongCount * k <= n + LongCount - least
                        /\ n - least < LongCount * k
<1>1. LongCount \in Nat /\ LongCount >= 16
  BY LongCountAssumption
<1>2. n + LongCount - least \in Nat
  BY <1>1
<1>3. \A a \in Nat, K \in Nat : K >= 1 => /\ a \div K \in Nat
                                          /\ K * (a \div K) <= a /\ a < K * (a \div K) + K
  OBVIOUS
<1>4. PICK k \in Nat : k = (n + LongCount - least) \div LongCount
  BY <1>1, <1>2, <1>3
<1>5. LongCount * k <= n + LongCount - least /\ n + LongCount - least < LongCount * k + LongCount
  BY <1>1, <1>2, <1>3, <1>4
<1>6. LongCount * k \in Nat
  BY <1>1, <1>4
<1> DEFINE x == LongCount * k
<1>7. x \in Nat /\ n + LongCount - least < x + LongCount
  BY <1>5, <1>6
<1> HIDE DEF x
<1>8. n - least < x
  BY <1>1, <1>7
<1> QED
  BY <1>4, <1>5, <1>8 DEF x

LEMMA SplitProduct ==
  ASSUME NEW K \in Nat, NEW i \in Nat, i >= 1
  PROVE  K * (i - 1) \in Nat /\ K * i \in Nat /\ K * i = K * (i - 1) + K
OBVIOUS

LEMMA ProductOrder ==
  ASSUME NEW K \in Nat, NEW i \in Nat, NEW j \in Nat, i <= j
  PROVE  K * i <= K * j
<1>1. PICK d \in Nat : j = i + d
  <2>1. j - i \in Nat /\ j = i + (j - i)
    OBVIOUS
  <2> QED
    BY <2>1
<1>2. K * j = K * i + K * d
  BY <1>1
<1>3. K * i \in Nat /\ K * d \in Nat
  OBVIOUS
<1> QED
  BY <1>2, <1>3

LEMMA OpcodeSize ==
  ASSUME NEW base \in Int, NEW n \in Int
  PROVE  Len(Opcode(base, n)) = IF n > 15 THEN 2 ELSE 1
<1>1. CASE n > 15
  BY <1>1 DEF Opcode
<1>2. CASE ~(n > 15)
  BY <1>2 DEF Opcode
<1> QED
  BY <1>1, <1>2

LEMMA LiteralPieceSize ==
  ASSUME NEW n \in Nat, NEW touched
  PROVE  /\ PieceSize(LiteralPiece(n, touched)) \in Nat
         /\ PieceSize(LiteralPiece(n, touched)) = n + (IF n > 15 THEN 2 ELSE 1)
         /\ LiteralPiece(n, touched).literals = n /\ LiteralPiece(n, touched).need = n + 10
<1> DEFINE code == Opcode(224, n)
<1>1. Len(code) = IF n > 15 THEN 2 ELSE 1
  BY OpcodeSize
<1>2. LiteralPiece(n, touched).code = code /\ LiteralPiece(n, touched).literals = n
      /\ LiteralPiece(n, touched).need = n + 10
  BY DEF LiteralPiece, Piece
<1> HIDE DEF code
<1>3. PieceSize(LiteralPiece(n, touched)) = Len(code) + n
  BY <1>2 DEF PieceSize
<1> DEFINE size == Len(code)
<1>4. size \in Nat /\ size = IF n > 15 THEN 2 ELSE 1
  BY <1>1
<1>5. PieceSize(LiteralPiece(n, touched)) = size + n
  BY <1>3
<1> HIDE DEF size
<1> QED
  BY <1>2, <1>4, <1>5

(* A sequence of k pieces whose costs are within differences of g.         *)
LEMMA CostsOf ==
  ASSUME NEW p, AllCareful(p), NEW k \in Nat, DOMAIN p = 1 .. k,
         NEW c \in [1 .. k + 1 -> Nat], c[1] = 0,
         \A i \in 1 .. k : c[i] + 7 * PieceSize(p[i]) <= c[i + 1],
         NEW w, c[k + 1] <= w
  PROVE  Costs(p, w)
<1>1. p \in Seq(PieceType)
  <2>1. {p[i] : i \in 1 .. Len(p)} \subseteq PieceType
    BY DEF AllCareful, Careful
  <2> QED
    BY <2>1, Wider DEF AllCareful, IsSeq
<1>2. Len(p) = k
  BY <1>1, LenProperties
<1>3. Account(p, c)
  BY <1>2 DEF Account
<1> QED
  BY <1>1, <1>2, <1>3 DEF Costs

(* A count n of which each part of length x costs 7 * (y + the opcode).    *)
LEMMA MatchesAfterCost ==
  ASSUME NEW n \in Nat
  PROVE  Costs(MatchesAfter(n), 8 * n)
<1> DEFINE p == MatchesAfter(n)
           part(i) == Lesser(LongCount, n - LongCount * (i - 1))
<1>1. LongCount \in Nat /\ LongCount >= 16
  BY LongCountAssumption
<1>2. PICK k \in Nat : /\ k = (n + LongCount - 1) \div LongCount
                       /\ LongCount * k <= n + LongCount - 1 /\ n - 1 < LongCount * k
  <2>1. 1 \in 1 .. 4
    OBVIOUS
  <2> HIDE DEF p, part
  <2> QED
    BY <2>1, PartsReach
<1>3. Counts(n) = [i \in 1 .. k |-> part(i)]
  BY <1>2 DEF Counts
<1>4. p = [i \in 1 .. k |-> LET code == Opcode(240, part(i)) IN Piece(code, 0, Len(code), Len(code))]
  BY <1>3 DEF MatchesAfter
<1>5. ASSUME NEW i \in 1 .. k PROVE part(i) \in 1 .. LongCount
  BY <1>2, Split
<1> DEFINE c == [i \in 1 .. k + 1 |-> 8 * Lesser(LongCount * (i - 1), n)]
<1>6. c \in [1 .. k + 1 -> Nat]
  <2>1. ASSUME NEW i \in 1 .. k + 1 PROVE 8 * Lesser(LongCount * (i - 1), n) \in Nat
    <3>1. LongCount * (i - 1) \in Nat
      BY <1>1, SplitProduct
    <3> QED
      BY <3>1 DEF Lesser
  <2> QED
    BY <2>1
<1>7. c[1] = 0
  <2>1. LongCount * (1 - 1) = 0
    BY <1>1
  <2> QED
    BY <2>1 DEF Lesser
<1>8. c[k + 1] <= 8 * n
  <2>1. c[k + 1] = 8 * Lesser(LongCount * ((k + 1) - 1), n)
    OBVIOUS
  <2>2. LongCount * ((k + 1) - 1) \in Nat
    BY <1>1, SplitProduct
  <2> QED
    BY <2>1, <2>2 DEF Lesser
<1>9. ASSUME NEW i \in 1 .. k PROVE c[i] + 7 * PieceSize(p[i]) <= c[i + 1]
  <2>1. PICK x \in 1 .. LongCount : x = part(i)
    BY <1>5
  <2>2. PieceSize(p[i]) = IF x > 15 THEN 2 ELSE 1
    <3>1. p[i].code = Opcode(240, x) /\ p[i].literals = 0
      BY <1>4, <2>1 DEF Piece
    <3>2. Len(Opcode(240, x)) = IF x > 15 THEN 2 ELSE 1
      BY OpcodeSize
    <3> QED
      BY <3>1, <3>2 DEF PieceSize
  <2>3. PICK a \in Nat : a = LongCount * (i - 1) /\ LongCount * i = a + LongCount
    BY <1>1, SplitProduct
  <2>4. c[i] = 8 * Lesser(a, n) /\ c[i + 1] = 8 * Lesser(a + LongCount, n)
    <3>1. i \in 1 .. k + 1 /\ i + 1 \in 1 .. k + 1 /\ (i + 1) - 1 = i
      OBVIOUS
    <3> QED
      BY <2>3, <3>1
  <2>5. x = Lesser(LongCount, n - a)
    BY <2>1, <2>3
  <2>6. Lesser(a + LongCount, n) = Lesser(a, n) + x /\ Lesser(a, n) \in Nat
    BY <1>1, <2>3, <2>5 DEF Lesser
  <2> HIDE DEF c, p, part
  <2> QED
    BY <1>1, <2>2, <2>4, <2>6
<1>10. AllCareful(p) /\ DOMAIN p = 1 .. k
  BY <1>4, MatchesAfterCareful
<1> HIDE DEF p, c, part
<1>11. Costs(p, 8 * n)
  BY <1>6, <1>7, <1>8, <1>9, <1>10, CostsOf
<1> QED
  BY <1>11 DEF p

LEMMA CountNear ==
  ASSUME NEW K \in Nat, K >= 1, NEW i \in Nat, NEW j \in Nat, K * i < K * j + K
  PROVE  i <= j
<1> SUFFICES ASSUME ~(i <= j) PROVE FALSE
  OBVIOUS
<1>1. j + 1 \in Nat /\ j + 1 <= i /\ j + 1 >= 1 /\ (j + 1) - 1 = j
  OBVIOUS
<1>2. K * (j + 1) <= K * i
  BY <1>1, ProductOrder
<1>3. K * (j + 1) = K * j + K
  BY <1>1, SplitProduct
<1>4. K * i \in Nat /\ K * j \in Nat
  OBVIOUS
<1> QED
  BY <1>2, <1>3, <1>4

LEMMA DivMod ==
  ASSUME NEW a \in Nat, NEW K \in Nat, K >= 1
  PROVE  \E q \in Nat : \E r \in Nat : r = a % K /\ r < K /\ a = K * q + r
<1>1. a % K \in Nat /\ a % K < K
  OBVIOUS
<1>2. a \div K \in Nat /\ a = K * (a \div K) + (a % K)
  OBVIOUS
<1> QED
  BY <1>1, <1>2

(* The literals an instruction does not carry are all but the last few of  *)
(* the parts.                                                              *)
LEMMA Outside ==
  ASSUME NEW L \in Nat, NEW k \in Nat,
         LongCount * k <= L + LongCount - 4, L - 4 < LongCount * k
  PROVE  /\ LiteralsWithin(L) \in Nat /\ L - LiteralsWithin(L) \in Nat
         /\ L <= (L - LiteralsWithin(L)) + 3
         /\ L - LiteralsWithin(L) <= LongCount * k
         /\ (L - LiteralsWithin(L) = L \/ L - LiteralsWithin(L) = LongCount * k)
         /\ k > 0 => LongCount * (k - 1) + 4 <= L - LiteralsWithin(L)
<1>1. LongCount \in Nat /\ LongCount >= 16 /\ LongCount >= 1
  BY LongCountAssumption
<1>2. PICK q \in Nat : \E r \in Nat : r = L % LongCount /\ r < LongCount /\ L = LongCount * q + r
  BY <1>1, DivMod
<1>3. PICK r \in Nat : r = L % LongCount /\ r < LongCount /\ L = LongCount * q + r
  BY <1>2
<1>4. LiteralsWithin(L) = IF r <= 3 THEN r ELSE 0
  BY <1>3 DEF LiteralsWithin
<1>5. PICK a \in Nat : a = LongCount * q
  BY <1>1
<1>6. PICK b \in Nat : b = LongCount * k
  BY <1>1
<1>7. k > 0 => LongCount * (k - 1) = b - LongCount
  <2> HAVE k > 0
  <2>1. k >= 1
    OBVIOUS
  <2>2. LongCount * (k - 1) \in Nat /\ LongCount * k = LongCount * (k - 1) + LongCount
    BY <1>1, <2>1, SplitProduct
  <2> QED
    BY <1>1, <1>6, <2>2
<1>8. L = a + r /\ r < LongCount /\ b <= L + LongCount - 4 /\ L - 4 < b
  BY <1>3, <1>5, <1>6
<1>9. CASE r <= 3
  <2>1. b < a + LongCount /\ a < b + LongCount
    BY <1>1, <1>8, <1>9
  <2>2. k <= q /\ q <= k
    BY <1>1, <1>5, <1>6, <2>1, CountNear
  <2>3. k = q
    BY <2>2
  <2>4. b = a
    BY <1>5, <1>6, <2>3
  <2>5. L - LiteralsWithin(L) = a /\ LiteralsWithin(L) = r
    BY <1>4, <1>8, <1>9
  <2>6. k > 0 => LongCount * (k - 1) + 4 <= a
    BY <1>1, <1>7, <2>4
  <2> QED
    BY <1>6, <1>8, <1>9, <2>4, <2>5, <2>6
<1>10. CASE ~(r <= 3)
  <2>1. a + LongCount < b + LongCount /\ b < (a + LongCount) + LongCount
    BY <1>1, <1>8, <1>10
  <2>2. q + 1 \in Nat /\ q + 1 >= 1 /\ (q + 1) - 1 = q
    OBVIOUS
  <2>3. LongCount * (q + 1) = a + LongCount
    BY <1>1, <1>5, <2>2, SplitProduct
  <2>4. k <= q + 1 /\ q + 1 <= k
    BY <1>1, <1>6, <2>1, <2>2, <2>3, CountNear
  <2>5. k = q + 1
    BY <2>4
  <2>6. b = a + LongCount
    BY <1>6, <2>3, <2>5
  <2>7. L - LiteralsWithin(L) = L /\ LiteralsWithin(L) = 0
    BY <1>4, <1>10
  <2>8. k > 0 => LongCount * (k - 1) + 4 <= L
    BY <1>1, <1>7, <1>8, <1>10, <2>6
  <2>9. L <= b /\ L <= L + 3
    BY <1>1, <1>8, <2>6
  <2> QED
    BY <1>6, <2>7, <2>8, <2>9
<1> QED
  BY <1>9, <1>10

(* What goes before a match: three more for a last part of 4 literals.     *)
LEMMA LiteralsBeforeCost ==
  ASSUME NEW L \in Nat
  PROVE  Costs(LiteralsBefore(L), 8 * (L - LiteralsWithin(L)) + 3) /\ L - LiteralsWithin(L) \in Nat
<1> DEFINE p == LiteralsBefore(L)
           part(i) == Lesser(LongCount, L - LongCount * (i - 1))
<1>1. LongCount \in Nat /\ LongCount >= 16
  BY LongCountAssumption
<1>2. PICK k \in Nat : /\ k = (L + LongCount - 4) \div LongCount
                       /\ LongCount * k <= L + LongCount - 4 /\ L - 4 < LongCount * k
  <2>1. 4 \in 1 .. 4
    OBVIOUS
  <2> HIDE DEF p, part
  <2> QED
    BY <2>1, PartsReach
<1>3. p = [i \in 1 .. k |-> LiteralPiece(part(i), 8 * ((part(i) + 7) \div 8))]
  BY <1>2 DEF LiteralsBefore
<1>4. ASSUME NEW i \in 1 .. k PROVE part(i) \in 4 .. LongCount
  BY <1>2, Split
<1>5. /\ LiteralsWithin(L) \in Nat /\ L - LiteralsWithin(L) \in Nat
      /\ L <= (L - LiteralsWithin(L)) + 3
      /\ L - LiteralsWithin(L) <= LongCount * k
      /\ (L - LiteralsWithin(L) = L \/ L - LiteralsWithin(L) = LongCount * k)
      /\ k > 0 => LongCount * (k - 1) + 4 <= L - LiteralsWithin(L)
  <2> HIDE DEF p, part
  <2> QED
    BY <1>2, Outside
<1>6. PICK w \in Nat : /\ w = L - LiteralsWithin(L) /\ w <= L /\ L <= w + 3 /\ w <= LongCount * k
                       /\ (w = L \/ w = LongCount * k)
                       /\ k > 0 => LongCount * (k - 1) + 4 <= w
  BY <1>5
<1> DEFINE c == [i \in 1 .. k + 1 |-> 8 * Lesser(LongCount * (i - 1), w)
                                        + (IF i = k + 1 /\ k > 0 THEN 3 ELSE 0)]
<1>7. c \in [1 .. k + 1 -> Nat]
  <2>1. ASSUME NEW i \in 1 .. k + 1
        PROVE  8 * Lesser(LongCount * (i - 1), w) + (IF i = k + 1 /\ k > 0 THEN 3 ELSE 0) \in Nat
    <3>1. LongCount * (i - 1) \in Nat
      BY <1>1, SplitProduct
    <3> QED
      BY <1>6, <3>1 DEF Lesser
  <2> QED
    BY <2>1
<1>8. c[1] = 0
  <2>1. LongCount * (1 - 1) = 0 /\ ~(1 = k + 1 /\ k > 0)
    BY <1>1
  <2> QED
    BY <1>6, <2>1 DEF Lesser
<1>9. c[k + 1] <= 8 * w + 3
  <2>1. c[k + 1] = 8 * Lesser(LongCount * ((k + 1) - 1), w) + (IF k > 0 THEN 3 ELSE 0)
    OBVIOUS
  <2>2. LongCount * ((k + 1) - 1) \in Nat
    BY <1>1, SplitProduct
  <2> QED
    BY <1>6, <2>1, <2>2 DEF Lesser
<1>10. ASSUME NEW i \in 1 .. k PROVE c[i] + 7 * PieceSize(p[i]) <= c[i + 1]
  <2>1. PICK x \in 4 .. LongCount : x = part(i)
    BY <1>4
  <2>2. PieceSize(p[i]) = x + (IF x > 15 THEN 2 ELSE 1)
    <3>1. p[i] = LiteralPiece(x, 8 * ((x + 7) \div 8))
      BY <1>3, <2>1
    <3>2. x \in Nat
      BY <1>1
    <3> QED
      BY <3>1, <3>2, LiteralPieceSize
  <2>3. PICK a \in Nat : a = LongCount * (i - 1) /\ LongCount * i = a + LongCount
    BY <1>1, SplitProduct
  <2>4. c[i] = 8 * Lesser(a, w)
        /\ c[i + 1] = 8 * Lesser(a + LongCount, w) + (IF i = k THEN 3 ELSE 0)
    <3>1. i \in 1 .. k + 1 /\ i + 1 \in 1 .. k + 1 /\ (i + 1) - 1 = i /\ ~(i = k + 1 /\ k > 0)
          /\ ((i + 1 = k + 1 /\ k > 0) <=> i = k)
      OBVIOUS
    <3>2. c[i] = 8 * Lesser(LongCount * (i - 1), w) + 0
      BY <3>1
    <3>3. c[i + 1] = 8 * Lesser(LongCount * ((i + 1) - 1), w) + (IF i = k THEN 3 ELSE 0)
      BY <3>1
    <3>4. Lesser(a, w) \in Nat
      BY <2>3 DEF Lesser
    <3> HIDE DEF c
    <3> QED
      BY <2>3, <3>1, <3>2, <3>3, <3>4
  <2>5. x = Lesser(LongCount, L - a)
    BY <2>1, <2>3
  <2> HIDE DEF c, p, part
  <2>6. a + 4 <= w /\ (i # k => a + LongCount <= w /\ x = LongCount)
    <3>1. a <= LongCount * (k - 1) /\ k > 0 /\ k - 1 \in Nat
      BY <1>1, <2>3, ProductOrder
    <3>2. PICK b \in Nat : b = LongCount * (k - 1)
      BY <1>1, <3>1
    <3>3. b + 4 <= w /\ a <= b
      BY <1>6, <3>1, <3>2
    <3>4. ASSUME i # k PROVE a + LongCount <= b
      <4>1. i <= k - 1
        BY <3>4
      <4> QED
        BY <1>1, <2>3, <3>1, <3>2, <4>1, ProductOrder
    <3> QED
      BY <1>1, <1>6, <2>5, <3>2, <3>3, <3>4 DEF Lesser
  <2>7. CASE i # k
    <3>1. c[i] = 8 * a /\ c[i + 1] = 8 * (a + LongCount) + 0 /\ x = LongCount
      BY <1>1, <2>4, <2>6, <2>7 DEF Lesser
    <3> QED
      BY <1>1, <2>2, <3>1
  <2>8. CASE i = k
    <3>1. c[i] = 8 * a
      BY <2>4, <2>6 DEF Lesser
    <3>2. w <= a + LongCount
      BY <1>6, <2>3, <2>8
    <3>3. c[i + 1] = 8 * w + 3
      BY <1>1, <2>4, <2>8, <3>2 DEF Lesser
    <3>4. x + a <= w /\ x \in Nat
      <4>1. x <= L - a /\ x <= LongCount /\ x \in Nat
        BY <1>1, <2>1, <2>5 DEF Lesser
      <4>2. LongCount * k = a + LongCount
        BY <2>3, <2>8
      <4> QED
        BY <1>1, <1>6, <4>1, <4>2
    <3>5. CASE x > 15
      <4>1. c[i] + 7 * (x + 2) <= c[i + 1]
        BY <1>6, <3>1, <3>3, <3>4, <3>5
      <4> QED
        BY <2>2, <3>5, <4>1
    <3>6. CASE ~(x > 15)
      <4>1. c[i] + 7 * (x + 1) <= c[i + 1]
        BY <1>6, <3>1, <3>3, <3>4, <3>6
      <4> QED
        BY <2>2, <3>6, <4>1
    <3> QED
      BY <3>5, <3>6
  <2> QED
    BY <2>7, <2>8
<1>11. AllCareful(p) /\ DOMAIN p = 1 .. k
  BY <1>3, LiteralsBeforeCareful
<1> HIDE DEF p, c, part
<1>12. Costs(p, 8 * w + 3)
  BY <1>7, <1>8, <1>9, <1>10, <1>11, CostsOf
<1> QED
  BY <1>5, <1>6, <1>12 DEF p

(* The instruction of a match costs at most what it is for, and the three  *)
(* that a last part of four literals before it lacks.                      *)
LEMMA OpeningCost ==
  ASSUME NEW L \in Nat, NEW M \in Nat, M >= 3, NEW D \in Int, NEW previous
  PROVE  /\ OpeningLength(L, M, D, previous) \in Nat
         /\ M - OpeningLength(L, M, D, previous) \in Nat
         /\ 8 * LiteralsWithin(L) + 8 * OpeningLength(L, M, D, previous) - 3 \in Nat
         /\ Costs(<<Opening(L, M, D, previous)>>,
                  8 * LiteralsWithin(L) + 8 * OpeningLength(L, M, D, previous) - 3)
<1> DEFINE within == LiteralsWithin(L)
           first == Lesser(M, 10 - 2 * within)
           x == OpeningLength(L, M, D, previous)
           e == Opening(L, M, D, previous)
           code == e.code
<1>1. within \in 0 .. 3
  BY LiteralsWithinBounded
<1>2. Careful(e) /\ x \in Nat /\ M - x \in Nat
  BY OpeningCareful
<1>3. x >= 3
  <2>1. x = M \/ x = first
    BY DEF OpeningLength
  <2> HIDE DEF within, x
  <2>2. first >= 3
    BY <1>1 DEF Lesser
  <2> QED
    BY <2>1, <2>2
<1>4. Len(code) \in 1 .. 3 /\ e.literals = within
  <2> DEFINE wide == 4 * D + ((x - 3) % 4)
             same == IF within = 0 THEN <<240 + x>> ELSE <<64 * within + 8 * (x - 3) + 6>>
             short == <<(D \div 256) + 64 * within + 8 * (x - 3), D % 256>>
             medium == <<160 + ((x - 3) \div 4) + 8 * within, wide % 256, wide \div 256>>
             long == <<64 * within + 8 * (x - 3) + 7, D % 256, D \div 256>>
  <2>1. \E y \in {same, short, medium, long} :
          e = [code |-> y, literals |-> within, need |-> 8, touched |-> Len(y) + 4]
    BY DEF Opening, Piece
  <2>2. Len(same) \in 1 .. 3 /\ Len(short) \in 1 .. 3 /\ Len(medium) \in 1 .. 3 /\ Len(long) \in 1 .. 3
    <3> HIDE DEF within, x, wide
    <3>1. Len(same) \in 1 .. 3
      <4>1. CASE within = 0
        BY <4>1
      <4>2. CASE within # 0
        BY <4>2
      <4> QED
        BY <4>1, <4>2
    <3>2. Len(short) \in 1 .. 3 /\ Len(medium) \in 1 .. 3 /\ Len(long) \in 1 .. 3
      OBVIOUS
    <3> QED
      BY <3>1, <3>2
  <2> HIDE DEF e, within, x, same, short, medium, long
  <2> QED
    BY <2>1, <2>2
<1> DEFINE size == Len(code)
           s == PieceSize(e)
           w == 8 * within + 8 * x - 3
<1>5. s = size + within
  BY <1>4 DEF PieceSize
<1>6. s \in Nat /\ w \in Nat /\ 7 * s <= w
  <2>1. size \in 1 .. 3
    BY <1>4
  <2> HIDE DEF size, s, within, x
  <2> QED
    BY <1>1, <1>2, <1>3, <1>5, <2>1
<1>7. <<e>> \in Seq(PieceType) /\ Len(<<e>>) = 1 /\ <<e>>[1] = e
  <2>1. e \in PieceType
    BY <1>2 DEF Careful
  <2> HIDE DEF e
  <2> QED
    BY <2>1
<1> HIDE DEF e, within, x, s, w, size
<1> DEFINE c == [i \in 1 .. 1 + 1 |-> IF i = 1 THEN 0 ELSE 7 * s]
           p == <<e>>
<1>8. p \in Seq(PieceType) /\ Len(p) = 1 /\ PieceSize(p[1]) = s
  BY <1>7 DEF s
<1>9. c \in [1 .. 1 + 1 -> Nat] /\ c[1] = 0 /\ c[1 + 1] = 7 * s
  BY <1>6
<1> HIDE DEF c, p
<1>10. \A i \in 1 .. 1 : c[i] + 7 * PieceSize(p[i]) <= c[i + 1]
  <2>1. c[1] + 7 * PieceSize(p[1]) <= c[1 + 1]
    BY <1>6, <1>8, <1>9
  <2> QED
    BY <2>1
<1>11. Account(p, c)
  BY <1>8, <1>9, <1>10 DEF Account
<1>12. Costs(p, w)
  BY <1>6, <1>8, <1>9, <1>11 DEF Costs
<1> QED
  BY <1>2, <1>6, <1>12 DEF p, e, within, x, w

(* A match and the literals before it: eight bytes for seven of the text.  *)
LEMMA EmitCost ==
  ASSUME NEW L \in Nat, NEW M \in Nat, M >= 3, NEW D \in Int, NEW previous
  PROVE  Costs(Emit(L, M, D, previous), 8 * (L + M))
<1> DEFINE within == LiteralsWithin(L)
           x == OpeningLength(L, M, D, previous)
           e == Opening(L, M, D, previous)
<1>1. within \in Nat /\ x \in Nat /\ M - x \in Nat /\ L - within \in Nat
      /\ 8 * within + 8 * x - 3 \in Nat
  <2>1. within \in Nat
    <3>1. within \in 0 .. 3
      BY LiteralsWithinBounded
    <3> HIDE DEF within
    <3> QED
      BY <3>1
  <2>2. x \in Nat /\ M - x \in Nat /\ 8 * within + 8 * x - 3 \in Nat
    BY OpeningCost
  <2>3. L - within \in Nat
    BY LiteralsBeforeCost
  <2> HIDE DEF within, x
  <2> QED
    BY <2>1, <2>2, <2>3
<1>2. Costs(LiteralsBefore(L), 8 * (L - within) + 3)
  BY LiteralsBeforeCost
<1>3. Costs(<<e>>, 8 * within + 8 * x - 3)
  BY OpeningCost
<1>4. Costs(MatchesAfter(M - x), 8 * (M - x))
  BY <1>1, MatchesAfterCost
<1>5. Emit(L, M, D, previous) = (LiteralsBefore(L) \o <<e>>) \o MatchesAfter(M - x)
  BY DEF Emit
<1> HIDE DEF within, x, e
<1> DEFINE u == 8 * (L - within) + 3
           v == 8 * within + 8 * x - 3
           t == 8 * (M - x)
<1>6. u \in Nat /\ v \in Nat /\ t \in Nat /\ (u + v) + t = 8 * (L + M) /\ u + v \in Nat
  BY <1>1
<1> HIDE DEF u, v, t
<1>7. Costs(LiteralsBefore(L) \o <<e>>, u + v)
  BY <1>2, <1>3, <1>6, CostsConcat DEF u, v
<1>8. Costs((LiteralsBefore(L) \o <<e>>) \o MatchesAfter(M - x), (u + v) + t)
  BY <1>4, <1>6, <1>7, CostsConcat DEF t
<1> QED
  BY <1>5, <1>6, <1>8

(* Literals alone: what is written before a part, and in all.              *)
LEMMA EmitLiteralAccount ==
  ASSUME NEW n \in Nat
  PROVE  \E k \in Nat : \E c \in [1 .. k + 1 -> Nat] :
           /\ Len(EmitLiteral(n)) = k /\ EmitLiteral(n) \in Seq(PieceType)
           /\ Account(EmitLiteral(n), c)
           /\ \A i \in 1 .. k : c[i] + 7 * EmitLiteral(n)[i].need <= 8 * n + 70
           /\ n = LongCount => c[k + 1] <= 8 * n
<1> DEFINE p == EmitLiteral(n)
           part(i) == Lesser(LongCount, n - LongCount * (i - 1))
<1>1. LongCount \in Nat /\ LongCount >= 16
  BY LongCountAssumption
<1>2. PICK k \in Nat : /\ k = (n + LongCount - 1) \div LongCount
                       /\ LongCount * k <= n + LongCount - 1 /\ n - 1 < LongCount * k
  <2>1. 1 \in 1 .. 4
    OBVIOUS
  <2> HIDE DEF p, part
  <2> QED
    BY <2>1, PartsReach
<1>3. Counts(n) = [i \in 1 .. k |-> part(i)]
  BY <1>2 DEF Counts
<1>4. p = [i \in 1 .. k |-> LiteralPiece(part(i), part(i))]
  BY <1>3 DEF EmitLiteral
<1>5. ASSUME NEW i \in 1 .. k PROVE part(i) \in 1 .. LongCount
  BY <1>2, Split
<1>6. PICK extra \in Nat : extra = IF n = LongCount THEN 0 ELSE 7
  OBVIOUS
<1> DEFINE c == [i \in 1 .. k + 1 |-> IF i = k + 1 THEN (IF k = 0 THEN 0 ELSE 8 * n + extra)
                                      ELSE 8 * (LongCount * (i - 1))]
<1>7. c \in [1 .. k + 1 -> Nat]
  <2>1. ASSUME NEW i \in 1 .. k + 1 PROVE 8 * (LongCount * (i - 1)) \in Nat
    <3>1. LongCount * (i - 1) \in Nat
      BY <1>1, SplitProduct
    <3> QED
      BY <3>1
  <2> QED
    BY <2>1
<1>8. c[1] = 0
  <2>1. LongCount * (1 - 1) = 0 /\ 1 \in 1 .. k + 1
    BY <1>1
  <2> QED
    BY <2>1
<1>9. c[k + 1] <= 8 * n + extra
  <2>1. k + 1 \in 1 .. k + 1
    OBVIOUS
  <2> QED
    BY <2>1
<1>10. ASSUME NEW i \in 1 .. k
       PROVE  /\ c[i] + 7 * PieceSize(p[i]) <= c[i + 1]
              /\ c[i] + 7 * p[i].need <= 8 * n + 70
  <2>1. PICK x \in 1 .. LongCount : x = part(i)
    BY <1>5
  <2>2. PieceSize(p[i]) = x + (IF x > 15 THEN 2 ELSE 1) /\ p[i].need = x + 10
    <3>1. p[i] = LiteralPiece(x, x)
      BY <1>4, <2>1
    <3>2. x \in Nat
      BY <1>1
    <3> QED
      BY <3>1, <3>2, LiteralPieceSize
  <2>3. PICK a \in Nat : a = LongCount * (i - 1) /\ LongCount * i = a + LongCount
    BY <1>1, SplitProduct
  <2>4. c[i] = 8 * a /\ c[i + 1] = IF i = k THEN 8 * n + extra ELSE 8 * (a + LongCount)
    <3>1. i \in 1 .. k + 1 /\ i + 1 \in 1 .. k + 1 /\ (i + 1) - 1 = i /\ i # k + 1 /\ k # 0
          /\ (i + 1 = k + 1 <=> i = k)
      OBVIOUS
    <3>2. c[i] = 8 * (LongCount * (i - 1))
      BY <3>1
    <3>3. c[i + 1] = IF i = k THEN 8 * n + extra ELSE 8 * (LongCount * ((i + 1) - 1))
      BY <3>1
    <3> HIDE DEF c
    <3> QED
      BY <2>3, <3>1, <3>2, <3>3
  <2>5. x = Lesser(LongCount, n - a)
    BY <2>1, <2>3
  <2>6. x + a <= n /\ x \in Nat /\ x <= LongCount
    BY <1>1, <2>1, <2>5 DEF Lesser
  <2> HIDE DEF c, p, part
  <2>7. c[i] + 7 * (x + 10) <= 8 * n + 70
    BY <2>4, <2>6
  <2>8. CASE i # k
    <3>1. PICK b \in Nat : b = LongCount * k
      BY <1>1
    <3>2. a + LongCount + LongCount <= b
      <4>1. i + 1 \in Nat /\ i + 1 >= 1 /\ i + 1 <= k /\ (i + 1) - 1 = i
        BY <2>8
      <4>2. LongCount * (i + 1) <= b
        BY <1>1, <3>1, <4>1, ProductOrder
      <4>3. LongCount * (i + 1) = LongCount * i + LongCount
        BY <1>1, <4>1, SplitProduct
      <4> QED
        BY <1>1, <2>3, <4>2, <4>3
    <3>3. a + LongCount <= n
      BY <1>1, <1>2, <3>1, <3>2
    <3>4. x = LongCount
      BY <1>1, <2>5, <3>3 DEF Lesser
    <3>5. c[i] + 7 * (x + 2) <= c[i + 1] /\ x > 15
      BY <1>1, <2>4, <2>8, <3>4
    <3> QED
      BY <2>2, <2>7, <3>5
  <2>9. CASE i = k
    <3>1. c[i + 1] = 8 * n + extra
      BY <2>4, <2>9
    <3>2. CASE x > 15
      <4>1. c[i] + 7 * (x + 2) <= c[i + 1]
        BY <2>4, <2>6, <3>1, <3>2
      <4> QED
        BY <2>2, <2>7, <3>2, <4>1
    <3>3. CASE ~(x > 15)
      <4>1. n # LongCount
        <5>1. SUFFICES ASSUME n = LongCount PROVE FALSE
          OBVIOUS
        <5>2. LongCount * 1 = LongCount
          BY <1>1
        <5>3. LongCount * k < LongCount * 1 + LongCount
          BY <1>1, <1>2, <5>1, <5>2
        <5>4. k <= 1
          BY <1>1, <5>3, CountNear
        <5>5. i - 1 = 0
          BY <2>9, <5>4
        <5>6. a = 0
          BY <1>1, <2>3, <5>5
        <5> QED
          BY <1>1, <2>5, <3>3, <5>1, <5>6 DEF Lesser
      <4>2. extra = 7
        BY <1>6, <4>1
      <4>3. c[i] + 7 * (x + 1) <= c[i + 1]
        BY <2>4, <2>6, <3>1, <4>2
      <4> QED
        BY <2>2, <2>7, <3>3, <4>3
    <3> QED
      BY <3>2, <3>3
  <2> QED
    BY <2>8, <2>9
<1>11. AllCareful(p) /\ DOMAIN p = 1 .. k
  BY <1>4, EmitLiteralCareful
<1>12. p \in Seq(PieceType)
  <2>1. {p[i] : i \in 1 .. Len(p)} \subseteq PieceType
    BY <1>11 DEF AllCareful, Careful
  <2> HIDE DEF p
  <2> QED
    BY <1>11, <2>1, Wider DEF AllCareful, IsSeq
<1> HIDE DEF p, c, part
<1>13. Len(p) = k
  BY <1>11, <1>12, LenProperties
<1>14. Account(p, c)
  BY <1>7, <1>8, <1>10, <1>13 DEF Account
<1>15. n = LongCount => c[k + 1] <= 8 * n
  BY <1>6, <1>7, <1>9
<1> QED
  BY <1>7, <1>10, <1>12, <1>13, <1>14, <1>15 DEF p

LEMMA LongLiteralCost == Costs(EmitLiteral(LongCount), 8 * LongCount)
<1>1. LongCount \in Nat
  BY LongCountAssumption
<1>2. PICK k \in Nat : \E c \in [1 .. k + 1 -> Nat] :
           /\ Len(EmitLiteral(LongCount)) = k /\ EmitLiteral(LongCount) \in Seq(PieceType)
           /\ Account(EmitLiteral(LongCount), c)
           /\ c[k + 1] <= 8 * LongCount
  BY <1>1, EmitLiteralAccount
<1> QED
  BY <1>2 DEF Costs

(* Literals that do not fit lack room for eight bytes for seven of them,   *)
(* and ten.                                                                *)
LEMMA LiteralsRefused ==
  ASSUME NEW n \in Nat, NEW room \in Int, ~Fits(EmitLiteral(n), room)
  PROVE  7 * room <= 8 * n + 70
<1> DEFINE p == EmitLiteral(n)
<1>1. PICK k \in Nat : \E c \in [1 .. k + 1 -> Nat] :
           /\ Len(p) = k /\ p \in Seq(PieceType)
           /\ Account(p, c)
           /\ \A i \in 1 .. k : c[i] + 7 * p[i].need <= 8 * n + 70
  BY EmitLiteralAccount
<1>2. PICK c \in [1 .. k + 1 -> Nat] :
           /\ Len(p) = k /\ p \in Seq(PieceType)
           /\ Account(p, c)
           /\ \A i \in 1 .. k : c[i] + 7 * p[i].need <= 8 * n + 70
  BY <1>1
<1> HIDE DEF p
<1>3. DOMAIN p = 1 .. k
  BY <1>2, LenProperties
<1>4. PICK i \in 1 .. k : ~(Offsets(p)[i] + p[i].need < room)
  BY <1>3 DEF Fits, p
<1>5. i \in 1 .. k + 1
  OBVIOUS
<1>6. PICK o \in Nat : o = Offsets(p)[i]
  BY <1>2, <1>5, OffsetsSum
<1>7. PICK a \in Nat : a = c[i]
  BY <1>5
<1>8. 7 * o <= a
  BY <1>2, <1>5, <1>6, <1>7, AccountHolds
<1>9. PICK need \in Int : need = p[i].need
  <2>1. p[i] \in PieceType
    BY <1>2, ElementOfSeq
  <2> QED
    BY <2>1 DEF PieceType
<1>10. a + 7 * need <= 8 * n + 70
  BY <1>2, <1>7, <1>9
<1>11. ~(o + need < room)
  BY <1>4, <1>6, <1>9
<1> QED
  BY <1>8, <1>10, <1>11

(* The payload is within eight bytes for seven of what is encoded, as long *)
(* as anything is still to come; what is given up for lack of room lacks   *)
(* that much room.                                                         *)
Scarce == 7 * dstSize <= 8 * SrcEnd + 126

CostInv ==
  /\ enc \in {"start", "search", "rest"} => 7 * Len(payload) <= 8 * srcLiteral
  /\ enc = "end" => srcLiteral = SrcEnd \/ Scarce
  /\ enc = "failed" => Scarce

(* What an instruction with its literals adds to the payload.              *)
LEMMA Spent ==
  ASSUME PayloadInv, NEW pieces, NEW w \in Nat, Costs(pieces, w),
         NEW from \in Nat, payload' = payload \o Bytes(pieces, text, from)
  PROVE  \E size \in Nat : Len(payload') = Len(payload) + size /\ 7 * size <= w
<1> DEFINE bytes == Bytes(pieces, text, from)
           size == Offsets(pieces)[Len(pieces) + 1]
<1>1. pieces \in Seq(PieceType) /\ size \in Nat /\ 7 * size <= w
  BY CostsHold
<1>2. IsSeq(bytes) /\ Len(bytes) = size
  BY <1>1, BytesLen
<1>3. IsSeq(payload)
  BY DEF PayloadInv
<1> HIDE DEF bytes, size
<1>4. Len(payload \o bytes) = Len(payload) + size
  BY <1>2, <1>3, ConcatSeq
<1>5. payload' = payload \o bytes
  BY DEF bytes
<1> QED
  BY <1>1, <1>4, <1>5

LEMMA MatchSpent ==
  ASSUME EncoderTypes, PayloadInv, 7 * Len(payload) <= 8 * srcLiteral,
         NEW m, m \in MatchType, Repeats(m), EmitMatch(m)
  PROVE  7 * Len(payload') <= 8 * srcLiteral'
<1>1. PICK from \in Nat : from = srcLiteral
  BY DEF EncoderTypes
<1>2. /\ m.mBegin \in Int /\ m.M \in Int /\ m.D \in Int /\ m.mEnd \in Int
      /\ from <= m.mBegin /\ m.mEnd = m.mBegin + m.M /\ m.M >= 3
  BY <1>1 DEF Repeats, MatchType
<1>3. PICK L \in Nat : L = m.mBegin - from
  BY <1>2
<1>4. PICK M \in Nat : M = m.M
  BY <1>2
<1>5. Costs(MatchPieces(m), 8 * (L + M))
  BY <1>1, <1>2, <1>3, <1>4, EmitCost DEF MatchPieces
<1>6. payload' = payload \o Bytes(MatchPieces(m), text, from) /\ srcLiteral' = m.mEnd
  BY <1>1 DEF EmitMatch
<1>7. 8 * (L + M) \in Nat
  OBVIOUS
<1>8. \E size \in Nat : Len(payload') = Len(payload) + size /\ 7 * size <= 8 * (L + M)
  BY <1>5, <1>6, <1>7, Spent
<1>9. PICK size \in Nat : Len(payload') = Len(payload) + size /\ 7 * size <= 8 * (L + M)
  BY <1>8
<1>10. PICK n \in Nat : n = Len(payload)
  BY LenProperties DEF PayloadInv, IsSeq
<1>11. m.mEnd = from + L + M
  BY <1>2, <1>3, <1>4
<1>12. 7 * (n + size) <= 8 * (from + L + M)
  BY <1>1, <1>9, <1>10
<1> QED
  BY <1>6, <1>9, <1>10, <1>11, <1>12

LEMMA LiteralsSpent ==
  ASSUME EncoderTypes, PayloadInv, 7 * Len(payload) <= 8 * srcLiteral, EmitLiterals(LongCount)
  PROVE  7 * Len(payload') <= 8 * srcLiteral'
<1>1. PICK from \in Nat : from = srcLiteral
  BY DEF EncoderTypes
<1>2. PICK L \in Nat : L = LongCount
  BY LongCountAssumption
<1>3. Costs(EmitLiteral(L), 8 * L)
  BY <1>2, LongLiteralCost
<1>4. payload' = payload \o Bytes(EmitLiteral(L), text, from) /\ srcLiteral' = from + L
  BY <1>1, <1>2 DEF EmitLiterals
<1>5. 8 * L \in Nat
  OBVIOUS
<1>6. \E size \in Nat : Len(payload') = Len(payload) + size /\ 7 * size <= 8 * L
  BY <1>3, <1>4, <1>5, Spent
<1>7. PICK size \in Nat : Len(payload') = Len(payload) + size /\ 7 * size <= 8 * L
  BY <1>6
<1>8. PICK n \in Nat : n = Len(payload)
  BY LenProperties DEF PayloadInv, IsSeq
<1>9. 7 * (n + size) <= 8 * (from + L)
  BY <1>1, <1>7, <1>8
<1> QED
  BY <1>4, <1>7, <1>8, <1>9

(* A step of the search pays for what it writes.                           *)
LEMMA SearchPays ==
  ASSUME EncoderInv, CostInv, Searching,
         \/ UNCHANGED <<payload, srcLiteral>>
         \/ EmitLiterals(LongCount)
         \/ \E m \in MatchType : Repeats(m) /\ EmitMatch(m),
         enc' \in {"search", "rest"}
  PROVE  CostInv'
<1>1. 7 * Len(payload) <= 8 * srcLiteral
  BY DEF CostInv, Searching
<1>2. EncoderTypes /\ PayloadInv
  BY DEF EncoderInv
<1>3. 7 * Len(payload') <= 8 * srcLiteral'
  <2>1. CASE UNCHANGED <<payload, srcLiteral>>
    BY <1>1, <2>1
  <2>2. CASE EmitLiterals(LongCount)
    BY <1>1, <1>2, <2>2, LiteralsSpent
  <2>3. CASE \E m \in MatchType : Repeats(m) /\ EmitMatch(m)
    <3>1. PICK m \in MatchType : Repeats(m) /\ EmitMatch(m)
      BY <2>3
    <3> QED
      BY <1>1, <1>2, <3>1, MatchSpent
  <2> QED
    BY <2>1, <2>2, <2>3
<1> QED
  BY <1>3 DEF CostInv

LEMMA StartPays ==
  ASSUME EncoderInv, CostInv, StartEncoder
  PROVE  CostInv'
<1>1. /\ enc = "start" /\ UNCHANGED <<text, dstSize, srcLiteral, payload>>
      /\ enc' \in {"search", "rest"} \/ (enc' = "failed" /\ dstSize < 8)
  BY DEF StartEncoder, MinDstSize
<1>2. CASE enc' \in {"search", "rest"}
  BY <1>1, <1>2 DEF CostInv
<1>3. CASE enc' = "failed" /\ dstSize < 8
  <2>1. SrcEnd \in Nat /\ dstSize \in Nat
    BY LenProperties DEF EncoderInv, EncoderTypes, SrcEnd
  <2>2. Scarce
    BY <1>3, <2>1 DEF Scarce
  <2>3. Scarce'
    BY <1>1, <2>2 DEF Scarce, SrcEnd
  <2> QED
    BY <1>3, <2>3 DEF CostInv
<1> QED
  BY <1>1, <1>2, <1>3

LEMMA RestPays ==
  ASSUME EncoderInv, CostInv, EmitRest
  PROVE  CostInv'
<1>1. /\ enc = "rest" /\ enc' = "end" /\ UNCHANGED <<text, dstSize>>
      /\ \/ srcLiteral' = srcLiteral + (SrcEnd - srcLiteral)
         \/ ~Fits(EmitLiteral(SrcEnd - srcLiteral), Room) /\ UNCHANGED srcLiteral
  BY DEF EmitRest, EmitLiterals
<1>2. PICK s \in Nat : s = SrcEnd
  BY LenProperties DEF EncoderInv, EncoderTypes, SrcEnd
<1>3. PICK from \in Nat : from = srcLiteral /\ from <= s
  BY <1>2 DEF EncoderInv, EncoderTypes
<1>4. SrcEnd' = s
  BY <1>1, <1>2 DEF SrcEnd
<1>5. CASE srcLiteral' = srcLiteral + (SrcEnd - srcLiteral)
  <2>1. srcLiteral' = s
    BY <1>2, <1>3, <1>5
  <2> QED
    BY <1>1, <1>4, <2>1 DEF CostInv
<1>6. CASE ~Fits(EmitLiteral(SrcEnd - srcLiteral), Room)
  <2>1. PICK n \in Nat : n = s - from
    BY <1>3
  <2>2. PICK d \in Nat : d = dstSize
    BY DEF EncoderInv, EncoderTypes
  <2>3. PICK l \in Nat : l = Len(payload)
    BY LenProperties DEF EncoderInv, PayloadInv, IsSeq
  <2>4. PICK room \in Int : room = Room /\ room = d - 8 - l
    <3>1. Room = d - 8 - l
      BY <2>2, <2>3 DEF Room
    <3>2. d - 8 - l \in Int
      OBVIOUS
    <3> QED
      BY <3>1, <3>2
  <2>5. ~Fits(EmitLiteral(n), room)
    BY <1>2, <1>3, <1>6, <2>1, <2>4
  <2>6. 7 * room <= 8 * n + 70
    BY <2>5, LiteralsRefused
  <2>7. 7 * l <= 8 * from
    BY <1>1, <1>3, <2>3 DEF CostInv
  <2>8. 7 * d <= 8 * s + 126
    BY <1>3, <2>1, <2>4, <2>6, <2>7
  <2>9. Scarce'
    BY <1>1, <1>4, <2>2, <2>8 DEF Scarce
  <2> QED
    BY <1>1, <2>9 DEF CostInv
<1> QED
  BY <1>1, <1>5, <1>6

LEMMA CostInvKept == EncoderInv /\ CostInv /\ [NextEncoder]_encVars => CostInv'
<1> SUFFICES ASSUME EncoderInv, CostInv, [NextEncoder]_encVars PROVE CostInv'
  OBVIOUS
<1> DEFINE Pays == /\ Searching
                   /\ \/ UNCHANGED <<payload, srcLiteral>>
                      \/ EmitLiterals(LongCount)
                      \/ \E m \in MatchType : Repeats(m) /\ EmitMatch(m)
                   /\ enc' \in {"search", "rest"}
<1>1. ASSUME Searching, Commit PROVE enc' \in {"search", "rest"}
  BY <1>1 DEF Searching, Commit
<1>2. ASSUME Searching, pending.M # 0 PROVE pending \in MatchType /\ Repeats(pending)
  BY <1>2, SearchFacts
<1>3. ASSUME Looking, Incoming.M # 0 PROVE Searching /\ Incoming \in MatchType /\ Repeats(Incoming)
  <2>1. Searching /\ srcCurrent >= srcLiteral
    BY <1>3 DEF Looking
  <2>2. Held(Incoming)
    BY <2>1, SearchFacts, IncomingHeld
  <2> QED
    BY <1>3, <2>1, <2>2 DEF Held
<1>4. ASSUME SkipEmitted \/ NothingFound \/ KeepIncoming PROVE Pays
  <2>1. Searching /\ Commit /\ UNCHANGED <<payload, srcLiteral>>
    BY <1>4 DEF SkipEmitted, NothingFound, KeepIncoming, Looking
  <2> QED
    BY <1>1, <2>1
<1>5. ASSUME GiveUp, Searching PROVE Pays
  BY <1>5 DEF GiveUp
<1>6. ASSUME FlushPending PROVE Pays
  <2>1. /\ Searching /\ pending.M # 0
        /\ (EmitMatch(pending) /\ Commit) \/ GiveUp
    BY <1>6 DEF FlushPending, Looking
  <2> QED
    BY <1>1, <1>2, <1>5, <2>1
<1>7. ASSUME FlushLiterals PROVE Pays
  <2>1. Searching /\ ((EmitLiterals(LongCount) /\ Commit) \/ GiveUp)
    BY <1>7 DEF FlushLiterals, Looking
  <2> QED
    BY <1>1, <1>5, <2>1
<1>8. ASSUME EmitPendingKeepIncoming PROVE Pays
  <2>1. /\ Searching /\ pending.M # 0
        /\ (EmitMatch(pending) /\ Commit) \/ GiveUp
    BY <1>8 DEF EmitPendingKeepIncoming, Looking
  <2> QED
    BY <1>1, <1>2, <1>5, <2>1
<1>9. ASSUME EmitBetter PROVE Pays
  <2> DEFINE better == IF Incoming.K > pending.K THEN Incoming ELSE pending
  <2>1. /\ Looking /\ Searching /\ pending.M # 0 /\ Incoming.M # 0
        /\ (EmitMatch(better) /\ Commit) \/ GiveUp
    BY <1>9 DEF EmitBetter, Looking
  <2>2. better \in MatchType /\ Repeats(better)
    BY <1>2, <1>3, <2>1
  <2> HIDE DEF better
  <2> QED
    BY <1>1, <1>5, <2>1, <2>2
<1>10. Pays => CostInv'
  BY SearchPays
<1> HIDE DEF Pays
<1>11. CASE EndSearch
  BY <1>11 DEF EndSearch, CostInv
<1>12. CASE EndStream
  <2>1. /\ enc = "end" /\ UNCHANGED <<text, dstSize, srcLiteral>>
        /\ enc' = IF srcLiteral = SrcEnd THEN "encoded" ELSE "failed"
    BY <1>12 DEF EndStream
  <2>2. enc' = "failed" => Scarce'
    BY <2>1 DEF CostInv, Scarce, SrcEnd
  <2> QED
    BY <2>1, <2>2 DEF CostInv
<1>13. CASE UNCHANGED encVars
  BY <1>13 DEF encVars, CostInv, Scarce, SrcEnd
<1> QED
  BY <1>4, <1>6, <1>7, <1>8, <1>9, <1>10, <1>11, <1>12, <1>13, StartPays, RestPays DEF NextEncoder

(* A text is refused only for want of room: with 8 bytes for the marker,   *)
(* 10 that emit_literal asks for, and eight bytes for every seven of the   *)
(* text, every text is encoded, whatever its matches.                      *)
THEOREM RefusesForRoomAlone == EncoderSpec => []FailsOnlyForRoom
<1>1. InitEncoder => CostInv
  <2> SUFFICES ASSUME InitEncoder PROVE CostInv
    OBVIOUS
  <2>1. enc = "start" /\ srcLiteral = 0 /\ payload = <<>>
    BY DEF InitEncoder
  <2>2. Len(<<>>) = 0
    OBVIOUS
  <2> QED
    BY <2>1, <2>2 DEF CostInv
<1>2. EncoderInv /\ CostInv => FailsOnlyForRoom
  <2> SUFFICES ASSUME EncoderInv, CostInv, enc = "failed"
               PROVE  dstSize <= SrcEnd + (SrcEnd \div 7) + 8 + 10
    BY DEF FailsOnlyForRoom
  <2>1. PICK s \in Nat : s = SrcEnd
    BY LenProperties DEF EncoderInv, EncoderTypes, SrcEnd
  <2>2. PICK d \in Nat : d = dstSize
    BY DEF EncoderInv, EncoderTypes
  <2>3. 7 * d <= 8 * s + 126
    BY <2>1, <2>2 DEF CostInv, Scarce
  <2>4. d <= s + (s \div 7) + 8 + 10
    BY <2>3
  <2> QED
    BY <2>1, <2>2, <2>4
<1>3. EncoderSpec => [](EncoderInv /\ CostInv)
  BY <1>1, EncoderInvStarts, EncoderInvKept, CostInvKept, PTL DEF EncoderSpec
<1> QED
  BY <1>2, <1>3, PTL

-----------------------------------------------------------------------------
(* The decoder.                                                            *)

Octet == 0 .. 255

(* A caller of lzvn_decode: it may put any bytes in the source, give more  *)
(* of the source and of the destination than before, and keep or drop what *)
(* is left of an instruction that the last call could not finish.          *)
AnyCall ==
  /\ at \in {"idle", "returned"}
  /\ at' = "called"
  /\ stream' \in Seq(Octet)
  /\ \E srcEnd \in call.srcEnd .. Len(stream'), dstEnd \in Nat, keep \in BOOLEAN :
       /\ call.dst <= dstEnd
       /\ call' = [call EXCEPT !.srcEnd = srcEnd, !.dstEnd = dstEnd,
                     !.L = IF keep THEN @ ELSE 0, !.M = IF keep THEN @ ELSE 0,
                     !.D = IF keep THEN @ ELSE 0]
  /\ UNCHANGED <<out, reg>>

AnyInit ==
  /\ stream \in Seq(Octet) /\ out = <<>>
  /\ call = NewCall /\ reg = NewReg /\ at = "idle"

AnyNext == AnyCall \/ NextDecoder \/ ResumePartial

AnySpec == AnyInit /\ [][AnyNext]_lzvnVars

----------------------------------------------------------------------------
Calls == [src : Nat, srcEnd : Nat, dst : Nat, dstEnd : Nat,
          L : Nat, M : Nat, D : Nat, dPrev : Nat, eos : BOOLEAN]
Regs == [src : Nat, D : Nat, L : Nat, M : Nat, skip : Nat]

Labels == {"idle", "called", "returned", "op", "literal", "match", "literal_match"}

DecoderTypeOK ==
  /\ stream \in Seq(Octet) /\ out \in Seq(Octet)
  /\ call \in Calls /\ reg \in Regs /\ at \in Labels

(* What a call leaves to the next: the distance of a match that was cut    *)
(* off reaches back no further than the output, unless a literal comes     *)
(* first, after which it is tested.                                        *)
CallSound(c) ==
  /\ c.src <= c.srcEnd /\ c.srcEnd <= Len(stream)
  /\ c.dPrev <= c.dst
  /\ c.L # 0 \/ c.M # 0 => c.src + c.L < c.srcEnd
  /\ (c.L # 0 /\ c.M = 0) \/ (c.L = 0 /\ c.M # 0) => c.D <= c.dst

OutSound == call.dst <= Len(out) /\ Len(out) <= call.dstEnd

AtRest == at \in {"idle", "called", "returned"} => Len(out) = call.dst

Running == at \in {"op", "literal", "match", "literal_match"} => call.L = 0 /\ call.M = 0

RegSound ==
  /\ at \in {"op", "match"} => reg.src < call.srcEnd
  /\ at \in {"op", "match", "literal"} => reg.D <= Len(out)
  /\ at = "literal_match" => reg.src + reg.skip + reg.L < call.srcEnd /\ reg.M # 0

DecoderInv ==
  /\ DecoderTypeOK
  /\ CallSound(call)
  /\ OutSound
  /\ AtRest
  /\ Running
  /\ RegSound

----------------------------------------------------------------------------
(* What the sequence operators of the actions return.                      *)
LEMMA Literals ==
  ASSUME stream \in Seq(Octet), NEW src \in Nat, NEW n \in Nat, src + n <= Len(stream)
  PROVE  LiteralsAt(src, n) \in Seq(Octet) /\ Len(LiteralsAt(src, n)) = n
<1>1. \A i \in src + 1 .. src + n : stream[i] \in Octet
  <2>1. stream \in [1 .. Len(stream) -> Octet] /\ Len(stream) \in Nat
    BY LenProperties
  <2> QED
    BY <2>1
<1>2. SubSeq(stream, src + 1, src + n) \in Seq(Octet)
      /\ Len(SubSeq(stream, src + 1, src + n))
           = IF src + 1 <= src + n THEN (src + n) - (src + 1) + 1 ELSE 0
  BY <1>1, SubSeqProperties
<1> QED
  BY <1>2 DEF LiteralsAt

LEMMA Copied ==
  ASSUME out \in Seq(Octet), NEW D \in 0 .. Len(out), NEW n \in Nat
  PROVE  CopyOf(D, n) \in Seq(Octet) /\ Len(CopyOf(D, n)) = n
<1>1. out \in [1 .. Len(out) -> Octet] /\ Len(out) \in Nat
  BY LenProperties
<1>2. ASSUME NEW i \in 1 .. n
      PROVE  (IF D = 0 THEN Unwritten ELSE out[Len(out) - D + 1 + ((i - 1) % D)]) \in Octet
  <2>1. CASE D = 0
    BY <2>1, UnwrittenAssumption DEF Octet
  <2>2. CASE D # 0
    <3>1. (i - 1) % D \in 0 .. D - 1
      BY <1>1, <2>2
    <3>2. Len(out) - D + 1 + ((i - 1) % D) \in 1 .. Len(out)
      BY <1>1, <3>1
    <3> QED
      BY <1>1, <2>2, <3>2
  <2> QED
    BY <2>1, <2>2
<1>3. CopyOf(D, n) \in [1 .. n -> Octet]
  BY <1>2 DEF CopyOf
<1> QED
  BY <1>3

LEMMA Grown ==
  ASSUME out \in Seq(Octet), NEW bytes \in Seq(Octet), out' = out \o bytes
  PROVE  out' \in Seq(Octet) /\ Len(out') = Len(out) + Len(bytes)
BY ConcatProperties

(* The registers after a copy.                                             *)
LEMMA Moved ==
  ASSUME reg \in Regs, NEW to \in Nat
  PROVE  LET r == [reg EXCEPT !.src = to, !.L = 0, !.skip = 0]
         IN r \in Regs /\ r.src = to /\ r.D = reg.D
BY DEF Regs

LEMMA Prefix ==
  ASSUME out \in Seq(Octet), NEW n \in 0 .. Len(out)
  PROVE  SubSeq(out, 1, n) \in Seq(Octet) /\ Len(SubSeq(out, 1, n)) = n
<1>1. out \in [1 .. Len(out) -> Octet] /\ Len(out) \in Nat
  BY LenProperties
<1>2. \A i \in 1 .. n : out[i] \in Octet
  BY <1>1
<1>3. SubSeq(out, 1, n) \in Seq(Octet)
      /\ Len(SubSeq(out, 1, n)) = IF 1 <= n THEN n - 1 + 1 ELSE 0
  BY <1>1, <1>2, SubSeqProperties
<1> QED
  BY <1>1, <1>3

(* The fields of an instruction are natural numbers, an instruction that   *)
(* has a literal and a match has a match, and one that has only a literal  *)
(* or only a match leaves the distance alone.                              *)
LEMMA Fields ==
  ASSUME NEW op \in Octet, NEW second \in Octet, NEW third \in Octet, NEW previous \in Nat
  PROVE  /\ LiteralOf(op, second) \in Nat /\ MatchOf(op, second) \in Nat
         /\ DistanceOf(op, second, third, previous) \in Nat
         /\ OpcodeLength(op) \in Nat
         /\ Instruction(op) \in {"sml_d", "med_d", "lrg_d", "pre_d"} => MatchOf(op, second) # 0
         /\ Instruction(op) \in {"sml_m", "lrg_m", "sml_l", "lrg_l"} =>
              DistanceOf(op, second, third, previous) = previous
<1>1. /\ op \in Nat /\ second \in Nat /\ third \in Nat
      /\ op \div 64 \in Nat /\ (op \div 8) % 4 \in Nat /\ op % 16 \in Nat
      /\ (op \div 8) % 8 \in Nat /\ op % 8 \in Nat /\ second % 4 \in Nat
      /\ (256 * third + second) \div 4 \in Nat
  BY DEF Octet
<1>2. LiteralOf(op, second) \in Nat
  BY <1>1 DEF LiteralOf
<1>3. /\ MatchOf(op, second) \in Nat
      /\ Instruction(op) \in {"sml_d", "med_d", "lrg_d", "pre_d"} => MatchOf(op, second) # 0
  BY <1>1 DEF MatchOf
<1>4. /\ DistanceOf(op, second, third, previous) \in Nat
      /\ Instruction(op) \in {"sml_m", "lrg_m", "sml_l", "lrg_l"} =>
           DistanceOf(op, second, third, previous) = previous
  BY <1>1 DEF DistanceOf
<1>5. OpcodeLength(op) \in Nat
  BY DEF OpcodeLength
<1> QED
  BY <1>2, <1>3, <1>4, <1>5

(* What is left of L bytes at p when n of them have been taken.            *)
LEMMA Rest ==
  /\ \A L, n \in Nat : L > n => L - n \in Nat /\ L - n # 0
  /\ \A p, L, n, end \in Nat : p + L < end => (p + n) + (L - n) < end
  /\ \A p, n \in Nat : p + n \in Nat
OBVIOUS

LEMMA Before ==
  ASSUME NEW p \in Nat, NEW L \in Nat, NEW end \in Nat, p + L < end
  PROVE  p <= end
OBVIOUS

LEMMA Within ==
  \A a, b, c, d \in Nat : a <= b /\ b <= c => a <= c + d
OBVIOUS

----------------------------------------------------------------------------
(* The three ways a step of the decoder ends.                              *)
LEMMA Returns ==
  ASSUME DecoderInv, NEW c \in Calls, CallSound(c), c.dst <= Len(out),
         c.dstEnd = call.dstEnd, Return(c)
  PROVE  DecoderInv'
<1> USE DEF DecoderInv
<1>1. c.dst \in 0 .. Len(out) /\ Len(out) \in Nat
  BY LenProperties DEF DecoderTypeOK, Calls
<1>2. out' \in Seq(Octet) /\ Len(out') = c.dst
  BY <1>1, Prefix DEF DecoderTypeOK, Return
<1>3. stream' = stream /\ reg' = reg /\ call' = c /\ at' = "returned"
  BY DEF Return
<1>4. DecoderTypeOK'
  BY <1>2, <1>3 DEF DecoderTypeOK, Labels
<1>5. CallSound(call)'
  BY <1>3 DEF CallSound
<1>6. OutSound' /\ AtRest'
  BY SMTT(30), <1>1, <1>2, <1>3 DEF OutSound, AtRest, Calls, DecoderTypeOK
<1>7. Running' /\ RegSound'
  BY <1>3 DEF Running, RegSound
<1> QED
  BY <1>4, <1>5, <1>6, <1>7

LEMMA Goes ==
  ASSUME DecoderInv,
         NEW label \in {"op", "literal", "match", "literal_match"},
         NEW r \in Regs, NEW c \in Calls,
         Goto(label, r, c),
         CallSound(c), c.L = 0, c.M = 0,
         out' \in Seq(Octet), c.dst <= Len(out'), Len(out') <= c.dstEnd,
         label \in {"op", "match"} => r.src < c.srcEnd,
         label \in {"op", "match", "literal"} => r.D <= Len(out'),
         label = "literal_match" => r.src + r.skip + r.L < c.srcEnd /\ r.M # 0
  PROVE  DecoderInv'
<1> USE DEF DecoderInv
<1>1. stream' = stream /\ reg' = r /\ call' = c /\ at' = label
  BY DEF Goto
<1>2. DecoderTypeOK'
  BY <1>1 DEF DecoderTypeOK, Labels
<1>3. CallSound(call)'
  BY <1>1 DEF CallSound
<1>4. OutSound' /\ AtRest' /\ Running'
  BY <1>1 DEF OutSound, AtRest, Running
<1>5. RegSound'
  BY <1>1 DEF RegSound
<1> QED
  BY <1>2, <1>3, <1>4, <1>5

LEMMA Cuts ==
  ASSUME DecoderInv, at \in {"literal", "match", "literal_match"},
         NEW src \in Nat, NEW bytes \in Seq(Octet), NEW L \in Nat, NEW M \in Nat,
         Cut(src, bytes, L, M),
         Len(bytes) = call.dstEnd - Len(out),
         L # 0 \/ M # 0,
         src + L < call.srcEnd,
         (L # 0 /\ M = 0) \/ (L = 0 /\ M # 0) => reg.D <= Len(out)
  PROVE  DecoderInv'
<1> USE DEF DecoderInv
<1> DEFINE c == [call EXCEPT !.src = src, !.dst = Len(out) + Len(bytes),
                             !.L = L, !.M = M, !.D = reg.D]
<1>1. stream' = stream /\ reg' = reg /\ at' = "returned" /\ out' = out \o bytes /\ call' = c
  BY DEF Cut
<1>2. /\ Len(out) \in Nat /\ Len(bytes) \in Nat
      /\ out' \in Seq(Octet) /\ Len(out') = Len(out) + Len(bytes)
  BY <1>1, ConcatProperties, LenProperties DEF DecoderTypeOK
<1>3. call \in Calls /\ reg \in Regs /\ reg.D \in Nat /\ Len(out) + Len(bytes) \in Nat
  BY <1>2 DEF DecoderTypeOK, Regs
<1>4. c \in Calls
  BY <1>3 DEF Calls
<1>5. /\ c.src = src /\ c.dst = Len(out) + Len(bytes) /\ c.L = L /\ c.M = M /\ c.D = reg.D
      /\ c.srcEnd = call.srcEnd /\ c.dstEnd = call.dstEnd /\ c.dPrev = call.dPrev
  BY <1>3 DEF Calls
<1>6. call.dPrev \in Nat /\ call.dst \in Nat /\ call.dstEnd \in Nat /\ call.srcEnd \in Nat
  BY <1>3 DEF Calls
<1> HIDE DEF c
<1>7. DecoderTypeOK'
  BY <1>1, <1>2, <1>4 DEF DecoderTypeOK, Labels
<1>8. CallSound(c)
  <2>1. /\ call.srcEnd <= Len(stream) /\ call.dPrev <= call.dst
        /\ call.dst <= Len(out) /\ Len(stream) \in Nat
    BY LenProperties DEF CallSound, OutSound, DecoderTypeOK
  <2>2. c.src <= c.srcEnd /\ c.srcEnd <= Len(stream) /\ c.dPrev <= c.dst
    <3>1. src <= call.srcEnd
      BY Zenon, <1>6, Before
    <3>2. call.dPrev <= Len(out) + Len(bytes)
      BY Zenon, <1>2, <1>6, <2>1, Within
    <3> QED
      BY <1>5, <2>1, <3>1, <3>2
  <2>3. /\ c.L # 0 \/ c.M # 0 => c.src + c.L < c.srcEnd
        /\ (c.L # 0 /\ c.M = 0) \/ (c.L = 0 /\ c.M # 0) => c.D <= c.dst
    BY <1>2, <1>3, <1>5
  <2> QED
    BY <2>2, <2>3 DEF CallSound
<1>9. OutSound' /\ AtRest'
  BY <1>1, <1>2, <1>5, <1>6 DEF OutSound, AtRest
<1>10. CallSound(call)' /\ Running' /\ RegSound'
  BY <1>1, <1>8 DEF CallSound, Running, RegSound
<1> QED
  BY <1>7, <1>9, <1>10

(* UPDATE_GOOD leaves a sound state.                                       *)
LEMMA GoodSound ==
  ASSUME DecoderInv, at = "op"
  PROVE  /\ Good \in Calls /\ CallSound(Good)
         /\ Good.src = reg.src /\ Good.srcEnd = call.srcEnd
         /\ Good.dst = Len(out) /\ Good.dstEnd = call.dstEnd
         /\ Good.L = 0 /\ Good.M = 0
<1> USE DEF DecoderInv
<1>1. Len(out) \in Nat
  BY LenProperties DEF DecoderTypeOK
<1>2. /\ Good \in Calls
      /\ Good.src = reg.src /\ Good.srcEnd = call.srcEnd
      /\ Good.dst = Len(out) /\ Good.dstEnd = call.dstEnd
      /\ Good.L = call.L /\ Good.M = call.M /\ Good.dPrev = reg.D
  BY <1>1 DEF Good, DecoderTypeOK, Calls, Regs
<1>3. call.L = 0 /\ call.M = 0 /\ reg.src < call.srcEnd /\ reg.D <= Len(out)
  BY DEF Running, RegSound
<1> HIDE DEF Good
<1>4. CallSound(Good)
  BY <1>1, <1>2, <1>3 DEF CallSound, DecoderTypeOK, Calls, Regs
<1> QED
  BY <1>2, <1>3, <1>4

(* What an instruction is made of, with operand bytes that are there.      *)
LEMMA OperandsSound ==
  ASSUME DecoderInv, at = "op"
  PROVE  /\ Operands \in Regs /\ Operands.src = reg.src
         /\ SrcLen \in Nat /\ SrcLen = call.srcEnd - reg.src
         /\ AtInstruction({"sml_d", "med_d", "lrg_d", "pre_d"}) => Operands.M # 0
         /\ AtInstruction({"sml_m", "lrg_m"}) => Operands.D = reg.D
         /\ AtInstruction({"sml_l", "lrg_l"}) => Operands.D = reg.D
<1> USE DEF DecoderInv
<1>1. stream \in [1 .. Len(stream) -> Octet] /\ Len(stream) \in Nat
  BY LenProperties DEF DecoderTypeOK
<1>2. /\ SrcLen \in Nat /\ SrcLen = call.srcEnd - reg.src /\ SrcLen >= 1
      /\ reg.src + SrcLen <= Len(stream) /\ reg.src \in Nat
  BY SMTT(30), <1>1 DEF SrcLen, RegSound, CallSound, DecoderTypeOK, Calls, Regs
<1>3. Op \in Octet
  BY <1>1, <1>2 DEF Op
<1>4. Second \in Octet /\ Third \in Octet
  <2>1. 0 \in Octet
    BY DEF Octet
  <2>2. /\ SrcLen > 1 => reg.src + 2 \in 1 .. Len(stream)
        /\ SrcLen > 2 => reg.src + 3 \in 1 .. Len(stream)
    BY <1>1, <1>2
  <2>3. /\ SrcLen > 1 => stream[reg.src + 2] \in Octet
        /\ SrcLen > 2 => stream[reg.src + 3] \in Octet
    BY <1>1, <2>2
  <2> QED
    BY <2>1, <2>3 DEF Second, Third
<1>5. reg.D \in Nat
  BY DEF DecoderTypeOK, Regs
<1> DEFINE L == LiteralOf(Op, Second)
           M == MatchOf(Op, Second)
           D == DistanceOf(Op, Second, Third, reg.D)
           skip == OpcodeLength(Op)
<1>6. /\ L \in Nat /\ M \in Nat /\ D \in Nat /\ skip \in Nat
      /\ Instruction(Op) \in {"sml_d", "med_d", "lrg_d", "pre_d"} => M # 0
      /\ Instruction(Op) \in {"sml_m", "lrg_m", "sml_l", "lrg_l"} => D = reg.D
  BY <1>3, <1>4, <1>5, Fields
<1>7. Operands = [reg EXCEPT !.L = L, !.M = M, !.D = D, !.skip = skip]
  BY DEF Operands
<1> HIDE DEF L, M, D, skip
<1>8. /\ Operands \in Regs /\ Operands.src = reg.src
      /\ Operands.M = M /\ Operands.D = D
  BY <1>6, <1>7 DEF DecoderTypeOK, Regs
<1> QED
  BY <1>2, <1>6, <1>8 DEF AtInstruction

----------------------------------------------------------------------------
(* Every step of the decoder, and any call of it, keeps the invariant.     *)
LEMMA CallStep ==
  ASSUME DecoderInv, AnyCall
  PROVE  DecoderInv'
<1> USE DEF DecoderInv
<1>1. PICK srcEnd \in call.srcEnd .. Len(stream'), dstEnd \in Nat, keep \in BOOLEAN :
        /\ call.dst <= dstEnd
        /\ call' = [call EXCEPT !.srcEnd = srcEnd, !.dstEnd = dstEnd,
                      !.L = IF keep THEN @ ELSE 0, !.M = IF keep THEN @ ELSE 0,
                      !.D = IF keep THEN @ ELSE 0]
  BY DEF AnyCall
<1>2. /\ stream' \in Seq(Octet) /\ out' = out /\ reg' = reg /\ at' = "called"
      /\ at \in {"idle", "returned"}
  BY DEF AnyCall
<1>3. call \in Calls /\ Len(stream') \in Nat /\ Len(out) \in Nat /\ Len(out) = call.dst
  BY <1>2, LenProperties DEF DecoderTypeOK, AtRest
<1>4. srcEnd \in Nat /\ call.srcEnd <= srcEnd /\ srcEnd <= Len(stream')
  BY <1>3 DEF Calls
<1>5. call' \in Calls
  BY <1>1, <1>3, <1>4 DEF Calls
<1>6. /\ call'.src = call.src /\ call'.srcEnd = srcEnd /\ call'.dst = call.dst
      /\ call'.dstEnd = dstEnd /\ call'.dPrev = call.dPrev
      /\ \/ call'.L = call.L /\ call'.M = call.M /\ call'.D = call.D
         \/ call'.L = 0 /\ call'.M = 0
  BY <1>1, <1>3 DEF Calls
<1>7. DecoderTypeOK'
  BY <1>2, <1>5 DEF DecoderTypeOK, Labels
<1>8. CallSound(call)'
  BY <1>3, <1>4, <1>6 DEF CallSound, Calls
<1>9. OutSound' /\ AtRest' /\ Running' /\ RegSound'
  BY <1>1, <1>2, <1>3, <1>6 DEF OutSound, AtRest, Running, RegSound
<1> QED
  BY <1>7, <1>8, <1>9

LEMMA DecodeStartStep ==
  ASSUME DecoderInv, EmptyBuffer \/ FirstOpcode \/ ResumePartial
  PROVE  DecoderInv'
<1> USE DEF DecoderInv
<1>1. /\ call \in Calls /\ reg \in Regs /\ CallSound(call)
      /\ out \in Seq(Octet) /\ at = "called" /\ Len(out) = call.dst /\ Len(out) <= call.dstEnd
  BY DEF DecoderTypeOK, AtRest, OutSound, EmptyBuffer, FirstOpcode, ResumePartial
<1>2. CASE EmptyBuffer
  BY <1>1, <1>2, Returns DEF EmptyBuffer, Calls
<1>3. CASE FirstOpcode
  <2> DEFINE r == [NewReg EXCEPT !.src = call.src, !.D = call.dPrev]
  <2>1. Goto("op", r, call) /\ out' = out /\ call.src # call.srcEnd /\ call.L = 0 /\ call.M = 0
    BY <1>3 DEF FirstOpcode
  <2>2. r \in Regs /\ r.src = call.src /\ r.D = call.dPrev
    BY <1>1 DEF NewReg, Regs, Calls
  <2> HIDE DEF r
  <2>3. r.src < call.srcEnd /\ r.D <= Len(out)
    BY <1>1, <2>1, <2>2 DEF CallSound, Calls
  <2> QED
    BY <1>1, <2>1, <2>2, <2>3, Goes
<1>4. CASE ResumePartial
  <2> DEFINE label == IF call.M = 0 THEN "literal" ELSE IF call.L = 0 THEN "match"
                      ELSE "literal_match"
             r == [src |-> call.src, D |-> call.D, L |-> call.L, M |-> call.M, skip |-> 0]
             c == [call EXCEPT !.L = 0, !.M = 0, !.D = 0]
  <2>1. Goto(label, r, c) /\ out' = out /\ (call.L # 0 \/ call.M # 0)
    BY <1>4 DEF ResumePartial
  <2>2. /\ r \in Regs /\ r.src = call.src /\ r.D = call.D /\ r.L = call.L
        /\ r.M = call.M /\ r.skip = 0
    BY <1>1 DEF Regs, Calls
  <2>3. /\ c \in Calls /\ c.src = call.src /\ c.srcEnd = call.srcEnd /\ c.dst = call.dst
        /\ c.dstEnd = call.dstEnd /\ c.dPrev = call.dPrev /\ c.L = 0 /\ c.M = 0
    BY <1>1 DEF Calls
  <2>4. CallSound(c)
    BY <1>1, <2>3 DEF CallSound, Calls
  <2>5. /\ label \in {"literal", "match", "literal_match"}
        /\ label \in {"match", "literal"} => r.D <= Len(out)
        /\ r.src + r.skip + r.L < c.srcEnd /\ r.src < c.srcEnd
        /\ label = "literal_match" => r.M # 0
    <3>1. call.src + call.L < call.srcEnd /\ call.src \in Nat /\ call.srcEnd \in Nat
          /\ call.L \in Nat
      BY <1>1, <2>1 DEF CallSound, Calls
    <3>2. label \in {"match", "literal"} => call.D <= call.dst
      BY <1>1, <2>1 DEF CallSound
    <3> QED
      BY <1>1, <2>2, <2>3, <3>1, <3>2
  <2> HIDE DEF label, r, c
  <2> QED
    BY <1>1, <2>1, <2>2, <2>3, <2>4, <2>5, Goes
<1> QED
  BY <1>2, <1>3, <1>4

LEMMA OpcodeStep ==
  ASSUME DecoderInv,
         OpLiteralAndMatch \/ OpMatch \/ OpLiteral \/ OpNop \/ OpEos \/ OpUndefined
  PROVE  DecoderInv'
<1> USE DEF DecoderInv
<1>1. at = "op" /\ out \in Seq(Octet) /\ Len(out) \in Nat /\ reg \in Regs /\ call \in Calls
  BY LenProperties DEF DecoderTypeOK, AtInstruction, OpLiteralAndMatch, OpMatch,
     OpLiteral, OpNop, OpEos, OpUndefined
<1>2. /\ Good \in Calls /\ CallSound(Good)
      /\ Good.src = reg.src /\ Good.srcEnd = call.srcEnd
      /\ Good.dst = Len(out) /\ Good.dstEnd = call.dstEnd
      /\ Good.L = 0 /\ Good.M = 0
  BY <1>1, GoodSound
<1>3. /\ Operands \in Regs /\ Operands.src = reg.src
      /\ SrcLen \in Nat /\ SrcLen = call.srcEnd - reg.src
  BY <1>1, OperandsSound
<1>4. /\ reg.src \in Nat /\ reg.D \in Nat /\ call.srcEnd \in Nat
      /\ Operands.skip \in Nat /\ Operands.L \in Nat
      /\ reg.D <= Len(out) /\ Len(out) <= call.dstEnd /\ call.dst <= Len(out)
      /\ CallSound(call)
  BY <1>1, <1>3 DEF Regs, Calls, RegSound, OutSound
<1>5. Return(Good) => DecoderInv'
  BY <1>1, <1>2, Returns
<1>6. Return(call) => DecoderInv'
  BY <1>1, <1>4, Returns
<1>7. CASE OpLiteralAndMatch
  <2>1. Operands.M # 0
    BY <1>1, <1>7, OperandsSound DEF OpLiteralAndMatch
  <2>2. CASE SrcLen <= Operands.skip + Operands.L
    BY <1>5, <1>7, <2>2 DEF OpLiteralAndMatch
  <2>3. CASE ~(SrcLen <= Operands.skip + Operands.L)
    <3>1. Goto("literal_match", Operands, Good) /\ out' = out
      BY <1>7, <2>3 DEF OpLiteralAndMatch
    <3>2. Operands.src + Operands.skip + Operands.L < Good.srcEnd
      BY <1>2, <1>3, <1>4, <2>3
    <3> QED
      BY <1>1, <1>2, <1>3, <1>4, <2>1, <3>1, <3>2, Goes
  <2> QED
    BY <2>2, <2>3
<1>8. CASE OpMatch
  <2>1. Operands.D = reg.D
    BY <1>1, <1>8, OperandsSound DEF OpMatch
  <2>2. CASE SrcLen <= Operands.skip
    BY <1>5, <1>8, <2>2 DEF OpMatch
  <2>3. CASE ~(SrcLen <= Operands.skip)
    <3> DEFINE r == [Operands EXCEPT !.src = @ + Operands.skip]
    <3>1. Goto("match", r, Good) /\ out' = out
      BY <1>8, <2>3 DEF OpMatch
    <3>2. r \in Regs /\ r.src = reg.src + Operands.skip /\ r.D = reg.D
      BY <1>3, <1>4, <2>1 DEF Regs
    <3>3. r.src < Good.srcEnd
      BY <1>2, <1>3, <1>4, <2>3, <3>2
    <3> HIDE DEF r
    <3> QED
      BY <1>1, <1>2, <1>4, <3>1, <3>2, <3>3, Goes
  <2> QED
    BY <2>2, <2>3
<1>9. CASE OpLiteral
  <2>1. Operands.D = reg.D
    BY <1>1, <1>9, OperandsSound DEF OpLiteral
  <2>2. Return(Good) \/ (Goto("literal", Operands, Good) /\ out' = out)
    BY <1>9 DEF OpLiteral
  <2>3. CASE Goto("literal", Operands, Good) /\ out' = out
    BY <1>1, <1>2, <1>3, <1>4, <2>1, <2>3, Goes
  <2> QED
    BY <1>5, <2>2, <2>3
<1>10. CASE OpNop
  <2>1. CASE SrcLen <= 1
    BY <1>5, <1>10, <2>1 DEF OpNop
  <2>2. CASE ~(SrcLen <= 1)
    <3> DEFINE r == [reg EXCEPT !.src = @ + 1]
    <3>1. Goto("op", r, Good) /\ out' = out
      BY <1>10, <2>2 DEF OpNop
    <3>2. r \in Regs /\ r.src = reg.src + 1 /\ r.D = reg.D
      BY <1>1 DEF Regs
    <3>3. r.src < Good.srcEnd
      BY <1>2, <1>3, <1>4, <2>2, <3>2
    <3> HIDE DEF r
    <3> QED
      BY <1>1, <1>2, <1>4, <3>1, <3>2, <3>3, Goes
  <2> QED
    BY <2>1, <2>2
<1>11. CASE OpEos
  <2>1. CASE SrcLen < 8
    BY <1>6, <1>11, <2>1 DEF OpEos
  <2>2. CASE ~(SrcLen < 8)
    <3> DEFINE c == [Good EXCEPT !.src = @ + 8, !.eos = TRUE]
    <3>1. Return(c)
      BY <1>11, <2>2 DEF OpEos
    <3>2. /\ c \in Calls /\ c.src = reg.src + 8 /\ c.srcEnd = call.srcEnd
          /\ c.dst = Len(out) /\ c.dstEnd = call.dstEnd /\ c.dPrev = Good.dPrev
          /\ c.L = 0 /\ c.M = 0
      <4>1. Good \in Calls /\ Good.src + 8 \in Nat
        BY <1>2, <1>4
      <4> HIDE DEF Good
      <4> QED
        BY <1>2, <4>1 DEF Calls
    <3>3. c.src <= c.srcEnd
      BY <1>3, <1>4, <2>2, <3>2
    <3> HIDE DEF c
    <3>4. CallSound(c)
      BY <1>2, <3>2, <3>3 DEF CallSound
    <3> QED
      BY <1>1, <3>1, <3>2, <3>4, Returns
  <2> QED
    BY <2>1, <2>2
<1>12. CASE OpUndefined
  BY <1>6, <1>12 DEF OpUndefined
<1> QED
  BY <1>7, <1>8, <1>9, <1>10, <1>11, <1>12

LEMMA CopyStep ==
  ASSUME DecoderInv, CopyLiteralAndMatch \/ CopyMatch \/ CopyLiteral
  PROVE  DecoderInv'
<1> USE DEF DecoderInv
<1>1. /\ at \in {"literal", "match", "literal_match"}
      /\ stream \in Seq(Octet) /\ out \in Seq(Octet) /\ reg \in Regs /\ call \in Calls
  BY DEF DecoderTypeOK, CopyLiteralAndMatch, CopyMatch, CopyLiteral
<1>2. /\ Len(out) \in Nat /\ Len(stream) \in Nat
      /\ reg.src \in Nat /\ reg.D \in Nat /\ reg.L \in Nat /\ reg.M \in Nat /\ reg.skip \in Nat
      /\ call.srcEnd \in Nat /\ call.dst \in Nat /\ call.dstEnd \in Nat
  BY <1>1, LenProperties DEF Regs, Calls
<1>3. /\ CallSound(call) /\ call.dst <= Len(out) /\ Len(out) <= call.dstEnd
      /\ call.L = 0 /\ call.M = 0 /\ call.srcEnd <= Len(stream)
  BY <1>1 DEF CallSound, OutSound, Running
<1>4. DstLen \in Nat /\ DstLen = call.dstEnd - Len(out)
  BY <1>2, <1>3 DEF DstLen
<1>5. SrcLen = call.srcEnd - reg.src
  BY DEF SrcLen
<1>6. Return(call) => DecoderInv'
  BY <1>1, <1>3, Returns
<1> DEFINE src == reg.src + reg.skip
<1>7. ASSUME src + reg.L < call.srcEnd
      PROVE  /\ LiteralsAt(src, reg.L) \in Seq(Octet) /\ Len(LiteralsAt(src, reg.L)) = reg.L
             /\ reg.L > DstLen => /\ LiteralsAt(src, DstLen) \in Seq(Octet)
                                  /\ Len(LiteralsAt(src, DstLen)) = DstLen
  <2>1. src \in Nat /\ src + reg.L <= Len(stream)
    BY SMTT(30), <1>2, <1>3, <1>7
  <2>2. reg.L > DstLen => src + DstLen <= Len(stream)
    BY SMTT(30), <1>2, <1>4, <2>1
  <2> HIDE DEF src
  <2> QED
    BY <1>1, <1>2, <1>4, <2>1, <2>2, Literals
<1>8. CASE CopyLiteralAndMatch
  <2>1. src + reg.L < call.srcEnd /\ reg.M # 0
    BY <1>8 DEF CopyLiteralAndMatch, RegSound
  <2>2. CASE reg.L > DstLen
    <3>1. Cut(src + DstLen, LiteralsAt(src, DstLen), reg.L - DstLen, reg.M)
      BY <1>8, <2>2 DEF CopyLiteralAndMatch
    <3> DEFINE to == src + DstLen
               L == reg.L - DstLen
               bytes == LiteralsAt(src, DstLen)
    <3>2. to \in Nat /\ L \in Nat /\ L # 0 /\ to + L < call.srcEnd
      <4>1. src \in Nat
        BY <1>2
      <4> HIDE DEF src
      <4>2. L \in Nat /\ L # 0
        BY Zenon, <1>2, <1>4, <2>2, Rest
      <4>3. to \in Nat
        BY Zenon, <1>4, <4>1, Rest
      <4>4. to + L < call.srcEnd
        BY Zenon, <1>2, <1>4, <2>1, <2>2, <4>1, Rest
      <4> QED
        BY <4>2, <4>3, <4>4
    <3>3. bytes \in Seq(Octet) /\ Len(bytes) = call.dstEnd - Len(out)
      BY <1>4, <1>7, <2>1, <2>2
    <3>4. Cut(to, bytes, L, reg.M)
      BY <3>1
    <3> HIDE DEF to, L, bytes, src
    <3> QED
      BY <1>1, <1>2, <2>1, <3>2, <3>3, <3>4, Cuts
  <2>3. CASE ~(reg.L > DstLen) /\ (reg.D > Len(out) + reg.L \/ reg.D = 0)
    BY <1>6, <1>8, <2>3 DEF CopyLiteralAndMatch
  <2>4. CASE ~(reg.L > DstLen) /\ ~(reg.D > Len(out) + reg.L \/ reg.D = 0)
    <3> DEFINE r == [reg EXCEPT !.src = src + reg.L, !.L = 0, !.skip = 0]
    <3>1. out' = out \o LiteralsAt(src, reg.L) /\ Goto("match", r, call)
      BY <1>8, <2>4 DEF CopyLiteralAndMatch
    <3>2. r \in Regs /\ r.src = src + reg.L /\ r.D = reg.D
      <4>1. src + reg.L \in Nat
        BY SMTT(30), <1>2
      <4> HIDE DEF src
      <4> QED
        BY <1>1, <4>1, Moved
    <3> HIDE DEF r
    <3>3. out' \in Seq(Octet) /\ Len(out') = Len(out) + reg.L
      <4> DEFINE bytes == LiteralsAt(src, reg.L)
      <4>1. bytes \in Seq(Octet) /\ Len(bytes) = reg.L /\ out' = out \o bytes
        BY <1>7, <2>1, <3>1
      <4> HIDE DEF bytes
      <4> QED
        BY <1>1, <4>1, Grown
    <3>4. r.src < call.srcEnd /\ r.D <= Len(out')
      BY <1>2, <2>1, <2>4, <3>2, <3>3
    <3>5. call.dst <= Len(out') /\ Len(out') <= call.dstEnd
      BY SMTT(30), <1>2, <1>3, <1>4, <2>4, <3>3
    <3> QED
      BY <1>1, <1>3, <3>1, <3>2, <3>3, <3>4, <3>5, Goes
  <2> QED
    BY <2>2, <2>3, <2>4
<1>9. CASE CopyMatch
  <2>1. at = "match" /\ reg.src < call.srcEnd /\ reg.D <= Len(out) /\ reg.D \in 0 .. Len(out)
    BY <1>2, <1>9 DEF CopyMatch, RegSound
  <2>2. CASE reg.M > DstLen
    <3>1. Cut(reg.src, CopyOf(reg.D, DstLen), 0, reg.M - DstLen)
      BY <1>9, <2>2 DEF CopyMatch
    <3>2. CopyOf(reg.D, DstLen) \in Seq(Octet) /\ Len(CopyOf(reg.D, DstLen)) = DstLen
      BY <1>1, <1>4, <2>1, Copied
    <3>3. reg.M - DstLen \in Nat /\ reg.M - DstLen # 0 /\ reg.src + 0 < call.srcEnd
      <4>1. reg.src + 0 < call.srcEnd
        BY <1>2, <2>1
      <4> QED
        BY Zenon, <1>2, <1>4, <2>2, <4>1, Rest
    <3> DEFINE M == reg.M - DstLen
               bytes == CopyOf(reg.D, DstLen)
    <3>4. /\ bytes \in Seq(Octet) /\ Len(bytes) = call.dstEnd - Len(out)
          /\ M \in Nat /\ M # 0 /\ Cut(reg.src, bytes, 0, M)
      BY <1>4, <3>1, <3>2, <3>3
    <3> HIDE DEF bytes, M
    <3> QED
      BY <1>1, <1>2, <2>1, <3>3, <3>4, Cuts
  <2>3. CASE ~(reg.M > DstLen)
    <3> DEFINE r == [reg EXCEPT !.M = 0, !.skip = 0]
    <3>1. out' = out \o CopyOf(reg.D, reg.M) /\ Goto("op", r, call)
      BY <1>9, <2>3 DEF CopyMatch
    <3>2. r \in Regs /\ r.src = reg.src /\ r.D = reg.D
      BY <1>1, <1>2 DEF Regs
    <3> HIDE DEF r
    <3>3. CopyOf(reg.D, reg.M) \in Seq(Octet) /\ Len(CopyOf(reg.D, reg.M)) = reg.M
      BY <1>1, <1>2, <2>1, Copied
    <3>4. out' \in Seq(Octet) /\ Len(out') = Len(out) + reg.M
      BY <1>1, <3>1, <3>3, Grown
    <3>5. r.src < call.srcEnd /\ r.D <= Len(out')
      BY <1>2, <2>1, <3>2, <3>4
    <3>6. call.dst <= Len(out') /\ Len(out') <= call.dstEnd
      BY SMTT(30), <1>2, <1>3, <1>4, <2>3, <3>4
    <3> QED
      BY <1>1, <1>3, <3>1, <3>2, <3>4, <3>5, <3>6, Goes
  <2> QED
    BY <2>2, <2>3
<1>10. CASE CopyLiteral
  <2>1. at = "literal" /\ reg.D <= Len(out)
    BY <1>10 DEF CopyLiteral, RegSound
  <2>2. CASE SrcLen <= reg.skip + reg.L
    BY <1>6, <1>10, <2>2 DEF CopyLiteral
  <2>3. CASE ~(SrcLen <= reg.skip + reg.L) /\ reg.L > DstLen
    <3>1. Cut(src + DstLen, LiteralsAt(src, DstLen), reg.L - DstLen, 0)
      BY <1>10, <2>3 DEF CopyLiteral
    <3>2. src + reg.L < call.srcEnd
      BY SMTT(30), <1>2, <1>5, <2>3
    <3> DEFINE to == src + DstLen
               L == reg.L - DstLen
               bytes == LiteralsAt(src, DstLen)
    <3>3. to \in Nat /\ L \in Nat /\ L # 0 /\ to + L < call.srcEnd
      <4>1. src \in Nat
        BY <1>2
      <4> HIDE DEF src
      <4>2. L \in Nat /\ L # 0
        BY Zenon, <1>2, <1>4, <2>3, Rest
      <4>3. to \in Nat
        BY Zenon, <1>4, <4>1, Rest
      <4>4. to + L < call.srcEnd
        BY Zenon, <1>2, <1>4, <2>3, <3>2, <4>1, Rest
      <4> QED
        BY <4>2, <4>3, <4>4
    <3>4. bytes \in Seq(Octet) /\ Len(bytes) = call.dstEnd - Len(out)
      BY <1>4, <1>7, <2>3, <3>2
    <3>5. Cut(to, bytes, L, 0)
      BY <3>1
    <3> HIDE DEF to, L, bytes, src
    <3> QED
      BY <1>1, <2>1, <3>3, <3>4, <3>5, Cuts
  <2>4. CASE ~(SrcLen <= reg.skip + reg.L) /\ ~(reg.L > DstLen)
    <3> DEFINE r == [reg EXCEPT !.src = src + reg.L, !.L = 0, !.skip = 0]
    <3>1. out' = out \o LiteralsAt(src, reg.L) /\ Goto("op", r, call)
      BY <1>10, <2>4 DEF CopyLiteral
    <3>2. r \in Regs /\ r.src = src + reg.L /\ r.D = reg.D
      <4>1. src + reg.L \in Nat
        BY SMTT(30), <1>2
      <4> HIDE DEF src
      <4> QED
        BY <1>1, <4>1, Moved
    <3>3. src + reg.L < call.srcEnd
      BY SMTT(30), <1>2, <1>5, <2>4
    <3> HIDE DEF r
    <3>4. out' \in Seq(Octet) /\ Len(out') = Len(out) + reg.L
      <4> DEFINE bytes == LiteralsAt(src, reg.L)
      <4>1. bytes \in Seq(Octet) /\ Len(bytes) = reg.L /\ out' = out \o bytes
        BY <1>7, <3>1, <3>3
      <4> HIDE DEF bytes
      <4> QED
        BY <1>1, <4>1, Grown
    <3>5. r.src < call.srcEnd /\ r.D <= Len(out')
      BY <1>2, <2>1, <3>2, <3>3, <3>4
    <3>6. call.dst <= Len(out') /\ Len(out') <= call.dstEnd
      BY SMTT(30), <1>2, <1>3, <1>4, <2>4, <3>4
    <3> QED
      BY <1>1, <1>3, <3>1, <3>2, <3>4, <3>5, <3>6, Goes
  <2> QED
    BY <2>2, <2>3, <2>4
<1> QED
  BY <1>8, <1>9, <1>10

----------------------------------------------------------------------------
LEMMA DecoderInvStarts == AnyInit => DecoderInv
<1> SUFFICES ASSUME AnyInit
             PROVE  DecoderInv
  OBVIOUS
<1>1. out = <<>> /\ out \in Seq(Octet) /\ Len(out) = 0 /\ Len(stream) \in Nat
  BY LenProperties DEF AnyInit
<1>2. call = NewCall /\ reg = NewReg /\ at = "idle" /\ stream \in Seq(Octet)
  BY DEF AnyInit
<1>3. DecoderTypeOK
  BY <1>1, <1>2 DEF DecoderTypeOK, NewCall, NewReg, Calls, Regs, Labels
<1>4. CallSound(call)
  BY <1>1, <1>2 DEF CallSound, NewCall
<1>5. OutSound /\ AtRest /\ Running /\ RegSound
  BY <1>1, <1>2 DEF OutSound, AtRest, Running, RegSound, NewCall
<1> QED
  BY <1>3, <1>4, <1>5 DEF DecoderInv

LEMMA DecoderInvKept == DecoderInv /\ [AnyNext]_lzvnVars => DecoderInv'
<1> SUFFICES ASSUME DecoderInv, [AnyNext]_lzvnVars
             PROVE  DecoderInv'
  OBVIOUS
<1>1. CASE AnyCall
  BY <1>1, CallStep
<1>2. CASE NextDecoder
  BY <1>2, DecodeStartStep, OpcodeStep, CopyStep DEF NextDecoder
<1>3. CASE ResumePartial
  BY <1>3, DecodeStartStep
<1>4. CASE UNCHANGED lzvnVars
  BY <1>4 DEF lzvnVars, DecoderInv, DecoderTypeOK, CallSound, OutSound, AtRest, Running, RegSound
<1> QED
  BY <1>1, <1>2, <1>3, <1>4 DEF AnyNext

LEMMA DecoderInvSuffices == DecoderInv => LZVNReadsInBounds
<1> SUFFICES ASSUME DecoderInv
             PROVE  LZVNReadsInBounds
  OBVIOUS
<1>1. /\ call \in Calls /\ reg \in Regs /\ Len(out) \in Nat
      /\ CallSound(call) /\ OutSound /\ RegSound
  BY LenProperties DEF DecoderInv, DecoderTypeOK
<1>2. /\ call.srcEnd \in Nat /\ reg.src \in Nat /\ reg.D \in Nat
      /\ reg.skip \in Nat /\ reg.L \in Nat
  BY <1>1 DEF Calls, Regs
<1>3. at = "op" => SrcLen >= 1
  BY <1>1, <1>2 DEF RegSound, SrcLen
<1>4. at = "literal_match" => reg.skip + reg.L <= SrcLen
  BY <1>1, <1>2 DEF RegSound, SrcLen
<1>5. at = "match" => reg.D \in 0 .. Len(out)
  BY <1>1, <1>2 DEF RegSound
<1>6. Len(out) <= call.dstEnd /\ call.src <= call.srcEnd
  BY <1>1 DEF OutSound, CallSound
<1> QED
  BY <1>3, <1>4, <1>5, <1>6 DEF LZVNReadsInBounds

(* lzvn_decode: whatever the bytes of the stream, however it is split into *)
(* calls and however small the destination is, no opcode, operand or       *)
(* literal is read beyond the source, no match reaches before the output,  *)
(* and no byte is stored beyond the destination.                           *)
THEOREM ReadsAndWritesInBounds == AnySpec => []LZVNReadsInBounds
<1> QED
  BY DecoderInvStarts, DecoderInvKept, DecoderInvSuffices, PTL DEF AnySpec

=============================================================================
