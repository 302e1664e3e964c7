--------------------------- MODULE LZFSEEncodeProofs ---------------------------
(***************************************************************************)
(* lzfse_encode_buffer, for every source and every destination: the        *)
(* arrays of the encoder state are never overrun and a match finds room    *)
(* once they are empty, what refers to earlier bytes refers to the right   *)
(* ones whatever is flushed, taken back or translated, and a stream that   *)
(* fits is always written if the raw block has room.  EncodeInv says of    *)
(* the front end how far src_literal lags behind, of the match being added *)
(* how much of it is already in the buffers.                               *)
(***************************************************************************)
EXTENDS LZFSEEncode, SequenceTheorems, WellFoundedInduction, TLAPS

----------------------------------------------------------------------------
(* The invariant.                                                          *)

Phases == {"start", "lzvn", "base", "based", "finish", "push", "block", "mark",
           "failed", "encoded", "refused"}
Active == phase \in {"base", "based", "finish", "push", "block"}

IsSeq(q) == q \in Seq({q[i] : i \in 1 .. Len(q)})

MatchType == [pos : Int, ref : Int, length : Nat]
Triple == [L : Nat, M : Nat, D : Nat]
JobType == [match : MatchType, keep : MatchType, L : Nat, M : Nat, retried : BOOLEAN,
            caller : {"base", "finish"}, triples : Nat, literals : Nat, srcLiteral : Int]

(* What has no place among the positions.                                  *)
TypeInv ==
  /\ text \in Seq(0 .. 255) /\ dstSize \in Nat
  /\ phase \in Phases
  /\ base \in Nat /\ srcEnd \in Nat /\ srcEncodeI \in Nat /\ srcLiteral \in Int
  /\ pending \in MatchType
  /\ job \in JobType

BuffersInv ==
  /\ Len(triples) \in Nat /\ DOMAIN triples = 1 .. Len(triples)
  /\ Len(triples) + 8 <= MatchesPerBlock
  /\ Active => triples \in Seq(Triple)
  /\ literals \in Seq(0 .. 255)
  /\ Len(literals) + 16 <= LiteralsPerBlock

(* The chunk the search covers is part of the text.                        *)
ChunkInv ==
  /\ left \in Nat
  /\ chunk \in {"first", "middle", "last"}
  /\ phase = "start" => base = 0 /\ srcEncodeI = 0 /\ srcLiteral = 0 /\ left = Len(text)
                          /\ pending = NoMatch /\ DOMAIN history = {}
                          /\ triples = <<>> /\ payload = <<>>
  /\ Active =>
       /\ chunk = "first" => base = 0 /\ srcEnd = ChunkSize /\ left = Len(text) /\ left >= ChunkSize
       /\ chunk = "middle" => /\ srcEnd = 2 * ChunkSize /\ base + ChunkSize + left = Len(text)
                              /\ left >= ChunkSize
       /\ chunk = "last" => base + srcEnd = Len(text)

PositionInv ==
  Active =>
    /\ 8 <= srcEnd
    /\ srcEncodeI + 8 <= srcEnd
    /\ 0 <= base + srcLiteral
    /\ srcLiteral <= srcEnd
    /\ phase \in {"based", "finish"} => srcEncodeI + 8 = srcEnd

(* A match at a distance the format has, inside the source.                *)
RepeatsIn(m) ==
  /\ m.pos + m.length <= srcEnd
  /\ m.pos - m.ref \in 1 .. MaxD
  /\ 0 <= base + m.ref
  /\ \A i \in 0 .. m.length - 1 : Byte(m.ref + i) = Byte(m.pos + i)

(* A match that may be added when from is the first byte not yet encoded:  *)
(* what lags behind it, and how long it can be, is bounded.                *)
Ready(m, from) ==
  m.length > 0 =>
    /\ 4 <= m.length
    /\ RepeatsIn(m)
    /\ from <= m.pos
    /\ m.pos <= from + MaxLag + 2
    /\ m.pos + m.length <= from + MaxMatchLength + MaxLag + 2

LagInv ==
  /\ phase \in {"base", "based"} =>
       srcEncodeI - srcLiteral <= MaxLag + (IF pending.length > 0 THEN 2 ELSE 1)
  /\ phase = "finish" => srcEncodeI - srcLiteral <= MaxLag + 2
  /\ phase \in {"base", "based", "finish"} => Ready(pending, srcLiteral)

End(m) == m.pos + m.length

JobInv ==
  phase \in {"push", "block"} =>
    LET m == job.match IN
    /\ job.srcLiteral <= m.pos /\ m.pos <= job.srcLiteral + MaxLag + 10
    /\ 0 <= base + job.srcLiteral
    /\ m.length > 0 => Ready(m, job.srcLiteral)
    /\ End(m) <= srcEnd
    /\ m.ref < m.pos
    /\ Ready(job.keep, End(m))
    /\ job.triples <= Len(triples) /\ job.literals <= Len(literals)
    /\ job.caller = "base" => /\ srcEncodeI + 8 < srcEnd
                              /\ srcEncodeI - End(m) <= MaxLag + (IF job.keep.length > 0 THEN 1 ELSE 0)
    /\ job.caller = "finish" => /\ srcEncodeI + 8 = srcEnd /\ job.keep.length = 0
                                /\ srcEncodeI - End(m) <= MaxLag + 2
    /\ phase = "block" => srcLiteral = job.srcLiteral /\ ~job.retried
    /\ phase = "push" =>
         \/ srcLiteral + job.L = m.pos /\ job.M = m.length /\ job.srcLiteral <= srcLiteral
         \/ m.pos <= srcLiteral /\ srcLiteral + job.M = End(m) /\ job.L = 0

(* How much of the match is in the empty buffers after a retry.            *)
RetryInv ==
  phase = "push" /\ job.retried =>
    /\ Len(literals) + job.L <= job.match.pos - job.srcLiteral
    /\ \E k, n \in Nat :
         /\ Len(triples) = k + n
         /\ k * MaxL + job.L <= job.match.pos - job.srcLiteral
         /\ n * MaxM + job.M = job.match.length

(* An entry of the history: an invalid one, or a position with its bytes.  *)
EntryTrue(e) ==
  /\ e = [pos |-> e.pos, value |-> e.value]
  /\ e.pos \in Int
  /\ InvalidPos <= e.pos /\ e.pos < srcEncodeI
  /\ InvalidPos < e.pos => 0 <= base + e.pos /\ e.value = Value(e.pos)

HistoryInv ==
  Active =>
    \A h \in DOMAIN history :
      /\ DOMAIN history[h] = 1 .. HashWidth
      /\ \A k \in 1 .. HashWidth : EntryTrue(history[h][k])

RoomInv ==
  /\ IsSeq(dst) /\ Len(dst) <= dstSize
  /\ IsSeq(payload)
  /\ phase = "lzvn" => Len(payload) + ExtraSize <= dstSize

EncodeInv ==
  /\ TypeInv /\ BuffersInv /\ ChunkInv /\ PositionInv /\ LagInv /\ JobInv
  /\ RetryInv /\ HistoryInv /\ RoomInv

----------------------------------------------------------------------------
LEMMA ConstantFacts ==
  /\ MaxL \in Nat /\ 1 <= MaxL /\ MaxM \in Nat /\ 1 <= MaxM /\ MaxD \in Nat /\ 1 <= MaxD
  /\ MaxL <= MaxM
  /\ MaxLag \in Nat /\ MaxLag = 8 * MaxL
  /\ MaxMatchLength \in Nat /\ 4 <= MaxMatchLength /\ MatchParts \in Nat
  /\ InvalidPos \in Int /\ InvalidPos + MaxD < 0
  /\ MatchesPerBlock \in Nat /\ LiteralsPerBlock \in Nat
  /\ MatchesPerBlock >= MatchParts + 26 /\ LiteralsPerBlock >= 8 * MaxL + 26
<1>1. MatchParts * MaxM \in Nat
  BY FormatAssumption, EncoderAssumption
<1>2. MaxMatchLength \in Nat /\ 4 <= MaxMatchLength
  BY <1>1, MarginAssumption DEF MaxMatchLength
<1>3. InvalidPos = -(4 * MaxD)
  BY FormatAssumption DEF InvalidPos
<1> QED
  BY <1>2, <1>3, FormatAssumption, EncoderAssumption, MarginAssumption DEF MaxLag

LEMMA LeastElement ==
  ASSUME NEW T \in SUBSET Nat, T # {}
  PROVE  \E x \in T : \A y \in T : x <= y
<1>1. \E x \in T : \A y \in T : ~(<<y, x>> \in OpToRel(<, Nat))
  BY NatLessThanWellFounded, WFMin
<1>2. PICK x \in T : \A y \in T : ~(<<y, x>> \in OpToRel(<, Nat))
  BY <1>1
<1>3. ASSUME NEW y \in T PROVE x <= y
  <2>1. x \in Nat /\ y \in Nat
    OBVIOUS
  <2>2. <<y, x>> \in OpToRel(<, Nat) <=> y < x
    BY <2>1 DEF OpToRel
  <2>3. ~(y < x)
    BY <1>2, <2>2, Zenon
  <2> QED
    BY <2>1, <2>3
<1> QED
  BY <1>3

(* The bytes compared eight at a time agree, and stay inside the source.   *)
LEMMA MatchLengthSound ==
  ASSUME NEW ref \in Int, srcEncodeI \in Nat, srcEnd \in Nat, srcEncodeI + 8 < srcEnd,
         Value(ref) = Value(srcEncodeI)
  PROVE  /\ MatchLength(ref) \in Nat /\ 4 <= MatchLength(ref)
         /\ srcEncodeI + MatchLength(ref) <= srcEnd
         /\ \A i \in 0 .. MatchLength(ref) - 1 : Byte(ref + i) = Byte(srcEncodeI + i)
<1> DEFINE free == srcEnd - srcEncodeI - 12
           stop == 4 + (IF free > 0 THEN 8 * ((free + 7) \div 8) ELSE 0)
           differ == {n \in 4 .. stop - 1 : Byte(ref + n) # Byte(srcEncodeI + n)}
           len == MatchLength(ref)
<1>1. stop \in Nat /\ 4 <= stop /\ srcEncodeI + stop <= srcEnd
  <2>1. CASE free > 0
    <3>1. free \in Nat /\ (free + 7) \div 8 \in Nat /\ 8 * ((free + 7) \div 8) <= free + 7
      BY <2>1
    <3> QED
      BY <2>1, <3>1
  <2>2. CASE ~(free > 0)
    BY <2>2
  <2> QED
    BY <2>1, <2>2
<1>2. len = IF differ = {} THEN stop ELSE CHOOSE n \in differ : \A o \in differ : n <= o
  BY DEF MatchLength, Pos
<1>3. /\ len \in 4 .. stop
      /\ \A n \in 4 .. len - 1 : Byte(ref + n) = Byte(srcEncodeI + n)
  <2>1. CASE differ = {}
    <3>1. len = stop
      BY <1>2, <2>1
    <3>2. \A n \in 4 .. stop - 1 : Byte(ref + n) = Byte(srcEncodeI + n)
      BY <2>1
    <3> HIDE DEF len, stop
    <3> QED
      BY <1>1, <3>1, <3>2
  <2>2. CASE differ # {}
    <3>1. differ \in SUBSET Nat
      BY <1>1
    <3>2. \E n \in differ : \A o \in differ : n <= o
      BY <2>2, <3>1, LeastElement
    <3>3. len \in differ /\ \A o \in differ : len <= o
      BY <1>2, <2>2, <3>2
    <3> QED
      BY <1>1, <3>3
  <2> QED
    BY <2>1, <2>2
<1>4. \A i \in 0 .. 3 : Byte(ref + i) = Byte(srcEncodeI + i)
  <2>1. \A i \in 1 .. 4 : Byte(ref + i - 1) = Byte(srcEncodeI + i - 1)
    BY DEF Value
  <2> TAKE i \in 0 .. 3
  <2>2. i + 1 \in 1 .. 4 /\ ref + (i + 1) - 1 = ref + i /\ srcEncodeI + (i + 1) - 1 = srcEncodeI + i
    OBVIOUS
  <2> QED
    BY <2>1, <2>2
<1> QED
  BY <1>1, <1>3, <1>4

(* A match found at the current position.                                  *)
Found(m) ==
  m.length > 0 =>
    /\ 4 <= m.length
    /\ RepeatsIn(m)

LEMMA LongerSound ==
  ASSUME NEW best \in MatchType, best.pos = srcEncodeI, Found(best),
         NEW e, e.pos \in Int, e.pos < srcEncodeI,
         InvalidPos < e.pos => 0 <= base + e.pos /\ e.value = Value(e.pos),
         InvalidPos <= e.pos,
         base \in Nat, srcEncodeI \in Nat, srcEnd \in Nat, srcEncodeI + 8 < srcEnd
  PROVE  Longer(best, e) \in MatchType /\ Longer(best, e).pos = srcEncodeI /\ Found(Longer(best, e))
<1> DEFINE n == MatchLength(e.pos)
           m == [pos |-> srcEncodeI, ref |-> e.pos, length |-> n]
<1>1. CASE ~(Usable(e) /\ n > best.length)
  BY <1>1 DEF Longer
<1>2. CASE Usable(e) /\ n > best.length
  <2>1. Longer(best, e) = m
    BY <1>2 DEF Longer, Pos
  <2>2. e.value = Value(srcEncodeI) /\ e.pos + MaxD >= srcEncodeI
    BY <1>2 DEF Usable, Pos
  <2>3. InvalidPos < e.pos
    BY <2>2, ConstantFacts
  <2>4. /\ n \in Nat /\ 4 <= n /\ srcEncodeI + n <= srcEnd
        /\ \A i \in 0 .. n - 1 : Byte(e.pos + i) = Byte(srcEncodeI + i)
    <3>1. Value(e.pos) = Value(srcEncodeI)
      BY <2>2, <2>3
    <3> QED
      BY <3>1, MatchLengthSound
  <2>5. srcEncodeI - e.pos \in 1 .. MaxD
    BY <2>2, ConstantFacts
  <2>6. m \in MatchType
    BY <2>4 DEF MatchType
  <2> HIDE DEF n
  <2>7. Found(m)
    BY <2>3, <2>4, <2>5 DEF Found, RepeatsIn
  <2> QED
    BY <2>1, <2>6, <2>7
<1> QED
  BY <1>1, <1>2

LEMMA LongestSound ==
  ASSUME HistoryInv, PositionInv, TypeInv, phase = "base", srcEncodeI + 8 < srcEnd
  PROVE  /\ Longest \in MatchType /\ Longest.pos = srcEncodeI /\ Found(Longest)
<1> DEFINE none == [NoMatch EXCEPT !.pos = Pos]
           line == Line(HashX(Value(Pos)))
           Good(m) == m \in MatchType /\ m.pos = srcEncodeI /\ Found(m)
<1>1. Good(none)
  BY DEF NoMatch, Pos, MatchType, Found, TypeInv
<1>2. ASSUME NEW k \in 1 .. 4, NEW best, Good(best) PROVE Good(Longer(best, line[k]))
  <2>1. /\ line[k].pos \in Int /\ line[k].pos < srcEncodeI /\ InvalidPos <= line[k].pos
        /\ InvalidPos < line[k].pos => 0 <= base + line[k].pos /\ line[k].value = Value(line[k].pos)
    <3>1. CASE HashX(Value(Pos)) \in DOMAIN history
      BY <3>1 DEF HistoryInv, Active, Line, HashWidth, EntryTrue
    <3>2. CASE HashX(Value(Pos)) \notin DOMAIN history
      <4>1. line[k].pos = InvalidPos
        BY <3>2 DEF Line, EmptyLine, HashWidth
      <4> HIDE DEF line
      <4> QED
        BY <4>1, ConstantFacts DEF TypeInv
    <3> QED
      BY <3>1, <3>2
  <2> HIDE DEF line
  <2> QED
    BY <1>2, <2>1, LongerSound DEF TypeInv
<1>3. Longest = Longer(Longer(Longer(Longer(none, line[1]), line[2]), line[3]), line[4])
  BY DEF Longest
<1> HIDE DEF none, line, Good
<1>4. Good(Longest)
  BY <1>1, <1>2, <1>3
<1> QED
  BY <1>4 DEF Good

(* Expand goes back over literals, as long as the bytes agree.             *)
LEMMA ExpandSound ==
  ASSUME NEW m \in MatchType, srcLiteral \in Int, base \in Nat
  PROVE  \E n \in Nat :
           /\ Expand(m) = [pos |-> m.pos - n, ref |-> m.ref - n, length |-> m.length + n]
           /\ n > 0 => n <= m.pos - srcLiteral /\ n <= m.ref
           /\ \A i \in 1 .. n : Byte(m.ref - i) = Byte(m.pos - i)
<1> DEFINE most == Lesser(m.pos - srcLiteral, m.ref)
           Same(n) == \A i \in 1 .. n : Byte(m.ref - i) = Byte(m.pos - i)
           Stops(k) == Same(k) /\ (k < most => ~Same(k + 1))
           back == IF most <= 0 THEN 0 ELSE CHOOSE k \in 0 .. most : Stops(k)
<1>1. most \in Int /\ most <= m.pos - srcLiteral /\ most <= m.ref
  BY DEF Lesser, MatchType
<1>2. Expand(m) = [pos |-> m.pos - back, ref |-> m.ref - back, length |-> m.length + back]
  BY DEF Expand
<1>3. back \in Nat /\ Same(back) /\ (back > 0 => back <= most)
  <2>1. CASE most <= 0
    <3>1. back = 0 /\ Same(0)
      BY <2>1
    <3> HIDE DEF back, Same
    <3> QED
      BY <3>1
  <2>2. CASE most > 0
    <3> DEFINE T == {k \in 0 .. most : k < most => ~Same(k + 1)}
    <3> HIDE DEF most, Same
    <3>1. most \in T /\ T \in SUBSET Nat
      BY <1>1, <2>2
    <3>2. PICK k \in T : \A j \in T : k <= j
      BY <3>1, LeastElement
    <3>3. Same(k)
      <4>1. CASE k = 0
        BY <4>1 DEF Same
      <4>2. CASE k # 0
        <5>1. k - 1 \in 0 .. most /\ k - 1 < most /\ k - 1 \notin T /\ (k - 1) + 1 = k
          BY <1>1, <3>1, <3>2, <4>2
        <5> QED
          BY <5>1
      <4> QED
        BY <4>1, <4>2
    <3>4. k \in 0 .. most /\ Stops(k)
      BY <3>2, <3>3
    <3>5. back = CHOOSE j \in 0 .. most : Stops(j)
      BY <1>1, <2>2
    <3> HIDE DEF Stops
    <3>6. back \in 0 .. most /\ Stops(back)
      BY <3>4, <3>5
    <3> QED
      BY <1>1, <3>6 DEF Stops
  <2> QED
    BY <1>1, <2>1, <2>2
<1> HIDE DEF back, most
<1>4. m.pos \in Int /\ m.ref \in Int
  BY DEF MatchType
<1>5. back > 0 => back <= m.pos - srcLiteral /\ back <= m.ref
  BY <1>1, <1>3, <1>4
<1> QED
  BY <1>2, <1>3, <1>5

LEMMA IncomingSound ==
  ASSUME HistoryInv, PositionInv, TypeInv, LagInv, phase = "base", srcEncodeI + 8 < srcEnd,
         srcLiteral <= srcEncodeI, Longest.length > 0
  PROVE  /\ Incoming \in MatchType /\ Incoming.length > 0
         /\ Ready(Incoming, srcLiteral)
         /\ Incoming.pos <= srcEncodeI /\ srcEncodeI + 4 <= End(Incoming)
<1> DEFINE m == [Longest EXCEPT !.length = Lesser(@, MaxMatchLength)]
<1>1. /\ Longest \in MatchType /\ Longest.pos = srcEncodeI
      /\ 4 <= Longest.length /\ RepeatsIn(Longest)
  BY LongestSound DEF Found
<1>2. /\ m \in MatchType /\ m.pos = srcEncodeI /\ m.ref = Longest.ref
      /\ m.length = Lesser(Longest.length, MaxMatchLength)
  BY <1>1, ConstantFacts DEF MatchType, Lesser
<1>3. m.length \in Nat /\ 4 <= m.length /\ m.length <= MaxMatchLength /\ m.length <= Longest.length
  BY <1>1, <1>2, ConstantFacts DEF Lesser, MatchType
<1>4. Incoming = Expand(m)
  BY DEF Incoming
<1> HIDE DEF m
<1>5. PICK n \in Nat :
           /\ Expand(m) = [pos |-> m.pos - n, ref |-> m.ref - n, length |-> m.length + n]
           /\ n > 0 => n <= m.pos - srcLiteral /\ n <= m.ref
           /\ \A i \in 1 .. n : Byte(m.ref - i) = Byte(m.pos - i)
  BY <1>2, ExpandSound DEF TypeInv
<1>6. m.ref \in Int /\ srcEncodeI - m.ref \in 1 .. MaxD /\ 0 <= base + m.ref
      /\ srcEncodeI + m.length <= srcEnd
      /\ \A i \in 0 .. m.length - 1 : Byte(m.ref + i) = Byte(srcEncodeI + i)
  <2>1. /\ m.ref \in Int /\ Longest.length \in Nat
        /\ srcEncodeI - m.ref \in 1 .. MaxD /\ 0 <= base + m.ref
        /\ srcEncodeI + Longest.length <= srcEnd
        /\ \A i \in 0 .. Longest.length - 1 : Byte(m.ref + i) = Byte(srcEncodeI + i)
    BY <1>1, <1>2 DEF RepeatsIn, MatchType
  <2>2. srcEncodeI \in Nat /\ srcEnd \in Nat
    BY DEF TypeInv
  <2> QED
    BY <1>3, <2>1, <2>2
<1>a. srcEncodeI \in Nat /\ srcLiteral \in Int /\ srcEnd \in Nat /\ base \in Nat
  BY DEF TypeInv
<1>c. m.length \in Nat /\ 4 <= m.length
  BY <1>3
<1>b. srcEncodeI - n \in Int /\ m.ref - n \in Int /\ m.length + n \in Nat
  BY <1>a, <1>c, <1>6
<1>7. /\ Incoming.pos = srcEncodeI - n /\ Incoming.ref = m.ref - n
      /\ Incoming.length = m.length + n /\ Incoming \in MatchType
  <2>1. Incoming = [pos |-> srcEncodeI - n, ref |-> m.ref - n, length |-> m.length + n]
    BY <1>2, <1>4, <1>5
  <2> QED
    BY <2>1, <1>b DEF MatchType
<1>8. n <= srcEncodeI - srcLiteral /\ srcEncodeI - srcLiteral <= MaxLag + 2
  <2>1. n <= srcEncodeI - srcLiteral
    BY <1>2, <1>5, <1>a
  <2>2. srcEncodeI - srcLiteral <= MaxLag + 2
    BY <1>a, ConstantFacts DEF LagInv
  <2> QED
    BY <2>1, <2>2
<1>9. RepeatsIn(Incoming)
  <2>1. Incoming.pos + Incoming.length <= srcEnd /\ Incoming.pos - Incoming.ref \in 1 .. MaxD
    <3>1. (srcEncodeI - n) + (m.length + n) <= srcEnd
          /\ (srcEncodeI - n) - (m.ref - n) = srcEncodeI - m.ref
      BY <1>3, <1>6, <1>a
    <3> QED
      BY <1>6, <1>7, <3>1
  <2>2. 0 <= base + Incoming.ref
    BY <1>5, <1>6, <1>7, <1>a
  <2>3. ASSUME NEW i \in 0 .. Incoming.length - 1
        PROVE  Byte(Incoming.ref + i) = Byte(Incoming.pos + i)
    <3>1. CASE i < n
      <4>1. /\ n - i \in 1 .. n /\ Incoming.ref + i = m.ref - (n - i)
            /\ Incoming.pos + i = m.pos - (n - i)
        <5>1. n - i \in 1 .. n /\ (m.ref - n) + i = m.ref - (n - i)
              /\ (srcEncodeI - n) + i = srcEncodeI - (n - i)
          BY <1>6, <1>a, <1>b, <1>7, <3>1
        <5> QED
          BY <1>2, <1>7, <5>1
      <4> QED
        BY <1>5, <4>1
    <3>2. CASE i >= n
      <4>1. /\ i - n \in 0 .. m.length - 1 /\ Incoming.ref + i = m.ref + (i - n)
            /\ Incoming.pos + i = srcEncodeI + (i - n)
        <5>1. i - n \in 0 .. m.length - 1 /\ (m.ref - n) + i = m.ref + (i - n)
              /\ (srcEncodeI - n) + i = srcEncodeI + (i - n)
          BY <1>3, <1>6, <1>a, <1>b, <1>7, <3>2
        <5> QED
          BY <1>7, <5>1
      <4> QED
        BY <1>6, <4>1
    <3> QED
      BY <1>3, <1>7, <3>1, <3>2
  <2> QED
    BY <2>1, <2>2, <2>3 DEF RepeatsIn
<1> QED
  BY <1>3, <1>7, <1>8, <1>9, <1>a, ConstantFacts DEF Ready, End

----------------------------------------------------------------------------
(* What stays true while what it is about stays the same.                  *)

LEMMA SameReady ==
  ASSUME NEW m, NEW from, UNCHANGED <<text, base, srcEnd>>, Ready(m, from)
  PROVE  Ready(m, from)'
BY DEF Ready, RepeatsIn, Byte

LEMMA SameHistory ==
  ASSUME UNCHANGED <<text, base, srcEncodeI, history>>, Active, HistoryInv
  PROVE  HistoryInv'
BY DEF HistoryInv, EntryTrue, Value, Byte

LEMMA SameChunk ==
  ASSUME UNCHANGED <<text, base, srcEnd, left, chunk>>, Active, Active' \/ phase' # "start", ChunkInv
  PROVE  ChunkInv'
BY DEF ChunkInv, Active

(* The chunk, once more: nothing behind the text is searched.              *)
LEMMA InsideText ==
  ASSUME TypeInv, ChunkInv, Active
  PROVE  base + srcEnd <= Len(text) /\ Len(text) \in Nat
<1>1. text \in Seq(0 .. 255) /\ base \in Nat /\ srcEnd \in Nat
  BY DEF TypeInv
<1>2. Len(text) \in Nat
  BY <1>1, LenProperties
<1>3. ChunkSize \in Nat /\ left \in Nat /\ chunk \in {"first", "middle", "last"}
  BY DispatchAssumption DEF ChunkInv
<1>4. CASE chunk = "first"
  BY <1>1, <1>2, <1>3, <1>4 DEF ChunkInv
<1>5. CASE chunk = "middle"
  BY <1>1, <1>2, <1>3, <1>5 DEF ChunkInv
<1>6. CASE chunk = "last"
  BY <1>1, <1>2, <1>3, <1>6 DEF ChunkInv
<1> QED
  BY <1>2, <1>3, <1>4, <1>5, <1>6

LEMMA ByteType ==
  ASSUME text \in Seq(0 .. 255), base \in Nat, NEW p \in Int, 0 <= base + p, base + p < Len(text)
  PROVE  Byte(p) \in 0 .. 255
<1>1. base + p + 1 \in 1 .. Len(text)
  BY LenProperties
<1>2. \A q \in 1 .. Len(text) : text[q] \in 0 .. 255
  BY ElementOfSeq
<1> QED
  BY <1>1, <1>2 DEF Byte

(* The first n elements.                                                   *)
LEMMA Prefix ==
  ASSUME NEW S, NEW t \in Seq(S), NEW n \in 0 .. Len(t)
  PROVE  SubSeq(t, 1, n) \in Seq(S) /\ Len(SubSeq(t, 1, n)) = n
<1>1. Len(t) \in Nat /\ n \in Nat
  BY LenProperties
<1>2. SubSeq(t, 1, n) \in Seq(S) /\ Len(SubSeq(t, 1, n)) = IF 1 <= n THEN n - 1 + 1 ELSE 0
  BY <1>1, SubSeqProperties
<1> QED
  BY <1>1, <1>2

(* The line learns the position before the search moves on.                *)
LEMMA AdvanceHistory ==
  ASSUME TypeInv, HistoryInv, Active, UNCHANGED text, Advance
  PROVE  HistoryInv'
<1> DEFINE x == Value(Pos)
           learnt == HashX(x)
           new == [pos |-> Pos, value |-> x]
           Entry(e) == /\ e = [pos |-> e.pos, value |-> e.value]
                       /\ e.pos \in Int
                       /\ InvalidPos <= e.pos /\ e.pos < srcEncodeI + 1
                       /\ InvalidPos < e.pos => 0 <= base + e.pos /\ e.value = Value(e.pos)
<1>1. srcEncodeI \in Nat /\ base \in Nat
  BY DEF TypeInv
<1>2. /\ history' = [k \in DOMAIN history \cup {learnt} |->
            IF k # learnt THEN history[k]
            ELSE [i \in 1 .. HashWidth |-> IF i = 1 THEN new ELSE Line(learnt)[i - 1]]]
      /\ srcEncodeI' = srcEncodeI + 1 /\ base' = base
  BY DEF Advance
<1>3. \A p : Value(p)' = Value(p)
  BY <1>2 DEF Value, Byte
<1>4. Entry(new)
  BY <1>1, ConstantFacts DEF Pos
<1>5. ASSUME NEW h \in DOMAIN history, NEW k \in 1 .. HashWidth PROVE Entry(history[h][k])
  BY <1>1, <1>5 DEF HistoryInv, EntryTrue
<1>6. ASSUME NEW k \in 1 .. HashWidth PROVE Entry(Line(learnt)[k])
  <2>1. CASE learnt \in DOMAIN history
    BY <1>5, <2>1 DEF Line
  <2>2. CASE learnt \notin DOMAIN history
    <3>1. Line(learnt)[k] = [pos |-> InvalidPos, value |-> <<0, 0, 0, 0>>]
      BY <2>2 DEF Line, EmptyLine
    <3> HIDE DEF learnt
    <3>2. InvalidPos \in Int /\ InvalidPos < srcEncodeI + 1
      BY <1>1, ConstantFacts
    <3> QED
      BY <3>1, <3>2
  <2> QED
    BY <2>1, <2>2
<1> HIDE DEF x, learnt, new
<1>7. ASSUME NEW h \in DOMAIN history', NEW k \in 1 .. HashWidth
      PROVE  DOMAIN history'[h] = 1 .. HashWidth /\ Entry(history'[h][k])
  <2>1. CASE h # learnt
    <3>1. h \in DOMAIN history /\ history'[h] = history[h]
      BY <1>2, <1>7, <2>1
    <3>2. DOMAIN history[h] = 1 .. HashWidth
      BY <3>1 DEF HistoryInv
    <3> HIDE DEF Entry
    <3> QED
      BY <1>5, <1>7, <3>1, <3>2
  <2>2. CASE h = learnt
    <3>1. history'[h] = [i \in 1 .. HashWidth |-> IF i = 1 THEN new ELSE Line(learnt)[i - 1]]
      BY <1>2, <2>2
    <3>2. CASE k = 1
      <4> HIDE DEF Entry
      <4> QED
        BY <1>4, <1>7, <3>1, <3>2
    <3>3. CASE k # 1
      <4>1. k - 1 \in 1 .. HashWidth
        BY <1>7, <3>3 DEF HashWidth
      <4>2. history'[h][k] = Line(learnt)[k - 1]
        BY <1>7, <3>1, <3>3
      <4> HIDE DEF Entry
      <4> QED
        BY <1>6, <3>1, <4>1, <4>2
    <3> QED
      BY <3>2, <3>3
  <2> QED
    BY <2>1, <2>2
<1>8. \A h \in DOMAIN history' : DOMAIN history'[h] = 1 .. HashWidth
  <2>1. 1 \in 1 .. HashWidth
    BY DEF HashWidth
  <2> QED
    BY <1>7, <2>1
<1>9. ASSUME NEW e, Entry(e) PROVE EntryTrue(e)'
  BY <1>2, <1>3, <1>9 DEF EntryTrue, InvalidPos
<1> QED
  BY <1>7, <1>8, <1>9 DEF HistoryInv, HashWidth

(* One piece of a match: so many literals, so many bytes matched.          *)
LEMMA PushSound ==
  ASSUME TypeInv, BuffersInv, ChunkInv, Active,
         NEW L \in Nat, NEW M \in Nat, NEW D \in Nat,
         0 <= base + srcLiteral, srcLiteral + L <= srcEnd,
         Push(L, M, D)
  PROVE  /\ triples' \in Seq(Triple) /\ Len(triples') = Len(triples) + 1
         /\ literals' \in Seq(0 .. 255) /\ Len(literals') = Len(literals) + L
         /\ Len(triples') + 8 <= MatchesPerBlock
         /\ Len(literals') + 16 <= LiteralsPerBlock
         /\ srcLiteral' = srcLiteral + L + M
<1> DEFINE bytes == [i \in 1 .. L |-> Byte(srcLiteral + i - 1)]
<1>1. srcLiteral \in Int /\ base \in Nat /\ srcEnd \in Nat /\ text \in Seq(0 .. 255)
  BY DEF TypeInv
<1>2. triples \in Seq(Triple) /\ literals \in Seq(0 .. 255)
  BY DEF BuffersInv
<1>3. ASSUME NEW i \in 1 .. L PROVE Byte(srcLiteral + i - 1) \in 0 .. 255
  <2>1. srcLiteral + i - 1 \in Int /\ 0 <= base + (srcLiteral + i - 1)
        /\ base + (srcLiteral + i - 1) < base + srcEnd
    BY <1>1
  <2>2. base + (srcLiteral + i - 1) < Len(text)
    <3>1. base + srcEnd <= Len(text) /\ Len(text) \in Nat
      BY InsideText
    <3> QED
      BY <1>1, <2>1, <3>1
  <2> QED
    BY <1>1, <2>1, <2>2, ByteType
<1>4. bytes \in Seq(0 .. 255) /\ Len(bytes) = L
  <2>1. bytes \in [1 .. L -> 0 .. 255]
    BY <1>3
  <2> HIDE DEF bytes
  <2> QED
    BY <2>1, LenProperties
<1>5. literals' = literals \o bytes /\ triples' = Append(triples, [L |-> L, M |-> M, D |-> D])
      /\ srcLiteral' = srcLiteral + L + M
  BY DEF Push
<1>6. [L |-> L, M |-> M, D |-> D] \in Triple
  BY DEF Triple
<1> HIDE DEF bytes
<1>7. triples' \in Seq(Triple) /\ Len(triples') = Len(triples) + 1
  BY <1>2, <1>5, <1>6, AppendProperties
<1>8. literals' \in Seq(0 .. 255) /\ Len(literals') = Len(literals) + L
  BY ZenonT(60), <1>2, <1>4, <1>5, ConcatProperties
<1>9. Len(triples) \in Nat /\ Len(literals) \in Nat
  BY <1>2, LenProperties
<1> QED
  BY <1>5, <1>7, <1>8, <1>9, ConstantFacts DEF Push, HasRoom

----------------------------------------------------------------------------
(* The front end hands a match to the back end.                            *)

LEMMA AddStep ==
  ASSUME EncodeInv, phase \in {"base", "finish"},
         NEW m \in MatchType, NEW keep \in MatchType,
         Add(m, keep), UNCHANGED <<left, chunk, payload>>,
         srcLiteral <= m.pos, m.pos <= srcLiteral + MaxLag + 10,
         Ready(m, srcLiteral), End(m) <= srcEnd, m.ref < m.pos, Ready(keep, End(m)),
         phase = "base" => /\ srcEncodeI + 8 < srcEnd
                           /\ srcEncodeI - End(m) <= MaxLag + (IF keep.length > 0 THEN 1 ELSE 0),
         phase = "finish" => keep.length = 0
  PROVE  EncodeInv'
<1> DEFINE new == [match |-> m, keep |-> keep, L |-> m.pos - srcLiteral, M |-> m.length,
                   retried |-> FALSE, caller |-> phase, triples |-> Len(triples),
                   literals |-> Len(literals), srcLiteral |-> srcLiteral]
<1>1. /\ TypeInv /\ BuffersInv /\ ChunkInv /\ PositionInv /\ LagInv /\ HistoryInv /\ RoomInv
      /\ Active
  BY DEF EncodeInv, Active
<1>2. /\ phase' = "push" /\ job' = new
      /\ UNCHANGED <<text, dstSize, base, srcEnd, srcEncodeI, pending, history, srcLiteral,
                     triples, literals, dst>>
  BY DEF Add, frontVars
<1>3. Active'
  BY <1>2 DEF Active
<1>4. Len(triples) \in Nat /\ Len(literals) \in Nat
  BY <1>1, LenProperties DEF BuffersInv
<1>5. m.pos \in Int /\ m.length \in Nat /\ srcLiteral \in Int /\ srcEncodeI \in Nat /\ srcEnd \in Nat
  BY <1>1 DEF TypeInv, MatchType
<1>6. TypeInv'
  <2>1. m.pos - srcLiteral \in Nat
    BY <1>5
  <2>2. new \in JobType
    BY <1>1, <1>4, <1>5, <2>1 DEF JobType
  <2> HIDE DEF new
  <2> QED
    BY <1>1, <1>2, <2>2 DEF TypeInv, Phases
<1>7. BuffersInv'
  BY <1>1, <1>2, <1>3 DEF BuffersInv
<1>8. ChunkInv'
  BY <1>1, <1>2, <1>3, SameChunk
<1>9. PositionInv'
  BY <1>1, <1>2 DEF PositionInv
<1>10. LagInv'
  BY <1>2 DEF LagInv
<1>11. JobInv'
  <2>1. Ready(m, srcLiteral)' /\ Ready(keep, End(m))'
    BY <1>2, SameReady
  <2>2. End(m) \in Int
    BY <1>5 DEF End
  <2>3. phase = "finish" => srcEncodeI + 8 = srcEnd /\ srcEncodeI - End(m) <= MaxLag + 2
    <3>1. phase = "finish" => srcEncodeI + 8 = srcEnd /\ srcEncodeI - srcLiteral <= MaxLag + 2
      BY <1>1 DEF PositionInv, LagInv, Active
    <3>2. srcLiteral <= End(m)
      BY <1>5 DEF End
    <3> QED
      BY <1>5, <2>2, <3>1, <3>2, ConstantFacts
  <2>4. 0 <= base + srcLiteral
    BY <1>1 DEF PositionInv
  <2>5. srcLiteral + (m.pos - srcLiteral) = m.pos
    BY <1>5
  <2> QED
    BY <1>2, <1>4, <1>5, <2>1, <2>3, <2>4, <2>5 DEF JobInv, End
<1>12. RetryInv'
  BY <1>2 DEF RetryInv
<1>13. HistoryInv'
  BY <1>1, <1>2, SameHistory
<1>14. RoomInv'
  BY <1>1, <1>2 DEF RoomInv
<1> QED
  BY <1>6, <1>7, <1>8, <1>9, <1>10, <1>11, <1>12, <1>13, <1>14 DEF EncodeInv

(* How a search at the current position goes on.                           *)
LEMMA AddFlushPending ==
  ASSUME EncodeInv, FlushPending, UNCHANGED <<left, chunk, payload>>
  PROVE  EncodeInv'
<1>1. /\ phase = "base" /\ srcEncodeI < srcEnd - 8 /\ srcEncodeI >= srcLiteral
      /\ srcEncodeI - srcLiteral > MaxLag /\ pending.length > 0 /\ Add(pending, NoMatch)
  BY DEF FlushPending, Looking, Searching, Pos, LagsBehind
<1>2. /\ srcEncodeI \in Nat /\ srcLiteral \in Int /\ srcEnd \in Nat
      /\ pending \in MatchType /\ pending.pos \in Int /\ pending.ref \in Int /\ pending.length \in Nat
  BY DEF EncodeInv, TypeInv, MatchType
<1>3. /\ Ready(pending, srcLiteral) /\ srcEncodeI - srcLiteral <= MaxLag + 2
  BY <1>1 DEF EncodeInv, LagInv
<1>4. /\ 4 <= pending.length /\ End(pending) <= srcEnd /\ pending.ref < pending.pos
      /\ srcLiteral <= pending.pos /\ pending.pos <= srcLiteral + MaxLag + 2
  BY <1>1, <1>2, <1>3, ConstantFacts DEF Ready, RepeatsIn, End
<1>5. NoMatch \in MatchType /\ NoMatch.length = 0 /\ Ready(NoMatch, End(pending))
  BY DEF NoMatch, MatchType, Ready
<1>6. /\ pending.pos <= srcLiteral + MaxLag + 10 /\ srcEncodeI + 8 < srcEnd
      /\ srcEncodeI - End(pending) <= MaxLag + 0
  BY <1>1, <1>2, <1>3, <1>4, ConstantFacts DEF End
<1> QED
  BY <1>1, <1>2, <1>3, <1>4, <1>5, <1>6, AddStep

LEMMA AddLiteralMatch ==
  ASSUME EncodeInv, phase \in {"base", "finish"}, NEW L \in Nat,
         L <= MaxLag + 10, srcLiteral + L <= srcEnd, pending.length = 0,
         phase = "base" => srcEncodeI + 8 < srcEnd /\ srcEncodeI - srcLiteral - L <= MaxLag,
         Add(LiteralMatch(L), pending), UNCHANGED <<left, chunk, payload>>
  PROVE  EncodeInv'
<1> DEFINE m == LiteralMatch(L)
<1>1. /\ srcEncodeI \in Nat /\ srcLiteral \in Int /\ srcEnd \in Nat /\ pending \in MatchType
  BY DEF EncodeInv, TypeInv
<1>2. m = [pos |-> srcLiteral + L, ref |-> srcLiteral + L - 1, length |-> 0]
  BY DEF LiteralMatch
<1>3. /\ m \in MatchType /\ m.pos = srcLiteral + L /\ m.ref < m.pos /\ m.length = 0
      /\ End(m) = srcLiteral + L
  BY <1>1, <1>2 DEF MatchType, End
<1> HIDE DEF m
<1>4. Ready(m, srcLiteral) /\ Ready(pending, End(m))
  BY <1>3 DEF Ready
<1>5. srcLiteral <= m.pos /\ m.pos <= srcLiteral + MaxLag + 10
  BY <1>1, <1>3, ConstantFacts
<1>6. phase = "base" => srcEncodeI - End(m) <= MaxLag + 0
  BY <1>1, <1>3, ConstantFacts
<1> QED
  BY <1>1, <1>3, <1>4, <1>5, <1>6, AddStep DEF m

LEMMA AddFlushLiterals ==
  ASSUME EncodeInv, FlushLiterals, UNCHANGED <<left, chunk, payload>>
  PROVE  EncodeInv'
<1>1. /\ phase = "base" /\ srcEncodeI < srcEnd - 8
      /\ srcEncodeI - srcLiteral > MaxLag /\ pending.length = 0
      /\ Add(LiteralMatch(MaxL), pending)
  <2>1. pending.length \in Nat
    BY DEF EncodeInv, TypeInv, MatchType
  <2> QED
    BY <2>1 DEF FlushLiterals, Looking, Searching, Pos, LagsBehind
<1>2. /\ srcEncodeI \in Nat /\ srcLiteral \in Int /\ srcEnd \in Nat
  BY DEF EncodeInv, TypeInv
<1>3. srcEncodeI - srcLiteral <= MaxLag + 1
  BY <1>1 DEF EncodeInv, LagInv
<1>4. /\ MaxL \in Nat /\ MaxL <= MaxLag + 10 /\ srcLiteral + MaxL <= srcEnd
      /\ srcEncodeI + 8 < srcEnd /\ srcEncodeI - srcLiteral - MaxL <= MaxLag
  BY <1>1, <1>2, <1>3, ConstantFacts
<1> QED
  BY <1>1, <1>4, AddLiteralMatch

LEMMA AddFinishLiterals ==
  ASSUME EncodeInv, FinishLiterals, UNCHANGED <<left, chunk, payload>>
  PROVE  EncodeInv'
<1>1. /\ phase = "finish" /\ pending.length = 0 /\ srcLiteral < srcEnd
      /\ Add(LiteralMatch(srcEnd - srcLiteral), pending)
  BY DEF FinishLiterals
<1>2. /\ srcEncodeI \in Nat /\ srcLiteral \in Int /\ srcEnd \in Nat
  BY DEF EncodeInv, TypeInv
<1>3. srcEncodeI + 8 = srcEnd /\ srcEncodeI - srcLiteral <= MaxLag + 2
  BY <1>1 DEF EncodeInv, LagInv, PositionInv, Active
<1>4. /\ srcEnd - srcLiteral \in Nat /\ srcEnd - srcLiteral <= MaxLag + 10
      /\ srcLiteral + (srcEnd - srcLiteral) <= srcEnd
  BY <1>1, <1>2, <1>3, ConstantFacts
<1> QED
  BY <1>1, <1>4, AddLiteralMatch

LEMMA AddFinishPending ==
  ASSUME EncodeInv, FinishPending, UNCHANGED <<left, chunk, payload>>
  PROVE  EncodeInv'
<1>1. phase = "finish" /\ pending.length > 0 /\ Add(pending, NoMatch)
  BY DEF FinishPending
<1>2. /\ srcLiteral \in Int /\ srcEnd \in Nat /\ pending \in MatchType
      /\ pending.pos \in Int /\ pending.ref \in Int /\ pending.length \in Nat
  BY DEF EncodeInv, TypeInv, MatchType
<1>3. Ready(pending, srcLiteral)
  BY <1>1 DEF EncodeInv, LagInv
<1>4. /\ End(pending) <= srcEnd /\ pending.ref < pending.pos
      /\ srcLiteral <= pending.pos /\ pending.pos <= srcLiteral + MaxLag + 2
  BY <1>1, <1>2, <1>3, ConstantFacts DEF Ready, RepeatsIn, End
<1>5. NoMatch \in MatchType /\ NoMatch.length = 0 /\ Ready(NoMatch, End(pending))
  BY DEF NoMatch, MatchType, Ready
<1>6. pending.pos <= srcLiteral + MaxLag + 10
  BY <1>2, <1>4, ConstantFacts
<1> QED
  BY <1>1, <1>2, <1>3, <1>4, <1>5, <1>6, AddStep

(* What is known of a match found at the current position.                 *)
LEMMA FoundHere ==
  ASSUME EncodeInv, Looking, Longest.length > 0
  PROVE  /\ phase = "base" /\ srcEncodeI + 8 < srcEnd /\ srcLiteral <= srcEncodeI
         /\ Incoming \in MatchType /\ Incoming.length > 0
         /\ Ready(Incoming, srcLiteral)
         /\ Incoming.pos <= srcEncodeI /\ srcEncodeI + 4 <= End(Incoming)
         /\ srcLiteral <= Incoming.pos /\ Incoming.pos <= srcLiteral + MaxLag + 10
         /\ End(Incoming) <= srcEnd /\ Incoming.ref < Incoming.pos
<1>1. phase = "base" /\ srcEncodeI < srcEnd - 8 /\ srcLiteral <= srcEncodeI
  BY DEF Looking, Searching, Pos, EncodeInv, TypeInv
<1>2. srcEncodeI \in Nat /\ srcEnd \in Nat /\ srcLiteral \in Int
  BY DEF EncodeInv, TypeInv
<1>3. srcEncodeI + 8 < srcEnd
  BY <1>1, <1>2
<1>4. /\ Incoming \in MatchType /\ Incoming.length > 0
      /\ Ready(Incoming, srcLiteral)
      /\ Incoming.pos <= srcEncodeI /\ srcEncodeI + 4 <= End(Incoming)
  BY <1>1, <1>3, IncomingSound DEF EncodeInv
<1>5. Incoming.pos \in Int /\ Incoming.ref \in Int /\ Incoming.length \in Nat
  BY <1>4 DEF MatchType
<1>6. /\ srcLiteral <= Incoming.pos /\ Incoming.pos <= srcLiteral + MaxLag + 2
      /\ End(Incoming) <= srcEnd /\ Incoming.ref < Incoming.pos
  BY <1>4, <1>5, ConstantFacts DEF Ready, RepeatsIn, End
<1> QED
  BY <1>1, <1>2, <1>3, <1>4, <1>5, <1>6, ConstantFacts

LEMMA AddEmitGood ==
  ASSUME EncodeInv, EmitGood, UNCHANGED <<left, chunk, payload>>
  PROVE  EncodeInv'
<1>1. Looking /\ Longest.length > 0 /\ Add(Incoming, NoMatch)
  BY DEF EmitGood
<1>2. srcEncodeI \in Nat /\ srcEnd \in Nat /\ End(Incoming) \in Int
  BY <1>1, FoundHere DEF EncodeInv, TypeInv, End, MatchType
<1>3. srcEncodeI - End(Incoming) <= MaxLag + 0
  BY <1>1, <1>2, FoundHere, ConstantFacts
<1>4. NoMatch \in MatchType /\ NoMatch.length = 0 /\ Ready(NoMatch, End(Incoming))
  BY DEF NoMatch, MatchType, Ready
<1> HIDE DEF Ready, End
<1> QED
  BY <1>1, <1>3, <1>4, FoundHere, AddStep

(* A match is pending when another is found.                               *)
LEMMA PendingHere ==
  ASSUME EncodeInv, phase = "base", pending.length > 0
  PROVE  /\ pending \in MatchType /\ Ready(pending, srcLiteral) /\ End(pending) \in Int
         /\ 4 <= pending.length /\ End(pending) <= srcEnd /\ pending.ref < pending.pos
         /\ srcLiteral <= pending.pos /\ pending.pos <= srcLiteral + MaxLag + 10
         /\ srcEncodeI - End(pending) <= MaxLag
<1>1. /\ srcEncodeI \in Nat /\ srcLiteral \in Int /\ srcEnd \in Nat
      /\ pending \in MatchType /\ pending.pos \in Int /\ pending.ref \in Int /\ pending.length \in Nat
  BY DEF EncodeInv, TypeInv, MatchType
<1>2. Ready(pending, srcLiteral) /\ srcEncodeI - srcLiteral <= MaxLag + 2
  BY DEF EncodeInv, LagInv
<1>3. /\ 4 <= pending.length /\ End(pending) <= srcEnd /\ pending.ref < pending.pos
      /\ srcLiteral <= pending.pos /\ pending.pos <= srcLiteral + MaxLag + 2
  BY <1>1, <1>2, ConstantFacts DEF Ready, RepeatsIn, End
<1>4. End(pending) = pending.pos + pending.length
  BY DEF End
<1> QED
  BY <1>1, <1>2, <1>3, <1>4, ConstantFacts

LEMMA AddPendingKeepIncoming ==
  ASSUME EncodeInv, EmitPendingKeepIncoming, UNCHANGED <<left, chunk, payload>>
  PROVE  EncodeInv'
<1>1. Looking /\ Longest.length > 0 /\ pending.length > 0 /\ ~Overlap /\ Add(pending, Incoming)
  BY DEF EmitPendingKeepIncoming, NotGood
<1>2. phase = "base" /\ srcEncodeI + 8 < srcEnd
  BY <1>1, FoundHere
<1>3. /\ srcEncodeI \in Nat /\ srcLiteral \in Int /\ srcEnd \in Nat /\ MaxLag \in Nat
      /\ Incoming.pos \in Int /\ Incoming.length \in Nat /\ MaxMatchLength \in Nat
  BY <1>1, FoundHere, ConstantFacts DEF EncodeInv, TypeInv, MatchType
<1>4. End(pending) \in Int /\ End(pending) <= Incoming.pos /\ srcLiteral <= End(pending)
  <2>1. End(pending) = pending.pos + pending.length /\ pending.pos \in Int /\ pending.length \in Nat
    BY DEF End, EncodeInv, TypeInv, MatchType
  <2>2. End(pending) <= Incoming.pos
    BY <1>1, <1>3, <2>1 DEF Overlap
  <2>3. srcLiteral <= pending.pos
    BY <1>1, <1>2, PendingHere
  <2> QED
    BY <1>3, <2>1, <2>2, <2>3
<1>5. Ready(Incoming, End(pending))
  <2>1. Ready(Incoming, srcLiteral)
    BY <1>1, FoundHere
  <2> HIDE DEF End
  <2> QED
    BY <1>3, <1>4, <2>1 DEF Ready
<1>6. srcEncodeI - End(pending) <= MaxLag + 1
  BY <1>1, <1>2, <1>3, <1>4, PendingHere
<1> QED
  BY <1>1, <1>2, <1>5, <1>6, PendingHere, FoundHere, AddStep

LEMMA AddLonger ==
  ASSUME EncodeInv, EmitLonger, UNCHANGED <<left, chunk, payload>>
  PROVE  EncodeInv'
<1>1. /\ Looking /\ Longest.length > 0 /\ pending.length > 0
      /\ Add(IF Incoming.length > pending.length THEN Incoming ELSE pending, NoMatch)
  BY DEF EmitLonger, NotGood
<1>2. phase = "base" /\ srcEncodeI + 8 < srcEnd
  BY <1>1, FoundHere
<1>3. \A m : NoMatch \in MatchType /\ NoMatch.length = 0 /\ Ready(NoMatch, End(m))
  BY DEF NoMatch, MatchType, Ready
<1>4. CASE Incoming.length > pending.length
  <2>1. srcEncodeI \in Nat /\ srcEnd \in Nat /\ End(Incoming) \in Int
    BY <1>1, FoundHere DEF EncodeInv, TypeInv, End, MatchType
  <2>2. srcEncodeI - End(Incoming) <= MaxLag + 0
    BY <1>1, <2>1, FoundHere, ConstantFacts
  <2>3. Add(Incoming, NoMatch)
    BY <1>1, <1>4
  <2> QED
    BY <1>1, <1>2, <1>3, <2>2, <2>3, FoundHere, AddStep
<1>5. CASE ~(Incoming.length > pending.length)
  <2>1. Add(pending, NoMatch)
    BY <1>1, <1>5
  <2>2. srcEncodeI - End(pending) <= MaxLag + 0
    BY <1>1, <1>2, PendingHere, ConstantFacts
  <2> QED
    BY <1>1, <1>2, <1>3, <2>1, <2>2, PendingHere, AddStep
<1> QED
  BY <1>4, <1>5

(* The search moves on without the back end.                               *)
LEMMA ContinueStep ==
  ASSUME EncodeInv, Searching, Continue, UNCHANGED <<left, chunk, payload>>,
         NEW m \in MatchType, pending' = m, Ready(m, srcLiteral),
         srcEncodeI + 1 - srcLiteral <= MaxLag + (IF m.length > 0 THEN 2 ELSE 1)
  PROVE  EncodeInv'
<1>1. /\ TypeInv /\ BuffersInv /\ ChunkInv /\ PositionInv /\ LagInv /\ HistoryInv /\ RoomInv
      /\ phase = "base" /\ Active /\ srcEncodeI < srcEnd - 8
  BY DEF EncodeInv, Active, Searching, Pos
<1>2. /\ Advance /\ phase' = "base" /\ srcEncodeI' = srcEncodeI + 1
      /\ UNCHANGED <<text, dstSize, base, srcEnd, srcLiteral, triples, literals, dst, job>>
  BY <1>1 DEF Continue, Advance
<1>3. Active'
  BY <1>2 DEF Active
<1>4. srcEncodeI \in Nat /\ srcEnd \in Nat /\ srcLiteral \in Int
  BY <1>1 DEF TypeInv
<1>5. TypeInv'
  BY <1>1, <1>2, <1>4 DEF TypeInv, Phases
<1>6. BuffersInv'
  BY <1>1, <1>2, <1>3 DEF BuffersInv
<1>7. ChunkInv'
  BY <1>1, <1>2, <1>3, SameChunk
<1>8. PositionInv'
  BY <1>1, <1>2, <1>4 DEF PositionInv
<1>9. LagInv'
  <2>1. Ready(pending, srcLiteral)'
    BY <1>2, SameReady
  <2>2. srcEncodeI' - srcLiteral' <= MaxLag + (IF pending'.length > 0 THEN 2 ELSE 1)
    BY <1>2, <1>4, ConstantFacts
  <2> HIDE DEF Ready
  <2> QED
    BY <1>2, <2>1, <2>2 DEF LagInv
<1>10. JobInv' /\ RetryInv'
  BY <1>2 DEF JobInv, RetryInv
<1>11. HistoryInv'
  BY <1>1, <1>2, AdvanceHistory
<1>12. RoomInv'
  BY <1>1, <1>2 DEF RoomInv
<1> QED
  BY <1>5, <1>6, <1>7, <1>8, <1>9, <1>10, <1>11, <1>12 DEF EncodeInv

LEMMA ContinueSkip ==
  ASSUME EncodeInv, SkipEmitted, UNCHANGED <<left, chunk, payload>>
  PROVE  EncodeInv'
<1>1. Searching /\ srcEncodeI < srcLiteral /\ Continue /\ pending' = pending /\ phase = "base"
  BY DEF SkipEmitted, Searching, Pos
<1>2. pending \in MatchType /\ Ready(pending, srcLiteral) /\ srcEncodeI \in Nat /\ srcLiteral \in Int
  BY <1>1 DEF EncodeInv, TypeInv, LagInv
<1>3. srcEncodeI + 1 - srcLiteral <= MaxLag + (IF pending.length > 0 THEN 2 ELSE 1)
  BY <1>1, <1>2, ConstantFacts
<1> QED
  BY <1>1, <1>2, <1>3, ContinueStep

LEMMA ContinueNothing ==
  ASSUME EncodeInv, NothingFound, UNCHANGED <<left, chunk, payload>>
  PROVE  EncodeInv'
<1>1. /\ Searching /\ Continue /\ pending' = pending /\ phase = "base"
      /\ ~(srcEncodeI - srcLiteral > MaxLag)
  BY DEF NothingFound, Looking, LagsBehind, Searching, Pos
<1>2. pending \in MatchType /\ Ready(pending, srcLiteral) /\ srcEncodeI \in Nat /\ srcLiteral \in Int
  BY <1>1 DEF EncodeInv, TypeInv, LagInv
<1>3. srcEncodeI + 1 - srcLiteral <= MaxLag + (IF pending.length > 0 THEN 2 ELSE 1)
  BY <1>1, <1>2, ConstantFacts
<1> QED
  BY <1>1, <1>2, <1>3, ContinueStep

LEMMA ContinueKeep ==
  ASSUME EncodeInv, KeepIncoming, UNCHANGED <<left, chunk, payload>>
  PROVE  EncodeInv'
<1>1. /\ Looking /\ Searching /\ Longest.length > 0 /\ Continue /\ pending' = Incoming
      /\ pending.length = 0 /\ phase = "base"
  BY DEF KeepIncoming, NotGood, Looking, Searching
<1>2. /\ Incoming \in MatchType /\ Incoming.length > 0 /\ Ready(Incoming, srcLiteral)
  BY <1>1, FoundHere
<1>3. srcEncodeI - srcLiteral <= MaxLag + 1 /\ srcEncodeI \in Nat /\ srcLiteral \in Int
  BY <1>1 DEF EncodeInv, TypeInv, LagInv
<1>4. srcEncodeI + 1 - srcLiteral <= MaxLag + (IF Incoming.length > 0 THEN 2 ELSE 1)
  BY <1>2, <1>3, ConstantFacts
<1> QED
  BY <1>1, <1>2, <1>4, ContinueStep

----------------------------------------------------------------------------
(* The pieces of a match, until all of it is in the buffers.               *)

LEMMA NextMultiple ==
  ASSUME NEW n \in Nat, NEW m \in Nat
  PROVE  (n + 1) * m = n * m + m /\ n * m \in Nat
OBVIOUS

(* The job while it is being pushed.                                       *)
LEMMA JobHere ==
  ASSUME EncodeInv, phase \in {"push", "block"}
  PROVE  /\ job.match \in MatchType /\ job.keep \in MatchType
         /\ job.match.pos \in Int /\ job.match.ref \in Int /\ job.match.length \in Nat
         /\ job.L \in Nat /\ job.M \in Nat /\ job.srcLiteral \in Int
         /\ End(job.match) = job.match.pos + job.match.length
         /\ End(job.match) <= srcEnd /\ job.match.ref < job.match.pos
         /\ srcLiteral \in Int /\ srcEnd \in Nat /\ srcEncodeI \in Nat /\ base \in Nat
         /\ phase = "push" => \/ /\ srcLiteral + job.L = job.match.pos
                                 /\ job.M = job.match.length /\ job.srcLiteral <= srcLiteral
                              \/ /\ job.match.pos <= srcLiteral /\ job.L = 0
                                 /\ srcLiteral + job.M = End(job.match)
         /\ job.triples <= Len(triples) /\ job.literals <= Len(literals)
         /\ job.triples \in Nat /\ job.literals \in Nat
<1>1. TypeInv /\ JobInv
  BY DEF EncodeInv
<1>2. job \in JobType
  BY <1>1 DEF TypeInv
<1>3. job.match \in MatchType /\ job.keep \in MatchType
  BY <1>2 DEF JobType
<1> QED
  BY <1>1, <1>2, <1>3 DEF TypeInv, JobInv, JobType, MatchType, End

(* Every way to push keeps all but what is said about the job.             *)
LEMMA PushStep ==
  ASSUME EncodeInv, phase = "push", phase' = "push", UNCHANGED <<left, chunk, payload>>,
         NEW L \in Nat, NEW M \in Nat, NEW D \in Nat, srcLiteral + L <= srcEnd,
         Push(L, M, D), srcLiteral + L + M <= End(job.match), srcLiteral <= srcLiteral + L + M,
         UNCHANGED <<text, dstSize, frontVars, dst>>,
         NEW K \in Nat, NEW N \in Nat, job' = [job EXCEPT !.L = K, !.M = N]
  PROVE  /\ TypeInv' /\ BuffersInv' /\ ChunkInv' /\ PositionInv' /\ LagInv' /\ HistoryInv' /\ RoomInv'
         /\ srcLiteral' = srcLiteral + L + M
         /\ Len(triples') = Len(triples) + 1 /\ Len(literals') = Len(literals) + L
         /\ Len(triples) \in Nat /\ Len(literals) \in Nat
<1>1. /\ TypeInv /\ BuffersInv /\ ChunkInv /\ PositionInv /\ LagInv /\ HistoryInv /\ RoomInv
      /\ JobInv /\ Active /\ Active'
  BY DEF EncodeInv, Active
<1>2. UNCHANGED <<text, dstSize, base, srcEnd, srcEncodeI, pending, history, dst>>
  BY DEF frontVars
<1>3. /\ srcLiteral \in Int /\ base \in Nat /\ srcEnd \in Nat /\ job \in JobType
      /\ 0 <= base + srcLiteral
  BY <1>1 DEF TypeInv, PositionInv
<1>4. /\ triples' \in Seq(Triple) /\ Len(triples') = Len(triples) + 1
      /\ literals' \in Seq(0 .. 255) /\ Len(literals') = Len(literals) + L
      /\ Len(triples') + 8 <= MatchesPerBlock
      /\ Len(literals') + 16 <= LiteralsPerBlock
  BY <1>1, <1>3, PushSound
<1>a. srcLiteral' = srcLiteral + L + M
  BY DEF Push
<1>b. srcLiteral + L + M \in Int
  BY <1>3
<1>5. TypeInv'
  <2>1. job' \in JobType
    BY <1>3 DEF JobType
  <2>2. srcLiteral' \in Int
    BY <1>a, <1>b
  <2> QED
    BY <1>1, <1>2, <2>1, <2>2 DEF TypeInv, Phases
<1>6. BuffersInv'
  BY <1>1, <1>4, LenProperties DEF BuffersInv
<1>7. ChunkInv'
  BY <1>1, <1>2, SameChunk
<1>8. PositionInv'
  <2>1. End(job.match) <= srcEnd /\ End(job.match) \in Int
    <3>1. /\ job.match.pos \in Int /\ job.match.length \in Nat /\ End(job.match) <= srcEnd
          /\ End(job.match) = job.match.pos + job.match.length
      BY JobHere
    <3> QED
      BY <3>1
  <2>2. srcLiteral + L + M <= srcEnd /\ 0 <= base + (srcLiteral + L + M)
    BY <1>3, <2>1
  <2> QED
    BY <1>1, <1>2, <1>a, <2>2 DEF PositionInv
<1>9. LagInv'
  BY DEF LagInv
<1>10. HistoryInv'
  BY <1>1, <1>2, SameHistory
<1>11. RoomInv'
  BY <1>1, <1>2 DEF RoomInv
<1>12. Len(triples) \in Nat /\ Len(literals) \in Nat
  BY <1>1, LenProperties DEF BuffersInv
<1> QED
  BY <1>a, <1>4, <1>5, <1>6, <1>7, <1>8, <1>9, <1>10, <1>11, <1>12

LEMMA PushLiterals ==
  ASSUME EncodeInv, SplitLiterals, UNCHANGED <<left, chunk, payload>>
  PROVE  EncodeInv'
<1> DEFINE m == job.match
<1>1. /\ phase = "push" /\ phase' = "push" /\ job.L > MaxL /\ Push(MaxL, 0, 1)
      /\ job' = [job EXCEPT !.L = job.L - MaxL]
      /\ UNCHANGED <<text, dstSize, frontVars, dst>>
  BY DEF SplitLiterals
<1>2. /\ srcLiteral + job.L = m.pos /\ job.M = m.length /\ job.srcLiteral <= srcLiteral
      /\ job.L \in Nat /\ srcLiteral \in Int /\ m.pos \in Int /\ m.length \in Nat
      /\ End(m) = m.pos + m.length /\ End(m) <= srcEnd /\ srcEnd \in Nat
      /\ job.srcLiteral \in Int
  <2>1. /\ job.L \in Nat /\ srcLiteral \in Int /\ m.pos \in Int /\ m.length \in Nat
        /\ End(m) = m.pos + m.length /\ End(m) <= srcEnd /\ srcEnd \in Nat
        /\ job.srcLiteral \in Int
    BY <1>1, JobHere
  <2>2. job.L # 0
    BY <1>1, <2>1, ConstantFacts
  <2>3. srcLiteral + job.L = m.pos /\ job.M = m.length /\ job.srcLiteral <= srcLiteral
    BY <1>1, <2>2, JobHere
  <2> QED
    BY <2>1, <2>3
<1>3. job.L - MaxL \in Nat /\ job' = [job EXCEPT !.L = job.L - MaxL, !.M = job.M]
  <2>1. job \in JobType
    BY DEF EncodeInv, TypeInv
  <2>2. job.L - MaxL \in Nat
    BY <1>1, <1>2, ConstantFacts
  <2> QED
    BY <1>1, <2>1, <2>2 DEF JobType
<1>4. /\ srcLiteral + MaxL <= srcEnd /\ srcLiteral + MaxL + 0 <= End(m)
      /\ srcLiteral <= srcLiteral + MaxL + 0
  BY <1>1, <1>2, ConstantFacts
<1>5. /\ TypeInv' /\ BuffersInv' /\ ChunkInv' /\ PositionInv' /\ LagInv' /\ HistoryInv' /\ RoomInv'
      /\ srcLiteral' = srcLiteral + MaxL + 0
      /\ Len(triples') = Len(triples) + 1 /\ Len(literals') = Len(literals) + MaxL
      /\ Len(triples) \in Nat /\ Len(literals) \in Nat
  <2>1. job.M \in Nat
    BY <1>2
  <2>2. \A K, N \in Nat : job' = [job EXCEPT !.L = K, !.M = N] =>
        /\ TypeInv' /\ BuffersInv' /\ ChunkInv' /\ PositionInv' /\ LagInv' /\ HistoryInv' /\ RoomInv'
        /\ srcLiteral' = srcLiteral + MaxL + 0
        /\ Len(triples') = Len(triples) + 1 /\ Len(literals') = Len(literals) + MaxL
        /\ Len(triples) \in Nat /\ Len(literals) \in Nat
    BY <1>1, <1>4, PushStep, ConstantFacts
  <2> QED
    BY <1>3, <2>1, <2>2
<1>6. UNCHANGED <<base, srcEnd, srcEncodeI, text>>
  BY <1>1 DEF frontVars
<1>7. /\ job'.match = m /\ job'.keep = job.keep /\ job'.L = job.L - MaxL /\ job'.M = job.M
      /\ job'.triples = job.triples /\ job'.literals = job.literals /\ job'.retried = job.retried
      /\ job'.srcLiteral = job.srcLiteral /\ job'.caller = job.caller
  <2>1. job \in JobType
    BY DEF EncodeInv, TypeInv
  <2> QED
    BY <1>1, <2>1 DEF JobType
<1>8. JobInv'
  <2>1. JobInv
    BY DEF EncodeInv
  <2>2. Ready(job.keep, End(m)) /\ (m.length > 0 => Ready(m, job.srcLiteral))
    BY <1>1, <2>1 DEF JobInv
  <2>3. Ready(job.keep, End(job.match))'
    BY <1>6, <1>7, <2>2, SameReady DEF End
  <2>4. (job.match.length > 0 => Ready(job.match, job.srcLiteral))'
    BY <1>6, <1>7, <2>2, SameReady
  <2>5. /\ srcLiteral' + job'.L = m.pos /\ job.srcLiteral <= srcLiteral'
        /\ job.triples <= Len(triples') /\ job.literals <= Len(literals')
    <3>1. /\ job.triples <= Len(triples) /\ job.literals <= Len(literals)
          /\ job.triples \in Nat /\ job.literals \in Nat
      BY <1>1, JobHere
    <3>2. PICK t \in Nat, l \in Nat, nt \in Nat, nl \in Nat, mx \in Nat :
            /\ t = job.triples /\ l = job.literals
            /\ nt = Len(triples) /\ nl = Len(literals) /\ mx = MaxL
      BY <1>5, <3>1, ConstantFacts
    <3>3. t <= nt + 1 /\ l <= nl + mx
      BY <3>1, <3>2
    <3>4. job.triples <= Len(triples') /\ job.literals <= Len(literals')
      BY <1>5, <3>2, <3>3
    <3>5. PICK s \in Int, j \in Int, L \in Nat, p \in Int, x \in Nat :
            s = srcLiteral /\ j = job.srcLiteral /\ L = job.L /\ p = m.pos /\ x = MaxL
      BY <1>2, ConstantFacts
    <3>6. (s + x + 0) + (L - x) = p /\ j <= s + x + 0
      BY <1>2, <3>5
    <3>7. srcLiteral' + job'.L = m.pos /\ job.srcLiteral <= srcLiteral'
      BY <1>5, <1>7, <3>5, <3>6
    <3> QED
      BY <3>4, <3>7
  <2> HIDE DEF m
  <2>6. job.match = m
    BY DEF m
  <2> QED
    BY <1>1, <1>2, <1>6, <1>7, <2>1, <2>3, <2>4, <2>5, <2>6 DEF JobInv, End
<1>9. RetryInv'
  <2>1. SUFFICES ASSUME job.retried PROVE RetryInv'
    BY <1>7 DEF RetryInv
  <2>2. Len(literals) + job.L <= m.pos - job.srcLiteral
    BY <1>1, <2>1 DEF EncodeInv, RetryInv
  <2>3. PICK k \in Nat, n \in Nat :
          /\ Len(triples) = k + n
          /\ k * MaxL + job.L <= m.pos - job.srcLiteral
          /\ n * MaxM + job.M = m.length
    BY <1>1, <2>1 DEF EncodeInv, RetryInv
  <2>4. Len(literals') + (job.L - MaxL) <= m.pos - job.srcLiteral
    BY <1>2, <1>5, <2>2, ConstantFacts
  <2>5. (k + 1) * MaxL + (job.L - MaxL) <= m.pos - job.srcLiteral
    BY <1>2, <2>3, NextMultiple, ConstantFacts
  <2>6. k + 1 \in Nat /\ Len(triples') = (k + 1) + n
    BY <1>5, <2>3
  <2> QED
    BY <1>7, <2>3, <2>4, <2>5, <2>6 DEF RetryInv
<1> QED
  BY <1>5, <1>8, <1>9 DEF EncodeInv

LEMMA PushMatch ==
  ASSUME EncodeInv, SplitMatch, UNCHANGED <<left, chunk, payload>>
  PROVE  EncodeInv'
<1> DEFINE m == job.match
           D == m.pos - m.ref
<1>1. /\ phase = "push" /\ phase' = "push" /\ job.M > MaxM /\ Push(job.L, MaxM, D)
      /\ job' = [job EXCEPT !.L = 0, !.M = job.M - MaxM]
      /\ UNCHANGED <<text, dstSize, frontVars, dst>>
  BY DEF SplitMatch
<1>2. /\ srcLiteral + job.L + job.M = End(m) /\ m.pos <= srcLiteral + job.L
      /\ job.L \in Nat /\ job.M \in Nat /\ srcLiteral \in Int /\ m.pos \in Int /\ m.length \in Nat
      /\ End(m) = m.pos + m.length /\ End(m) <= srcEnd /\ srcEnd \in Nat
      /\ job.srcLiteral \in Int /\ D \in Nat
  <2>1. /\ job.L \in Nat /\ job.M \in Nat /\ srcLiteral \in Int /\ m.pos \in Int /\ m.length \in Nat
        /\ m.ref \in Int /\ m.ref < m.pos
        /\ End(m) = m.pos + m.length /\ End(m) <= srcEnd /\ srcEnd \in Nat
        /\ job.srcLiteral \in Int
    BY <1>1, JobHere
  <2>2. \/ srcLiteral + job.L = m.pos /\ job.M = m.length
        \/ m.pos <= srcLiteral /\ job.L = 0 /\ srcLiteral + job.M = End(m)
    BY <1>1, JobHere
  <2>3. srcLiteral + job.L + job.M = End(m) /\ m.pos <= srcLiteral + job.L
    BY <2>1, <2>2
  <2> QED
    BY <2>1, <2>3
<1>3. job.M - MaxM \in Nat
  BY <1>1, <1>2, ConstantFacts
<1>4. /\ srcLiteral + job.L <= srcEnd /\ srcLiteral + job.L + MaxM <= End(m)
      /\ srcLiteral <= srcLiteral + job.L + MaxM
  BY <1>1, <1>2, ConstantFacts
<1> HIDE DEF D
<1>5. /\ TypeInv' /\ BuffersInv' /\ ChunkInv' /\ PositionInv' /\ LagInv' /\ HistoryInv' /\ RoomInv'
      /\ srcLiteral' = srcLiteral + job.L + MaxM
      /\ Len(triples') = Len(triples) + 1 /\ Len(literals') = Len(literals) + job.L
      /\ Len(triples) \in Nat /\ Len(literals) \in Nat
  <2>1. \A K, N \in Nat : job' = [job EXCEPT !.L = K, !.M = N] =>
        /\ TypeInv' /\ BuffersInv' /\ ChunkInv' /\ PositionInv' /\ LagInv' /\ HistoryInv' /\ RoomInv'
        /\ srcLiteral' = srcLiteral + job.L + MaxM
        /\ Len(triples') = Len(triples) + 1 /\ Len(literals') = Len(literals) + job.L
        /\ Len(triples) \in Nat /\ Len(literals) \in Nat
    BY <1>1, <1>2, <1>4, PushStep, ConstantFacts
  <2> QED
    BY <1>1, <1>3, <2>1
<1>6. UNCHANGED <<base, srcEnd, srcEncodeI, text>>
  BY <1>1 DEF frontVars
<1>7. /\ job'.match = m /\ job'.keep = job.keep /\ job'.L = 0 /\ job'.M = job.M - MaxM
      /\ job'.triples = job.triples /\ job'.literals = job.literals /\ job'.retried = job.retried
      /\ job'.srcLiteral = job.srcLiteral /\ job'.caller = job.caller
  <2>1. job \in JobType
    BY DEF EncodeInv, TypeInv
  <2> QED
    BY <1>1, <2>1 DEF JobType
<1>8. JobInv'
  <2>1. JobInv
    BY DEF EncodeInv
  <2>2. Ready(job.keep, End(m)) /\ (m.length > 0 => Ready(m, job.srcLiteral))
    BY <1>1, <2>1 DEF JobInv
  <2>3. Ready(job.keep, End(job.match))'
    BY <1>6, <1>7, <2>2, SameReady DEF End
  <2>4. (job.match.length > 0 => Ready(job.match, job.srcLiteral))'
    BY <1>6, <1>7, <2>2, SameReady
  <2>5. /\ srcLiteral' + job'.M = End(m) /\ m.pos <= srcLiteral'
        /\ job.triples <= Len(triples') /\ job.literals <= Len(literals')
    <3>1. /\ job.triples <= Len(triples) /\ job.literals <= Len(literals)
          /\ job.triples \in Nat /\ job.literals \in Nat
      BY <1>1, JobHere
    <3>2. /\ Len(triples') = Len(triples) + 1 /\ Len(literals') = Len(literals) + job.L
          /\ Len(triples) \in Nat /\ Len(literals) \in Nat /\ job.L \in Nat
      BY <1>2, <1>5
    <3>3. job.triples <= Len(triples') /\ job.literals <= Len(literals')
      BY <3>1, <3>2
    <3>4. /\ srcLiteral' = srcLiteral + job.L + MaxM /\ job'.M = job.M - MaxM
          /\ srcLiteral + job.L + job.M = End(m) /\ m.pos <= srcLiteral + job.L
      BY <1>2, <1>5, <1>7
    <3>5. job.L \in Nat /\ job.M \in Nat /\ srcLiteral \in Int /\ m.pos \in Int
      BY <1>2
    <3>6. srcLiteral' + job'.M = End(m) /\ m.pos <= srcLiteral'
      BY <3>4, <3>5, ConstantFacts
    <3> QED
      BY <3>3, <3>6
  <2> HIDE DEF m
  <2>6. job.match = m
    BY DEF m
  <2> QED
    BY <1>1, <1>2, <1>6, <1>7, <2>1, <2>3, <2>4, <2>5, <2>6 DEF JobInv, End
<1>9. RetryInv'
  <2>1. SUFFICES ASSUME job.retried PROVE RetryInv'
    BY <1>7 DEF RetryInv
  <2>2. Len(literals) + job.L <= m.pos - job.srcLiteral
    BY <1>1, <2>1 DEF EncodeInv, RetryInv
  <2>3. PICK k \in Nat, n \in Nat :
          /\ Len(triples) = k + n
          /\ k * MaxL + job.L <= m.pos - job.srcLiteral
          /\ n * MaxM + job.M = m.length
    BY <1>1, <2>1 DEF EncodeInv, RetryInv
  <2>4. Len(literals') + 0 <= m.pos - job.srcLiteral
    BY <1>2, <1>5, <2>2
  <2>5. (n + 1) * MaxM + (job.M - MaxM) = m.length
    BY SMTT(30), <1>2, <2>3, NextMultiple, ConstantFacts
  <2>6. n + 1 \in Nat /\ Len(triples') = k + (n + 1)
    BY <1>5, <2>3
  <2>7. k * MaxL + 0 <= m.pos - job.srcLiteral
    <3>1. k * MaxL \in Nat
      BY NextMultiple, ConstantFacts
    <3> QED
      BY SMTT(30), <1>2, <2>3, <3>1
  <2> QED
    BY <1>7, <2>3, <2>4, <2>5, <2>6, <2>7 DEF RetryInv
<1> QED
  BY <1>5, <1>8, <1>9 DEF EncodeInv

(* With the rest the call succeeds and the front end goes on behind the    *)
(* match.                                                                  *)
LEMMA PushEnds ==
  ASSUME EncodeInv, PushRest, UNCHANGED <<left, chunk, payload>>
  PROVE  EncodeInv'
<1> DEFINE m == job.match
           D == m.pos - m.ref
<1>1. /\ phase = "push" /\ phase' = job.caller /\ Push(job.L, job.M, D)
      /\ pending' = job.keep /\ job' = NoJob
      /\ \/ job.caller = "base" /\ Advance
         \/ job.caller = "finish" /\ UNCHANGED <<base, srcEnd, srcEncodeI, history>>
      /\ UNCHANGED <<text, dstSize, dst>>
  BY DEF PushRest
<1>2. /\ TypeInv /\ BuffersInv /\ ChunkInv /\ PositionInv /\ JobInv /\ HistoryInv /\ RoomInv /\ Active
  BY <1>1 DEF EncodeInv, Active
<1>3. /\ job.L \in Nat /\ job.M \in Nat /\ srcLiteral \in Int /\ m.pos \in Int /\ m.length \in Nat
      /\ m.ref \in Int /\ m.ref < m.pos
      /\ End(m) = m.pos + m.length /\ End(m) <= srcEnd /\ srcEnd \in Nat
      /\ job.srcLiteral \in Int /\ srcEncodeI \in Nat /\ base \in Nat /\ job.keep \in MatchType
  BY <1>1, JobHere
<1>4. srcLiteral + job.L + job.M = End(m) /\ srcLiteral + job.L <= srcEnd
  <2>1. \/ srcLiteral + job.L = m.pos /\ job.M = m.length
        \/ m.pos <= srcLiteral /\ job.L = 0 /\ srcLiteral + job.M = End(m)
    BY <1>1, JobHere
  <2> QED
    BY <1>3, <2>1
<1>5. srcLiteral' = End(m)
  BY <1>1, <1>4 DEF Push
<1>6. D \in Nat /\ End(m) \in Int
  BY <1>3
<1> HIDE DEF D
<1>7. /\ triples' \in Seq(Triple) /\ literals' \in Seq(0 .. 255)
      /\ Len(triples') + 8 <= MatchesPerBlock
      /\ Len(literals') + 16 <= LiteralsPerBlock
  <2>1. 0 <= base + srcLiteral
    BY <1>2 DEF PositionInv
  <2> QED
    BY <1>1, <1>2, <1>3, <1>4, <1>6, <2>1, PushSound
<1>8. job.caller \in {"base", "finish"} /\ phase' \in {"base", "finish"} /\ Active'
  BY <1>1 DEF Active
<1>9. UNCHANGED <<base, srcEnd>>
  BY <1>1 DEF Advance
<1>10. srcEncodeI' = IF job.caller = "base" THEN srcEncodeI + 1 ELSE srcEncodeI
  BY <1>1 DEF Advance
<1>11. TypeInv'
  <2>1. NoJob \in JobType
    BY DEF NoJob, JobType, NoMatch, MatchType
  <2>2. srcEncodeI' \in Nat
    BY <1>3, <1>10
  <2>3. phase' \in Phases
    BY <1>8 DEF Phases
  <2> QED
    BY <1>1, <1>2, <1>3, <1>5, <1>6, <1>9, <2>1, <2>2, <2>3 DEF TypeInv
<1>12. BuffersInv'
  BY <1>7, LenProperties DEF BuffersInv
<1>13. ChunkInv'
  BY <1>1, <1>2, <1>8, <1>9, SameChunk
<1>14. /\ job.srcLiteral <= m.pos /\ 0 <= base + job.srcLiteral
       /\ Ready(job.keep, End(m))
       /\ job.caller = "base" => /\ srcEncodeI + 8 < srcEnd
                                 /\ srcEncodeI - End(m) <= MaxLag + (IF job.keep.length > 0 THEN 1 ELSE 0)
       /\ job.caller = "finish" => /\ srcEncodeI + 8 = srcEnd /\ job.keep.length = 0
                                   /\ srcEncodeI - End(m) <= MaxLag + 2
  BY <1>1, <1>2 DEF JobInv
<1>15. PositionInv'
  <2>1. 0 <= base + End(m)
    BY <1>3, <1>14
  <2>2. 8 <= srcEnd
    BY <1>2 DEF PositionInv
  <2>3. srcEncodeI' + 8 <= srcEnd /\ (phase' = "finish" => srcEncodeI' + 8 = srcEnd)
    BY <1>1, <1>3, <1>8, <1>10, <1>14
  <2> QED
    BY <1>1, <1>3, <1>5, <1>8, <1>9, <2>1, <2>2, <2>3 DEF PositionInv
<1>16. LagInv'
  <2>1. Ready(pending, srcLiteral)'
    BY <1>1, <1>5, <1>9, <1>14, SameReady
  <2>2. phase' = "base" => srcEncodeI' - End(m) <= MaxLag + (IF job.keep.length > 0 THEN 2 ELSE 1)
    BY <1>1, <1>3, <1>6, <1>10, <1>14, ConstantFacts
  <2>3. phase' = "finish" => srcEncodeI' - End(m) <= MaxLag + 2
    BY <1>1, <1>3, <1>6, <1>10, <1>14
  <2> HIDE DEF m
  <2> QED
    BY <1>1, <1>5, <1>8, <2>1, <2>2, <2>3 DEF LagInv
<1>17. JobInv' /\ RetryInv'
  BY <1>8 DEF JobInv, RetryInv
<1>18. HistoryInv'
  <2>1. CASE job.caller = "base" /\ Advance
    BY <1>1, <1>2, <2>1, AdvanceHistory
  <2>2. CASE UNCHANGED <<base, srcEnd, srcEncodeI, history>>
    BY <1>1, <1>2, <2>2, SameHistory
  <2> QED
    BY <1>1, <2>1, <2>2
<1>19. RoomInv'
  BY <1>1, <1>2, <1>8 DEF RoomInv
<1> QED
  BY <1>11, <1>12, <1>13, <1>15, <1>16, <1>17, <1>18, <1>19 DEF EncodeInv

(* What was pushed of the match is taken back.                             *)
LEMMA PushTakenBack ==
  ASSUME EncodeInv, PushFails, UNCHANGED <<left, chunk, payload>>
  PROVE  EncodeInv'
<1> DEFINE m == job.match
<1>1. /\ phase = "push" /\ phase' = IF job.retried THEN "failed" ELSE "block"
      /\ triples' = SubSeq(triples, 1, job.triples)
      /\ literals' = SubSeq(literals, 1, job.literals)
      /\ srcLiteral' = job.srcLiteral
      /\ UNCHANGED <<text, dstSize, base, srcEnd, srcEncodeI, pending, history, dst, job>>
  BY DEF PushFails, frontVars
<1>2. /\ TypeInv /\ BuffersInv /\ ChunkInv /\ PositionInv /\ JobInv /\ HistoryInv /\ RoomInv /\ Active
  BY <1>1 DEF EncodeInv, Active
<1>3. /\ job.triples \in Nat /\ job.literals \in Nat
      /\ job.triples <= Len(triples) /\ job.literals <= Len(literals)
      /\ triples \in Seq(Triple) /\ literals \in Seq(0 .. 255)
      /\ Len(triples) \in Nat /\ Len(literals) \in Nat
      /\ Len(triples) + 8 <= MatchesPerBlock /\ Len(literals) + 16 <= LiteralsPerBlock
  <2>1. triples \in Seq(Triple) /\ literals \in Seq(0 .. 255)
        /\ Len(triples) + 8 <= MatchesPerBlock /\ Len(literals) + 16 <= LiteralsPerBlock
    BY <1>2 DEF BuffersInv
  <2> QED
    BY <1>1, <2>1, JobHere, LenProperties
<1>4. /\ triples' \in Seq(Triple) /\ Len(triples') = job.triples
      /\ literals' \in Seq(0 .. 255) /\ Len(literals') = job.literals
  <2>1. job.triples \in 0 .. Len(triples) /\ job.literals \in 0 .. Len(literals)
    BY <1>3
  <2> QED
    BY ZenonT(60), <1>1, <1>3, <2>1, Prefix
<1>5. TypeInv'
  <2>1. job.srcLiteral \in Int /\ phase' \in Phases
    BY <1>1, JobHere DEF Phases
  <2> QED
    BY <1>1, <1>2, <2>1 DEF TypeInv
<1>6. BuffersInv'
  <2>1. Len(triples') + 8 <= MatchesPerBlock /\ Len(literals') + 16 <= LiteralsPerBlock
    BY SMTT(30), <1>3, <1>4, ConstantFacts
  <2> QED
    BY <1>4, <2>1, LenProperties DEF BuffersInv
<1>7. ChunkInv'
  BY <1>1, <1>2, SameChunk
<1>8. /\ job.srcLiteral <= m.pos /\ m.pos <= job.srcLiteral + MaxLag + 10
      /\ 0 <= base + job.srcLiteral
      /\ m.length > 0 => Ready(m, job.srcLiteral)
      /\ Ready(job.keep, End(m))
      /\ End(m) <= srcEnd
  BY <1>1, <1>2 DEF JobInv
<1>9. PositionInv'
  <2>1. job.srcLiteral <= srcEnd
    <3>1. /\ m.pos \in Int /\ m.length \in Nat /\ End(m) = m.pos + m.length
          /\ job.srcLiteral \in Int /\ srcEnd \in Nat
      BY <1>1, JobHere
    <3> QED
      BY <1>8, <3>1
  <2>2. phase' \notin {"based", "finish"} /\ 8 <= srcEnd /\ srcEncodeI + 8 <= srcEnd
    BY <1>1, <1>2 DEF PositionInv
  <2> QED
    BY <1>1, <1>8, <2>1, <2>2 DEF PositionInv
<1>10. LagInv' /\ RetryInv'
  BY <1>1 DEF LagInv, RetryInv
<1>11. JobInv'
  <2>1. Ready(job.keep, End(job.match))'
    BY <1>1, <1>8, SameReady DEF End
  <2>2. (job.match.length > 0 => Ready(job.match, job.srcLiteral))'
    BY <1>1, <1>8, SameReady
  <2>3. job.triples <= Len(triples') /\ job.literals <= Len(literals')
    BY <1>3, <1>4
  <2> QED
    BY <1>1, <1>2, <2>1, <2>2, <2>3 DEF JobInv, End
<1>12. HistoryInv'
  BY <1>1, <1>2, SameHistory
<1>13. RoomInv'
  BY <1>1, <1>2 DEF RoomInv
<1> QED
  BY <1>5, <1>6, <1>7, <1>9, <1>10, <1>11, <1>12, <1>13 DEF EncodeInv

----------------------------------------------------------------------------
(* The blocks, and the room they take.                                     *)

LEMMA SomeSeq ==
  ASSUME NEW S, NEW q \in Seq(S)
  PROVE  IsSeq(q)
<1>1. Len(q) \in Nat /\ q \in [1 .. Len(q) -> S]
  BY LenProperties
<1>2. q \in [1 .. Len(q) -> {q[i] : i \in 1 .. Len(q)}]
  BY <1>1
<1> QED
  BY SMTT(30), <1>1, <1>2 DEF IsSeq

LEMMA ConcatSeq ==
  ASSUME NEW p, NEW q, IsSeq(p), IsSeq(q)
  PROVE  /\ IsSeq(p \o q) /\ Len(p \o q) = Len(p) + Len(q)
         /\ Len(p) \in Nat /\ Len(q) \in Nat
<1> DEFINE A == {p[i] : i \in 1 .. Len(p)}
           B == {q[i] : i \in 1 .. Len(q)}
<1>1. p \in Seq(A) /\ q \in Seq(B)
  BY DEF IsSeq
<1> HIDE DEF A, B
<1>2. Len(p) \in Nat /\ Len(q) \in Nat /\ p \in [1 .. Len(p) -> A] /\ q \in [1 .. Len(q) -> B]
  BY <1>1, LenProperties
<1>3. p \in [1 .. Len(p) -> A \cup B] /\ q \in [1 .. Len(q) -> A \cup B]
  BY <1>2
<1>4. p \in Seq(A \cup B) /\ q \in Seq(A \cup B)
  BY <1>2, <1>3
<1>5. p \o q \in Seq(A \cup B) /\ Len(p \o q) = Len(p) + Len(q)
  BY <1>4, ConcatProperties
<1> QED
  BY <1>2, <1>5, SomeSeq

LEMMA FunctionSeq ==
  ASSUME NEW n \in Nat, NEW S, NEW f \in [1 .. n -> S]
  PROVE  IsSeq(f) /\ Len(f) = n /\ f \in Seq(S)
<1>1. f \in Seq(S)
  OBVIOUS
<1>2. Len(f) = n
  BY <1>1, LenProperties
<1> QED
  BY <1>1, <1>2, SomeSeq

LEMMA BlockBytesLen ==
  ASSUME NEW b, NEW size \in Nat, size >= 1
  PROVE  IsSeq(BlockBytes(b, size)) /\ Len(BlockBytes(b, size)) = size
<1> DEFINE rest == [i \in 1 .. size - 1 |-> Filler]
<1>1. size - 1 \in Nat /\ rest \in [1 .. size - 1 -> {Filler}]
  OBVIOUS
<1> HIDE DEF rest
<1>2. IsSeq(rest) /\ Len(rest) = size - 1
  BY <1>1, FunctionSeq
<1>3. IsSeq(<<b>>) /\ Len(<<b>>) = 1
  <2>1. <<b>> \in Seq({b}) /\ Len(<<b>>) = 1
    OBVIOUS
  <2> QED
    BY <2>1, SomeSeq
<1>4. BlockBytes(b, size) = <<b>> \o rest
  BY DEF BlockBytes, rest
<1> QED
  BY <1>1, <1>2, <1>3, <1>4, ConcatSeq

(* The zeros after the literals.                                           *)
LEMMA PaddedLen ==
  ASSUME literals \in Seq(0 .. 255)
  PROVE  /\ Padded \in Seq(0 .. 255)
         /\ Len(literals) \in Nat /\ Len(Padded) \in Nat
         /\ Len(literals) <= Len(Padded) /\ Len(Padded) <= Len(literals) + 3
<1> DEFINE n == (4 - (Len(literals) % 4)) % 4
           zeros == [i \in 1 .. n |-> 0]
<1>1. Len(literals) \in Nat
  BY LenProperties
<1>2. n \in 0 .. 3
  BY <1>1
<1> HIDE DEF n
<1>3. zeros \in Seq(0 .. 255) /\ Len(zeros) = n
  <2>1. zeros \in [1 .. n -> 0 .. 255] /\ n \in Nat
    BY <1>2
  <2> HIDE DEF zeros
  <2> QED
    BY <2>1, FunctionSeq
<1>4. Padded = literals \o zeros
  BY DEF Padded, n, zeros
<1> HIDE DEF zeros
<1>5. Padded \in Seq(0 .. 255) /\ Len(Padded) = Len(literals) + n
  BY ZenonT(60), <1>3, <1>4, ConcatProperties
<1> QED
  BY <1>1, <1>2, <1>5

LEMMA Product ==
  ASSUME NEW a \in Nat, NEW b \in Nat
  PROVE  a * b \in Nat /\ a * (b - 1) = a * b - a
OBVIOUS

(* The tests of the room leave as much as the block takes.                 *)
LEMMA BlockHasRoom ==
  ASSUME TypeInv, BuffersInv, RoomInv, BlockFits
  PROVE  /\ BlockSize(Block) \in Nat /\ BlockSize(Block) >= 1
         /\ Len(dst) + BlockSize(Block) <= dstSize
<1> DEFINE coded == EncodeDistances(triples)
           head == FixedHeader + TablesSize
           lits == LiteralCost * (Len(Padded) \div 4)
           n == Len(triples)
           room == dstSize - Len(dst)
<1>1. Len(triples) \in Nat /\ Len(coded) = Len(triples)
  <2>1. Len(triples) \in Nat /\ DOMAIN triples = 1 .. Len(triples)
    BY DEF BuffersInv
  <2>2. DOMAIN coded = 1 .. Len(triples)
    BY <2>1 DEF EncodeDistances
  <2>3. coded \in [1 .. Len(triples) -> {coded[i] : i \in 1 .. Len(triples)}]
    BY <2>1 DEF EncodeDistances
  <2> HIDE DEF coded
  <2> QED
    BY <2>1, <2>3, FunctionSeq
<1>2. /\ Block.headerSize = head /\ Block.literalBytes = lits
      /\ Block.lmdBytes = 8 + MatchCost * n
  BY <1>1 DEF Block, CompressedBlock
<1>3. head \in Nat /\ head >= 1
  BY FormatAssumption DEF FixedHeader
<1>4. lits \in Nat
  <2>1. Len(Padded) \in Nat
    BY PaddedLen DEF BuffersInv
  <2>2. Len(Padded) \div 4 \in Nat /\ LiteralCost \in Nat
    BY <2>1, FormatAssumption
  <2> QED
    BY <2>2, Product
<1>5. room \in Int /\ Len(dst) \in Nat
  <2>1. Len(dst) \in Nat
    BY LenProperties DEF RoomInv, IsSeq
  <2> QED
    BY <2>1 DEF TypeInv
<1>6. /\ head + lits + 8 <= room
      /\ triples # <<>> => head + lits + 8 + MatchCost * (n - 1) + 16 <= room
  BY <1>2 DEF BlockFits
<1>7. MatchCost \in Nat /\ MatchCost <= 8 /\ n \in Nat
  BY <1>1, FormatAssumption
<1>8. MatchCost * n \in Nat /\ MatchCost * (n - 1) = MatchCost * n - MatchCost
  BY <1>7, Product
<1>9. BlockSize(Block) = head + lits + (8 + MatchCost * n)
  BY <1>2 DEF BlockSize
<1> DEFINE cost == MatchCost * n
<1>10. triples = <<>> => cost = 0
  BY <1>7
<1>11. /\ cost \in Nat
       /\ triples # <<>> => head + lits + 8 + (cost - MatchCost) + 16 <= room
       /\ BlockSize(Block) = head + lits + (8 + cost)
  BY <1>6, <1>8, <1>9
<1> HIDE DEF head, lits, cost, n
<1>12. head + lits + (8 + cost) <= room
  BY <1>3, <1>4, <1>5, <1>6, <1>7, <1>10, <1>11
<1>13. dstSize \in Nat
  BY DEF TypeInv
<1> QED
  BY <1>3, <1>4, <1>5, <1>11, <1>12, <1>13

LEMMA WriteFits ==
  ASSUME TypeInv, BuffersInv, RoomInv, WriteMatches, UNCHANGED dstSize
  PROVE  IsSeq(dst') /\ Len(dst') <= dstSize'
<1>1. IsSeq(dst) /\ Len(dst) <= dstSize
  BY DEF RoomInv
<1>2. CASE NothingToWrite
  <2>1. dst' = dst \o <<>>
    BY <1>2 DEF WriteMatches
  <2>2. IsSeq(<<>>) /\ Len(<<>>) = 0
    <3>1. <<>> \in Seq(Nat) /\ Len(<<>>) = 0
      OBVIOUS
    <3> QED
      BY <3>1, SomeSeq
  <2>3. IsSeq(dst') /\ Len(dst') = Len(dst) + 0 /\ Len(dst) \in Nat
    BY <1>1, <2>1, <2>2, ConcatSeq
  <2> QED
    BY <1>1, <2>3
<1>3. CASE ~NothingToWrite
  <2>1. dst' = dst \o BlockBytes(Block, BlockSize(Block)) /\ BlockFits
    BY <1>3 DEF WriteMatches
  <2>2. /\ BlockSize(Block) \in Nat /\ BlockSize(Block) >= 1
        /\ Len(dst) + BlockSize(Block) <= dstSize
    BY <2>1, BlockHasRoom
  <2>3. IsSeq(BlockBytes(Block, BlockSize(Block)))
        /\ Len(BlockBytes(Block, BlockSize(Block))) = BlockSize(Block)
    BY <2>2, BlockBytesLen
  <2> QED
    BY <1>1, <2>1, <2>2, <2>3, ConcatSeq
<1> QED
  BY <1>2, <1>3

(* A block that does not fit leaves the buffers as they were, as far as    *)
(* their sizes go.                                                         *)
LEMMA DoesNotFit ==
  ASSUME TypeInv, BuffersInv, MatchesDoNotFit
  PROVE  /\ phase' = "failed" /\ dst' = dst
         /\ BuffersInv'
<1>1. phase' = "failed" /\ dst' = dst /\ ~Active'
  BY DEF MatchesDoNotFit, Active
<1>2. /\ triples' = RestoreDistances(EncodeDistances(triples))
      /\ literals' = SubSeq(Padded, 1, Len(literals))
  BY DEF MatchesDoNotFit
<1>3. Len(triples) \in Nat /\ DOMAIN triples = 1 .. Len(triples) /\ Len(triples) + 8 <= MatchesPerBlock
  BY DEF BuffersInv
<1>4. DOMAIN triples' = 1 .. Len(triples)
  BY <1>2, <1>3 DEF RestoreDistances, EncodeDistances
<1>5. Len(triples') = Len(triples)
  <2>1. triples' \in [1 .. Len(triples) -> {triples'[i] : i \in 1 .. Len(triples)}]
    BY <1>2, <1>3 DEF RestoreDistances, EncodeDistances
  <2> QED
    BY <1>3, <2>1, FunctionSeq
<1>6. literals \in Seq(0 .. 255) /\ Len(literals) + 16 <= LiteralsPerBlock
  BY DEF BuffersInv
<1>7. literals' \in Seq(0 .. 255) /\ Len(literals') = Len(literals)
  <2>1. Padded \in Seq(0 .. 255) /\ Len(literals) \in 0 .. Len(Padded)
    BY <1>6, PaddedLen
  <2> QED
    BY <1>2, <2>1, Prefix
<1> QED
  BY <1>1, <1>3, <1>4, <1>5, <1>6, <1>7 DEF BuffersInv

(* With the encoder at an end only the sizes matter.                       *)
LEMMA AtAnEnd ==
  ASSUME EncodeInv, phase' \in {"mark", "failed", "encoded", "refused"},
         UNCHANGED <<text, dstSize, left, chunk, payload>>,
         TypeInv', BuffersInv', IsSeq(dst'), Len(dst') <= dstSize
  PROVE  EncodeInv'
<1>1. ~Active'
  BY DEF Active
<1>2. ChunkInv'
  BY <1>1 DEF EncodeInv, ChunkInv
<1>3. PositionInv' /\ HistoryInv'
  BY <1>1 DEF PositionInv, HistoryInv
<1>4. LagInv' /\ JobInv' /\ RetryInv'
  BY DEF LagInv, JobInv, RetryInv
<1>5. RoomInv'
  BY DEF EncodeInv, RoomInv
<1> QED
  BY <1>2, <1>3, <1>4, <1>5 DEF EncodeInv

(* A full block is written, and the match tried again.                     *)
LEMMA BlockWritten ==
  ASSUME EncodeInv, WriteBlock, UNCHANGED <<left, chunk, payload>>
  PROVE  EncodeInv'
<1> DEFINE m == job.match
           again == [job EXCEPT !.L = m.pos - srcLiteral, !.M = m.length,
                                !.retried = TRUE, !.triples = 0, !.literals = 0]
<1>1. /\ phase = "block"
      /\ UNCHANGED <<text, dstSize, base, srcEnd, srcEncodeI, pending, history, srcLiteral>>
      /\ \/ WriteMatches /\ phase' = "push" /\ job' = again
         \/ MatchesDoNotFit /\ UNCHANGED job
  BY DEF WriteBlock, frontVars
<1>2. /\ TypeInv /\ BuffersInv /\ ChunkInv /\ PositionInv /\ JobInv /\ HistoryInv /\ RoomInv /\ Active
  BY <1>1 DEF EncodeInv, Active
<1>3. CASE MatchesDoNotFit /\ UNCHANGED job
  <2>1. phase' = "failed" /\ dst' = dst /\ BuffersInv'
    BY <1>2, <1>3, DoesNotFit
  <2>2. TypeInv'
    BY <1>1, <1>2, <1>3, <2>1 DEF TypeInv, Phases
  <2>3. IsSeq(dst') /\ Len(dst') <= dstSize
    BY <1>2, <2>1 DEF RoomInv
  <2> QED
    BY <1>1, <2>1, <2>2, <2>3, AtAnEnd
<1>4. CASE WriteMatches /\ phase' = "push" /\ job' = again
  <2>1. IsSeq(dst') /\ Len(dst') <= dstSize'
    BY <1>1, <1>2, <1>4, WriteFits
  <2>2. triples' = <<>> /\ literals' = <<>> /\ Active'
    BY <1>4 DEF WriteMatches, Active
  <2>3. /\ job \in JobType /\ m.pos \in Int /\ m.length \in Nat /\ srcLiteral \in Int
        /\ job.srcLiteral \in Int /\ End(m) = m.pos + m.length
    BY <1>1, <1>2, JobHere DEF TypeInv
  <2>4. /\ job.srcLiteral <= m.pos /\ srcLiteral = job.srcLiteral
        /\ m.length > 0 => Ready(m, job.srcLiteral)
        /\ Ready(job.keep, End(m))
    BY <1>1, <1>2 DEF JobInv
  <2>5. m.pos - srcLiteral \in Nat /\ srcLiteral + (m.pos - srcLiteral) = m.pos
    BY <2>3, <2>4
  <2>6. /\ job'.match = m /\ job'.keep = job.keep /\ job'.L = m.pos - srcLiteral
        /\ job'.M = m.length /\ job'.triples = 0 /\ job'.literals = 0 /\ job'.retried = TRUE
        /\ job'.srcLiteral = job.srcLiteral /\ job'.caller = job.caller /\ job' \in JobType
    BY <1>4, <2>3, <2>5 DEF JobType
  <2>7. TypeInv'
    BY <1>1, <1>2, <1>4, <2>6 DEF TypeInv, Phases
  <2>8. BuffersInv'
    <3>1. <<>> \in Seq(Triple) /\ <<>> \in Seq(0 .. 255) /\ Len(<<>>) = 0
          /\ DOMAIN <<>> = 1 .. 0
      OBVIOUS
    <3>2. 0 + 8 <= MatchesPerBlock /\ 0 + 16 <= LiteralsPerBlock
      BY ConstantFacts
    <3> QED
      BY <2>2, <3>1, <3>2 DEF BuffersInv
  <2>9. ChunkInv'
    BY <1>1, <1>2, <2>2, SameChunk
  <2>10. PositionInv'
    BY <1>1, <1>2, <1>4 DEF PositionInv
  <2>11. LagInv'
    BY <1>4 DEF LagInv
  <2>12. JobInv'
    <3>1. Ready(job.keep, End(job.match))'
      BY <1>1, <2>4, <2>6, SameReady DEF End
    <3>2. (job.match.length > 0 => Ready(job.match, job.srcLiteral))'
      BY <1>1, <2>4, <2>6, SameReady
    <3>3. 0 <= Len(triples') /\ 0 <= Len(literals')
      BY <2>2
    <3>4. job.srcLiteral <= srcLiteral
      BY <2>3, <2>4
    <3> HIDE DEF m, again
    <3>5. job.match = m
      BY DEF m
    <3> QED
      BY <1>1, <1>2, <1>4, <2>4, <2>5, <2>6, <3>1, <3>2, <3>3, <3>4, <3>5 DEF JobInv, End
  <2>13. RetryInv'
    <3>1. Len(literals') = 0 /\ Len(triples') = 0
      BY <2>2
    <3>2. 0 * MaxL = 0 /\ 0 * MaxM = 0
      BY ConstantFacts
    <3>3. Len(literals') + job'.L <= job'.match.pos - job'.srcLiteral
      BY <2>3, <2>4, <2>6, <3>1
    <3>4. /\ Len(triples') = 0 + 0
          /\ 0 * MaxL + job'.L <= job'.match.pos - job'.srcLiteral
          /\ 0 * MaxM + job'.M = job'.match.length
      BY <2>3, <2>4, <2>6, <3>1, <3>2
    <3> HIDE DEF m, again
    <3> QED
      BY <3>3, <3>4 DEF RetryInv
  <2>14. HistoryInv'
    BY <1>1, <1>2, SameHistory
  <2>15. RoomInv'
    BY <1>2, <1>4, <2>1 DEF RoomInv
  <2> QED
    BY <2>7, <2>8, <2>9, <2>10, <2>11, <2>12, <2>13, <2>14, <2>15 DEF EncodeInv
<1> QED
  BY <1>1, <1>3, <1>4

LEMMA MatchesFinished ==
  ASSUME EncodeInv, FinishMatches, UNCHANGED <<left, chunk, payload>>
  PROVE  EncodeInv'
<1>1. /\ phase = "finish"
      /\ UNCHANGED <<text, dstSize, base, srcEnd, srcEncodeI, pending, history, srcLiteral, job>>
      /\ \/ WriteMatches /\ phase' = "mark"
         \/ MatchesDoNotFit
  BY DEF FinishMatches, frontVars
<1>2. TypeInv /\ BuffersInv /\ RoomInv
  BY DEF EncodeInv
<1>3. CASE MatchesDoNotFit
  <2>1. phase' = "failed" /\ dst' = dst /\ BuffersInv'
    BY <1>2, <1>3, DoesNotFit
  <2>2. TypeInv'
    BY <1>1, <1>2, <2>1 DEF TypeInv, Phases
  <2>3. IsSeq(dst') /\ Len(dst') <= dstSize
    BY <1>2, <2>1 DEF RoomInv
  <2> QED
    BY <1>1, <2>1, <2>2, <2>3, AtAnEnd
<1>4. CASE WriteMatches /\ phase' = "mark"
  <2>1. IsSeq(dst') /\ Len(dst') <= dstSize'
    BY <1>1, <1>2, <1>4, WriteFits
  <2>2. triples' = <<>> /\ literals' = <<>> /\ ~Active'
    BY <1>4 DEF WriteMatches, Active
  <2>3. TypeInv'
    BY <1>1, <1>2, <1>4 DEF TypeInv, Phases
  <2>4. BuffersInv'
    <3>1. <<>> \in Seq(0 .. 255) /\ Len(<<>>) = 0 /\ DOMAIN <<>> = 1 .. 0
      OBVIOUS
    <3>2. 0 + 8 <= MatchesPerBlock /\ 0 + 16 <= LiteralsPerBlock
      BY ConstantFacts
    <3> QED
      BY <2>2, <3>1, <3>2 DEF BuffersInv
  <2> QED
    BY <1>1, <1>4, <2>1, <2>3, <2>4, AtAnEnd
<1> QED
  BY <1>1, <1>3, <1>4

LEMMA StreamEnded ==
  ASSUME EncodeInv, EndStream, UNCHANGED <<left, chunk, payload>>
  PROVE  EncodeInv'
<1>1. /\ phase = "mark"
      /\ UNCHANGED <<text, dstSize, base, srcEnd, srcEncodeI, pending, history, srcLiteral,
                     triples, literals, job>>
      /\ \/ /\ Len(dst) + 4 <= dstSize /\ phase' = "encoded"
            /\ dst' = dst \o BlockBytes(EndOfStreamBlock, 4)
         \/ phase' = "failed" /\ dst' = dst
  BY DEF EndStream, frontVars
<1>2. TypeInv /\ BuffersInv /\ RoomInv
  BY DEF EncodeInv
<1>3. phase' \in {"encoded", "failed"} /\ ~Active'
  BY <1>1 DEF Active
<1>4. TypeInv'
  BY <1>1, <1>2, <1>3 DEF TypeInv, Phases
<1>5. BuffersInv'
  BY <1>1, <1>2, <1>3 DEF BuffersInv
<1>6. IsSeq(dst') /\ Len(dst') <= dstSize
  <2>1. IsSeq(dst) /\ Len(dst) <= dstSize
    BY <1>2 DEF RoomInv
  <2>2. IsSeq(BlockBytes(EndOfStreamBlock, 4)) /\ Len(BlockBytes(EndOfStreamBlock, 4)) = 4
    <3>1. 4 \in Nat /\ 4 >= 1
      OBVIOUS
    <3> QED
      BY <3>1, BlockBytesLen
  <2> QED
    BY <1>1, <2>1, <2>2, ConcatSeq
<1> QED
  BY <1>1, <1>3, <1>4, <1>5, <1>6, AtAnEnd

LEMMA BaseEnded ==
  ASSUME EncodeInv, EndBase, UNCHANGED <<left, chunk, payload>>
  PROVE  EncodeInv'
<1>1. /\ phase = "base" /\ srcEncodeI >= srcEnd - 8 /\ phase' = "based"
      /\ UNCHANGED <<text, dstSize, base, srcEnd, srcEncodeI, pending, history, srcLiteral,
                     triples, literals, dst, job>>
  BY DEF EndBase, frontVars, Pos
<1>2. /\ TypeInv /\ BuffersInv /\ ChunkInv /\ PositionInv /\ LagInv /\ HistoryInv /\ RoomInv
      /\ Active /\ Active'
  BY <1>1 DEF EncodeInv, Active
<1>3. srcEncodeI \in Nat /\ srcEnd \in Nat /\ srcLiteral \in Int
  BY <1>2 DEF TypeInv
<1>4. TypeInv' /\ BuffersInv'
  BY <1>1, <1>2 DEF TypeInv, BuffersInv, Phases
<1>5. ChunkInv'
  BY <1>1, <1>2, SameChunk
<1>6. PositionInv'
  BY <1>1, <1>2, <1>3 DEF PositionInv
<1>7. LagInv'
  <2>1. Ready(pending, srcLiteral)'
    BY <1>1, <1>2, SameReady DEF LagInv
  <2>2. srcEncodeI - srcLiteral <= MaxLag + (IF pending.length > 0 THEN 2 ELSE 1)
    BY <1>1, <1>2 DEF LagInv
  <2> QED
    BY <1>1, <2>1, <2>2 DEF LagInv
<1>8. JobInv' /\ RetryInv'
  BY <1>1 DEF JobInv, RetryInv
<1>9. HistoryInv'
  BY <1>1, <1>2, SameHistory
<1>10. RoomInv'
  BY <1>1, <1>2 DEF RoomInv
<1> QED
  BY <1>4, <1>5, <1>6, <1>7, <1>8, <1>9, <1>10 DEF EncodeInv
----------------------------------------------------------------------------
(* The choice of the encoder, and the chunks.                              *)

LEMMA ChosenRaw ==
  ASSUME EncodeInv, ChooseRaw
  PROVE  EncodeInv'
<1>1. /\ phase = "start" /\ phase' = "failed"
      /\ UNCHANGED <<text, dstSize, base, srcEnd, srcEncodeI, pending, history, srcLiteral,
                     triples, literals, dst, job, left, chunk, payload>>
  BY DEF ChooseRaw, Goto, frontVars, lzvnEncVars
<1>2. TypeInv /\ BuffersInv /\ RoomInv /\ ~Active'
  BY <1>1 DEF EncodeInv, Active
<1>3. TypeInv'
  BY <1>1, <1>2 DEF TypeInv, Phases
<1>4. BuffersInv'
  BY <1>1, <1>2 DEF BuffersInv
<1>5. IsSeq(dst') /\ Len(dst') <= dstSize
  BY <1>1, <1>2 DEF RoomInv
<1> QED
  BY <1>1, <1>3, <1>4, <1>5, AtAnEnd

LEMMA ChosenLZVN ==
  ASSUME EncodeInv, ChooseLZVN
  PROVE  EncodeInv'
<1>1. /\ phase = "start" /\ phase' = "lzvn" /\ dstSize > ExtraSize
      /\ UNCHANGED <<text, dstSize, base, srcEnd, srcEncodeI, pending, history, srcLiteral,
                     triples, literals, dst, job, left, chunk, payload>>
  BY DEF ChooseLZVN, Goto, frontVars, lzvnEncVars
<1>2. TypeInv /\ BuffersInv /\ ChunkInv /\ RoomInv /\ ~Active'
  BY <1>1 DEF EncodeInv, Active
<1>3. TypeInv' /\ BuffersInv'
  <2>1. TypeInv'
    BY <1>1, <1>2 DEF TypeInv, Phases
  <2>2. BuffersInv'
    BY <1>1, <1>2 DEF BuffersInv
  <2> QED
    BY <2>1, <2>2
<1>4. ChunkInv' /\ PositionInv' /\ HistoryInv'
  BY <1>1, <1>2 DEF ChunkInv, PositionInv, HistoryInv
<1>5. LagInv' /\ JobInv' /\ RetryInv'
  BY <1>1 DEF LagInv, JobInv, RetryInv
<1>6. RoomInv'
  <2>1. payload = <<>> /\ Len(payload) = 0 /\ dstSize \in Nat
    BY <1>1, <1>2 DEF ChunkInv, TypeInv
  <2>2. Len(payload) + ExtraSize <= dstSize
    BY <1>1, <2>1 DEF ExtraSize
  <2> QED
    BY <1>1, <1>2, <2>2 DEF RoomInv
<1> QED
  BY <1>3, <1>4, <1>5, <1>6 DEF EncodeInv

LEMMA ChosenLZFSE ==
  ASSUME EncodeInv, ChooseLZFSE
  PROVE  EncodeInv'
<1>1. /\ phase = "start" /\ phase' = "base" /\ Len(text) >= LZVNThreshold
      /\ \/ Len(text) >= ChunkThreshold /\ chunk' = "first" /\ srcEnd' = ChunkSize
         \/ chunk' = "last" /\ srcEnd' = Len(text)
      /\ UNCHANGED <<text, dstSize, base, srcEncodeI, pending, history, srcLiteral,
                     triples, literals, dst, job, left, payload>>
  BY DEF ChooseLZFSE, lzvnEncVars
<1>2. TypeInv /\ BuffersInv /\ ChunkInv /\ RoomInv /\ Active'
  BY <1>1 DEF EncodeInv, Active
<1>3. Len(text) \in Nat
  <2>1. text \in Seq(0 .. 255)
    BY <1>2 DEF TypeInv
  <2> QED
    BY <2>1, LenProperties
<1>4. /\ LZVNThreshold \in Nat /\ ChunkThreshold \in Nat /\ ChunkSize \in Nat
      /\ 8 <= LZVNThreshold /\ 18 < ChunkSize /\ ChunkSize <= ChunkThreshold
  BY DispatchAssumption, ConstantFacts
<1>5. /\ base = 0 /\ srcEncodeI = 0 /\ srcLiteral = 0 /\ left = Len(text)
      /\ pending = NoMatch /\ pending.length = 0 /\ DOMAIN history = {} /\ triples = <<>>
  BY <1>1, <1>2 DEF ChunkInv, NoMatch
<1>6. srcEnd' \in Nat /\ 8 <= srcEnd'
  BY <1>1, <1>3, <1>4
<1>7. TypeInv'
  BY <1>1, <1>2, <1>6 DEF TypeInv, Phases
<1>8. BuffersInv'
  <2>1. triples' \in Seq(Triple)
    BY <1>1, <1>5
  <2> QED
    BY <1>1, <1>2, <2>1 DEF BuffersInv
<1>9. ChunkInv'
  <2>1. CASE chunk' = "first"
    BY <1>1, <1>2, <1>3, <1>4, <1>5, <2>1 DEF ChunkInv
  <2>2. CASE chunk' = "last"
    BY <1>1, <1>2, <1>3, <1>4, <1>5, <2>2 DEF ChunkInv
  <2> QED
    BY <1>1, <2>1, <2>2
<1>10. PositionInv'
  BY <1>1, <1>5, <1>6 DEF PositionInv
<1>11. LagInv'
  <2>1. Ready(pending, srcLiteral)'
    BY <1>1, <1>5 DEF Ready
  <2> QED
    BY <1>1, <1>5, <2>1, ConstantFacts DEF LagInv
<1>12. JobInv' /\ RetryInv' /\ HistoryInv'
  BY <1>1, <1>5 DEF JobInv, RetryInv, HistoryInv
<1>13. RoomInv'
  BY <1>1, <1>2 DEF RoomInv
<1> QED
  BY <1>7, <1>8, <1>9, <1>10, <1>11, <1>12, <1>13 DEF EncodeInv

(* More of the text behind what was searched.                              *)
LEMMA FirstDone ==
  ASSUME EncodeInv, FirstChunkDone
  PROVE  EncodeInv'
<1>1. /\ phase = "based" /\ phase' = "base" /\ chunk = "first" /\ left' = left - ChunkSize
      /\ \/ left - ChunkSize >= ChunkSize /\ chunk' = "middle" /\ srcEnd' = 2 * ChunkSize
         \/ chunk' = "last" /\ srcEnd' = ChunkSize + (left - ChunkSize)
      /\ UNCHANGED <<text, dstSize, base, srcEncodeI, pending, history, srcLiteral,
                     triples, literals, dst, job, payload>>
  BY DEF FirstChunkDone, NextChunk, Goto, lzvnEncVars
<1>2. /\ TypeInv /\ BuffersInv /\ ChunkInv /\ PositionInv /\ LagInv /\ HistoryInv /\ RoomInv
      /\ Active /\ Active'
  BY <1>1 DEF EncodeInv, Active
<1>3. /\ srcEncodeI \in Nat /\ srcEnd \in Nat /\ srcLiteral \in Int /\ base \in Nat /\ left \in Nat
      /\ base = 0 /\ srcEnd = ChunkSize /\ left = Len(text) /\ left >= ChunkSize /\ ChunkSize \in Nat
  BY <1>1, <1>2, DispatchAssumption DEF TypeInv, ChunkInv
<1>4. srcEnd' \in Nat /\ srcEnd <= srcEnd' /\ left' \in Nat
  BY <1>1, <1>3
<1>5. TypeInv' /\ BuffersInv'
  <2>1. TypeInv'
    BY <1>1, <1>2, <1>4 DEF TypeInv, Phases
  <2>2. BuffersInv'
    BY <1>1, <1>2 DEF BuffersInv
  <2> QED
    BY <2>1, <2>2
<1>6. ChunkInv'
  <2>1. CASE chunk' = "middle"
    BY <1>1, <1>2, <1>3, <1>4, <2>1 DEF ChunkInv
  <2>2. CASE chunk' = "last"
    <3>1. srcEnd' = ChunkSize + (left - ChunkSize)
      BY <1>1, <2>2
    <3>2. base' + srcEnd' = Len(text')
      BY <1>1, <1>3, <3>1
    <3> QED
      BY <1>1, <1>4, <2>2, <3>2 DEF ChunkInv
  <2> QED
    BY <1>1, <2>1, <2>2
<1>7. PositionInv'
  BY <1>1, <1>2, <1>3, <1>4 DEF PositionInv
<1>8. LagInv'
  <2>1. Ready(pending, srcLiteral)'
    <3>1. Ready(pending, srcLiteral) /\ pending \in MatchType
      BY <1>1, <1>2 DEF LagInv, TypeInv
    <3>2. CASE pending.length > 0
      <4>1. RepeatsIn(pending)'
        BY <1>1, <1>3, <1>4, <3>1, <3>2 DEF Ready, RepeatsIn, Byte, MatchType
      <4> QED
        BY <1>1, <3>1, <3>2, <4>1 DEF Ready
    <3>3. CASE ~(pending.length > 0)
      BY <1>1, <3>3 DEF Ready
    <3> QED
      BY <3>2, <3>3
  <2> QED
    BY <1>1, <1>2, <2>1 DEF LagInv
<1>9. JobInv' /\ RetryInv'
  BY <1>1 DEF JobInv, RetryInv
<1>10. HistoryInv'
  BY <1>1, <1>2, SameHistory
<1>11. RoomInv'
  BY <1>1, <1>2 DEF RoomInv
<1> QED
  BY <1>5, <1>6, <1>7, <1>8, <1>9, <1>10, <1>11 DEF EncodeInv

LEMMA LastDone ==
  ASSUME EncodeInv, LastChunkDone
  PROVE  EncodeInv'
<1>1. /\ phase = "based" /\ phase' = "finish" /\ chunk = "last"
      /\ UNCHANGED <<text, dstSize, base, srcEnd, srcEncodeI, pending, history, srcLiteral,
                     triples, literals, dst, job, left, chunk, payload>>
  BY DEF LastChunkDone, Goto, frontVars, lzvnEncVars
<1>2. /\ TypeInv /\ BuffersInv /\ ChunkInv /\ PositionInv /\ LagInv /\ HistoryInv /\ RoomInv
      /\ Active /\ Active'
  BY <1>1 DEF EncodeInv, Active
<1>3. srcEncodeI \in Nat /\ srcLiteral \in Int
  BY <1>2 DEF TypeInv
<1>4. TypeInv' /\ BuffersInv'
  <2>1. TypeInv'
    BY <1>1, <1>2 DEF TypeInv, Phases
  <2>2. BuffersInv'
    BY <1>1, <1>2 DEF BuffersInv
  <2> QED
    BY <2>1, <2>2
<1>5. ChunkInv'
  BY <1>1, <1>2, SameChunk
<1>6. PositionInv'
  BY <1>1, <1>2 DEF PositionInv
<1>7. LagInv'
  <2>1. Ready(pending, srcLiteral)'
    BY <1>1, <1>2, SameReady DEF LagInv
  <2>2. srcEncodeI - srcLiteral <= MaxLag + 2
    BY <1>1, <1>2, <1>3, ConstantFacts DEF LagInv
  <2> QED
    BY <1>1, <2>1, <2>2 DEF LagInv
<1>8. JobInv' /\ RetryInv'
  BY <1>1 DEF JobInv, RetryInv
<1>9. HistoryInv'
  BY <1>1, <1>2, SameHistory
<1>10. RoomInv'
  BY <1>1, <1>2 DEF RoomInv
<1> QED
  BY <1>4, <1>5, <1>6, <1>7, <1>8, <1>9, <1>10 DEF EncodeInv

(* lzfse_encode_translate: every offset is less by as much as the pointer  *)
(* is moved, so all of them name the byte they named before.               *)
LEMMA MovedMatch ==
  ASSUME NEW delta \in Nat, NEW m \in MatchType
  PROVE  /\ m.pos \in Int /\ m.ref \in Int /\ m.length \in Nat
         /\ LET moved == [m EXCEPT !.pos = @ - delta, !.ref = @ - delta]
            IN /\ moved.pos = m.pos - delta /\ moved.ref = m.ref - delta
               /\ moved.length = m.length /\ moved \in MatchType
<1> DEFINE a == m.pos - delta
           b == m.ref - delta
           moved == [m EXCEPT !.pos = a, !.ref = b]
<1>1. m.pos \in Int /\ m.ref \in Int /\ m.length \in Nat
  BY DEF MatchType
<1>2. a \in Int /\ b \in Int
  BY <1>1
<1>3. [m EXCEPT !.pos = @ - delta, !.ref = @ - delta] = moved
  OBVIOUS
<1> HIDE DEF a, b
<1>4. moved.pos = a /\ moved.ref = b /\ moved.length = m.length
  BY DEF MatchType
<1>5. moved \in MatchType
  BY <1>2 DEF MatchType
<1> QED
  BY <1>1, <1>3, <1>4, <1>5 DEF a, b

LEMMA MovedReady ==
  ASSUME NEW delta \in Nat, base' = base + delta, UNCHANGED text, base \in Nat,
         NEW m \in MatchType, NEW from \in Int, Ready(m, from),
         srcEnd \in Nat, srcEnd' \in Nat, srcEnd - delta <= srcEnd'
  PROVE  Ready([m EXCEPT !.pos = @ - delta, !.ref = @ - delta], from - delta)'
<1> DEFINE moved == [m EXCEPT !.pos = @ - delta, !.ref = @ - delta]
<1>1. /\ m.pos \in Int /\ m.ref \in Int /\ m.length \in Nat
      /\ moved.pos = m.pos - delta /\ moved.ref = m.ref - delta /\ moved.length = m.length
  BY MovedMatch
<1> HIDE DEF moved
<1>2. ASSUME NEW p \in Int PROVE Byte(p - delta)' = Byte(p)
  <2>1. base' + (p - delta) + 1 = base + p + 1
    OBVIOUS
  <2> QED
    BY <2>1 DEF Byte
<1>3. SUFFICES ASSUME m.length > 0
               PROVE  Ready(moved, from - delta)'
  BY <1>1 DEF Ready, moved
<1>4. /\ 4 <= m.length /\ RepeatsIn(m) /\ from <= m.pos /\ m.pos <= from + MaxLag + 2
      /\ m.pos + m.length <= from + MaxMatchLength + MaxLag + 2
  BY <1>3 DEF Ready
<1>5. /\ m.pos + m.length <= srcEnd /\ m.pos - m.ref \in 1 .. MaxD /\ 0 <= base + m.ref
      /\ \A i \in 0 .. m.length - 1 : Byte(m.ref + i) = Byte(m.pos + i)
  BY <1>4 DEF RepeatsIn
<1>6. RepeatsIn(moved)'
  <2>1. /\ moved.pos + moved.length <= srcEnd' /\ moved.pos - moved.ref = m.pos - m.ref
        /\ 0 <= base' + moved.ref
    <3> DEFINE end == srcEnd'
    <3>1. end \in Nat /\ srcEnd - delta <= end
      OBVIOUS
    <3> HIDE DEF end
    <3>2. (m.pos - delta) + m.length <= end
      BY <1>1, <1>5, <3>1
    <3>3. (m.pos - delta) - (m.ref - delta) = m.pos - m.ref /\ 0 <= (base + delta) + (m.ref - delta)
      BY <1>1, <1>5
    <3> QED
      BY <1>1, <3>2, <3>3 DEF end
  <2>2. ASSUME NEW i \in 0 .. moved.length - 1
        PROVE  Byte(moved.ref + i)' = Byte(moved.pos + i)'
    <3>1. i \in 0 .. m.length - 1 /\ m.ref + i \in Int /\ m.pos + i \in Int
      BY <1>1, <2>2
    <3>2. moved.ref + i = (m.ref + i) - delta /\ moved.pos + i = (m.pos + i) - delta
      BY <1>1, <3>1
    <3> QED
      BY <1>2, <1>5, <3>1, <3>2
  <2> QED
    BY <1>5, <2>1, <2>2 DEF RepeatsIn
<1>7. /\ from - delta <= moved.pos /\ moved.pos <= (from - delta) + MaxLag + 2
      /\ moved.pos + moved.length <= (from - delta) + MaxMatchLength + MaxLag + 2
  BY <1>1, <1>4, ConstantFacts
<1> QED
  BY <1>1, <1>4, <1>6, <1>7 DEF Ready

LEMMA MovedEntry ==
  ASSUME UNCHANGED text, NEW delta \in Nat, base \in Nat, srcEncodeI \in Nat,
         base' = base + delta, srcEncodeI' = srcEncodeI - delta, delta <= srcEncodeI,
         NEW old, EntryTrue(old)
  PROVE  EntryTrue([old EXCEPT !.pos = Greater(@ - delta, InvalidPos)])'
<1> DEFINE new == [old EXCEPT !.pos = Greater(@ - delta, InvalidPos)]
<1>1. ASSUME NEW p \in Int PROVE Value(p - delta)' = Value(p)
  <2>1. ASSUME NEW i \in 1 .. 4 PROVE Byte((p - delta) + i - 1)' = Byte(p + i - 1)
    <3>1. base' + ((p - delta) + i - 1) + 1 = base + (p + i - 1) + 1
      OBVIOUS
    <3> QED
      BY <3>1 DEF Byte
  <2> QED
    BY <2>1 DEF Value
<1>2. /\ old = [pos |-> old.pos, value |-> old.value] /\ old.pos \in Int
      /\ InvalidPos <= old.pos /\ old.pos < srcEncodeI
      /\ InvalidPos < old.pos => 0 <= base + old.pos /\ old.value = Value(old.pos)
  BY DEF EntryTrue
<1>3. new = [pos |-> Greater(old.pos - delta, InvalidPos), value |-> old.value]
  BY <1>2
<1>4. InvalidPos \in Int /\ InvalidPos < 0
  BY ConstantFacts
<1>5. new = [pos |-> new.pos, value |-> new.value] /\ new.value = old.value
  BY <1>3
<1>6. new.pos = Greater(old.pos - delta, InvalidPos)
  BY <1>3
<1> HIDE DEF new
<1> DEFINE next == srcEncodeI'
           moved == base'
<1>7. next = srcEncodeI - delta /\ moved = base + delta
  OBVIOUS
<1>8. CASE old.pos - delta >= InvalidPos
  <2>1. new.pos = old.pos - delta
    BY <1>6, <1>8 DEF Greater
  <2> HIDE DEF next, moved
  <2>2. new.pos \in Int /\ InvalidPos <= new.pos /\ new.pos < next
    BY <1>2, <1>7, <1>8, <2>1
  <2>3. ASSUME InvalidPos < new.pos
        PROVE  0 <= moved + new.pos /\ new.value = Value(new.pos)'
    <3>1. InvalidPos < old.pos /\ moved + new.pos = base + old.pos
      BY <1>2, <1>4, <1>7, <2>1, <2>3
    <3>2. Value(old.pos - delta)' = Value(old.pos)
      BY <1>1, <1>2
    <3>3. new.value = Value(new.pos)'
      BY <1>2, <1>5, <2>1, <3>1, <3>2
    <3> QED
      BY <1>2, <3>1, <3>3
  <2> QED
    BY <1>5, <2>2, <2>3 DEF EntryTrue, new, next, moved
<1>9. CASE ~(old.pos - delta >= InvalidPos)
  <2>1. new.pos = InvalidPos
    BY <1>6, <1>9 DEF Greater
  <2> HIDE DEF next, moved
  <2>2. InvalidPos < next
    BY <1>4, <1>7
  <2>3. new.pos \in Int /\ InvalidPos <= new.pos /\ new.pos < next /\ ~(InvalidPos < new.pos)
    BY <1>4, <2>1, <2>2
  <2> QED
    BY <1>5, <2>3 DEF EntryTrue, new, next
<1> QED
  BY <1>8, <1>9

LEMMA MovedHistory ==
  ASSUME TypeInv, HistoryInv, Active, UNCHANGED text, NEW delta \in Nat, Translate(delta),
         delta <= srcEncodeI
  PROVE  HistoryInv'
<1>1. /\ base \in Nat /\ srcEncodeI \in Nat /\ base' = base + delta /\ srcEncodeI' = srcEncodeI - delta
      /\ history' = [h \in DOMAIN history |-> [k \in 1 .. HashWidth |->
                      [history[h][k] EXCEPT !.pos = Greater(@ - delta, InvalidPos)]]]
  BY DEF TypeInv, Translate
<1>2. ASSUME NEW h \in DOMAIN history, NEW k \in 1 .. HashWidth
      PROVE  EntryTrue(history[h][k])'
  <2>1. \E e : e = history[h][k]
    OBVIOUS
  <2>2. PICK e : e = history[h][k]
    BY <2>1
  <2>3. EntryTrue(e)
    BY <1>2, <2>2 DEF HistoryInv
  <2>4. EntryTrue([e EXCEPT !.pos = Greater(@ - delta, InvalidPos)])'
    BY <1>1, <2>3, MovedEntry
  <2>5. history'[h][k] = [e EXCEPT !.pos = Greater(@ - delta, InvalidPos)]
    BY <1>1, <1>2, <2>2
  <2>6. \E n : n = [e EXCEPT !.pos = Greater(@ - delta, InvalidPos)]
    OBVIOUS
  <2>7. PICK n : n = [e EXCEPT !.pos = Greater(@ - delta, InvalidPos)]
    BY <2>6
  <2>8. EntryTrue(n)'
    BY <2>4, <2>7
  <2> QED
    BY <2>5, <2>7, <2>8 DEF EntryTrue
<1>3. /\ DOMAIN history' = DOMAIN history
      /\ \A h \in DOMAIN history : DOMAIN history'[h] = 1 .. HashWidth
  BY <1>1
<1> QED
  BY <1>2, <1>3 DEF HistoryInv

LEMMA MiddleDone ==
  ASSUME EncodeInv, MiddleChunkDone
  PROVE  EncodeInv'
<1>1. /\ phase = "based" /\ phase' = "base" /\ chunk = "middle" /\ left' = left - ChunkSize
      /\ \/ left - ChunkSize >= ChunkSize /\ chunk' = "middle" /\ srcEnd' = 2 * ChunkSize
         \/ chunk' = "last" /\ srcEnd' = ChunkSize + (left - ChunkSize)
      /\ Translate(ChunkSize)
      /\ base' = base + ChunkSize /\ srcEncodeI' = srcEncodeI - ChunkSize
      /\ srcLiteral' = srcLiteral - ChunkSize
      /\ pending' = [pending EXCEPT !.pos = @ - ChunkSize, !.ref = @ - ChunkSize]
      /\ UNCHANGED <<text, dstSize, triples, literals, dst, job, payload>>
  BY DEF MiddleChunkDone, NextChunk, Translate, lzvnEncVars
<1>2. /\ TypeInv /\ BuffersInv /\ ChunkInv /\ PositionInv /\ LagInv /\ HistoryInv /\ RoomInv
      /\ Active /\ Active'
  BY <1>1 DEF EncodeInv, Active
<1>3. /\ srcEncodeI \in Nat /\ srcEnd \in Nat /\ srcLiteral \in Int /\ base \in Nat /\ left \in Nat
      /\ srcEnd = 2 * ChunkSize /\ base + ChunkSize + left = Len(text) /\ left >= ChunkSize
      /\ ChunkSize \in Nat /\ 18 < ChunkSize
  <2>1. srcEncodeI \in Nat /\ srcEnd \in Nat /\ srcLiteral \in Int /\ base \in Nat
    BY <1>2 DEF TypeInv
  <2>2. /\ srcEnd = 2 * ChunkSize /\ base + ChunkSize + left = Len(text) /\ left >= ChunkSize
        /\ left \in Nat
    BY <1>1, <1>2 DEF ChunkInv
  <2>3. ChunkSize \in Nat /\ 8 * MaxL + 10 < ChunkSize
    BY DispatchAssumption
  <2>4. 18 < ChunkSize
    BY <2>3, ConstantFacts
  <2> QED
    BY <2>1, <2>2, <2>3, <2>4
<1>4. srcEncodeI + 8 = srcEnd /\ 0 <= base + srcLiteral /\ srcLiteral <= srcEnd
  BY <1>1, <1>2 DEF PositionInv
<1>5. srcEnd' \in Nat /\ left' \in Nat /\ ChunkSize <= srcEnd'
  BY SMTT(30), <1>1, <1>3
<1>6. /\ srcEncodeI - ChunkSize \in Nat /\ (srcEncodeI - ChunkSize) + 8 = ChunkSize
      /\ base + ChunkSize \in Nat /\ srcLiteral - ChunkSize \in Int
      /\ srcLiteral - ChunkSize <= ChunkSize
      /\ (base + ChunkSize) + (srcLiteral - ChunkSize) = base + srcLiteral
      /\ (srcEncodeI - ChunkSize) - (srcLiteral - ChunkSize) = srcEncodeI - srcLiteral
  BY <1>3, <1>4
<1>7. /\ pending \in MatchType /\ pending' \in MatchType /\ pending'.length = pending.length
  <2>1. pending \in MatchType
    BY <1>2 DEF TypeInv
  <2> QED
    BY <1>1, <1>3, <2>1, MovedMatch
<1>8. TypeInv' /\ BuffersInv'
  <2>1. TypeInv'
    BY <1>1, <1>2, <1>5, <1>6, <1>7 DEF TypeInv, Phases
  <2>2. BuffersInv'
    BY <1>1, <1>2 DEF BuffersInv
  <2> QED
    BY <2>1, <2>2
<1>9. ChunkInv'
  <2>1. CASE chunk' = "middle" /\ left - ChunkSize >= ChunkSize /\ srcEnd' = 2 * ChunkSize
    <3>1. (base + ChunkSize) + ChunkSize + (left - ChunkSize) = Len(text)
      BY <1>3
    <3> QED
      BY <1>1, <1>5, <2>1, <3>1 DEF ChunkInv
  <2>2. CASE chunk' = "last" /\ srcEnd' = ChunkSize + (left - ChunkSize)
    <3>1. (base + ChunkSize) + (ChunkSize + (left - ChunkSize)) = Len(text)
      BY <1>3
    <3> QED
      BY <1>1, <1>5, <2>2, <3>1 DEF ChunkInv
  <2> QED
    BY <1>1, <2>1, <2>2
<1>10. PositionInv'
  <2> DEFINE end == srcEnd'
  <2>1. end \in Nat /\ ChunkSize <= end
    BY <1>5
  <2> HIDE DEF end
  <2>2. 8 <= end /\ (srcEncodeI - ChunkSize) + 8 <= end /\ srcLiteral - ChunkSize <= end
    BY <1>3, <1>6, <2>1
  <2> QED
    BY <1>1, <1>4, <1>6, <2>2 DEF PositionInv, end
<1>11. LagInv'
  <2>1. Ready(pending, srcLiteral)
    BY <1>1, <1>2 DEF LagInv
  <2>2. srcEnd - ChunkSize <= srcEnd'
    BY <1>3, <1>5
  <2>3. \E m \in MatchType, from \in Int : m = pending /\ from = srcLiteral
    BY <1>3, <1>7
  <2>4. PICK m \in MatchType, from \in Int : m = pending /\ from = srcLiteral
    BY <2>3, Zenon
  <2>7. Ready([m EXCEPT !.pos = @ - ChunkSize, !.ref = @ - ChunkSize], from - ChunkSize)'
    BY <1>1, <1>3, <1>5, <2>1, <2>2, <2>4, MovedReady
  <2>8. /\ pending' = [m EXCEPT !.pos = @ - ChunkSize, !.ref = @ - ChunkSize]
        /\ srcLiteral' = from - ChunkSize
    BY <1>1, <2>4
  <2>9. \E a, l : a = [m EXCEPT !.pos = @ - ChunkSize, !.ref = @ - ChunkSize] /\ l = from - ChunkSize
    OBVIOUS
  <2>10. PICK a, l : a = [m EXCEPT !.pos = @ - ChunkSize, !.ref = @ - ChunkSize] /\ l = from - ChunkSize
    BY <2>9
  <2>11. Ready(a, l)' /\ pending' = a /\ srcLiteral' = l
    BY <2>7, <2>8, <2>10
  <2>12. Ready(pending, srcLiteral)'
    BY <2>11 DEF Ready, RepeatsIn, Byte
  <2>5. srcEncodeI - srcLiteral <= MaxLag + (IF pending.length > 0 THEN 2 ELSE 1)
    BY <1>1, <1>2 DEF LagInv
  <2>6. srcEncodeI' - srcLiteral' = srcEncodeI - srcLiteral
    BY <1>1, <1>6
  <2> QED
    BY <1>1, <1>7, <2>12, <2>5, <2>6 DEF LagInv
<1>12. JobInv' /\ RetryInv'
  BY <1>1 DEF JobInv, RetryInv
<1>13. HistoryInv'
  BY SMTT(30), <1>1, <1>2, <1>3, <1>4, MovedHistory
<1>14. RoomInv'
  BY <1>1, <1>2 DEF RoomInv
<1> QED
  BY <1>8, <1>9, <1>10, <1>11, <1>12, <1>13, <1>14 DEF EncodeInv

LEMMA EncodedLZVN ==
  ASSUME EncodeInv, LZVNEncoded
  PROVE  EncodeInv'
<1> DEFINE head == BlockBytes(LZVNBlock(Len(text), Len(payload)), 12)
           mark == BlockBytes(EndOfStreamBlock, 4)
<1>1. /\ phase = "lzvn" /\ phase' \in {"encoded", "failed"}
      /\ dst' = dst \/ dst' = head \o payload \o mark
      /\ UNCHANGED <<text, dstSize, base, srcEnd, srcEncodeI, pending, history, srcLiteral,
                     triples, literals, job, left, chunk, payload>>
  BY DEF LZVNEncoded, Goto, frontVars, lzvnEncVars
<1>2. TypeInv /\ BuffersInv /\ RoomInv /\ ~Active'
  BY <1>1 DEF EncodeInv, Active
<1>3. TypeInv'
  BY <1>1, <1>2 DEF TypeInv, Phases
<1>4. BuffersInv'
  BY <1>1, <1>2 DEF BuffersInv
<1>5. IsSeq(dst') /\ Len(dst') <= dstSize
  <2>1. IsSeq(head) /\ Len(head) = 12 /\ IsSeq(mark) /\ Len(mark) = 4
    <3>1. 12 \in Nat /\ 12 >= 1 /\ 4 \in Nat /\ 4 >= 1
      OBVIOUS
    <3> QED
      BY <3>1, BlockBytesLen
  <2>2. IsSeq(payload) /\ Len(payload) + 16 <= dstSize /\ dstSize \in Nat
    BY <1>1, <1>2 DEF RoomInv, ExtraSize, TypeInv
  <2> HIDE DEF head, mark
  <2>3. /\ IsSeq(head \o payload) /\ Len(head \o payload) = 12 + Len(payload)
        /\ Len(payload) \in Nat
    BY <2>1, <2>2, ConcatSeq
  <2>4. /\ IsSeq((head \o payload) \o mark)
        /\ Len((head \o payload) \o mark) = (12 + Len(payload)) + 4
    BY <2>1, <2>3, ConcatSeq
  <2>5. (12 + Len(payload)) + 4 <= dstSize
    BY <2>2, <2>3
  <2>6. CASE dst' = (head \o payload) \o mark
    BY <2>4, <2>5, <2>6
  <2>7. CASE dst' = dst
    BY <1>2, <2>7 DEF RoomInv
  <2> QED
    BY <1>1, <2>6, <2>7
<1> QED
  BY <1>1, <1>3, <1>4, <1>5, AtAnEnd

LEMMA EncodedRaw ==
  ASSUME EncodeInv, EncodeRaw
  PROVE  EncodeInv'
<1> DEFINE head == BlockBytes(RawBlock(left), 8)
           mark == BlockBytes(EndOfStreamBlock, 4)
<1>1. /\ phase = "failed" /\ phase' \in {"encoded", "refused"}
      /\ dst' = dst \/ (Len(text) + 12 <= dstSize /\ dst' = head \o text \o mark)
      /\ UNCHANGED <<text, dstSize, base, srcEnd, srcEncodeI, pending, history, srcLiteral,
                     triples, literals, job, left, chunk, payload>>
  BY DEF EncodeRaw, Goto, frontVars, lzvnEncVars
<1>2. TypeInv /\ BuffersInv /\ RoomInv /\ ~Active'
  BY <1>1 DEF EncodeInv, Active
<1>3. TypeInv'
  BY <1>1, <1>2 DEF TypeInv, Phases
<1>4. BuffersInv'
  BY <1>1, <1>2 DEF BuffersInv
<1>5. IsSeq(dst') /\ Len(dst') <= dstSize
  <2>1. IsSeq(head) /\ Len(head) = 8 /\ IsSeq(mark) /\ Len(mark) = 4
    <3>1. 8 \in Nat /\ 8 >= 1 /\ 4 \in Nat /\ 4 >= 1
      OBVIOUS
    <3> QED
      BY <3>1, BlockBytesLen
  <2>2. IsSeq(text) /\ dstSize \in Nat
    BY <1>2, SomeSeq DEF TypeInv
  <2> HIDE DEF head, mark
  <2>3. /\ IsSeq(head \o text) /\ Len(head \o text) = 8 + Len(text) /\ Len(text) \in Nat
    BY <2>1, <2>2, ConcatSeq
  <2>4. /\ IsSeq((head \o text) \o mark)
        /\ Len((head \o text) \o mark) = (8 + Len(text)) + 4
    BY <2>1, <2>3, ConcatSeq
  <2>5. CASE Len(text) + 12 <= dstSize /\ dst' = (head \o text) \o mark
    BY <2>2, <2>3, <2>4, <2>5
  <2>6. CASE dst' = dst
    BY <1>2, <2>6 DEF RoomInv
  <2> QED
    BY <1>1, <2>5, <2>6
<1> QED
  BY <1>1, <1>3, <1>4, <1>5, AtAnEnd

----------------------------------------------------------------------------
(* The LZVN encoder that is called is the one that LZVNProofs is about:    *)
(* instances of a module and of one that extends it have their definitions *)
(* in common, which the provers have to be told one by one.                *)

LZVNP == INSTANCE LZVNProofs
           WITH Inputs <- {}, dstSize <- dstSize - ExtraSize,
                srcLiteral <- lzvnLiteral, pending <- lzvnPending,
                Unwritten <- 0, stream <- <<>>, out <- <<>>,
                call <- <<>>, reg <- <<>>, at <- "idle"

LEMMA SameOpening == \A L, M, D, d : LZVN!Opening(L, M, D, d) = LZVNP!Opening(L, M, D, d)
<1>1. \A L : LZVN!LiteralsWithin(L) = LZVNP!LiteralsWithin(L)
  BY Zenon DEF LZVN!LiteralsWithin, LZVNP!LiteralsWithin
<1>2. \A a, b : LZVN!Lesser(a, b) = LZVNP!Lesser(a, b)
  BY Zenon DEF LZVN!Lesser, LZVNP!Lesser
<1>3. \A M, D, d, w, f : LZVN!IsMedium(M, D, d, w, f) <=> LZVNP!IsMedium(M, D, d, w, f)
  BY SMT DEF LZVN!IsMedium, LZVNP!IsMedium, LZVN!ShortDistance, LZVNP!ShortDistance,
     LZVN!LongDistance, LZVNP!LongDistance
<1>4. \A L, M, D, d : LZVN!OpeningLength(L, M, D, d) = LZVNP!OpeningLength(L, M, D, d)
  BY <1>1, <1>2, <1>3 DEF LZVN!OpeningLength, LZVNP!OpeningLength
<1>5. \A c, l, n, t : LZVN!Piece(c, l, n, t) = LZVNP!Piece(c, l, n, t)
  BY Zenon DEF LZVN!Piece, LZVNP!Piece
<1>6. LZVN!ShortDistance = LZVNP!ShortDistance
  BY DEF LZVN!ShortDistance, LZVNP!ShortDistance
<1> TAKE L, M, D, d
<1> DEFINE aw == LZVN!LiteralsWithin(L)
           ax == LZVN!OpeningLength(L, M, D, d)
           as == LZVN!ShortDistance
           am == LZVN!IsMedium(M, D, d, aw, LZVN!Lesser(M, 10 - 2 * aw))
           ac == IF D = d
          THEN IF aw = 0 THEN <<240 + ax>>
               ELSE <<64 * aw + 8 * (ax - 3) + 6>>
        ELSE IF D < as
          THEN <<(D \div 256) + 64 * aw + 8 * (ax - 3), D % 256>>
        ELSE IF am
          THEN <<160 + ((ax - 3) \div 4) + 8 * aw, (4 * D + ((ax - 3) % 4)) % 256, (4 * D + ((ax - 3) % 4)) \div 256>>
        ELSE <<64 * aw + 8 * (ax - 3) + 7, D % 256, D \div 256>>
<1> DEFINE bw == LZVNP!LiteralsWithin(L)
           bx == LZVNP!OpeningLength(L, M, D, d)
           bs == LZVNP!ShortDistance
           bm == LZVNP!IsMedium(M, D, d, bw, LZVNP!Lesser(M, 10 - 2 * bw))
           bc == IF D = d
          THEN IF bw = 0 THEN <<240 + bx>>
               ELSE <<64 * bw + 8 * (bx - 3) + 6>>
        ELSE IF D < bs
          THEN <<(D \div 256) + 64 * bw + 8 * (bx - 3), D % 256>>
        ELSE IF bm
          THEN <<160 + ((bx - 3) \div 4) + 8 * bw, (4 * D + ((bx - 3) % 4)) % 256, (4 * D + ((bx - 3) % 4)) \div 256>>
        ELSE <<64 * bw + 8 * (bx - 3) + 7, D % 256, D \div 256>>
<1>7. aw = bw /\ ax = bx /\ as = bs /\ (am <=> bm)
  <2>1. aw = bw /\ as = bs
    BY <1>1, <1>6, Zenon
  <2>2. ax = bx
    BY <1>4, Zenon
  <2>3. LZVN!Lesser(M, 10 - 2 * bw) = LZVNP!Lesser(M, 10 - 2 * bw)
    BY <1>2, Zenon
  <2>4. LZVN!IsMedium(M, D, d, bw, LZVNP!Lesser(M, 10 - 2 * bw)) <=> bm
    BY <1>3, Zenon
  <2> QED
    BY <2>1, <2>2, <2>3, <2>4, Zenon
<1>8. LZVN!Opening(L, M, D, d) = LZVN!Piece(ac, aw, 8, Len(ac) + 4)
  BY Zenon DEF LZVN!Opening
<1>9. LZVNP!Opening(L, M, D, d) = LZVNP!Piece(bc, bw, 8, Len(bc) + 4)
  BY Zenon DEF LZVNP!Opening
<1> HIDE DEF aw, ax, as, am, bw, bx, bs, bm
<1>10. ac = bc
  BY <1>7, ZenonT(60)
<1> HIDE DEF ac, bc
<1> QED
  BY <1>5, <1>7, <1>8, <1>9, <1>10, Zenon

LEMMA SamePieces ==
  /\ \A L, M, D, d : LZVN!Emit(L, M, D, d) = LZVNP!Emit(L, M, D, d)
  /\ \A n : LZVN!EmitLiteral(n) = LZVNP!EmitLiteral(n)
<1>1. \A n, t : LZVN!LiteralPiece(n, t) = LZVNP!LiteralPiece(n, t)
  BY Zenon DEF LZVN!LiteralPiece, LZVNP!LiteralPiece, LZVN!Opcode, LZVNP!Opcode, LZVN!Piece,
     LZVNP!Piece
<1>2. \A n : LZVN!Counts(n) = LZVNP!Counts(n)
  BY Zenon DEF LZVN!Counts, LZVNP!Counts, LZVN!Lesser, LZVNP!Lesser
<1>3. \A L : LZVN!LiteralsBefore(L) = LZVNP!LiteralsBefore(L)
  BY Zenon DEF LZVN!LiteralsBefore, LZVNP!LiteralsBefore, LZVN!Lesser, LZVNP!Lesser,
     LZVN!LiteralPiece, LZVNP!LiteralPiece, LZVN!Opcode, LZVNP!Opcode, LZVN!Piece, LZVNP!Piece
<1>4. \A L, M, D, d : LZVN!OpeningLength(L, M, D, d) = LZVNP!OpeningLength(L, M, D, d)
  BY DEF LZVN!OpeningLength, LZVNP!OpeningLength, LZVN!LiteralsWithin, LZVNP!LiteralsWithin,
     LZVN!Lesser, LZVNP!Lesser, LZVN!IsMedium, LZVNP!IsMedium, LZVN!ShortDistance,
     LZVNP!ShortDistance, LZVN!LongDistance, LZVNP!LongDistance
<1>5. \A n : LZVN!MatchesAfter(n) = LZVNP!MatchesAfter(n)
  BY Zenon DEF LZVN!MatchesAfter, LZVNP!MatchesAfter, LZVN!Counts, LZVNP!Counts, LZVN!Lesser,
     LZVNP!Lesser, LZVN!Opcode, LZVNP!Opcode, LZVN!Piece, LZVNP!Piece
<1>6. \A n : LZVN!EmitLiteral(n) = LZVNP!EmitLiteral(n)
  BY Zenon DEF LZVN!EmitLiteral, LZVNP!EmitLiteral, LZVN!Counts, LZVNP!Counts, LZVN!Lesser,
     LZVNP!Lesser, LZVN!LiteralPiece, LZVNP!LiteralPiece, LZVN!Opcode, LZVNP!Opcode, LZVN!Piece,
     LZVNP!Piece
<1> QED
  BY <1>3, <1>4, <1>5, <1>6, SameOpening, Zenon DEF LZVN!Emit, LZVNP!Emit

LEMMA SameWriting ==
  /\ \A p, room : LZVN!Fits(p, room) <=> LZVNP!Fits(p, room)
  /\ \A p, t, from : LZVN!Bytes(p, t, from) = LZVNP!Bytes(p, t, from)
<1>1. \A p, room : LZVN!Fits(p, room) <=> LZVNP!Fits(p, room)
  <2>1. \A p : LZVN!Offsets(p) = LZVNP!Offsets(p)
    BY Zenon DEF LZVN!Offsets, LZVNP!Offsets
  <2> QED
    BY <2>1, Zenon DEF LZVN!Fits, LZVNP!Fits
<1>2. \A p, t, from : LZVN!Bytes(p, t, from) = LZVNP!Bytes(p, t, from)
  <2>1. \A seqs : LZVN!FlattenSeq(seqs) = LZVNP!FlattenSeq(seqs)
    BY Zenon DEF LZVN!FlattenSeq, LZVNP!FlattenSeq
  <2> QED
    BY <2>1, Zenon DEF LZVN!Bytes, LZVNP!Bytes
<1> QED
  BY <1>1, <1>2, Zenon

LEMMA SameIncoming ==
  /\ \A p : LZVN!Hash(p) = LZVNP!Hash(p)
  /\ \A h : LZVN!Entry(h) = LZVNP!Entry(h)
  /\ LZVN!Incoming = LZVNP!Incoming
<1>1. \A p, D : LZVN!Agree(p, D) <=> LZVNP!Agree(p, D)
  BY Zenon DEF LZVN!Agree, LZVNP!Agree, LZVN!Byte, LZVNP!Byte
<1>2. \A p : LZVN!Hash(p) = LZVNP!Hash(p)
  <2>1. \A p : LZVN!Byte(p) = LZVNP!Byte(p)
    BY Zenon DEF LZVN!Byte, LZVNP!Byte
  <2> QED
    BY <2>1 DEF LZVN!Hash, LZVNP!Hash
<1>3. \A h : LZVN!Entry(h) = LZVNP!Entry(h)
  BY Zenon DEF LZVN!Entry, LZVNP!Entry
<1>4. \A D : LZVN!ForwardEnd(D) = LZVNP!ForwardEnd(D)
  BY Zenon DEF LZVN!ForwardEnd, LZVNP!ForwardEnd, LZVN!SrcEnd, LZVNP!SrcEnd, LZVN!Agree,
     LZVNP!Agree, LZVN!Byte, LZVNP!Byte
<1>5. \A D : LZVN!BackwardBegin(D) = LZVNP!BackwardBegin(D)
  BY Zenon DEF LZVN!BackwardBegin, LZVNP!BackwardBegin, LZVN!Agree, LZVNP!Agree, LZVN!Byte,
     LZVNP!Byte
<1>6. \A D : LZVN!Matches(D) <=> LZVNP!Matches(D)
  <2>1. LZVN!MaxDistance = LZVNP!MaxDistance
    BY DEF LZVN!MaxDistance, LZVNP!MaxDistance
  <2> QED
    BY <1>1, <2>1 DEF LZVN!Matches, LZVNP!Matches
<1>7. LZVN!ShortDistance = LZVNP!ShortDistance
  BY DEF LZVN!ShortDistance, LZVNP!ShortDistance
<1>8. \A D : LZVN!FindMatch(D) = LZVNP!FindMatch(D)
  BY <1>4, <1>5, <1>7, Zenon DEF LZVN!FindMatch, LZVNP!FindMatch
<1>9. \A a, b : LZVN!Better(a, b) = LZVNP!Better(a, b)
  BY Zenon DEF LZVN!Better, LZVNP!Better
<1>10. \A b, D : LZVN!Tried(b, D) = LZVNP!Tried(b, D)
  BY <1>6, <1>8, <1>9 DEF LZVN!Tried, LZVNP!Tried
<1>11. LZVN!NoMatch = LZVNP!NoMatch
  BY DEF LZVN!NoMatch, LZVNP!NoMatch
<1>12. LZVN!Incoming = LZVNP!Incoming
  BY <1>2, <1>3, <1>6, <1>8, <1>9, <1>10, <1>11 DEF LZVN!Incoming, LZVNP!Incoming
<1> QED
  BY <1>2, <1>3, <1>12, Zenon

LEMMA SameMoves ==
  /\ \A m : LZVN!EmitMatch(m) <=> LZVNP!EmitMatch(m)
  /\ \A n : LZVN!EmitLiterals(n) <=> LZVNP!EmitLiterals(n)
  /\ \A m : LZVN!Fits(LZVN!MatchPieces(m), LZVN!Room) <=> LZVNP!Fits(LZVNP!MatchPieces(m), LZVNP!Room)
  /\ \A n : LZVN!Fits(LZVN!EmitLiteral(n), LZVN!Room) <=> LZVNP!Fits(LZVNP!EmitLiteral(n), LZVNP!Room)
  /\ LZVN!Commit <=> LZVNP!Commit
  /\ LZVN!GiveUp <=> LZVNP!GiveUp
  /\ LZVN!Searching <=> LZVNP!Searching
  /\ LZVN!Looking <=> LZVNP!Looking
  /\ LZVN!TooManyLiterals <=> LZVNP!TooManyLiterals
  /\ LZVN!NoMatch = LZVNP!NoMatch
  /\ LZVN!SrcEnd = LZVNP!SrcEnd
<1>1. LZVN!Room = LZVNP!Room
  BY Zenon DEF LZVN!Room, LZVNP!Room
<1>2. \A m : LZVN!MatchPieces(m) = LZVNP!MatchPieces(m)
  BY SamePieces, Zenon DEF LZVN!MatchPieces, LZVNP!MatchPieces
<1>3. \A m : LZVN!EmitMatch(m) <=> LZVNP!EmitMatch(m)
  BY <1>1, <1>2, SameWriting, Zenon DEF LZVN!EmitMatch, LZVNP!EmitMatch
<1>4. \A n : LZVN!EmitLiterals(n) <=> LZVNP!EmitLiterals(n)
  BY <1>1, SamePieces, SameWriting, Zenon DEF LZVN!EmitLiterals, LZVNP!EmitLiterals
<1>5. \A m : LZVN!Fits(LZVN!MatchPieces(m), LZVN!Room) <=> LZVNP!Fits(LZVNP!MatchPieces(m), LZVNP!Room)
  BY <1>1, <1>2, SameWriting, Zenon
<1>6. \A n : LZVN!Fits(LZVN!EmitLiteral(n), LZVN!Room) <=> LZVNP!Fits(LZVNP!EmitLiteral(n), LZVNP!Room)
  BY <1>1, SamePieces, SameWriting, Zenon
<1>7. LZVN!Commit <=> LZVNP!Commit
  BY SameIncoming DEF LZVN!Commit, LZVNP!Commit
<1>8. LZVN!GiveUp <=> LZVNP!GiveUp
  BY Zenon DEF LZVN!GiveUp, LZVNP!GiveUp
<1>9. (LZVN!Searching <=> LZVNP!Searching) /\ (LZVN!Looking <=> LZVNP!Looking)
  BY Zenon DEF LZVN!Searching, LZVNP!Searching, LZVN!Looking, LZVNP!Looking, LZVN!SrcCurrentEnd,
     LZVNP!SrcCurrentEnd, LZVN!SrcEnd, LZVNP!SrcEnd, LZVN!MinMargin, LZVNP!MinMargin
<1>10. (LZVN!TooManyLiterals <=> LZVNP!TooManyLiterals) /\ LZVN!NoMatch = LZVNP!NoMatch /\ LZVN!SrcEnd = LZVNP!SrcEnd
  BY Zenon DEF LZVN!TooManyLiterals, LZVNP!TooManyLiterals, LZVN!NoMatch, LZVNP!NoMatch,
     LZVN!SrcEnd, LZVNP!SrcEnd
<1> QED
  BY <1>3, <1>4, <1>5, <1>6, <1>7, <1>8, <1>9, <1>10, Zenon

(* The steps of the encoder are those its invariant is proved of.          *)
LEMMA SameLZVN == LZVN!NextEncoder <=> LZVNP!NextEncoder
<1>1. LZVN!StartEncoder <=> LZVNP!StartEncoder
  BY Zenon DEF LZVN!StartEncoder, LZVNP!StartEncoder, LZVN!MinDstSize, LZVNP!MinDstSize,
     LZVN!SrcEnd, LZVNP!SrcEnd, LZVN!MinSrcSize, LZVNP!MinSrcSize
<1>2. LZVN!SkipEmitted <=> LZVNP!SkipEmitted
  BY SameIncoming, SameMoves, Zenon DEF LZVN!SkipEmitted, LZVNP!SkipEmitted
<1>3. LZVN!NothingFound <=> LZVNP!NothingFound
  BY SameIncoming, SameMoves, Zenon DEF LZVN!NothingFound, LZVNP!NothingFound
<1>4. LZVN!FlushPending <=> LZVNP!FlushPending
  BY SameIncoming, SameMoves, Zenon DEF LZVN!FlushPending, LZVNP!FlushPending
<1>5. LZVN!FlushLiterals <=> LZVNP!FlushLiterals
  BY SameIncoming, SameMoves, Zenon DEF LZVN!FlushLiterals, LZVNP!FlushLiterals
<1>6. LZVN!KeepIncoming <=> LZVNP!KeepIncoming
  BY SameIncoming, SameMoves, Zenon DEF LZVN!KeepIncoming, LZVNP!KeepIncoming
<1>7. LZVN!EmitPendingKeepIncoming <=> LZVNP!EmitPendingKeepIncoming
  BY SameIncoming, SameMoves, Zenon DEF LZVN!EmitPendingKeepIncoming,
     LZVNP!EmitPendingKeepIncoming
<1>8. LZVN!EmitBetter <=> LZVNP!EmitBetter
  BY SameIncoming, SameMoves, Zenon DEF LZVN!EmitBetter, LZVNP!EmitBetter
<1>9. LZVN!EndSearch <=> LZVNP!EndSearch
  BY Zenon DEF LZVN!EndSearch, LZVNP!EndSearch, LZVN!SrcCurrentEnd, LZVNP!SrcCurrentEnd,
     LZVN!SrcEnd, LZVNP!SrcEnd, LZVN!MinMargin, LZVNP!MinMargin
<1>10. LZVN!EmitRest <=> LZVNP!EmitRest
  BY SameIncoming, SameMoves, Zenon DEF LZVN!EmitRest, LZVNP!EmitRest
<1>11. LZVN!EndStream <=> LZVNP!EndStream
  BY Zenon DEF LZVN!EndStream, LZVNP!EndStream, LZVN!EndOfStream, LZVNP!EndOfStream,
     LZVN!SrcEnd, LZVNP!SrcEnd
<1> QED
  BY <1>1, <1>2, <1>3, <1>4, <1>5, <1>6, <1>7, <1>8, <1>9, <1>10, <1>11, Zenon DEF
     LZVN!NextEncoder, LZVNP!NextEncoder

(* What the LZVN encoder is called with, and what holds while it runs.     *)
LZVNInv ==
  /\ phase = "start" =>
       /\ enc = "start" /\ srcCurrent = 0 /\ lzvnLiteral = 0 /\ payload = <<>>
       /\ lzvnPending = LZVN!NoMatch /\ dPrev = 0 /\ DOMAIN table = {}
  /\ phase = "lzvn" => dstSize > ExtraSize /\ LZVNP!EncoderInv

LEMMA LZVNStarts ==
  ASSUME TypeInv, LZVNInv, phase = "start", dstSize > ExtraSize
  PROVE  LZVNP!EncoderInv
<1>1. /\ enc = "start" /\ srcCurrent = 0 /\ lzvnLiteral = 0 /\ payload = <<>>
      /\ lzvnPending = LZVN!NoMatch /\ dPrev = 0 /\ DOMAIN table = {}
  BY DEF LZVNInv
<1>2. text \in Seq(0 .. 255) /\ Len(text) \in Nat /\ dstSize \in Nat /\ dstSize - ExtraSize \in Nat
  <2>1. text \in Seq(0 .. 255) /\ dstSize \in Nat
    BY DEF TypeInv
  <2> QED
    BY <2>1, LenProperties DEF ExtraSize
<1>3. lzvnPending \in LZVNP!MatchType /\ lzvnPending.M = 0
  BY <1>1 DEF LZVN!NoMatch, LZVNP!MatchType
<1>4. LZVNP!EncoderTypes
  BY <1>1, <1>2, <1>3 DEF LZVNP!EncoderTypes, LZVNP!SrcEnd
<1>5. LZVNP!SearchInv
  BY <1>1, <1>3 DEF LZVNP!SearchInv
<1>6. LZVNP!TableInv
  BY <1>1 DEF LZVNP!TableInv
<1>7. LZVNP!PayloadInv
  <2>1. <<>> \in Seq({}) /\ Len(<<>>) = 0
    OBVIOUS
  <2>2. IsSeq(<<>>)
    BY <2>1, SomeSeq
  <2> QED
    BY <1>1, <1>2, <2>1, <2>2 DEF LZVNP!PayloadInv, IsSeq, LZVNP!IsSeq
<1> QED
  BY <1>4, <1>5, <1>6, <1>7 DEF LZVNP!EncoderInv

LEMMA LZVNGoesOn ==
  ASSUME LZVNInv, EncodeLZVN
  PROVE  phase = "lzvn" /\ phase' = "lzvn" /\ LZVNP!EncoderInv' /\ LZVNInv'
<1>1. phase = "lzvn" /\ phase' = "lzvn" /\ dstSize' = dstSize /\ LZVN!NextEncoder
  BY DEF EncodeLZVN, lzfseVars
<1>2. LZVNP!EncoderInv /\ dstSize > ExtraSize
  BY <1>1 DEF LZVNInv
<1>3. LZVNP!NextEncoder
  BY <1>1, SameLZVN
<1>4. LongCount \in 16 .. 271 /\ Backlog \in Nat /\ Backlog >= LongCount
  BY DispatchAssumption
<1>5. LZVNP!EncoderInv'
  BY <1>2, <1>3, <1>4, LZVNP!EncoderInvKept
<1> QED
  BY <1>1, <1>2, <1>5 DEF LZVNInv

----------------------------------------------------------------------------
(* Every step.                                                             *)

LEMMA ReachedLZVN ==
  ASSUME EncodeInv, LZVNInv, EncodeLZVN
  PROVE  EncodeInv'
<1>1. /\ phase = "lzvn" /\ phase' = "lzvn" /\ LZVNP!EncoderInv'
  BY LZVNGoesOn
<1>2. UNCHANGED <<text, dstSize, base, srcEnd, srcEncodeI, pending, history, srcLiteral,
                  triples, literals, dst, job, left, chunk>>
  BY DEF EncodeLZVN, lzfseVars, frontVars
<1>3. TypeInv /\ BuffersInv /\ ChunkInv /\ RoomInv /\ ~Active /\ ~Active'
  BY <1>1 DEF EncodeInv, Active
<1>4. TypeInv'
  BY <1>1, <1>2, <1>3 DEF TypeInv
<1>5. BuffersInv'
  BY <1>2, <1>3 DEF BuffersInv
<1>6. ChunkInv' /\ PositionInv' /\ HistoryInv'
  BY <1>1, <1>2, <1>3 DEF ChunkInv, PositionInv, HistoryInv
<1>7. LagInv' /\ JobInv' /\ RetryInv'
  BY <1>1 DEF LagInv, JobInv, RetryInv
<1>8. RoomInv'
  <2>1. IsSeq(payload)' /\ Len(payload') <= dstSize' - ExtraSize
    BY <1>1 DEF LZVNP!EncoderInv, LZVNP!PayloadInv, IsSeq, LZVNP!IsSeq
  <2>2. Len(payload') \in Nat /\ dstSize' \in Nat /\ ExtraSize \in Nat
    <3>1. IsSeq(payload') => Len(payload') \in Nat
      BY LenProperties DEF IsSeq
    <3> QED
      BY <1>2, <1>3, <2>1, <3>1 DEF TypeInv, ExtraSize, IsSeq
  <2> DEFINE size == Len(payload')
             room == dstSize'
  <2>3. size \in Nat /\ room \in Nat /\ size <= room - ExtraSize
    BY <2>1, <2>2
  <2> HIDE DEF size, room
  <2>4. size + ExtraSize <= room
    BY <2>2, <2>3
  <2>5. Len(payload') + ExtraSize <= dstSize'
    BY <2>4 DEF size, room
  <2>6. IsSeq(dst') /\ Len(dst') <= dstSize'
    BY <1>2, <1>3 DEF RoomInv
  <2> QED
    BY <2>1, <2>5, <2>6 DEF RoomInv, IsSeq
<1> QED
  BY <1>4, <1>5, <1>6, <1>7, <1>8 DEF EncodeInv

LEMMA StepOfLZFSE ==
  ASSUME EncodeInv, EncodeLZFSE
  PROVE  EncodeInv'
<1>1. NextLZFSE /\ UNCHANGED <<left, chunk, payload>>
  BY DEF EncodeLZFSE, lzvnEncVars
<1>2. CASE SplitLiterals \/ SplitMatch \/ PushRest \/ PushFails \/ WriteBlock
  BY <1>1, <1>2, PushLiterals, PushMatch, PushEnds, PushTakenBack, BlockWritten
<1>3. CASE SkipEmitted \/ NothingFound \/ KeepIncoming \/ EndBase
  BY <1>1, <1>3, ContinueSkip, ContinueNothing, ContinueKeep, BaseEnded
<1>4. CASE FlushPending \/ FlushLiterals \/ EmitGood \/ EmitPendingKeepIncoming \/ EmitLonger
  BY <1>1, <1>4, AddFlushPending, AddFlushLiterals, AddEmitGood, AddPendingKeepIncoming, AddLonger
<1>5. CASE FinishPending \/ FinishLiterals \/ FinishMatches \/ EndStream
  BY <1>1, <1>5, AddFinishPending, AddFinishLiterals, MatchesFinished, StreamEnded
<1> QED
  BY <1>1, <1>2, <1>3, <1>4, <1>5 DEF NextLZFSE

LEMMA EncodeInvKept ==
  ASSUME EncodeInv, LZVNInv, [NextEncode]_encodeVars
  PROVE  EncodeInv' /\ LZVNInv'
<1>1. CASE EncodeLZVN
  BY <1>1, ReachedLZVN, LZVNGoesOn
<1>2. CASE ChooseLZVN
  <2>1. EncodeInv'
    BY <1>2, ChosenLZVN
  <2>2. /\ phase = "start" /\ phase' = "lzvn" /\ dstSize > ExtraSize
        /\ UNCHANGED <<text, dstSize, enc, srcCurrent, lzvnLiteral, payload, lzvnPending, dPrev, table>>
    BY <1>2 DEF ChooseLZVN, Goto, lzvnEncVars
  <2>3. LZVNP!EncoderInv
    BY <2>2, LZVNStarts DEF EncodeInv
  <2>4. LongCount \in 16 .. 271 /\ Backlog \in Nat /\ Backlog >= LongCount
    BY DispatchAssumption
  <2>5. LZVNP!EncoderInv'
    BY <2>2, <2>3, <2>4, LZVNP!EncoderInvKept DEF LZVNP!encVars
  <2> QED
    BY <2>1, <2>2, <2>5 DEF LZVNInv
<1>3. CASE ChooseRaw \/ LZVNEncoded \/ EncodeRaw
  <2>1. phase' \in {"failed", "encoded", "refused"}
    BY <1>3 DEF ChooseRaw, LZVNEncoded, EncodeRaw, Goto
  <2> QED
    BY <1>3, <2>1, ChosenRaw, EncodedLZVN, EncodedRaw DEF LZVNInv
<1>4. CASE ChooseLZFSE \/ FirstChunkDone \/ MiddleChunkDone \/ LastChunkDone
  <2>1. phase' \in {"base", "finish"}
    BY <1>4 DEF ChooseLZFSE, FirstChunkDone, MiddleChunkDone, LastChunkDone, Goto
  <2> QED
    BY <1>4, <2>1, ChosenLZFSE, FirstDone, MiddleDone, LastDone DEF LZVNInv
<1>5. CASE EncodeLZFSE
  <2>1. EncodeInv'
    BY <1>5, StepOfLZFSE
  <2>2. phase' \notin {"start", "lzvn"}
    <3>1. job.caller \in {"base", "finish"} \/ phase # "push"
      BY DEF EncodeInv, TypeInv, JobType
    <3> QED
      BY <1>5, <3>1 DEF EncodeLZFSE, NextLZFSE, SplitLiterals, SplitMatch, PushRest, PushFails,
         WriteBlock, WriteMatches, MatchesDoNotFit, SkipEmitted, NothingFound, FlushPending,
         FlushLiterals, EmitGood, KeepIncoming, EmitPendingKeepIncoming, EmitLonger, EndBase,
         FinishPending, FinishLiterals, FinishMatches, EndStream, Add, Continue, Searching,
         Looking, NotGood
  <2> QED
    BY <2>1, <2>2 DEF LZVNInv
<1>6. CASE UNCHANGED encodeVars
  <2>1. UNCHANGED <<text, dstSize, phase, base, srcEnd, srcEncodeI, pending, history, srcLiteral,
                    triples, literals, dst, job, left, chunk, enc, srcCurrent, lzvnLiteral, payload,
                    lzvnPending, dPrev, table>>
    BY <1>6 DEF encodeVars, lzfseVars, frontVars, lzvnEncVars
  <2>2. TypeInv' /\ BuffersInv' /\ ChunkInv' /\ PositionInv' /\ RoomInv' /\ Active' = Active
    BY <2>1 DEF EncodeInv, TypeInv, BuffersInv, ChunkInv, PositionInv, RoomInv, Active
  <2>3. LagInv'
    BY <2>1 DEF EncodeInv, LagInv, Ready, RepeatsIn, Byte
  <2>4. JobInv'
    BY <2>1 DEF EncodeInv, JobInv, Ready, RepeatsIn, Byte
  <2>5. RetryInv'
    BY <2>1 DEF EncodeInv, RetryInv
  <2>6. HistoryInv'
    BY <2>1 DEF EncodeInv, HistoryInv, EntryTrue, Value, Byte, Active
  <2>7. LongCount \in 16 .. 271 /\ Backlog \in Nat /\ Backlog >= LongCount
    BY DispatchAssumption
  <2>8. LZVNInv'
    <3>1. LZVNP!EncoderInv => LZVNP!EncoderInv'
      BY <2>1, <2>7, LZVNP!EncoderInvKept DEF LZVNP!encVars
    <3> QED
      BY <2>1, <3>1 DEF LZVNInv
  <2> QED
    BY <2>2, <2>3, <2>4, <2>5, <2>6, <2>8 DEF EncodeInv
<1> QED
  BY <1>1, <1>2, <1>3, <1>4, <1>5, <1>6 DEF NextEncode

LEMMA EncodeInvStarts == InitEncode => EncodeInv /\ LZVNInv
<1> SUFFICES ASSUME InitEncode PROVE EncodeInv /\ LZVNInv
  OBVIOUS
<1>1. /\ phase = "start" /\ left = Len(text) /\ chunk = "last"
      /\ enc = "start" /\ srcCurrent = 0 /\ lzvnLiteral = 0 /\ payload = <<>>
      /\ lzvnPending = LZVN!NoMatch /\ dPrev = 0 /\ table = << >>
      /\ base = 0 /\ srcEnd = 0 /\ srcEncodeI = 0 /\ srcLiteral = 0
      /\ pending = NoMatch /\ history = << >>
      /\ triples = <<>> /\ literals = <<>> /\ dst = <<>> /\ job = NoJob
  BY DEF InitEncode, InitLZFSE
<1>2. text \in Seq(0 .. 255) /\ dstSize \in Nat
  BY DispatchAssumption DEF InitEncode
<1>3. Len(text) \in Nat
  BY <1>2, LenProperties
<1>4. NoMatch \in MatchType /\ NoJob \in JobType
  BY DEF NoMatch, NoJob, MatchType, JobType
<1>5. /\ Len(<<>>) = 0 /\ <<>> \in Seq(0 .. 255) /\ <<>> \in Seq({}) /\ DOMAIN <<>> = {}
  OBVIOUS
<1>6. IsSeq(<<>>)
  BY <1>5, SomeSeq
<1>7. TypeInv
  BY <1>1, <1>2, <1>4 DEF TypeInv, Phases
<1>8. ~Active
  BY <1>1 DEF Active
<1>9. BuffersInv
  <2>1. Len(triples) \in Nat /\ DOMAIN triples = 1 .. Len(triples)
    BY <1>1, <1>5
  <2>2. MatchesPerBlock \in Nat /\ 0 + 8 <= MatchesPerBlock
        /\ LiteralsPerBlock \in Nat /\ 0 + 16 <= LiteralsPerBlock
    BY ConstantFacts
  <2> QED
    BY <1>1, <1>5, <1>8, <2>1, <2>2 DEF BuffersInv
<1>10. ChunkInv /\ PositionInv /\ HistoryInv
  BY <1>1, <1>3, <1>5, <1>8 DEF ChunkInv, PositionInv, HistoryInv
<1>11. LagInv /\ JobInv /\ RetryInv
  BY <1>1 DEF LagInv, JobInv, RetryInv
<1>12. RoomInv
  BY <1>1, <1>2, <1>5, <1>6 DEF RoomInv
<1>13. LZVNInv
  BY <1>1, <1>5 DEF LZVNInv
<1> QED
  BY <1>7, <1>9, <1>10, <1>11, <1>12, <1>13 DEF EncodeInv

----------------------------------------------------------------------------
(* What the invariant is for.                                              *)

LEMMA ProductGrows ==
  ASSUME NEW a \in Nat, NEW b \in Nat, NEW m \in Nat, a >= b
  PROVE  a * m \in Nat /\ b * m \in Nat /\ a * m >= b * m
OBVIOUS

(* Into how many pieces a match is split, with the literals before it.     *)
LEMMA FewPieces ==
  ASSUME NEW k \in Nat, NEW n \in Nat, NEW parts \in Nat, NEW l \in Nat, NEW m \in Nat,
         1 <= l, l <= m, k * l <= 8 * l + 2,
         k * l + n * m <= parts * m + 8 * l + 2
  PROVE  k + n <= parts + 17
<1>1. /\ k * l \in Nat /\ n * m \in Nat /\ parts * m \in Nat
  OBVIOUS
<1>2. k <= 10
  <2>1. ASSUME k >= 11 PROVE FALSE
    <3>1. k * l >= 11 * l
      BY <2>1, ProductGrows
    <3> QED
      BY <1>1, <3>1
  <2> QED
    BY <2>1
<1>3. ASSUME k + n >= parts + 18 PROVE FALSE
  <2> DEFINE more == 18 - k
  <2>1. more \in Nat /\ n >= parts + more
    BY <1>2, <1>3
  <2>2. n * m >= (parts + more) * m /\ (parts + more) * m = parts * m + more * m
    BY <2>1, ProductGrows
  <2>3. more * m >= more * l /\ more * m \in Nat /\ more * l \in Nat
    <3>1. m * more >= l * more
      BY <2>1, ProductGrows
    <3> QED
      BY <2>1, <3>1
  <2>4. more * l = 18 * l - k * l
    OBVIOUS
  <2> QED
    BY <1>1, <2>2, <2>3, <2>4
<1> QED
  BY <1>3

LEMMA InvBuffers ==
  ASSUME EncodeInv
  PROVE  BuffersBounded
<1>1. /\ Len(triples) \in Nat /\ Len(triples) + 8 <= MatchesPerBlock
      /\ literals \in Seq(0 .. 255) /\ Len(literals) + 16 <= LiteralsPerBlock
  BY DEF EncodeInv, BuffersInv
<1>2. Len(triples) <= MatchesPerBlock
  BY <1>1, ConstantFacts
<1>3. Len(Padded) <= LiteralsPerBlock
  <2>1. Len(literals) \in Nat /\ Len(Padded) \in Nat /\ Len(Padded) <= Len(literals) + 3
    BY <1>1, PaddedLen
  <2> QED
    BY <1>1, <2>1, ConstantFacts
<1> QED
  BY <1>2, <1>3 DEF BuffersBounded

LEMMA InvRetry ==
  ASSUME EncodeInv
  PROVE  RetryFits
<1> SUFFICES ASSUME phase = "push", job.retried
             PROVE  HasRoom(Lesser(job.L, MaxL))
  BY DEF RetryFits
<1> DEFINE m == job.match
           span == m.pos - job.srcLiteral
<1>1. /\ m \in MatchType /\ job.L \in Nat /\ job.M \in Nat /\ job.srcLiteral \in Int
      /\ m.pos \in Int /\ m.length \in Nat
  BY DEF EncodeInv, TypeInv, JobType, MatchType
<1>2. /\ m.pos <= job.srcLiteral + MaxLag + 10
      /\ m.length > 0 => Ready(m, job.srcLiteral)
  BY DEF EncodeInv, JobInv
<1>3. /\ Len(literals) + job.L <= span
      /\ \E k, n \in Nat : /\ Len(triples) = k + n
                           /\ k * MaxL + job.L <= span
                           /\ n * MaxM + job.M = m.length
  BY DEF EncodeInv, RetryInv
<1>4. PICK k \in Nat, n \in Nat : /\ Len(triples) = k + n
                                  /\ k * MaxL + job.L <= span
                                  /\ n * MaxM + job.M = m.length
  BY <1>3
<1>5. literals \in Seq(0 .. 255) /\ Len(literals) \in Nat
  BY LenProperties DEF EncodeInv, BuffersInv
<1>6. /\ span \in Int /\ span <= 8 * MaxL + 10
  BY <1>1, <1>2, ConstantFacts
<1>7. k * MaxL \in Nat /\ n * MaxM \in Nat
  BY ConstantFacts
<1> HIDE DEF span
<1>8. Len(literals) + Lesser(job.L, MaxL) + 16 <= LiteralsPerBlock
  <2>1. Lesser(job.L, MaxL) \in Nat /\ Lesser(job.L, MaxL) <= job.L
    BY <1>1, ConstantFacts DEF Lesser
  <2> QED
    BY SMTT(30), <1>1, <1>3, <1>5, <1>6, <2>1, ConstantFacts
<1>9. k + n <= MatchParts + 17
  <2>1. CASE m.length > 0
    <3>1. /\ m.pos <= job.srcLiteral + MaxLag + 2
          /\ m.pos + m.length <= job.srcLiteral + MaxMatchLength + MaxLag + 2
      BY <1>2, <2>1 DEF Ready
    <3>2. span <= 8 * MaxL + 2 /\ span + m.length <= MatchParts * MaxM + 8 * MaxL + 2
      <4>1. MaxMatchLength = MatchParts * MaxM /\ MaxMatchLength \in Nat
        BY ConstantFacts DEF MaxMatchLength
      <4> QED
        BY <1>1, <3>1, <4>1, ConstantFacts DEF span
    <3>3. k * MaxL <= 8 * MaxL + 2 /\ k * MaxL + n * MaxM <= MatchParts * MaxM + 8 * MaxL + 2
      <4> DEFINE a == k * MaxL
                 b == n * MaxM
                 c == MatchParts * MaxM
      <4>1. a \in Nat /\ b \in Nat /\ a + job.L <= span /\ b + job.M = m.length
            /\ span + m.length <= c + 8 * MaxL + 2 /\ c \in Nat
        BY <1>4, <1>7, <3>2, ConstantFacts
      <4> HIDE DEF a, b, c
      <4>2. a <= 8 * MaxL + 2 /\ a + b <= c + 8 * MaxL + 2
        BY <1>1, <1>6, <3>2, <4>1, ConstantFacts
      <4> QED
        BY <4>2 DEF a, b, c
    <3> HIDE DEF m
    <3> QED
      BY <3>3, FewPieces, ConstantFacts
  <2>2. CASE ~(m.length > 0)
    <3>1. n = 0
      <4>1. n * MaxM = 0
        BY <1>1, <1>4, <1>7, <2>2
      <4>2. ASSUME n >= 1 PROVE FALSE
        <5>1. n * MaxM >= 1 * MaxM
          BY <4>2, ProductGrows, ConstantFacts
        <5> QED
          BY <4>1, <5>1, ConstantFacts
      <4> QED
        BY <4>2
    <3>2. k <= 18
      <4>1. ASSUME k >= 19 PROVE FALSE
        <5> DEFINE a == k * MaxL
        <5>1. a >= 19 * MaxL
          BY <4>1, ProductGrows, ConstantFacts
        <5>2. a \in Nat /\ a + job.L <= span
          BY <1>4, <1>7
        <5> HIDE DEF a
        <5>3. a <= 8 * MaxL + 10
          BY <1>1, <1>6, <5>2, ConstantFacts
        <5> QED
          BY <5>1, <5>2, <5>3, ConstantFacts
      <4> QED
        BY <4>1
    <3>3. MatchParts >= 1 /\ MatchParts \in Nat
      BY EncoderAssumption
    <3> QED
      BY <3>1, <3>2, <3>3
  <2> QED
    BY <2>1, <2>2
<1>10. Len(triples) + 1 + 8 <= MatchesPerBlock
  BY <1>4, <1>9, ConstantFacts
<1> QED
  BY <1>8, <1>10 DEF HasRoom

LEMMA InvLag ==
  ASSUME EncodeInv
  PROVE  LagBounded
<1> SUFFICES ASSUME phase = "base" PROVE srcEncodeI - srcLiteral <= MaxLag + 2
  BY DEF LagBounded, Pos
<1>1. srcEncodeI \in Nat /\ srcLiteral \in Int
  BY DEF EncodeInv, TypeInv
<1>2. srcEncodeI - srcLiteral <= MaxLag + (IF pending.length > 0 THEN 2 ELSE 1)
  BY DEF EncodeInv, LagInv
<1> QED
  BY <1>1, <1>2, ConstantFacts

LEMMA InvReferences ==
  ASSUME EncodeInv
  PROVE  ReferencesTrue
<1>1. PendingSound
  BY DEF EncodeInv, LagInv, Ready, RepeatsIn, PendingSound
<1>2. HistoryTrue
  BY DEF EncodeInv, HistoryInv, EntryTrue, HistoryTrue, Active
<1> QED
  BY <1>1, <1>2 DEF ReferencesTrue

(* A raw block is refused for want of room, or of bits for the length.     *)
LEMMA RefusedForRoom ==
  ASSUME EncodeInv, EncodeNeverFails, [NextEncode]_encodeVars
  PROVE  EncodeNeverFails'
<1>1. UNCHANGED <<text, dstSize>>
  BY DEF NextEncode, ChooseRaw, ChooseLZVN, EncodeLZVN, LZVNEncoded, ChooseLZFSE, EncodeLZFSE,
     FirstChunkDone, MiddleChunkDone, LastChunkDone, EncodeRaw, Goto, NextLZFSE, SplitLiterals,
     SplitMatch, PushRest, PushFails, WriteBlock, SkipEmitted, NothingFound, FlushPending,
     FlushLiterals, EmitGood, KeepIncoming, EmitPendingKeepIncoming, EmitLonger, EndBase,
     FinishPending, FinishLiterals, FinishMatches, EndStream, Add, Continue, encodeVars, lzfseVars
<1>2. CASE EncodeRaw
  <2>1. /\ phase' = "encoded" \/ phase' = "refused"
        /\ phase' = "refused" => ~(Len(text) + 12 <= dstSize /\ Len(text) < RawLimit)
    BY <1>2 DEF EncodeRaw, Goto
  <2>2. Len(text) \in Nat /\ dstSize \in Nat /\ RawLimit \in Nat
    <3>1. text \in Seq(0 .. 255) /\ dstSize \in Nat
      BY DEF EncodeInv, TypeInv
    <3> QED
      BY <3>1, LenProperties, DispatchAssumption
  <2> QED
    BY <1>1, <2>1, <2>2 DEF EncodeNeverFails
<1>3. CASE ~EncodeRaw
  <2>1. phase' = "refused" => phase = "refused"
    <3>1. job.caller \in {"base", "finish"}
      BY DEF EncodeInv, TypeInv, JobType
    <3> QED
      BY <1>3, <3>1 DEF NextEncode, ChooseRaw, ChooseLZVN, EncodeLZVN, LZVNEncoded, ChooseLZFSE,
         EncodeLZFSE, FirstChunkDone, MiddleChunkDone, LastChunkDone, Goto, NextLZFSE,
         SplitLiterals, SplitMatch, PushRest, PushFails, WriteBlock, MatchesDoNotFit, WriteMatches,
         SkipEmitted, NothingFound, FlushPending, FlushLiterals, EmitGood, KeepIncoming,
         EmitPendingKeepIncoming, EmitLonger, EndBase, FinishPending, FinishLiterals,
         FinishMatches, EndStream, Add, Continue, encodeVars, lzfseVars
  <2> QED
    BY <1>1, <2>1 DEF EncodeNeverFails
<1> QED
  BY <1>2, <1>3

LEMMA AlwaysEncodeInv == EncodeSpec => [](EncodeInv /\ EncodeNeverFails)
<1>1. InitEncode => EncodeInv /\ LZVNInv /\ EncodeNeverFails
  <2>1. InitEncode => EncodeNeverFails
    BY DEF InitEncode, EncodeNeverFails
  <2> QED
    BY <2>1, EncodeInvStarts
<1>2. /\ EncodeInv /\ LZVNInv /\ EncodeNeverFails
      /\ [NextEncode]_encodeVars
      => (EncodeInv /\ LZVNInv /\ EncodeNeverFails)'
  BY EncodeInvKept, RefusedForRoom
<1> QED
  BY <1>1, <1>2, PTL DEF EncodeSpec

(* The margins of the back end and the bounds of the front end suffice for *)
(* every source: no array overflows, and a match that found them full fits *)
(* once the block is written.                                              *)
THEOREM MarginsAlwaysSuffice == EncodeSpec => []MarginsSuffice
<1>1. EncodeInv => MarginsSuffice
  BY InvBuffers, InvRetry, InvLag DEF MarginsSuffice
<1> QED
  BY <1>1, AlwaysEncodeInv, PTL

(* The pending match and the history refer to the bytes they stand for, in *)
(* every chunk of every source: lzfse_encode_translate keeps them so.      *)
THEOREM ReferencesStayTrue == EncodeSpec => []ReferencesTrue
<1>1. EncodeInv => ReferencesTrue
  BY InvReferences
<1> QED
  BY <1>1, AlwaysEncodeInv, PTL

(* What was written is never longer than the destination, and only a       *)
(* destination without room for the raw block makes lzfse_encode_buffer    *)
(* return 0.                                                               *)
THEOREM FallbackAlwaysFits == EncodeSpec => []FallbackFits
<1>1. EncodeInv => StreamFits
  BY DEF EncodeInv, RoomInv, StreamFits
<1> QED
  BY <1>1, AlwaysEncodeInv, PTL DEF FallbackFits

----------------------------------------------------------------------------
(* What the triples stand for: parts of a text, and bytes that repeat       *)
(* earlier ones.                                                           *)

(* A part of a sequence, and one sequence behind another.                  *)
LEMMA Part ==
  ASSUME NEW S, NEW s \in Seq(S), NEW m \in Nat, NEW n \in Nat, m + n <= Len(s)
  PROVE  /\ SubSeq(s, m + 1, m + n) \in Seq(S) /\ Len(SubSeq(s, m + 1, m + n)) = n
         /\ \A i \in 1 .. n : SubSeq(s, m + 1, m + n)[i] = s[m + i]
<1> DEFINE u == m + 1
           v == m + n
<1>1. Len(s) \in Nat
  BY LenProperties
<1>2. u \in Int /\ v \in Int
  OBVIOUS
<1>3. \A i \in u .. v : s[i] \in S
  BY <1>1, ElementOfSeq
<1>4. v - u + 1 = n /\ (u <= v <=> n >= 1) /\ \A i \in 1 .. n : u + i - 1 = m + i
  OBVIOUS
<1> HIDE DEF u, v
<1>5. /\ SubSeq(s, u, v) \in Seq(S)
      /\ Len(SubSeq(s, u, v)) = IF u <= v THEN v - u + 1 ELSE 0
      /\ \A i \in 1 .. v - u + 1 : SubSeq(s, u, v)[i] = s[u + i - 1]
  BY <1>2, <1>3, SubSeqProperties
<1>6. Len(SubSeq(s, u, v)) = n
  BY <1>4, <1>5
<1>7. \A i \in 1 .. n : SubSeq(s, u, v)[i] = s[m + i]
  BY <1>4, <1>5
<1> QED
  BY <1>5, <1>6, <1>7 DEF u, v

LEMMA FirstPart ==
  ASSUME NEW S, NEW s \in Seq(S), NEW n \in Nat, n <= Len(s)
  PROVE  /\ SubSeq(s, 1, n) \in Seq(S) /\ Len(SubSeq(s, 1, n)) = n
         /\ \A i \in 1 .. n : SubSeq(s, 1, n)[i] = s[i]
<1>1. 0 + n <= Len(s) /\ 0 + 1 = 1 /\ 0 + n = n /\ \A i \in 1 .. n : 0 + i = i
  OBVIOUS
<1>2. /\ SubSeq(s, 0 + 1, 0 + n) \in Seq(S) /\ Len(SubSeq(s, 0 + 1, 0 + n)) = n
      /\ \A i \in 1 .. n : SubSeq(s, 0 + 1, 0 + n)[i] = s[0 + i]
  BY <1>1, Part
<1> QED
  BY <1>1, <1>2

LEMMA Joined ==
  ASSUME NEW S, NEW s \in Seq(S), NEW u \in Seq(S)
  PROVE  /\ s \o u \in Seq(S) /\ Len(s \o u) = Len(s) + Len(u)
         /\ \A i \in 1 .. Len(s) : (s \o u)[i] = s[i]
         /\ \A i \in 1 .. Len(u) : (s \o u)[Len(s) + i] = u[i]
<1>1. /\ s \o u \in Seq(S) /\ Len(s \o u) = Len(s) + Len(u)
      /\ \A i \in 1 .. Len(s) + Len(u) : (s \o u)[i] = IF i <= Len(s) THEN s[i] ELSE u[i - Len(s)]
  BY ConcatProperties
<1>2. PICK m \in Nat : m = Len(s)
  BY LenProperties
<1>3. PICK n \in Nat : n = Len(u)
  BY LenProperties
<1>4. ASSUME NEW i \in 1 .. n PROVE (s \o u)[m + i] = u[i]
  <2>1. m + i \in 1 .. m + n /\ ~(m + i <= m) /\ (m + i) - m = i
    OBVIOUS
  <2> QED
    BY <1>1, <1>2, <1>3, <2>1
<1>5. ASSUME NEW i \in 1 .. m PROVE (s \o u)[i] = s[i]
  <2>1. i \in 1 .. m + n /\ i <= m
    OBVIOUS
  <2> QED
    BY <1>1, <1>2, <1>3, <2>1
<1> QED
  BY <1>1, <1>2, <1>3, <1>4, <1>5

(* The n elements of s are those of t behind the m-th.                     *)
Agrees(s, t, m, n) == \A i \in 1 .. n : s[i] = t[m + i]

(* Each of the m elements of t behind the p-th repeats the one d before.   *)
Repeats(t, p, d, m) == \A j \in 1 .. m : t[p + j] = t[p + j - d]

(* A triple tells the bytes of t from behind a to b, with literals from    *)
(* behind l to k.                                                          *)
Tells(p, lits, a, b, l, k, t) ==
  /\ p \in Triple /\ 1 <= p.D
  /\ b = a + p.L + p.M /\ b <= Len(t)
  /\ k = l + p.L
  /\ \A j \in 1 .. p.L : lits[l + j] = t[a + j]
  /\ Repeats(t, a + p.L, p.D, p.M)
  /\ p.M > 0 => p.D <= a + p.L

(* A sequence of the elements of t, in two parts.                          *)
LEMMA TwoParts ==
  ASSUME NEW S, NEW t \in Seq(S), NEW s \in Seq(S), NEW u \in Seq(S),
         Len(s) + Len(u) <= Len(t), Agrees(s, t, 0, Len(s)), Agrees(u, t, Len(s), Len(u))
  PROVE  s \o u = SubSeq(t, 1, Len(s) + Len(u))
<1>1. PICK m \in Nat : m = Len(s)
  BY LenProperties
<1>2. PICK n \in Nat : n = Len(u)
  BY LenProperties
<1>3. (\A i \in 1 .. m : s[i] = t[i]) /\ \A i \in 1 .. n : u[i] = t[m + i]
  <2>1. (\A i \in 1 .. m : s[i] = t[0 + i]) /\ \A i \in 1 .. n : u[i] = t[m + i]
    BY <1>1, <1>2 DEF Agrees
  <2>2. \A i \in 1 .. m : 0 + i = i
    OBVIOUS
  <2> QED
    BY <2>1, <2>2
<1>4. /\ s \o u \in Seq(S) /\ Len(s \o u) = m + n
      /\ \A i \in 1 .. m : (s \o u)[i] = s[i]
      /\ \A i \in 1 .. n : (s \o u)[m + i] = u[i]
  BY <1>1, <1>2, Joined
<1>5. /\ SubSeq(t, 1, m + n) \in Seq(S) /\ Len(SubSeq(t, 1, m + n)) = m + n
      /\ \A i \in 1 .. m + n : SubSeq(t, 1, m + n)[i] = t[i]
  <2>1. m + n \in Nat /\ m + n <= Len(t)
    BY <1>1, <1>2
  <2> QED
    BY <2>1, FirstPart
<1>6. ASSUME NEW i \in 1 .. m + n PROVE (s \o u)[i] = t[i]
  <2>a. i \in Nat
    OBVIOUS
  <2>1. CASE i <= m
    BY <1>3, <1>4, <2>1
  <2>2. CASE ~(i <= m)
    <3>1. i - m \in 1 .. n /\ m + (i - m) = i
      BY <1>1, <2>a, <2>2
    <3>2. (s \o u)[m + (i - m)] = u[i - m] /\ u[i - m] = t[m + (i - m)]
      BY <1>3, <1>4, <3>1
    <3> QED
      BY <3>1, <3>2
  <2> QED
    BY <2>1, <2>2
<1>7. \A i \in 1 .. Len(s \o u) : (s \o u)[i] = SubSeq(t, 1, m + n)[i]
  BY <1>4, <1>5, <1>6
<1>8. s \o u = SubSeq(t, 1, m + n)
  BY <1>4, <1>5, <1>7, SeqEqual
<1> QED
  BY <1>1, <1>2, <1>8

LEMMA Quotient ==
  ASSUME NEW x \in Nat, NEW d \in Nat, 1 <= d
  PROVE  /\ x % d \in Nat /\ x % d < d /\ x \div d \in Nat
         /\ x = d * (x \div d) + (x % d)
<1>1. x % d \in Nat /\ x % d < d
  OBVIOUS
<1>2. x \div d \in Nat
  OBVIOUS
<1>3. x = d * (x \div d) + (x % d)
  OBVIOUS
<1> QED
  BY <1>1, <1>2, <1>3
LEMMA Times ==
  ASSUME NEW d \in Nat, NEW q \in Nat, NEW w \in Nat, q < w
  PROVE  d * q + d <= d * w
<1>1. PICK e \in Nat : w = q + 1 + e
  <2>1. w - q - 1 \in Nat /\ w = q + 1 + (w - q - 1)
    OBVIOUS
  <2> QED
    BY <2>1
<1>2. d * w = d * q + d + d * e
  BY <1>1
<1>3. d * e \in Nat /\ d * q \in Nat
  OBVIOUS
<1> QED
  BY <1>2, <1>3
LEMMA Remainder ==
  ASSUME NEW x \in Nat, NEW d \in Nat, 1 <= d, x >= d
  PROVE  x % d = (x - d) % d
<1>1. x - d \in Nat
  OBVIOUS
<1>b. /\ x % d \in Nat /\ x % d < d /\ x \div d \in Nat
      /\ x = d * (x \div d) + (x % d)
  BY Quotient
<1>c. /\ (x - d) % d \in Nat /\ (x - d) % d < d /\ (x - d) \div d \in Nat
      /\ x - d = d * ((x - d) \div d) + ((x - d) % d)
  BY <1>1, Quotient
<1>2. PICK q \in Nat, r \in Nat : r = x % d /\ r < d /\ x = d * q + r
  BY <1>b
<1>3. PICK w \in Nat, s \in Nat : s = (x - d) % d /\ s < d /\ x - d = d * w + s
  BY <1>c
<1>a. d * q \in Nat /\ d * w \in Nat
  OBVIOUS
<1>4. PICK a \in Nat : a = d * q
  BY <1>a
<1>5. PICK b \in Nat : b = d * w
  BY <1>a
<1>6. d * (w + 1) = b + d
  BY <1>5
<1>7. x = a + r /\ x = b + d + s
  BY <1>2, <1>3, <1>4, <1>5
<1>8. ~(q < w + 1)
  <2>1. q < w + 1 => a + d <= b + d
    BY <1>4, <1>6, Times
  <2> QED
    BY <1>2, <1>3, <1>7, <2>1
<1>9. ~(w + 1 < q)
  <2>1. w + 1 < q => b + d + d <= a
    BY <1>4, <1>6, Times
  <2> QED
    BY <1>2, <1>3, <1>7, <2>1
<1>10. a = b + d
  <2>1. q = w + 1
    BY <1>8, <1>9
  <2> QED
    BY <1>4, <1>6, <2>1
<1> QED
  BY <1>2, <1>3, <1>7, <1>10
(* Bytes that each repeat the one d before repeat the d bytes before them. *)
LEMMA Repeating ==
  ASSUME NEW t, NEW d \in Nat, 1 <= d, NEW p \in Nat, NEW m \in Nat,
         Repeats(t, p, d, m)
  PROVE  \A i \in 1 .. m : t[p + i] = t[p - d + 1 + ((i - 1) % d)]
<1> DEFINE Same(i) == t[p + i] = t[p - d + 1 + ((i - 1) % d)]
           T == {i \in 1 .. m : ~Same(i)}
<1>1. ASSUME T # {} PROVE FALSE
  <2>1. T \in SUBSET Nat
    OBVIOUS
  <2>2. PICK i \in T : \A j \in T : i <= j
    BY <1>1, <2>1, LeastElement
  <2>3. i \in Nat /\ 1 <= i /\ i <= m /\ t[p + i] # t[p - d + 1 + ((i - 1) % d)]
    BY <2>2
  <2>4. t[p + i] = t[p + i - d]
    BY <2>3 DEF Repeats
  <2>5. PICK x \in Nat : x = i - 1
    BY <2>3
  <2>6. CASE x < d
    <3>1. x % d = x
      BY <2>6
    <3>2. p - d + 1 + x = p + i - d
      BY <2>3, <2>5
    <3> QED
      BY <2>3, <2>4, <2>5, <3>1, <3>2
  <2>7. CASE x >= d
    <3>1. PICK k \in Nat : k = i - d
      BY <2>3, <2>5, <2>7
    <3>2. k \in 1 .. m /\ k < i /\ k - 1 = x - d /\ p + k = p + i - d
      BY <2>3, <2>5, <2>7, <3>1
    <3>3. k \notin T
      BY <2>2, <2>3, <3>2
    <3>4. t[p + k] = t[p - d + 1 + ((k - 1) % d)]
      BY <3>2, <3>3
    <3>5. x % d = (x - d) % d
      BY <2>7, Remainder
    <3>6. t[p + k] = t[p - d + 1 + (x % d)]
      BY <3>2, <3>4, <3>5
    <3> QED
      BY <2>3, <2>4, <2>5, <3>2, <3>6
  <2> QED
    BY <2>6, <2>7
<1>2. T = {}
  BY <1>1
<1> HIDE DEF Same
<1>3. \A i \in 1 .. m : Same(i)
  BY <1>2
<1> QED
  BY <1>3 DEF Same

(* The first a bytes of t, told with l literals.                           *)
SoFar(t, a, l) == [out |-> SubSeq(t, 1, a), lit |-> l]

(* Such bytes behind the first a of t are what a triple is replayed to.    *)
LEMMA ToldIs ==
  ASSUME NEW S, NEW t \in Seq(S), NEW lits \in Seq(S), NEW p,
         NEW a \in Nat, NEW b \in Nat, NEW l \in Nat, NEW k \in Nat, k <= Len(lits),
         Tells(p, lits, a, b, l, k, t)
  PROVE  Told(SoFar(t, a, l), p, lits) = SoFar(t, b, k)
<1>1. /\ p.L \in Nat /\ p.M \in Nat /\ p.D \in Nat /\ 1 <= p.D
      /\ b = a + p.L + p.M /\ b <= Len(t) /\ k = l + p.L
      /\ \A j \in 1 .. p.L : lits[l + j] = t[a + j]
      /\ Repeats(t, a + p.L, p.D, p.M)
      /\ p.M > 0 => p.D <= a + p.L
  BY DEF Tells, Triple
<1>a. PICK L \in Nat : L = p.L
  BY <1>1
<1>b. PICK M \in Nat : M = p.M
  BY <1>1
<1>c. PICK D \in Nat : D = p.D
  BY <1>1
<1>d. PICK c \in Nat : c = a + L
  OBVIOUS
<1>2. /\ b = c + M /\ b <= Len(t) /\ k = l + L /\ 1 <= D
      /\ \A j \in 1 .. L : lits[l + j] = t[a + j]
      /\ Repeats(t, c, D, M)
      /\ M > 0 => D <= c
  BY <1>1, <1>a, <1>b, <1>c, <1>d
<1> DEFINE head == SubSeq(t, 1, a)
           taken == SubSeq(lits, l + 1, l + L)
           front == SubSeq(t, 1, c)
           copied == [i \in 1 .. M |-> front[Len(front) - D + 1 + ((i - 1) % D)]]
<1>3. Len(t) \in Nat /\ a <= Len(t) /\ c <= Len(t) /\ a + L <= Len(t) /\ l + L <= Len(lits)
      /\ c + M <= Len(t)
  BY <1>2, <1>d, LenProperties
<1>4. head \in Seq(S) /\ Len(head) = a /\ \A i \in 1 .. a : head[i] = t[i]
  BY <1>3, FirstPart
<1>5. front \in Seq(S) /\ Len(front) = c /\ \A i \in 1 .. c : front[i] = t[i]
  BY <1>3, FirstPart
<1>6. taken \in Seq(S) /\ Len(taken) = L /\ \A i \in 1 .. L : taken[i] = lits[l + i]
  BY <1>3, Part
<1>7. head \o taken = front
  <2>1. Agrees(head, t, 0, a) /\ Agrees(taken, t, a, L)
    <3>1. \A i \in 1 .. a : 0 + i = i
      OBVIOUS
    <3> QED
      BY <1>2, <1>4, <1>6, <3>1 DEF Agrees
  <2>2. head \o taken = SubSeq(t, 1, a + L)
    <3> HIDE DEF head, taken, front, copied
    <3> QED
      BY <1>3, <1>4, <1>6, <2>1, TwoParts
  <2> QED
    BY <1>d, <2>2
<1>8. copied \in [1 .. M -> S] /\ \A i \in 1 .. M : copied[i] = t[c + i]
  <2>a. 1 <= D /\ Repeats(t, c, D, M)
    BY <1>2
  <2>b. \A i \in 1 .. M : t[c + i] = t[c - D + 1 + ((i - 1) % D)]
    <3> HIDE DEF front, copied
    <3> QED
      BY <2>a, Repeating
  <2>1. ASSUME NEW i \in 1 .. M
        PROVE  /\ front[c - D + 1 + ((i - 1) % D)] = t[c + i]
               /\ t[c + i] \in S
    <3>1. D <= c /\ 1 <= D
      BY <1>2
    <3>3. t[c + i] = t[c - D + 1 + ((i - 1) % D)]
      BY <2>b
    <3>4. PICK x \in Nat : x = i - 1
      OBVIOUS
    <3>5. x % D \in Nat /\ x % D < D
      BY <3>1, Quotient
    <3>6. PICK r \in Nat : r = x % D /\ r < D
      BY <3>5
    <3>7. c - D + 1 + r \in 1 .. c
      BY <3>1, <3>6
    <3>8. front[c - D + 1 + r] = t[c - D + 1 + r]
      BY <1>5, <3>7
    <3>9. c + i \in 1 .. Len(t)
      BY <1>3
    <3>10. t[c + i] \in S
      BY <3>9, ElementOfSeq
    <3> QED
      BY <3>3, <3>4, <3>6, <3>8, <3>10
  <2>2. copied = [i \in 1 .. M |-> front[c - D + 1 + ((i - 1) % D)]]
    BY <1>5
  <2> HIDE DEF front, copied
  <2> QED
    BY <2>1, <2>2
<1> HIDE DEF copied
<1>9. copied \in Seq(S) /\ Len(copied) = M
  BY <1>8, LenProperties, FunctionSeq
<1>10. front \o copied = SubSeq(t, 1, b)
  <2>1. front \o copied = SubSeq(t, 1, c + M)
    <3> HIDE DEF head, taken, front, copied
    <3>1. \A i \in 1 .. c : 0 + i = i
      OBVIOUS
    <3>2. Agrees(front, t, 0, c) /\ Agrees(copied, t, c, M)
      BY <1>5, <1>8, <3>1 DEF Agrees
    <3> QED
      BY <1>3, <1>5, <1>9, <3>2, TwoParts
  <2> QED
    BY <1>2, <2>1
<1> HIDE DEF head, taken, front
<1>11. [i \in 1 .. M |-> (head \o taken)[Len(head \o taken) - D + 1 + ((i - 1) % D)]] = copied
  BY <1>7 DEF copied
<1>12. Told([out |-> head, lit |-> l], p, lits) = [out |-> (head \o taken) \o copied, lit |-> l + L]
  BY <1>11, <1>a, <1>b, <1>c DEF Told, taken
<1> QED
  BY <1>2, <1>7, <1>10, <1>12 DEF head, SoFar

(* Two functions that begin alike and of which neither ever goes its own   *)
(* way.                                                                    *)
GoTogether(f, g, n) ==
  /\ f[0] = g[0]
  /\ \A i \in 1 .. n : f[i - 1] = g[i - 1] => f[i] = g[i]

LEMMA NoneDiffers ==
  ASSUME NEW n \in Nat, NEW f, NEW g, GoTogether(f, g, n)
  PROVE  \A i \in 0 .. n : f[i] = g[i]
<1> DEFINE T == {i \in 0 .. n : f[i] # g[i]}
<1>1. ASSUME T # {} PROVE FALSE
  <2>1. T \in SUBSET Nat
    OBVIOUS
  <2>2. PICK i \in T : \A j \in T : i <= j
    BY <1>1, <2>1, LeastElement
  <2>3. i \in Nat /\ i <= n /\ f[i] # g[i]
    BY <2>2
  <2>4. i # 0
    BY <2>3 DEF GoTogether
  <2>5. PICK k \in Nat : i = k + 1
    <3>1. i - 1 \in Nat /\ i = (i - 1) + 1
      BY <2>3, <2>4
    <3> QED
      BY <3>1
  <2>6. k \in 0 .. n /\ ~(i <= k) /\ i \in 1 .. n /\ i - 1 = k
    BY <2>3, <2>5
  <2>7. f[k] = g[k]
    BY <2>2, <2>6
  <2> QED
    BY <2>3, <2>6, <2>7 DEF GoTogether
<1>2. T = {}
  BY <1>1
<1> QED
  BY <1>2

(* Where each of the triples ts ends in t (a), and where its literals end  *)
(* among lits (l).                                                         *)
Trace(ts, lits, a, l, t) ==
  /\ a \in [0 .. Len(ts) -> Nat] /\ l \in [0 .. Len(ts) -> Nat]
  /\ l[0] = 0 /\ a[0] <= Len(t)
  /\ \A j \in 0 .. Len(ts) : \A i \in 0 .. j : l[i] <= l[j]
  /\ \A i \in 1 .. Len(ts) : Tells(ts[i], lits, a[i - 1], a[i], l[i - 1], l[i], t)

LEMMA ReplayIs ==
  ASSUME NEW S, NEW t \in Seq(S), NEW lits \in Seq(S), NEW ts \in Seq(Triple),
         NEW a, NEW l, Trace(ts, lits, a, l, t), l[Len(ts)] <= Len(lits)
  PROVE  Replay(SubSeq(t, 1, a[0]), ts, lits) = SubSeq(t, 1, a[Len(ts)])
<1> DEFINE f == [i \in 0 .. Len(ts) |-> [out |-> SubSeq(t, 1, a[i]), lit |-> l[i]]]
           Step(g) == [i \in 0 .. Len(ts) |->
                         IF i = 0 THEN [out |-> SubSeq(t, 1, a[0]), lit |-> 0]
                         ELSE Told(g[i - 1], ts[i], lits)]
           told == CHOOSE g : g = Step(g)
<1>1. /\ a \in [0 .. Len(ts) -> Nat] /\ l \in [0 .. Len(ts) -> Nat] /\ l[0] = 0
      /\ \A j \in 0 .. Len(ts) : \A i \in 0 .. j : l[i] <= l[j]
      /\ \A i \in 1 .. Len(ts) : Tells(ts[i], lits, a[i - 1], a[i], l[i - 1], l[i], t)
  BY DEF Trace
<1>2. PICK n \in Nat : n = Len(ts)
  BY LenProperties
<1>3. Len(lits) \in Nat
  BY LenProperties
<1>4. ASSUME NEW i \in 1 .. n
      PROVE  Told(f[i - 1], ts[i], lits) = f[i]
  <2>1. i \in 0 .. n /\ i - 1 \in 0 .. n
    BY <1>2
  <2>2. /\ a[i - 1] \in Nat /\ a[i] \in Nat /\ l[i - 1] \in Nat /\ l[i] \in Nat
        /\ l[n] \in Nat /\ l[i] <= l[n]
        /\ Tells(ts[i], lits, a[i - 1], a[i], l[i - 1], l[i], t)
    <3>1. n \in 0 .. n
      BY <1>2
    <3>2. l[i] <= l[n]
      BY <1>1, <1>2, <2>1, <3>1
    <3> QED
      BY <1>1, <1>2, <2>1, <3>1, <3>2
  <2>3. l[i] <= Len(lits)
    BY <1>2, <1>3, <2>2
  <2>4. /\ f[i - 1] = [out |-> SubSeq(t, 1, a[i - 1]), lit |-> l[i - 1]]
        /\ f[i] = [out |-> SubSeq(t, 1, a[i]), lit |-> l[i]]
    BY <1>2, <2>1
  <2> HIDE DEF f
  <2>5. PICK x \in Nat : x = a[i - 1]
    BY <2>2
  <2>6. PICK y \in Nat : y = a[i]
    BY <2>2
  <2>7. PICK p \in Nat : p = l[i - 1]
    BY <2>2
  <2>8. PICK q \in Nat : q = l[i]
    BY <2>2
  <2>9. q <= Len(lits) /\ Tells(ts[i], lits, x, y, p, q, t)
    BY <2>2, <2>3, <2>5, <2>6, <2>7, <2>8
  <2>10. Told(SoFar(t, x, p), ts[i], lits) = SoFar(t, y, q)
    BY <2>5, <2>6, <2>7, <2>8, <2>9, ToldIs
  <2> QED
    BY <2>4, <2>5, <2>6, <2>7, <2>8, <2>10 DEF SoFar
<1>5. f = Step(f)
  <2>1. f[0] = [out |-> SubSeq(t, 1, a[0]), lit |-> 0]
    <3>1. 0 \in 0 .. Len(ts)
      BY <1>2
    <3> QED
      BY <1>1, <3>1
  <2>2. f = [i \in 0 .. Len(ts) |-> f[i]]
    OBVIOUS
  <2> HIDE DEF f
  <2>3. ASSUME NEW i \in 0 .. Len(ts)
        PROVE  f[i] = IF i = 0 THEN [out |-> SubSeq(t, 1, a[0]), lit |-> 0]
                      ELSE Told(f[i - 1], ts[i], lits)
    <3>1. CASE i = 0
      BY <2>1, <3>1
    <3>2. CASE i # 0
      <4>1. i \in 1 .. n
        BY <1>2, <3>2
      <4> QED
        BY <1>4, <3>2, <4>1
    <3> QED
      BY <3>1, <3>2
  <2> QED
    BY <2>2, <2>3
<1>6. told = Step(told)
  <2> HIDE DEF Step, f
  <2> QED
    BY <1>5
<1>7. told[0] = f[0]
  <2>1. 0 \in 0 .. Len(ts)
    BY <1>2
  <2>2. f[0] = [out |-> SubSeq(t, 1, a[0]), lit |-> 0]
    BY <1>1, <2>1
  <2> HIDE DEF told, f
  <2> QED
    BY <1>6, <2>1, <2>2
<1>8. \A i \in 1 .. n : told[i] = Told(told[i - 1], ts[i], lits)
  <2> HIDE DEF told
  <2>1. ASSUME NEW i \in 1 .. n PROVE told[i] = Told(told[i - 1], ts[i], lits)
    <3>1. i \in 0 .. Len(ts) /\ i # 0
      BY <1>2
    <3> QED
      BY <1>6, <3>1
  <2> QED
    BY <2>1
<1>9. \A i \in 0 .. n : told[i] = f[i]
  <2> HIDE DEF told, f
  <2>1. \A i \in 1 .. n : told[i - 1] = f[i - 1] => told[i] = f[i]
    BY <1>4, <1>8
  <2>2. GoTogether(told, f, n)
    BY <1>7, <2>1 DEF GoTogether
  <2> QED
    BY <2>2, NoneDiffers
<1>10. told[Len(ts)].out = SubSeq(t, 1, a[Len(ts)])
  <2>1. n \in 0 .. n /\ n = Len(ts)
    BY <1>2
  <2>2. f[n].out = SubSeq(t, 1, a[n])
    BY <2>1
  <2> HIDE DEF told, f
  <2> QED
    BY <1>9, <2>1, <2>2
<1> QED
  BY <1>10 DEF Replay

----------------------------------------------------------------------------
(* What the blocks stand for.                                              *)

(* d_prev after n triples.                                                 *)
LEMMA LastIs ==
  ASSUME NEW q, NEW k \in Nat
  PROVE  /\ LastDistance(q, 0) = 0
         /\ q[k + 1].D # 0 => LastDistance(q, k + 1) = q[k + 1].D
         /\ q[k + 1].D = 0 => LastDistance(q, k + 1) = LastDistance(q, k)
<1> DEFINE told(n) == {i \in 1 .. n : q[i].D # 0}
           Latest(T) == IF T = {} THEN 0 ELSE q[CHOOSE i \in T : \A j \in T : j <= i].D
<1>1. LastDistance(q, 0) = 0
  <2>1. told(0) = {}
    OBVIOUS
  <2> QED
    BY <2>1 DEF LastDistance
<1>2. ASSUME q[k + 1].D # 0 PROVE LastDistance(q, k + 1) = q[k + 1].D
  <2>1. k + 1 \in told(k + 1) /\ \A j \in told(k + 1) : j <= k + 1
    BY <1>2
  <2>2. \A i \in told(k + 1) : (\A j \in told(k + 1) : j <= i) => i = k + 1
    BY <2>1
  <2> DEFINE T == told(k + 1)
  <2>3. LastDistance(q, k + 1) = IF T = {} THEN 0 ELSE q[CHOOSE i \in T : \A j \in T : j <= i].D
    BY DEF LastDistance
  <2> HIDE DEF told
  <2>4. (CHOOSE i \in T : \A j \in T : j <= i) = k + 1
    BY <2>1, <2>2
  <2> QED
    BY <2>1, <2>3, <2>4
<1>3. ASSUME q[k + 1].D = 0 PROVE LastDistance(q, k + 1) = LastDistance(q, k)
  <2>1. told(k + 1) = told(k)
    BY <1>3
  <2>2. LastDistance(q, k + 1) = Latest(told(k + 1)) /\ LastDistance(q, k) = Latest(told(k))
    BY DEF LastDistance
  <2> HIDE DEF told, Latest
  <2> QED
    BY <2>1, <2>2
<1> QED
  BY <1>1, <1>2, <1>3

LEMMA DistancesRestored ==
  ASSUME NEW ts \in Seq(Triple), \A i \in 1 .. Len(ts) : ts[i].D >= 1
  PROVE  RestoreDistances(EncodeDistances(ts)) = ts
<1> DEFINE e == EncodeDistances(ts)
           f == [k \in 0 .. Len(ts) |-> LastDistance(e, k)]
           g == [k \in 0 .. Len(ts) |-> LastDistance(ts, k)]
<1>1. PICK n \in Nat : n = Len(ts) /\ DOMAIN ts = 1 .. n /\ ts \in [1 .. n -> Triple]
  BY LenProperties
<1>2. ASSUME NEW i \in 1 .. n
      PROVE  ts[i] \in Triple /\ ts[i].D \in Nat /\ ts[i].D >= 1
  BY <1>1 DEF Triple
<1>3. DOMAIN e = 1 .. n
  BY <1>1 DEF EncodeDistances
<1>4. ASSUME NEW i \in 1 .. n
      PROVE  e[i] = IF ts[i].D = LastDistance(ts, i - 1) THEN [ts[i] EXCEPT !.D = 0] ELSE ts[i]
  BY <1>1 DEF EncodeDistances
<1> HIDE DEF e
<1>5. \A k \in 0 .. n : f[k] = LastDistance(e, k) /\ g[k] = LastDistance(ts, k)
  BY <1>1
<1> HIDE DEF f, g
<1>6. ASSUME NEW i \in 1 .. n, f[i - 1] = g[i - 1]
      PROVE  f[i] = g[i]
  <2>1. PICK k \in Nat : i = k + 1 /\ k \in 0 .. n /\ i \in 0 .. n
    <3>1. i - 1 \in Nat /\ i = (i - 1) + 1 /\ i - 1 \in 0 .. n /\ i \in 0 .. n
      BY <1>1
    <3> QED
      BY <3>1
  <2>2. i - 1 = k
    BY <2>1
  <2>3. LastDistance(ts, i) = ts[i].D
    <3>1. ts[k + 1].D # 0
      BY <1>2, <2>1
    <3>2. LastDistance(ts, k + 1) = ts[k + 1].D
      BY <2>1, <3>1, LastIs
    <3> QED
      BY <2>1, <3>2
  <2>4. CASE ts[i].D = LastDistance(ts, k)
    <3>1. e[i].D = 0
      BY <1>2, <1>4, <2>2, <2>4 DEF Triple
    <3>2. LastDistance(e, i) = LastDistance(e, k)
      BY <2>1, <3>1, LastIs
    <3> QED
      BY <1>5, <1>6, <2>1, <2>2, <2>3, <2>4, <3>2
  <2>5. CASE ts[i].D # LastDistance(ts, k)
    <3>1. e[i] = ts[i] /\ e[i].D # 0
      <4>1. ts[i].D # 0
        BY <1>2
      <4>2. e[i] = ts[i]
        BY <1>4, <2>2, <2>5
      <4> QED
        BY <4>1, <4>2
    <3>2. LastDistance(e, i) = e[i].D
      BY <2>1, <3>1, LastIs
    <3> QED
      BY <1>5, <2>1, <2>3, <3>1, <3>2
  <2> QED
    BY <2>4, <2>5
<1>7. \A k \in 0 .. n : f[k] = g[k]
  <2>1. f[0] = g[0]
    <3>1. 0 \in 0 .. n /\ 0 \in Nat
      BY <1>1
    <3>2. LastDistance(e, 0) = 0 /\ LastDistance(ts, 0) = 0
      BY <3>1, LastIs
    <3> QED
      BY <1>5, <3>1, <3>2
  <2>2. GoTogether(f, g, n)
    BY <1>6, <2>1 DEF GoTogether
  <2> QED
    BY <1>1, <2>2, NoneDiffers
<1>8. ASSUME NEW i \in 1 .. n
      PROVE  (IF e[i].D = 0 THEN [e[i] EXCEPT !.D = LastDistance(e, i - 1)] ELSE e[i]) = ts[i]
  <2>1. i - 1 \in 0 .. n
    BY <1>1
  <2>2. LastDistance(e, i - 1) = LastDistance(ts, i - 1)
    BY <1>5, <1>7, <2>1
  <2>3. CASE ts[i].D = LastDistance(ts, i - 1)
    <3>1. e[i] = [ts[i] EXCEPT !.D = 0]
      BY <1>4, <2>3
    <3>2. ts[i] \in Triple
      BY <1>2
    <3>3. e[i].D = 0
      BY <3>1, <3>2 DEF Triple
    <3>4. [e[i] EXCEPT !.D = ts[i].D] = ts[i]
      BY <3>1, <3>2 DEF Triple
    <3> QED
      BY <2>2, <2>3, <3>3, <3>4
  <2>4. CASE ts[i].D # LastDistance(ts, i - 1)
    <3>1. e[i] = ts[i] /\ e[i].D # 0
      <4>1. ts[i].D # 0
        BY <1>2
      <4>2. e[i] = ts[i]
        BY <1>4, <2>4
      <4> QED
        BY <4>1, <4>2
    <3> QED
      BY <3>1
  <2> QED
    BY <2>3, <2>4
<1>9. RestoreDistances(e) = [i \in 1 .. n |-> ts[i]]
  BY <1>3, <1>8 DEF RestoreDistances
<1>10. ts = [i \in 1 .. n |-> ts[i]]
  BY <1>1
<1> QED
  BY <1>9, <1>10 DEF e

(* The triples tell the bytes of t from behind from to to, with as many    *)
(* literals as used says.                                                  *)
Tale(ts, lits, from, to, used, t) ==
  \E a, l \in [0 .. Len(ts) -> Nat] :
    /\ Trace(ts, lits, a, l, t)
    /\ a[0] = from /\ a[Len(ts)] = to /\ l[Len(ts)] = used

LEMMA TaleReplayed ==
  ASSUME NEW S, NEW t \in Seq(S), NEW lits \in Seq(S), NEW ts \in Seq(Triple),
         NEW from, NEW to, NEW used, used <= Len(lits), Tale(ts, lits, from, to, used, t)
  PROVE  Replay(SubSeq(t, 1, from), ts, lits) = SubSeq(t, 1, to)
<1>1. PICK a \in [0 .. Len(ts) -> Nat], l \in [0 .. Len(ts) -> Nat] :
        /\ Trace(ts, lits, a, l, t)
        /\ a[0] = from /\ a[Len(ts)] = to /\ l[Len(ts)] = used
  BY DEF Tale
<1>2. Trace(ts, lits, a, l, t) /\ l[Len(ts)] <= Len(lits)
  BY <1>1
<1>3. Replay(SubSeq(t, 1, a[0]), ts, lits) = SubSeq(t, 1, a[Len(ts)])
  BY <1>2, ReplayIs
<1> QED
  BY <1>1, <1>3

(* A compressed block tells the bytes of t from behind from to to.         *)
BlockTells(b, from, to, t) ==
  /\ RestoreDistances(b.triples) \in Seq(Triple)
  /\ b.literals \in Seq(0 .. 255)
  /\ \E used \in Nat : /\ used <= Len(b.literals)
                       /\ Tale(RestoreDistances(b.triples), b.literals, from, to, used, t)

(* Where what each of the bytes of a stream begins ends in t.              *)
WrittenTo(q, w, t) ==
  /\ w \in [0 .. Len(q) -> Nat] /\ w[0] = 0
  /\ \A i \in 1 .. Len(q) :
       IF q[i].magic # "bvx2" THEN w[i] = w[i - 1] ELSE BlockTells(q[i], w[i - 1], w[i], t)

LEMMA WrittenIs ==
  ASSUME NEW t \in Seq(0 .. 255), NEW q, Len(q) \in Nat, NEW w, WrittenTo(q, w, t)
  PROVE  Written(q) = SubSeq(t, 1, w[Len(q)])
<1> DEFINE f == [i \in 0 .. Len(q) |-> SubSeq(t, 1, w[i])]
           Step(g) == [i \in 0 .. Len(q) |-> IF i = 0 THEN <<>>
                          ELSE IF q[i].magic # "bvx2" THEN g[i - 1]
                          ELSE Replay(g[i - 1], RestoreDistances(q[i].triples), q[i].literals)]
           written == CHOOSE g : g = Step(g)
<1>1. /\ w[0] = 0
      /\ \A i \in 1 .. Len(q) :
           IF q[i].magic # "bvx2" THEN w[i] = w[i - 1] ELSE BlockTells(q[i], w[i - 1], w[i], t)
  BY DEF WrittenTo
<1>2. PICK n \in Nat : n = Len(q)
  OBVIOUS
<1>3. \A i \in 0 .. n : f[i] = SubSeq(t, 1, w[i])
  BY <1>2
<1>4. f[0] = <<>>
  <2>1. 0 \in 0 .. n /\ 0 < 1 /\ 0 \in Int /\ 1 \in Int
    BY <1>2
  <2>2. SubSeq(t, 1, 0) = <<>>
    BY <2>1, SubSeqEmpty
  <2> QED
    BY <1>1, <1>3, <2>1, <2>2
<1>5. ASSUME NEW i \in 1 .. n
      PROVE  f[i] = IF q[i].magic # "bvx2" THEN f[i - 1]
                    ELSE Replay(f[i - 1], RestoreDistances(q[i].triples), q[i].literals)
  <2>1. i \in 0 .. n /\ i - 1 \in 0 .. n /\ i \in 1 .. Len(q)
    BY <1>2
  <2>2. f[i] = SubSeq(t, 1, w[i]) /\ f[i - 1] = SubSeq(t, 1, w[i - 1])
    BY <1>3, <2>1
  <2> HIDE DEF f
  <2>3. CASE q[i].magic # "bvx2"
    BY <1>1, <2>1, <2>2, <2>3
  <2>4. CASE q[i].magic = "bvx2"
    <3>1. BlockTells(q[i], w[i - 1], w[i], t)
      BY <1>1, <2>1, <2>4
    <3>2. RestoreDistances(q[i].triples) \in Seq(Triple) /\ q[i].literals \in Seq(0 .. 255)
      BY <3>1 DEF BlockTells
    <3>3. PICK used \in Nat : /\ used <= Len(q[i].literals)
                              /\ Tale(RestoreDistances(q[i].triples), q[i].literals,
                                      w[i - 1], w[i], used, t)
      BY <3>1 DEF BlockTells
    <3>4. Replay(SubSeq(t, 1, w[i - 1]), RestoreDistances(q[i].triples), q[i].literals)
            = SubSeq(t, 1, w[i])
      BY <3>2, <3>3, TaleReplayed
    <3> QED
      BY <2>2, <2>4, <3>4
  <2> QED
    BY <2>3, <2>4
<1>6. f = Step(f)
  <2>1. f = [i \in 0 .. Len(q) |-> f[i]]
    OBVIOUS
  <2> HIDE DEF f
  <2>2. ASSUME NEW i \in 0 .. Len(q)
        PROVE  f[i] = IF i = 0 THEN <<>>
                      ELSE IF q[i].magic # "bvx2" THEN f[i - 1]
                      ELSE Replay(f[i - 1], RestoreDistances(q[i].triples), q[i].literals)
    <3>1. CASE i = 0
      BY <1>4, <3>1
    <3>2. CASE i # 0
      <4>1. i \in 1 .. n
        BY <1>2, <3>2
      <4> QED
        BY <1>5, <3>2, <4>1
    <3> QED
      BY <3>1, <3>2
  <2> QED
    BY <2>1, <2>2
<1>7. written = Step(written)
  <2> HIDE DEF Step, f
  <2> QED
    BY <1>6
<1>8. written[0] = f[0]
  <2>1. 0 \in 0 .. Len(q)
    OBVIOUS
  <2> HIDE DEF written, f
  <2> QED
    BY <1>4, <1>7, <2>1
<1>9. ASSUME NEW i \in 1 .. n
      PROVE  written[i] = IF q[i].magic # "bvx2" THEN written[i - 1]
                          ELSE Replay(written[i - 1], RestoreDistances(q[i].triples), q[i].literals)
  <2> HIDE DEF written
  <2>1. i \in 0 .. Len(q) /\ i # 0
    BY <1>2
  <2> QED
    BY <1>7, <2>1
<1>10. \A i \in 0 .. n : written[i] = f[i]
  <2> HIDE DEF written, f
  <2>1. \A i \in 1 .. n : written[i - 1] = f[i - 1] => written[i] = f[i]
    BY <1>5, <1>9
  <2>2. GoTogether(written, f, n)
    BY <1>8, <2>1 DEF GoTogether
  <2> QED
    BY <2>2, NoneDiffers
<1>11. written[Len(q)] = SubSeq(t, 1, w[Len(q)])
  <2>1. n \in 0 .. n /\ n = Len(q)
    BY <1>2
  <2> HIDE DEF written, f
  <2> QED
    BY <1>3, <1>10, <2>1
<1> QED
  BY <1>11 DEF Written

----------------------------------------------------------------------------
(* Triples are added to those collected, and taken back.                   *)

(* The triples tell the bytes of t from behind from to to, with all of the *)
(* literals; after n of them it is mid, with m literals.                   *)
Halts(ts, lits, from, n, mid, m, to, t) ==
  \E a, l \in [0 .. Len(ts) -> Nat] :
    /\ Trace(ts, lits, a, l, t)
    /\ a[0] = from /\ a[n] = mid /\ l[n] = m
    /\ a[Len(ts)] = to /\ l[Len(ts)] = Len(lits)

LEMMA HaltsTale ==
  ASSUME NEW ts, NEW lits, NEW from, NEW n, NEW mid, NEW m, NEW to, NEW t,
         Halts(ts, lits, from, n, mid, m, to, t)
  PROVE  Tale(ts, lits, from, to, Len(lits), t)
BY DEF Halts, Tale

LEMMA HaltsHere ==
  ASSUME NEW ts, NEW lits, NEW from, NEW n, NEW mid, NEW m, NEW to, NEW t,
         Halts(ts, lits, from, n, mid, m, to, t)
  PROVE  Halts(ts, lits, from, Len(ts), to, Len(lits), to, t)
BY DEF Halts

LEMMA HaltsAtOnce ==
  ASSUME NEW from \in Nat, NEW t, from <= Len(t)
  PROVE  Halts(<<>>, <<>>, from, 0, from, 0, from, t)
<1> DEFINE a == [i \in 0 .. 0 |-> from]
           l == [i \in 0 .. 0 |-> 0]
<1>1. Len(<<>>) = 0
  OBVIOUS
<1>2. a \in [0 .. 0 -> Nat] /\ l \in [0 .. 0 -> Nat] /\ a[0] = from /\ l[0] = 0
  OBVIOUS
<1> HIDE DEF a, l
<1>3. Trace(<<>>, <<>>, a, l, t)
  <2>1. \A j \in 0 .. 0 : \A i \in 0 .. j : l[i] <= l[j]
    BY <1>2
  <2> QED
    BY <1>1, <1>2, <2>1 DEF Trace
<1> QED
  BY <1>1, <1>2, <1>3 DEF Halts

LEMMA TellsMore ==
  ASSUME NEW S, NEW lits \in Seq(S), NEW more \in Seq(S), NEW p, NEW t,
         NEW a \in Nat, NEW b \in Nat, NEW l \in Nat, NEW k \in Nat, k <= Len(lits),
         Tells(p, lits, a, b, l, k, t)
  PROVE  Tells(p, lits \o more, a, b, l, k, t)
<1>1. p \in Triple /\ p.L \in Nat /\ k = l + p.L
  BY DEF Tells, Triple
<1>2. ASSUME NEW j \in 1 .. p.L PROVE (lits \o more)[l + j] = lits[l + j]
  <2>1. l + j \in 1 .. Len(lits)
    BY <1>1, LenProperties
  <2> QED
    BY <2>1, Joined
<1> QED
  BY <1>1, <1>2 DEF Tells

LEMMA TellsLess ==
  ASSUME NEW S, NEW lits \in Seq(S), NEW m \in Nat, m <= Len(lits), NEW p, NEW t,
         NEW a \in Nat, NEW b \in Nat, NEW l \in Nat, NEW k \in Nat, k <= m,
         Tells(p, lits, a, b, l, k, t)
  PROVE  Tells(p, SubSeq(lits, 1, m), a, b, l, k, t)
<1>1. p \in Triple /\ p.L \in Nat /\ k = l + p.L
  BY DEF Tells, Triple
<1>2. ASSUME NEW j \in 1 .. p.L PROVE SubSeq(lits, 1, m)[l + j] = lits[l + j]
  <2>1. l + j \in 1 .. m
    BY <1>1
  <2> QED
    BY <2>1, FirstPart
<1> QED
  BY <1>1, <1>2 DEF Tells

(* One more triple, with its literals.                                     *)
LEMMA HaltsMore ==
  ASSUME NEW S, NEW lits \in Seq(S), NEW more \in Seq(S), NEW ts \in Seq(Triple), NEW p \in Triple,
         NEW from, NEW n \in 0 .. Len(ts), NEW mid, NEW m, NEW to \in Nat, NEW next \in Nat, NEW t,
         Halts(ts, lits, from, n, mid, m, to, t),
         Tells(p, lits \o more, to, next, Len(lits), Len(lits \o more), t)
  PROVE  Halts(Append(ts, p), lits \o more, from, n, mid, m, next, t)
<1>1. PICK len \in Nat : len = Len(ts)
  BY LenProperties
<1>2. PICK a \in [0 .. Len(ts) -> Nat], l \in [0 .. Len(ts) -> Nat] :
        /\ Trace(ts, lits, a, l, t)
        /\ a[0] = from /\ a[n] = mid /\ l[n] = m
        /\ a[Len(ts)] = to /\ l[Len(ts)] = Len(lits)
  BY DEF Halts
<1>3. /\ a \in [0 .. len -> Nat] /\ l \in [0 .. len -> Nat]
      /\ l[0] = 0 /\ a[0] <= Len(t)
      /\ \A j \in 0 .. len : \A i \in 0 .. j : l[i] <= l[j]
      /\ \A i \in 1 .. len : Tells(ts[i], lits, a[i - 1], a[i], l[i - 1], l[i], t)
      /\ a[0] = from /\ a[n] = mid /\ l[n] = m
      /\ a[len] = to /\ l[len] = Len(lits)
  BY <1>1, <1>2 DEF Trace
<1>4. PICK u \in Nat : u = Len(lits)
  BY LenProperties
<1>5. PICK v \in Nat : v = Len(lits \o more) /\ u <= v
  <2>1. Len(lits \o more) = Len(lits) + Len(more) /\ Len(more) \in Nat
    BY ConcatProperties, LenProperties
  <2>2. Len(lits \o more) \in Nat /\ Len(lits) <= Len(lits \o more)
    BY <1>4, <2>1
  <2> QED
    BY <1>4, <2>2
<1> DEFINE x == [i \in 0 .. len + 1 |-> IF i = len + 1 THEN next ELSE a[i]]
           y == [i \in 0 .. len + 1 |-> IF i = len + 1 THEN v ELSE l[i]]
           us == Append(ts, p)
<1>6. Len(us) = len + 1 /\ us[len + 1] = p /\ \A i \in 1 .. len : us[i] = ts[i]
  BY <1>1, AppendProperties
<1>7. /\ x[len + 1] = next /\ y[len + 1] = v
      /\ \A i \in 0 .. len : x[i] = a[i] /\ y[i] = l[i]
  <2>1. \A i \in 0 .. len : i \in 0 .. len + 1 /\ i # len + 1
    BY <1>1
  <2>2. len + 1 \in 0 .. len + 1
    BY <1>1
  <2> QED
    BY <2>1, <2>2
<1>8. x \in [0 .. len + 1 -> Nat] /\ y \in [0 .. len + 1 -> Nat]
  <2>1. ASSUME NEW i \in 0 .. len + 1, i # len + 1 PROVE i \in 0 .. len
    BY <1>1, <2>1
  <2> QED
    BY <1>3, <1>5, <2>1
<1> HIDE DEF x, y, us
<1>9. 0 \in 0 .. len /\ len \in 0 .. len /\ n \in 0 .. len
  BY <1>1
<1>10. y[0] = 0 /\ x[0] = from /\ x[0] <= Len(t) /\ x[n] = mid /\ y[n] = m
       /\ x[len] = to /\ y[len] = u
  BY <1>3, <1>4, <1>7, <1>9
<1>11. ASSUME NEW j \in 0 .. len + 1, NEW i \in 0 .. j PROVE y[i] <= y[j]
  <2>1. CASE i = len + 1
    <3>1. j = len + 1
      BY <1>1, <2>1
    <3> QED
      BY <1>5, <1>7, <2>1, <3>1
  <2>2. CASE i # len + 1 /\ j = len + 1
    <3>1. i \in 0 .. len
      BY <1>1, <2>2
    <3>2. l[i] <= u /\ l[i] \in Nat
      BY <1>3, <1>4, <1>9, <3>1
    <3> QED
      BY <1>4, <1>5, <1>7, <2>2, <3>1, <3>2
  <2>3. CASE i # len + 1 /\ j # len + 1
    <3>1. j \in 0 .. len /\ i \in 0 .. len
      BY <1>1, <2>3
    <3>2. l[i] <= l[j]
      BY <1>3, <3>1
    <3> QED
      BY <1>7, <3>1, <3>2
  <2> QED
    BY <2>1, <2>2, <2>3
<1>12. ASSUME NEW i \in 1 .. len + 1
       PROVE  Tells(us[i], lits \o more, x[i - 1], x[i], y[i - 1], y[i], t)
  <2>1. CASE i = len + 1
    <3>1. i - 1 = len
      BY <1>1, <2>1
    <3>2. us[i] = p /\ x[i - 1] = to /\ x[i] = next /\ y[i - 1] = Len(lits) /\ y[i] = Len(lits \o more)
      BY <1>4, <1>5, <1>6, <1>7, <1>10, <2>1, <3>1
    <3> QED
      BY <3>2
  <2>2. CASE i # len + 1
    <3>1. i \in 1 .. len /\ i - 1 \in 0 .. len /\ i \in 0 .. len
      <4>1. i \in Nat /\ 1 <= i /\ i <= len + 1 /\ len \in Nat
        BY <1>1
      <4>2. i <= len
        BY <2>2, <4>1
      <4> QED
        BY <4>1, <4>2
    <3>2. /\ us[i] = ts[i] /\ x[i - 1] = a[i - 1] /\ x[i] = a[i] /\ y[i - 1] = l[i - 1] /\ y[i] = l[i]
      BY <1>6, <1>7, <3>1
    <3>3. PICK c \in Nat : c = a[i - 1]
      BY <1>3, <3>1
    <3>4. PICK d \in Nat : d = a[i]
      BY <1>3, <3>1
    <3>5. PICK g \in Nat : g = l[i - 1]
      BY <1>3, <3>1
    <3>a. l[i] <= l[len] /\ l[i] \in Nat
      BY <1>3, <1>9, <3>1
    <3>6. PICK h \in Nat : h = l[i] /\ h <= Len(lits)
      BY <1>3, <3>a
    <3>7. Tells(ts[i], lits, c, d, g, h, t)
      BY <1>3, <3>1, <3>3, <3>4, <3>5, <3>6
    <3>8. Tells(ts[i], lits \o more, c, d, g, h, t)
      BY <3>3, <3>4, <3>5, <3>6, <3>7, TellsMore
    <3> QED
      BY <3>2, <3>3, <3>4, <3>5, <3>6, <3>8
  <2> QED
    BY <2>1, <2>2
<1>13. Trace(us, lits \o more, x, y, t)
  BY <1>6, <1>8, <1>10, <1>11, <1>12 DEF Trace
<1>14. Halts(us, lits \o more, from, n, mid, m, next, t)
  BY <1>5, <1>6, <1>7, <1>8, <1>10, <1>13 DEF Halts
<1> QED
  BY <1>14 DEF us

(* All but the first n triples and m literals are taken back.              *)
LEMMA HaltsBack ==
  ASSUME NEW S, NEW lits \in Seq(S), NEW ts \in Seq(Triple),
         NEW from, NEW n \in 0 .. Len(ts), NEW mid, NEW m \in Nat, NEW to, NEW t,
         Halts(ts, lits, from, n, mid, m, to, t)
  PROVE  Halts(SubSeq(ts, 1, n), SubSeq(lits, 1, m), from, n, mid, m, mid, t)
<1>1. PICK len \in Nat : len = Len(ts)
  BY LenProperties
<1>2. PICK a \in [0 .. Len(ts) -> Nat], l \in [0 .. Len(ts) -> Nat] :
        /\ Trace(ts, lits, a, l, t)
        /\ a[0] = from /\ a[n] = mid /\ l[n] = m
        /\ a[Len(ts)] = to /\ l[Len(ts)] = Len(lits)
  BY DEF Halts
<1>3. /\ a \in [0 .. len -> Nat] /\ l \in [0 .. len -> Nat]
      /\ l[0] = 0 /\ a[0] <= Len(t)
      /\ \A j \in 0 .. len : \A i \in 0 .. j : l[i] <= l[j]
      /\ \A i \in 1 .. len : Tells(ts[i], lits, a[i - 1], a[i], l[i - 1], l[i], t)
      /\ a[0] = from /\ a[n] = mid /\ l[n] = m
      /\ l[len] = Len(lits)
  BY <1>1, <1>2 DEF Trace
<1>4. n \in Nat /\ n <= len /\ n \in 0 .. len
  BY <1>1
<1>5. m <= Len(lits)
  BY <1>3, <1>4
<1> DEFINE x == [i \in 0 .. n |-> a[i]]
           y == [i \in 0 .. n |-> l[i]]
           us == SubSeq(ts, 1, n)
           ks == SubSeq(lits, 1, m)
<1>6. Len(us) = n /\ \A i \in 1 .. n : us[i] = ts[i]
  BY <1>1, <1>4, FirstPart
<1>7. Len(ks) = m
  BY <1>5, FirstPart
<1>8. x \in [0 .. n -> Nat] /\ y \in [0 .. n -> Nat] /\ \A i \in 0 .. n : x[i] = a[i] /\ y[i] = l[i]
  <2>1. \A i \in 0 .. n : i \in 0 .. len
    BY <1>4
  <2> QED
    BY <1>3, <2>1
<1> HIDE DEF x, y, us
<1>9. ASSUME NEW i \in 1 .. n
      PROVE  /\ i - 1 \in 0 .. n /\ i \in 0 .. n /\ i \in 1 .. len
             /\ i - 1 \in 0 .. len /\ i \in 0 .. len
  BY <1>4
<1>10. ASSUME NEW j \in 0 .. n, NEW i \in 0 .. j PROVE y[i] <= y[j] /\ y[i] = l[i] /\ y[j] = l[j]
  <2>1. j \in 0 .. len /\ i \in 0 .. n
    BY <1>4
  <2> QED
    BY <1>3, <1>8, <2>1
<1>11. 0 \in 0 .. n /\ n \in 0 .. n
  BY <1>4
<1>12. ASSUME NEW i \in 1 .. n
       PROVE  Tells(us[i], ks, x[i - 1], x[i], y[i - 1], y[i], t)
  <2>1. us[i] = ts[i] /\ x[i - 1] = a[i - 1] /\ x[i] = a[i] /\ y[i - 1] = l[i - 1] /\ y[i] = l[i]
    BY <1>6, <1>8, <1>9
  <2>2. l[i] <= m
    BY <1>3, <1>9, <1>10, <1>11
  <2>3. PICK c \in Nat : c = a[i - 1]
    BY <1>3, <1>9
  <2>4. PICK d \in Nat : d = a[i]
    BY <1>3, <1>9
  <2>5. PICK g \in Nat : g = l[i - 1]
    BY <1>3, <1>9
  <2>6. PICK h \in Nat : h = l[i] /\ h <= m
    BY <1>3, <1>9, <2>2
  <2>7. Tells(ts[i], lits, c, d, g, h, t)
    BY <1>3, <1>9, <2>3, <2>4, <2>5, <2>6
  <2>8. Tells(ts[i], SubSeq(lits, 1, m), c, d, g, h, t)
    BY <1>5, <2>3, <2>4, <2>5, <2>6, <2>7, TellsLess
  <2> QED
    BY <2>1, <2>3, <2>4, <2>5, <2>6, <2>8
<1> HIDE DEF ks
<1>13. x[0] = from /\ x[0] <= Len(t) /\ y[0] = 0 /\ x[n] = mid /\ y[n] = m
  BY <1>3, <1>8, <1>11
<1>14. Trace(us, ks, x, y, t)
  BY <1>6, <1>8, <1>10, <1>12, <1>13 DEF Trace
<1>15. Halts(us, ks, from, n, mid, m, mid, t)
  BY <1>6, <1>7, <1>8, <1>13, <1>14 DEF Halts
<1> QED
  BY <1>15 DEF us, ks

(* The zeros behind the literals are not told.                             *)
LEMMA TaleMore ==
  ASSUME NEW S, NEW lits \in Seq(S), NEW more \in Seq(S), NEW ts \in Seq(Triple),
         NEW from, NEW to, NEW t, Tale(ts, lits, from, to, Len(lits), t)
  PROVE  Tale(ts, lits \o more, from, to, Len(lits), t)
<1>1. PICK len \in Nat : len = Len(ts)
  BY LenProperties
<1>2. PICK a \in [0 .. Len(ts) -> Nat], l \in [0 .. Len(ts) -> Nat] :
        /\ Trace(ts, lits, a, l, t)
        /\ a[0] = from /\ a[Len(ts)] = to /\ l[Len(ts)] = Len(lits)
  BY DEF Tale
<1>3. /\ a \in [0 .. len -> Nat] /\ l \in [0 .. len -> Nat]
      /\ \A j \in 0 .. len : \A i \in 0 .. j : l[i] <= l[j]
      /\ \A i \in 1 .. len : Tells(ts[i], lits, a[i - 1], a[i], l[i - 1], l[i], t)
      /\ l[len] = Len(lits)
  BY <1>1, <1>2 DEF Trace
<1>4. ASSUME NEW i \in 1 .. len
      PROVE  Tells(ts[i], lits \o more, a[i - 1], a[i], l[i - 1], l[i], t)
  <2>1. i - 1 \in 0 .. len /\ i \in 0 .. len /\ len \in 0 .. len
    BY <1>1
  <2>2. l[i] <= l[len]
    BY <1>3, <2>1
  <2>3. PICK c \in Nat : c = a[i - 1]
    BY <1>3, <2>1
  <2>4. PICK d \in Nat : d = a[i]
    BY <1>3, <2>1
  <2>5. PICK g \in Nat : g = l[i - 1]
    BY <1>3, <2>1
  <2>6. PICK h \in Nat : h = l[i] /\ h <= Len(lits)
    BY <1>3, <2>1, <2>2
  <2>7. Tells(ts[i], lits, c, d, g, h, t)
    BY <1>3, <2>3, <2>4, <2>5, <2>6
  <2>8. Tells(ts[i], lits \o more, c, d, g, h, t)
    BY <2>3, <2>4, <2>5, <2>6, <2>7, TellsMore
  <2> QED
    BY <2>3, <2>4, <2>5, <2>6, <2>8
<1>5. Trace(ts, lits \o more, a, l, t)
  BY <1>1, <1>2, <1>4 DEF Trace
<1> QED
  BY <1>2, <1>5 DEF Tale

LEMMA TaleDistances ==
  ASSUME NEW ts \in Seq(Triple), NEW lits, NEW from, NEW to, NEW used, NEW t,
         Tale(ts, lits, from, to, used, t)
  PROVE  RestoreDistances(EncodeDistances(ts)) = ts
<1>1. PICK a \in [0 .. Len(ts) -> Nat], l \in [0 .. Len(ts) -> Nat] : Trace(ts, lits, a, l, t)
  BY DEF Tale
<1>2. \A i \in 1 .. Len(ts) : ts[i].D >= 1
  BY <1>1 DEF Trace, Tells, Triple
<1> QED
  BY <1>2, DistancesRestored

(* The compressed blocks of q tell the first at bytes of t.                *)
Streamed(q, at, t) ==
  \E w \in [0 .. Len(q) -> Nat] : WrittenTo(q, w, t) /\ w[Len(q)] = at

LEMMA StreamedStarts ==
  ASSUME NEW t
  PROVE  Streamed(<<>>, 0, t)
<1> DEFINE w == [i \in 0 .. 0 |-> 0]
<1>1. Len(<<>>) = 0
  OBVIOUS
<1>2. w \in [0 .. 0 -> Nat] /\ w[0] = 0
  OBVIOUS
<1> HIDE DEF w
<1>3. WrittenTo(<<>>, w, t)
  BY <1>1, <1>2 DEF WrittenTo
<1> QED
  BY <1>1, <1>2, <1>3 DEF Streamed

LEMMA StreamedIs ==
  ASSUME NEW t \in Seq(0 .. 255), NEW q, Len(q) \in Nat, NEW at, Streamed(q, at, t)
  PROVE  Written(q) = SubSeq(t, 1, at)
<1>1. PICK w \in [0 .. Len(q) -> Nat] : WrittenTo(q, w, t) /\ w[Len(q)] = at
  BY DEF Streamed
<1>2. Written(q) = SubSeq(t, 1, w[Len(q)])
  BY <1>1, WrittenIs
<1> QED
  BY <1>1, <1>2

(* Both sequences, of whatever elements, in their concatenation.           *)
LEMMA JoinedAny ==
  ASSUME NEW p, NEW q, IsSeq(p), IsSeq(q)
  PROVE  /\ IsSeq(p \o q) /\ Len(p \o q) = Len(p) + Len(q)
         /\ Len(p) \in Nat /\ Len(q) \in Nat
         /\ \A i \in 1 .. Len(p) : (p \o q)[i] = p[i]
         /\ \A i \in 1 .. Len(q) : (p \o q)[Len(p) + i] = q[i]
<1> DEFINE A == {p[i] : i \in 1 .. Len(p)}
           B == {q[i] : i \in 1 .. Len(q)}
<1>1. p \in Seq(A) /\ q \in Seq(B)
  BY DEF IsSeq
<1> HIDE DEF A, B
<1>2. Len(p) \in Nat /\ Len(q) \in Nat /\ p \in [1 .. Len(p) -> A] /\ q \in [1 .. Len(q) -> B]
  BY <1>1, LenProperties
<1>3. p \in [1 .. Len(p) -> A \cup B] /\ q \in [1 .. Len(q) -> A \cup B]
  BY <1>2
<1>4. p \in Seq(A \cup B) /\ q \in Seq(A \cup B)
  BY <1>2, <1>3
<1>5. /\ p \o q \in Seq(A \cup B) /\ Len(p \o q) = Len(p) + Len(q)
      /\ \A i \in 1 .. Len(p) : (p \o q)[i] = p[i]
      /\ \A i \in 1 .. Len(q) : (p \o q)[Len(p) + i] = q[i]
  BY <1>4, Joined
<1> QED
  BY <1>2, <1>5, SomeSeq

LEMMA BlockBytesAre ==
  ASSUME NEW b, NEW size \in Nat, size >= 1
  PROVE  /\ IsSeq(BlockBytes(b, size)) /\ Len(BlockBytes(b, size)) = size
         /\ BlockBytes(b, size)[1] = b
         /\ \A i \in 2 .. size : BlockBytes(b, size)[i].magic # "bvx2"
<1> DEFINE rest == [i \in 1 .. size - 1 |-> Filler]
<1>1. PICK n \in Nat : size = n + 1
  <2>1. size - 1 \in Nat /\ size = (size - 1) + 1
    OBVIOUS
  <2> QED
    BY <2>1
<1>2. rest \in [1 .. n -> {Filler}]
  BY <1>1
<1>3. \A i \in 1 .. n : rest[i].magic # "bvx2"
  BY <1>1 DEF Filler
<1> HIDE DEF rest
<1>4. IsSeq(rest) /\ Len(rest) = n
  BY <1>1, <1>2, FunctionSeq
<1>5. IsSeq(<<b>>) /\ Len(<<b>>) = 1 /\ <<b>>[1] = b
  <2>1. <<b>> \in Seq({b}) /\ Len(<<b>>) = 1 /\ <<b>>[1] = b
    OBVIOUS
  <2> QED
    BY <2>1, SomeSeq
<1>6. BlockBytes(b, size) = <<b>> \o rest
  BY DEF BlockBytes, rest
<1>7. /\ IsSeq(<<b>> \o rest) /\ Len(<<b>> \o rest) = 1 + n
      /\ (<<b>> \o rest)[1] = b
      /\ \A i \in 1 .. n : (<<b>> \o rest)[1 + i] = rest[i]
  <2>1. /\ IsSeq(<<b>> \o rest) /\ Len(<<b>> \o rest) = Len(<<b>>) + Len(rest)
        /\ \A i \in 1 .. Len(<<b>>) : (<<b>> \o rest)[i] = <<b>>[i]
        /\ \A i \in 1 .. Len(rest) : (<<b>> \o rest)[Len(<<b>>) + i] = rest[i]
    BY <1>4, <1>5, JoinedAny
  <2>2. 1 \in 1 .. 1
    OBVIOUS
  <2> QED
    BY <1>4, <1>5, <2>1, <2>2
<1>8. ASSUME NEW i \in 2 .. size PROVE BlockBytes(b, size)[i].magic # "bvx2"
  <2>1. i - 1 \in 1 .. n /\ 1 + (i - 1) = i
    BY <1>1
  <2>2. (<<b>> \o rest)[i] = rest[i - 1]
    BY <1>7, <2>1
  <2> QED
    BY <1>3, <1>6, <2>1, <2>2
<1>9. 1 + n = size
  BY <1>1
<1> QED
  BY <1>6, <1>7, <1>8, <1>9

(* One block more.                                                         *)
LEMMA StreamedBlock ==
  ASSUME NEW q, IsSeq(q), NEW at \in Nat, NEW to \in Nat, NEW t, Streamed(q, at, t),
         NEW b, NEW size \in Nat, size >= 1,
         IF b.magic # "bvx2" THEN to = at ELSE BlockTells(b, at, to, t)
  PROVE  Streamed(q \o BlockBytes(b, size), to, t)
<1> DEFINE bytes == BlockBytes(b, size)
           r == q \o bytes
<1>1. IsSeq(bytes) /\ Len(bytes) = size /\ bytes[1] = b /\ \A i \in 2 .. size : bytes[i].magic # "bvx2"
  BY BlockBytesAre
<1> HIDE DEF bytes
<1>2. /\ Len(r) = Len(q) + size /\ Len(q) \in Nat
      /\ \A i \in 1 .. Len(q) : r[i] = q[i]
      /\ \A i \in 1 .. size : r[Len(q) + i] = bytes[i]
  BY <1>1, JoinedAny
<1> HIDE DEF r
<1>3. PICK len \in Nat : len = Len(q)
  BY <1>2
<1>4. PICK w \in [0 .. len -> Nat] :
        /\ w[0] = 0 /\ w[len] = at
        /\ \A i \in 1 .. len :
             IF q[i].magic # "bvx2" THEN w[i] = w[i - 1] ELSE BlockTells(q[i], w[i - 1], w[i], t)
  BY <1>3 DEF Streamed, WrittenTo
<1> DEFINE v == [i \in 0 .. len + size |-> IF i <= len THEN w[i] ELSE to]
<1>5. v \in [0 .. len + size -> Nat]
  <2>1. ASSUME NEW i \in 0 .. len + size, i <= len PROVE i \in 0 .. len
    BY <1>3, <2>1
  <2> QED
    BY <1>4, <2>1
<1>6. \A i \in 0 .. len : v[i] = w[i]
  <2>1. \A i \in 0 .. len : i \in 0 .. len + size /\ i <= len
    BY <1>3
  <2> QED
    BY <2>1
<1>7. \A i \in len + 1 .. len + size : v[i] = to
  <2>1. \A i \in len + 1 .. len + size : i \in 0 .. len + size /\ ~(i <= len)
    BY <1>3
  <2> QED
    BY <2>1
<1> HIDE DEF v
<1>8. Len(r) = len + size
  BY <1>2, <1>3
<1>9. ASSUME NEW i \in 1 .. len + size
      PROVE  IF r[i].magic # "bvx2" THEN v[i] = v[i - 1] ELSE BlockTells(r[i], v[i - 1], v[i], t)
  <2>1. CASE i <= len
    <3>1. i \in 1 .. len /\ i \in 0 .. len /\ i - 1 \in 0 .. len
      BY <1>3, <2>1
    <3>2. r[i] = q[i] /\ v[i] = w[i] /\ v[i - 1] = w[i - 1]
      BY <1>2, <1>3, <1>6, <3>1
    <3> QED
      BY <1>4, <3>1, <3>2
  <2>2. CASE i = len + 1
    <3>1. i - 1 = len /\ len \in 0 .. len /\ i \in len + 1 .. len + size /\ 1 \in 1 .. size
      BY <1>3, <2>2
    <3>2. v[i - 1] = at /\ v[i] = to
      BY <1>4, <1>6, <1>7, <3>1
    <3>3. r[i] = b
      BY <1>1, <1>2, <1>3, <2>2, <3>1
    <3> QED
      BY <3>2, <3>3
  <2>3. CASE i > len + 1
    <3>1. /\ i - len \in 2 .. size /\ i - len \in 1 .. size /\ len + (i - len) = i
          /\ i \in len + 1 .. len + size /\ i - 1 \in len + 1 .. len + size
      BY <1>3, <2>3
    <3>2. r[i] = bytes[i - len]
      BY <1>2, <1>3, <3>1
    <3>3. r[i].magic # "bvx2"
      BY <1>1, <3>1, <3>2
    <3>4. v[i] = to /\ v[i - 1] = to
      BY <1>7, <3>1
    <3> QED
      BY <3>3, <3>4
  <2>4. i \in Nat
    OBVIOUS
  <2> QED
    BY <1>3, <2>1, <2>2, <2>3, <2>4
<1>10. v[0] = 0 /\ v[len + size] = to
  <2>1. 0 \in 0 .. len /\ len + size \in len + 1 .. len + size
    BY <1>3
  <2> QED
    BY <1>4, <1>6, <1>7, <2>1
<1>11. WrittenTo(r, v, t)
  BY <1>5, <1>8, <1>9, <1>10 DEF WrittenTo
<1>12. Streamed(r, to, t)
  BY <1>5, <1>8, <1>10, <1>11 DEF Streamed
<1> QED
  BY <1>12 DEF r, bytes

(* The block lzfse_encode_matches writes tells what its triples tell.      *)
LEMMA BlockTellsTale ==
  ASSUME NEW ts \in Seq(Triple), NEW lits \in Seq(0 .. 255), NEW more \in Seq(0 .. 255),
         NEW from, NEW to, NEW t, NEW raw, Tale(ts, lits, from, to, Len(lits), t)
  PROVE  BlockTells(CompressedBlock(EncodeDistances(ts), lits \o more, raw), from, to, t)
<1> DEFINE b == CompressedBlock(EncodeDistances(ts), lits \o more, raw)
<1>1. b.triples = EncodeDistances(ts) /\ b.literals = lits \o more
  BY DEF CompressedBlock
<1> HIDE DEF b
<1>2. RestoreDistances(b.triples) = ts
  BY <1>1, TaleDistances
<1>3. Tale(ts, lits \o more, from, to, Len(lits), t)
  BY TaleMore
<1>4. /\ lits \o more \in Seq(0 .. 255) /\ Len(lits) \in Nat
      /\ Len(lits) <= Len(lits \o more)
  <2>1. Len(lits \o more) = Len(lits) + Len(more) /\ lits \o more \in Seq(0 .. 255)
        /\ Len(lits) \in Nat /\ Len(more) \in Nat
    BY ConcatProperties, LenProperties
  <2> QED
    BY <2>1
<1>5. BlockTells(b, from, to, t)
  BY <1>1, <1>2, <1>3, <1>4 DEF BlockTells
<1> QED
  BY <1>5 DEF b

----------------------------------------------------------------------------
(* No byte is lost: what the encoder has written and collected.            *)

(* What the blocks and the triples stand for ends at src_literal, and what *)
(* stood there before the match being added where the match began.         *)
Gathered(from, at) ==
  \E n, mid, m :
    /\ Halts(triples, literals, from, n, mid, m, at, text)
    /\ phase \in {"push", "block"} =>
         n = job.triples /\ mid = base + job.srcLiteral /\ m = job.literals

Collected ==
  \E from \in Nat : Streamed(dst, from, text) /\ Gathered(from, base + srcLiteral)

(* The last chunk is being encoded.                                        *)
Finishing == phase = "finish" \/ (phase \in {"push", "block"} /\ job.caller = "finish")

ToldInv ==
  /\ triples \in Seq(Triple)
  /\ phase # "encoded" => Collected
  /\ Finishing => chunk = "last"
  /\ phase = "mark" => triples = <<>> /\ base + srcLiteral = Len(text)
  /\ phase = "encoded" /\ dst[1].magic = "bvx2" => Streamed(dst, Len(text), text)

LEMMA InvNothingLost ==
  ASSUME TypeInv, BuffersInv, RoomInv, ToldInv
  PROVE  NothingLost
<1>1. text \in Seq(0 .. 255) /\ literals \in Seq(0 .. 255) /\ triples \in Seq(Triple)
      /\ Len(dst) \in Nat /\ Len(literals) <= Len(literals)
  <2>1. IsSeq(dst)
    BY DEF RoomInv
  <2>2. Len(dst) \in Nat
    BY <2>1, LenProperties DEF IsSeq
  <2>3. text \in Seq(0 .. 255) /\ literals \in Seq(0 .. 255) /\ triples \in Seq(Triple)
    BY DEF TypeInv, BuffersInv, ToldInv
  <2> QED
    BY <2>2, <2>3, LenProperties
<1>2. ASSUME phase # "encoded"
      PROVE  Replay(Written(dst), triples, literals) = SubSeq(text, 1, base + srcLiteral)
  <2>1. PICK from \in Nat : Streamed(dst, from, text) /\ Gathered(from, base + srcLiteral)
    BY <1>2 DEF ToldInv, Collected
  <2>2. Tale(triples, literals, from, base + srcLiteral, Len(literals), text)
    BY <2>1, HaltsTale DEF Gathered
  <2>3. Written(dst) = SubSeq(text, 1, from)
    BY <1>1, <2>1, StreamedIs
  <2>4. Replay(SubSeq(text, 1, from), triples, literals) = SubSeq(text, 1, base + srcLiteral)
    BY <1>1, <2>2, TaleReplayed
  <2> QED
    BY <2>3, <2>4
<1>3. ASSUME phase = "encoded", dst[1].magic = "bvx2"
      PROVE  Written(dst) = text
  <2>1. Streamed(dst, Len(text), text)
    BY <1>3 DEF ToldInv
  <2>2. Written(dst) = SubSeq(text, 1, Len(text))
    BY <1>1, <2>1, StreamedIs
  <2>3. SubSeq(text, 1, Len(text)) = text
    BY <1>1
  <2> QED
    BY <2>2, <2>3
<1> QED
  BY <1>2, <1>3 DEF NothingLost

(* As long as nothing is added or moved.                                   *)
LEMMA SameCollected ==
  ASSUME Collected, UNCHANGED <<text, triples, literals, dst>>,
         base' + srcLiteral' = base + srcLiteral,
         \/ phase' \notin {"push", "block"}
         \/ UNCHANGED <<phase, base, job>>
  PROVE  Collected'
BY DEF Collected, Gathered

(* A match handed to the back end begins behind what was collected.        *)
LEMMA AddCollected ==
  ASSUME Collected, NEW m, NEW keep, Add(m, keep)
  PROVE  Collected'
<1>1. PICK from \in Nat : Streamed(dst, from, text) /\ Gathered(from, base + srcLiteral)
  BY DEF Collected
<1>2. /\ UNCHANGED <<text, triples, literals, dst, base, srcLiteral>>
      /\ job'.triples = Len(triples) /\ job'.literals = Len(literals) /\ job'.srcLiteral = srcLiteral
  BY DEF Add, frontVars
<1>3. Halts(triples, literals, from, Len(triples), base + srcLiteral, Len(literals),
            base + srcLiteral, text)
  BY <1>1, HaltsHere DEF Gathered
<1>4. Gathered(from, base + srcLiteral)'
  BY <1>2, <1>3 DEF Gathered
<1> QED
  BY <1>1, <1>2, <1>4 DEF Collected

(* A piece of a match tells the bytes it covers.                           *)
LEMMA PieceTells ==
  ASSUME EncodeInv, phase = "push", NEW L \in Nat, NEW M \in Nat, NEW D \in Nat, 1 <= D,
         srcLiteral + L + M <= End(job.match),
         M > 0 => /\ D = job.match.pos - job.match.ref
                  /\ job.match.length > 0 /\ job.match.pos <= srcLiteral + L
  PROVE  /\ base + srcLiteral \in Nat /\ srcLiteral + L <= srcEnd
         /\ [i \in 1 .. L |-> Byte(srcLiteral + i - 1)] \in Seq(0 .. 255)
         /\ Tells([L |-> L, M |-> M, D |-> D], literals \o [i \in 1 .. L |-> Byte(srcLiteral + i - 1)],
                  base + srcLiteral, base + (srcLiteral + L + M), Len(literals),
                  Len(literals \o [i \in 1 .. L |-> Byte(srcLiteral + i - 1)]), text)
<1> DEFINE bytes == [i \in 1 .. L |-> Byte(srcLiteral + i - 1)]
           all == literals \o bytes
           p == [L |-> L, M |-> M, D |-> D]
           m == job.match
<1>1. TypeInv /\ ChunkInv /\ Active /\ JobInv /\ PositionInv /\ literals \in Seq(0 .. 255)
  BY DEF EncodeInv, Active, BuffersInv
<1>2. /\ srcLiteral \in Int /\ base \in Nat /\ srcEnd \in Nat /\ text \in Seq(0 .. 255)
      /\ m.pos \in Int /\ m.ref \in Int /\ m.length \in Nat
      /\ End(m) = m.pos + m.length /\ End(m) <= srcEnd
  BY <1>1, JobHere DEF TypeInv
<1>3. 0 <= base + srcLiteral /\ base + srcEnd <= Len(text) /\ Len(text) \in Nat
  BY <1>1, InsideText DEF PositionInv
<1>4. /\ base + srcLiteral \in Nat /\ srcLiteral + L <= srcEnd
      /\ base + (srcLiteral + L + M) <= Len(text)
      /\ base + srcLiteral + L <= Len(text)
  BY SMTT(30), <1>2, <1>3
<1>5. bytes \in Seq(0 .. 255) /\ Len(bytes) = L
  <2>1. ASSUME NEW i \in 1 .. L PROVE Byte(srcLiteral + i - 1) \in 0 .. 255
    <3>1. srcLiteral + i - 1 \in Int /\ 0 <= base + (srcLiteral + i - 1)
          /\ base + (srcLiteral + i - 1) < Len(text)
      BY <1>2, <1>3, <1>4
    <3> QED
      BY <1>2, <3>1, ByteType
  <2>2. bytes \in [1 .. L -> 0 .. 255]
    BY <2>1
  <2> HIDE DEF bytes
  <2> QED
    BY <2>2, LenProperties
<1>6. \A j \in 1 .. L : bytes[j] = text[base + srcLiteral + j]
  <2> SUFFICES ASSUME NEW j \in 1 .. L PROVE bytes[j] = text[base + srcLiteral + j]
    OBVIOUS
  <2>1. base + (srcLiteral + j - 1) + 1 = base + srcLiteral + j
    BY <1>2
  <2> QED
    BY <2>1 DEF Byte
<1>7. Repeats(text, base + srcLiteral + L, D, M) /\ (M > 0 => D <= base + srcLiteral + L)
  <2>1. CASE M = 0
    BY <2>1 DEF Repeats
  <2>2. CASE M > 0
    <3>1. /\ D = m.pos - m.ref /\ m.length > 0 /\ m.pos <= srcLiteral + L
      BY <2>2
    <3>2. RepeatsIn(m)
      BY <1>1, <3>1 DEF JobInv, Ready
    <3>3. 0 <= base + m.ref /\ \A i \in 0 .. m.length - 1 : text[base + (m.ref + i) + 1] = text[base + (m.pos + i) + 1]
      BY <3>2 DEF RepeatsIn, Byte
    <3>a. PICK x \in Int : x = m.pos
      BY <1>2
    <3>b. PICK y \in Int : y = m.ref
      BY <1>2
    <3>c. PICK z \in Nat : z = m.length
      BY <1>2
    <3>d. PICK at \in Int : at = srcLiteral
      BY <1>2
    <3>e. PICK b \in Nat : b = base
      BY <1>2
    <3>f. /\ D = x - y /\ x <= at + L /\ at + L + M <= x + z /\ 0 <= b + y
          /\ \A i \in 0 .. z - 1 : text[b + (y + i) + 1] = text[b + (x + i) + 1]
      BY <1>2, <3>1, <3>3, <3>a, <3>b, <3>c, <3>d, <3>e
    <3>4. ASSUME NEW j \in 1 .. M
          PROVE  text[base + srcLiteral + L + j] = text[base + srcLiteral + L + j - D]
      <4> DEFINE i == at + L + j - 1 - x
      <4>1. at + L + j - 1 - x \in 0 .. z - 1
        BY <3>f, <3>a, <3>b, <3>c, <3>d
      <4>2. b + (x + i) + 1 = b + at + L + j /\ b + (y + i) + 1 = b + at + L + j - D
        BY <3>f, <3>a, <3>b, <3>d, <3>e
      <4>3. i \in 0 .. z - 1
        BY <4>1
      <4> HIDE DEF i
      <4> QED
        BY <3>f, <3>d, <3>e, <4>2, <4>3
    <3>5. D <= base + srcLiteral + L
      <4>1. D <= b + at + L
        BY <3>f, <3>a, <3>b, <3>d, <3>e
      <4> QED
        BY <3>d, <3>e, <4>1
    <3> QED
      BY <3>4, <3>5 DEF Repeats
  <2> QED
    BY <2>1, <2>2
<1>8. p \in Triple /\ p.L = L /\ p.M = M /\ p.D = D
  BY DEF Triple
<1> HIDE DEF bytes
<1>9. /\ Len(all) = Len(literals) + L /\ Len(literals) \in Nat
      /\ \A j \in 1 .. L : all[Len(literals) + j] = bytes[j]
  <2> QED
    BY SMTT(30), <1>1, <1>5, SomeSeq, JoinedAny
<1> HIDE DEF p, all
<1>10. base + (srcLiteral + L + M) = base + srcLiteral + L + M
  BY <1>2
<1>11. Tells(p, all, base + srcLiteral, base + (srcLiteral + L + M), Len(literals), Len(all), text)
  BY <1>4, <1>6, <1>7, <1>8, <1>9, <1>10 DEF Tells
<1> QED
  BY <1>4, <1>5, <1>11 DEF all, p, bytes

LEMMA PushCollected ==
  ASSUME EncodeInv, triples \in Seq(Triple), Collected, phase = "push",
         NEW L \in Nat, NEW M \in Nat, NEW D \in Nat, 1 <= D,
         srcLiteral + L + M <= End(job.match),
         M > 0 => /\ D = job.match.pos - job.match.ref
                  /\ job.match.length > 0 /\ job.match.pos <= srcLiteral + L,
         Push(L, M, D), UNCHANGED <<text, dst, base>>, phase' # "block",
         phase' = "push" => /\ job'.triples = job.triples /\ job'.literals = job.literals
                            /\ job'.srcLiteral = job.srcLiteral
  PROVE  Collected' /\ triples' \in Seq(Triple)
<1> DEFINE bytes == [i \in 1 .. L |-> Byte(srcLiteral + i - 1)]
           p == [L |-> L, M |-> M, D |-> D]
<1>1. PICK from \in Nat : Streamed(dst, from, text) /\ Gathered(from, base + srcLiteral)
  BY DEF Collected
<1>2. PICK n, mid, k :
        /\ Halts(triples, literals, from, n, mid, k, base + srcLiteral, text)
        /\ n = job.triples /\ mid = base + job.srcLiteral /\ k = job.literals
  BY <1>1 DEF Gathered
<1>3. /\ base + srcLiteral \in Nat /\ bytes \in Seq(0 .. 255)
      /\ Tells(p, literals \o bytes, base + srcLiteral, base + (srcLiteral + L + M), Len(literals),
               Len(literals \o bytes), text)
  BY PieceTells
<1>4. literals' = literals \o bytes /\ triples' = Append(triples, p)
      /\ srcLiteral' = srcLiteral + L + M
  BY DEF Push
<1>5. p \in Triple
  BY DEF Triple
<1>6. literals \in Seq(0 .. 255) /\ n \in 0 .. Len(triples)
  <2>1. job.triples <= Len(triples) /\ job.triples \in Nat
    BY JobHere
  <2>2. Len(triples) \in Nat
    BY LenProperties
  <2> QED
    BY <1>2, <2>1, <2>2 DEF EncodeInv, BuffersInv
<1>7. base + (srcLiteral + L + M) \in Nat
  <2>1. srcLiteral \in Int /\ base \in Nat
    BY DEF EncodeInv, TypeInv
  <2> QED
    BY SMTT(30), <1>3, <2>1
<1> HIDE DEF bytes, p
<1>8. Halts(triples', literals', from, n, mid, k, base + (srcLiteral + L + M), text)
  BY <1>2, <1>3, <1>4, <1>5, <1>6, <1>7, HaltsMore
<1>9. base' + srcLiteral' = base + (srcLiteral + L + M)
  BY <1>4
<1>10. Gathered(from, base + srcLiteral)'
  BY <1>2, <1>8, <1>9 DEF Gathered
<1>11. triples' \in Seq(Triple)
  BY <1>4, <1>5, AppendProperties
<1> QED
  BY <1>1, <1>10, <1>11 DEF Collected

LEMMA HaltsNowhere ==
  ASSUME NEW lits, NEW from, NEW n, NEW mid, NEW m, NEW to, NEW t,
         Halts(<<>>, lits, from, n, mid, m, to, t)
  PROVE  from = to
BY DEF Halts

LEMMA HaltsInside ==
  ASSUME NEW ts \in Seq(Triple), NEW lits, NEW from, NEW n, NEW mid, NEW m, NEW to, NEW t,
         Halts(ts, lits, from, n, mid, m, to, t)
  PROVE  from <= Len(t) /\ to \in Nat
<1>1. PICK a \in [0 .. Len(ts) -> Nat], l \in [0 .. Len(ts) -> Nat] :
        Trace(ts, lits, a, l, t) /\ a[0] = from /\ a[Len(ts)] = to
  BY DEF Halts
<1>2. Len(ts) \in Nat
  BY LenProperties
<1> QED
  BY <1>1, <1>2 DEF Trace

(* A block stands for the triples it was made of, and what is refused is   *)
(* what it was.                                                            *)
LEMMA MatchesWritten ==
  ASSUME EncodeInv, triples \in Seq(Triple), Collected, WriteMatches
  PROVE  Streamed(dst', base + srcLiteral, text) /\ base + srcLiteral \in Nat
         /\ triples' = <<>> /\ literals' = <<>>
<1> DEFINE at == base + srcLiteral
<1>1. PICK from \in Nat : Streamed(dst, from, text) /\ Gathered(from, at)
  BY DEF Collected
<1>2. PICK n, mid, m : Halts(triples, literals, from, n, mid, m, at, text)
  BY <1>1 DEF Gathered
<1>3. at \in Nat
  BY <1>2, HaltsInside
<1>4. TypeInv /\ BuffersInv /\ RoomInv /\ IsSeq(dst) /\ literals \in Seq(0 .. 255)
  BY DEF EncodeInv, RoomInv, BuffersInv
<1>5. triples' = <<>> /\ literals' = <<>>
  BY DEF WriteMatches
<1> HIDE DEF at
<1>6. CASE NothingToWrite
  <2>1. dst' = dst \o <<>>
    BY <1>6 DEF WriteMatches
  <2>2. dst \o <<>> = dst
    BY <1>4 DEF IsSeq
  <2>3. from = at
    BY <1>2, <1>6, HaltsNowhere DEF NothingToWrite
  <2> QED
    BY <1>1, <1>3, <1>5, <2>1, <2>2, <2>3 DEF at
<1>7. CASE ~NothingToWrite
  <2>1. dst' = dst \o BlockBytes(Block, BlockSize(Block)) /\ BlockFits
    BY <1>7 DEF WriteMatches
  <2>2. BlockSize(Block) \in Nat /\ BlockSize(Block) >= 1
    BY <1>4, <2>1, BlockHasRoom
  <2> DEFINE n0 == (4 - (Len(literals) % 4)) % 4
             zeros == [i \in 1 .. n0 |-> 0]
  <2>3. zeros \in Seq(0 .. 255) /\ Padded = literals \o zeros
    <3>1. Len(literals) \in Nat
      BY <1>4, LenProperties
    <3>2. n0 \in Nat
      BY <3>1
    <3> HIDE DEF n0
    <3>3. zeros \in [1 .. n0 -> 0 .. 255]
      OBVIOUS
    <3>4. zeros \in Seq(0 .. 255)
      BY <3>2, <3>3
    <3> QED
      BY <3>4 DEF Padded, n0
  <2> HIDE DEF zeros
  <2>4. Tale(triples, literals, from, at, Len(literals), text)
    BY <1>2, HaltsTale
  <2>5. BlockTells(CompressedBlock(EncodeDistances(triples), literals \o zeros, RawBytes), from, at, text)
    BY <1>4, <2>3, <2>4, BlockTellsTale
  <2>6. BlockTells(Block, from, at, text)
    BY <2>3, <2>5 DEF Block
  <2>7. Block.magic = "bvx2"
    BY DEF Block, CompressedBlock
  <2> DEFINE b == Block
             size == BlockSize(Block)
  <2>8. IF b.magic # "bvx2" THEN at = from ELSE BlockTells(b, from, at, text)
    BY <2>6, <2>7
  <2> HIDE DEF b, size
  <2>9. size \in Nat /\ size >= 1
    BY <2>2 DEF size
  <2>10. Streamed(dst \o BlockBytes(b, size), at, text)
    BY <1>1, <1>3, <1>4, <2>8, <2>9, StreamedBlock
  <2> QED
    BY <1>3, <1>5, <2>1, <2>10 DEF at, b, size
<1> QED
  BY <1>6, <1>7

LEMMA MatchesRefused ==
  ASSUME EncodeInv, triples \in Seq(Triple), Collected, MatchesDoNotFit,
         UNCHANGED <<text, base, srcLiteral>>
  PROVE  Collected' /\ triples' = triples
<1>1. phase' = "failed" /\ dst' = dst
      /\ triples' = RestoreDistances(EncodeDistances(triples))
      /\ literals' = SubSeq(Padded, 1, Len(literals))
  BY DEF MatchesDoNotFit
<1>2. literals \in Seq(0 .. 255)
  BY DEF EncodeInv, BuffersInv
<1>3. triples' = triples
  <2>1. PICK from \in Nat : Gathered(from, base + srcLiteral)
    BY DEF Collected
  <2>2. Tale(triples, literals, from, base + srcLiteral, Len(literals), text)
    BY <2>1, HaltsTale DEF Gathered
  <2> QED
    BY <1>1, <2>2, TaleDistances
<1>4. literals' = literals
  <2> DEFINE n0 == (4 - (Len(literals) % 4)) % 4
             zeros == [i \in 1 .. n0 |-> 0]
  <2>1. Len(literals) \in Nat
    BY <1>2, LenProperties
  <2>2. n0 \in Nat
    BY <2>1
  <2> HIDE DEF n0
  <2>3. zeros \in [1 .. n0 -> 0 .. 255]
    OBVIOUS
  <2>4. zeros \in Seq(0 .. 255)
    BY <2>2, <2>3
  <2>5. Padded = literals \o zeros
    BY DEF Padded, n0
  <2> HIDE DEF zeros
  <2>6. SubSeq(literals \o zeros, 1, Len(literals)) = literals
    BY <1>2, <2>4
  <2> QED
    BY <1>1, <2>5, <2>6
<1> QED
  BY <1>1, <1>3, <1>4, SameCollected

(* What was pushed of a match is taken back.                               *)
LEMMA BackCollected ==
  ASSUME EncodeInv, triples \in Seq(Triple), Collected, PushFails
  PROVE  Collected' /\ triples' \in Seq(Triple)
<1>1. /\ phase = "push"
      /\ triples' = SubSeq(triples, 1, job.triples)
      /\ literals' = SubSeq(literals, 1, job.literals)
      /\ srcLiteral' = job.srcLiteral
      /\ UNCHANGED <<text, base, dst, job>>
  BY DEF PushFails, frontVars
<1>2. PICK from \in Nat : Streamed(dst, from, text) /\ Gathered(from, base + srcLiteral)
  BY DEF Collected
<1>3. Halts(triples, literals, from, job.triples, base + job.srcLiteral, job.literals,
            base + srcLiteral, text)
  BY <1>1, <1>2 DEF Gathered
<1>4. job.triples \in 0 .. Len(triples) /\ job.literals \in Nat /\ literals \in Seq(0 .. 255)
  <2>1. job.triples <= Len(triples) /\ job.triples \in Nat /\ job.literals \in Nat
    BY <1>1, JobHere
  <2>2. Len(triples) \in Nat
    BY LenProperties
  <2> QED
    BY <2>1, <2>2 DEF EncodeInv, BuffersInv
<1>5. Halts(triples', literals', from, job.triples, base + job.srcLiteral, job.literals,
            base + job.srcLiteral, text)
  BY <1>1, <1>3, <1>4, HaltsBack
<1>6. Gathered(from, base + srcLiteral)'
  BY <1>1, <1>5 DEF Gathered
<1>7. triples' \in Seq(Triple)
  BY <1>1, <1>4, Prefix
<1> QED
  BY <1>1, <1>2, <1>6, <1>7 DEF Collected

(* The block is written, and the match tried again from where it began.    *)
LEMMA AgainCollected ==
  ASSUME EncodeInv, triples \in Seq(Triple), Collected, WriteBlock
  PROVE  Collected' /\ triples' \in Seq(Triple)
<1>1. /\ phase = "block" /\ UNCHANGED <<text, base, srcLiteral>>
      /\ \/ /\ WriteMatches
            /\ job' = [job EXCEPT !.L = job.match.pos - srcLiteral, !.M = job.match.length,
                                  !.retried = TRUE, !.triples = 0, !.literals = 0]
         \/ MatchesDoNotFit
  BY DEF WriteBlock, frontVars
<1>2. CASE MatchesDoNotFit
  BY <1>1, <1>2, MatchesRefused
<1>3. CASE ~MatchesDoNotFit
  <2>a. PICK at \in Nat : at = base + srcLiteral
    BY <1>1, <1>3, MatchesWritten
  <2>1. Streamed(dst', at, text) /\ triples' = <<>> /\ literals' = <<>>
    BY <1>1, <1>3, <2>a, MatchesWritten
  <2>2. at <= Len(text)
    <3>1. TypeInv /\ ChunkInv /\ PositionInv /\ Active
      BY <1>1 DEF EncodeInv, Active
    <3>2. base + srcEnd <= Len(text) /\ Len(text) \in Nat
      BY <3>1, InsideText
    <3>3. srcLiteral <= srcEnd /\ base \in Nat /\ srcEnd \in Nat /\ srcLiteral \in Int
      BY <3>1 DEF PositionInv, TypeInv
    <3> QED
      BY <2>a, <3>2, <3>3
  <2>3. Halts(<<>>, <<>>, at, 0, at, 0, at, text)
    BY <2>2, HaltsAtOnce
  <2>4. job'.triples = 0 /\ job'.literals = 0 /\ base' + job'.srcLiteral = at /\ base' + srcLiteral' = at
    <3>1. job.srcLiteral = srcLiteral /\ job \in JobType
      BY <1>1 DEF EncodeInv, JobInv, TypeInv
    <3> QED
      BY <1>1, <1>3, <2>a, <3>1 DEF JobType
  <2>5. Gathered(at, base + srcLiteral)'
    BY <1>1, <2>1, <2>3, <2>4 DEF Gathered
  <2>6. Streamed(dst', at, text')
    BY <1>1, <2>1
  <2>7. Collected'
    BY <2>5, <2>6 DEF Collected
  <2> QED
    BY <2>1, <2>7
<1> QED
  BY <1>2, <1>3

----------------------------------------------------------------------------
(* The steps of the encoder.                                               *)

LEMMA SameTold ==
  ASSUME ToldInv, Collected', triples' \in Seq(Triple), phase' \notin {"mark", "encoded"},
         Finishing' => chunk' = "last"
  PROVE  ToldInv'
BY DEF ToldInv

LEMMA ToldLiterals ==
  ASSUME EncodeInv, ToldInv, SplitLiterals, UNCHANGED chunk
  PROVE  ToldInv'
<1>1. /\ phase = "push" /\ phase' = "push" /\ job.L > MaxL /\ Push(MaxL, 0, 1)
      /\ job' = [job EXCEPT !.L = @ - MaxL] /\ UNCHANGED <<text, dst, base>>
  BY DEF SplitLiterals, frontVars
<1>2. Collected /\ triples \in Seq(Triple)
  BY <1>1 DEF ToldInv
<1>3. srcLiteral + MaxL + 0 <= End(job.match)
  <2>1. /\ job.match.pos \in Int /\ job.match.length \in Nat /\ job.L \in Nat /\ srcLiteral \in Int
        /\ End(job.match) = job.match.pos + job.match.length
        /\ srcLiteral + job.L = job.match.pos \/ job.L = 0
    BY <1>1, JobHere
  <2> QED
    BY <1>1, <2>1, ConstantFacts
<1>4. /\ job'.triples = job.triples /\ job'.literals = job.literals
      /\ job'.srcLiteral = job.srcLiteral /\ job'.caller = job.caller
  <2>1. job \in JobType
    BY DEF EncodeInv, TypeInv
  <2> QED
    BY <1>1, <2>1 DEF JobType
<1>5. Collected' /\ triples' \in Seq(Triple)
  <2>1. MaxL \in Nat /\ 0 \in Nat /\ 1 \in Nat /\ 1 <= 1 /\ ~(0 > 0)
    BY ConstantFacts
  <2> QED
    BY <1>1, <1>2, <1>3, <1>4, <2>1, PushCollected
<1>6. Finishing' => chunk' = "last"
  BY <1>1, <1>4 DEF Finishing, ToldInv
<1> QED
  BY <1>1, <1>5, <1>6, SameTold

(* The distance and the end of the piece of a match that is being pushed.  *)
LEMMA PieceHere ==
  ASSUME EncodeInv, phase = "push"
  PROVE  /\ job.L \in Nat /\ job.M \in Nat
         /\ job.match.pos - job.match.ref \in Nat /\ 1 <= job.match.pos - job.match.ref
         /\ srcLiteral + job.L + job.M = End(job.match)
         /\ job.match.pos <= srcLiteral + job.L
         /\ job.M > 0 => job.match.length > 0
         /\ srcLiteral \in Int
<1>1. /\ job.match.pos \in Int /\ job.match.ref \in Int /\ job.match.length \in Nat
      /\ job.L \in Nat /\ job.M \in Nat /\ srcLiteral \in Int
      /\ End(job.match) = job.match.pos + job.match.length
      /\ job.match.ref < job.match.pos
      /\ \/ srcLiteral + job.L = job.match.pos /\ job.M = job.match.length
         \/ job.match.pos <= srcLiteral /\ job.L = 0 /\ srcLiteral + job.M = End(job.match)
  BY JobHere
<1> QED
  BY <1>1

LEMMA ToldMatch ==
  ASSUME EncodeInv, ToldInv, SplitMatch, UNCHANGED chunk
  PROVE  ToldInv'
<1> DEFINE D == job.match.pos - job.match.ref
<1>1. /\ phase = "push" /\ phase' = "push" /\ job.M > MaxM /\ Push(job.L, MaxM, D)
      /\ job' = [job EXCEPT !.L = 0, !.M = @ - MaxM] /\ UNCHANGED <<text, dst, base>>
  BY DEF SplitMatch, frontVars
<1>2. Collected /\ triples \in Seq(Triple)
  BY <1>1 DEF ToldInv
<1>3. /\ job.L \in Nat /\ job.M \in Nat /\ D \in Nat /\ 1 <= D /\ srcLiteral \in Int
      /\ srcLiteral + job.L + job.M = End(job.match)
      /\ job.match.pos <= srcLiteral + job.L
      /\ job.M > 0 => job.match.length > 0
  BY <1>1, PieceHere
<1>4. /\ srcLiteral + job.L + MaxM <= End(job.match) /\ job.match.length > 0
      /\ MaxM \in Nat
  BY <1>1, <1>3, ConstantFacts
<1>5. /\ job'.triples = job.triples /\ job'.literals = job.literals
      /\ job'.srcLiteral = job.srcLiteral /\ job'.caller = job.caller
  <2>1. job \in JobType
    BY DEF EncodeInv, TypeInv
  <2> QED
    BY <1>1, <2>1 DEF JobType
<1>6. Collected' /\ triples' \in Seq(Triple)
  BY <1>1, <1>2, <1>3, <1>4, <1>5, PushCollected
<1>7. Finishing' => chunk' = "last"
  BY <1>1, <1>5 DEF Finishing, ToldInv
<1> QED
  BY <1>1, <1>6, <1>7, SameTold

LEMMA ToldRest ==
  ASSUME EncodeInv, ToldInv, PushRest, UNCHANGED chunk
  PROVE  ToldInv'
<1> DEFINE D == job.match.pos - job.match.ref
<1>1. /\ phase = "push" /\ phase' = job.caller /\ Push(job.L, job.M, D) /\ UNCHANGED <<text, dst, base>>
  BY DEF PushRest, Advance
<1>2. Collected /\ triples \in Seq(Triple) /\ job.caller \in {"base", "finish"}
  <2>1. job \in JobType
    BY DEF EncodeInv, TypeInv
  <2> QED
    BY <1>1, <2>1 DEF ToldInv, JobType
<1>3. /\ job.L \in Nat /\ job.M \in Nat /\ D \in Nat /\ 1 <= D /\ srcLiteral \in Int
      /\ srcLiteral + job.L + job.M = End(job.match)
      /\ job.match.pos <= srcLiteral + job.L
      /\ job.M > 0 => job.match.length > 0
  BY <1>1, PieceHere
<1>4. srcLiteral + job.L + job.M <= End(job.match)
  BY <1>3
<1>5. Collected' /\ triples' \in Seq(Triple)
  BY <1>1, <1>2, <1>3, <1>4, PushCollected
<1>6. Finishing' => chunk' = "last"
  BY <1>1, <1>2 DEF Finishing, ToldInv
<1> QED
  BY <1>1, <1>2, <1>5, <1>6, SameTold

LEMMA ToldBack ==
  ASSUME EncodeInv, ToldInv, PushFails \/ WriteBlock, UNCHANGED chunk
  PROVE  ToldInv'
<1>1. /\ phase \in {"push", "block"} /\ phase' \in {"push", "block", "failed"}
      /\ phase' # "failed" => job'.caller = job.caller
  <2>1. job \in JobType
    BY DEF EncodeInv, TypeInv
  <2> QED
    BY <2>1 DEF PushFails, WriteBlock, MatchesDoNotFit, JobType
<1>2. Collected /\ triples \in Seq(Triple)
  BY <1>1 DEF ToldInv
<1>3. Collected' /\ triples' \in Seq(Triple)
  BY <1>2, BackCollected, AgainCollected
<1>4. Finishing' => chunk' = "last"
  BY <1>1 DEF Finishing, ToldInv
<1> QED
  BY <1>1, <1>3, <1>4, SameTold

LEMMA ToldAdded ==
  ASSUME EncodeInv, ToldInv, NEW m, NEW keep, Add(m, keep), phase \in {"base", "finish"},
         UNCHANGED chunk
  PROVE  ToldInv'
<1>1. phase' = "push" /\ job'.caller = phase /\ triples' = triples
  BY DEF Add
<1>2. Collected' /\ triples' \in Seq(Triple)
  BY <1>1, AddCollected DEF ToldInv
<1>3. Finishing' => chunk' = "last"
  BY <1>1 DEF Finishing, ToldInv
<1> QED
  BY <1>1, <1>2, <1>3, SameTold

LEMMA ToldStill ==
  ASSUME EncodeInv, ToldInv, UNCHANGED <<text, triples, literals, dst>>,
         base' + srcLiteral' = base + srcLiteral,
         phase # "encoded", phase' \notin {"push", "block", "mark", "encoded"},
         phase' = "finish" => chunk' = "last"
  PROVE  ToldInv'
<1>1. Collected' /\ triples' \in Seq(Triple)
  BY SameCollected DEF ToldInv
<1>2. Finishing' => chunk' = "last"
  BY DEF Finishing
<1> QED
  BY <1>1, <1>2, SameTold

LEMMA ToldFinished ==
  ASSUME EncodeInv, ToldInv, FinishMatches, UNCHANGED chunk
  PROVE  ToldInv'
<1>1. /\ phase = "finish" /\ srcLiteral >= srcEnd /\ UNCHANGED <<text, base, srcLiteral>>
      /\ \/ WriteMatches /\ phase' = "mark"
         \/ MatchesDoNotFit
  BY DEF FinishMatches, frontVars
<1>2. Collected /\ triples \in Seq(Triple) /\ chunk = "last"
  BY <1>1 DEF ToldInv, Finishing
<1>3. CASE MatchesDoNotFit
  <2>1. phase' = "failed" /\ Collected' /\ triples' \in Seq(Triple)
    BY <1>1, <1>2, <1>3, MatchesRefused DEF MatchesDoNotFit
  <2>2. Finishing' => chunk' = "last"
    BY <2>1 DEF Finishing
  <2> QED
    BY <2>1, <2>2, SameTold
<1>4. CASE WriteMatches /\ phase' = "mark"
  <2>1. PICK at \in Nat : at = base + srcLiteral
    BY <1>2, <1>4, MatchesWritten
  <2>2. Streamed(dst', at, text) /\ triples' = <<>> /\ literals' = <<>>
    BY <1>2, <1>4, <2>1, MatchesWritten
  <2>3. at = Len(text)
    <3>1. base + srcEnd = Len(text) /\ srcLiteral <= srcEnd /\ srcLiteral \in Int /\ srcEnd \in Nat
          /\ base \in Nat
      BY <1>1, <1>2 DEF EncodeInv, ChunkInv, PositionInv, TypeInv, Active
    <3> QED
      BY <1>1, <2>1, <3>1
  <2>4. Halts(<<>>, <<>>, at, 0, at, 0, at, text)
    BY <2>3, HaltsAtOnce
  <2>5. base' + srcLiteral' = at
    BY <1>1, <2>1
  <2>6. Gathered(at, base + srcLiteral)'
    BY <1>1, <1>4, <2>2, <2>4, <2>5 DEF Gathered
  <2>7. Collected'
    BY <1>1, <2>2, <2>6 DEF Collected
  <2>8. <<>> \in Seq(Triple)
    OBVIOUS
  <2> QED
    BY <1>1, <1>4, <2>2, <2>3, <2>5, <2>7, <2>8 DEF ToldInv, Finishing
<1> QED
  BY <1>1, <1>3, <1>4

LEMMA ToldEnded ==
  ASSUME EncodeInv, ToldInv, EndStream, UNCHANGED chunk
  PROVE  ToldInv'
<1>1. /\ phase = "mark" /\ UNCHANGED <<text, base, srcLiteral, triples, literals>>
      /\ \/ phase' = "encoded" /\ dst' = dst \o BlockBytes(EndOfStreamBlock, 4)
         \/ phase' = "failed" /\ dst' = dst
  BY DEF EndStream, frontVars
<1>2. CASE phase' = "failed" /\ dst' = dst
  BY <1>1, <1>2, ToldStill
<1>3. CASE phase' = "encoded" /\ dst' = dst \o BlockBytes(EndOfStreamBlock, 4)
  <2>1. triples = <<>> /\ Collected /\ base + srcLiteral = Len(text)
    BY <1>1 DEF ToldInv
  <2>2. PICK from \in Nat : Streamed(dst, from, text) /\ Gathered(from, base + srcLiteral)
    BY <2>1 DEF Collected
  <2>3. from = Len(text)
    BY <2>1, <2>2, HaltsNowhere DEF Gathered
  <2> DEFINE b == EndOfStreamBlock
  <2>4. IF b.magic # "bvx2" THEN from = from ELSE BlockTells(b, from, from, text)
    BY DEF EndOfStreamBlock
  <2>5. IsSeq(dst)
    BY DEF EncodeInv, RoomInv
  <2>6. 4 \in Nat /\ 4 >= 1
    OBVIOUS
  <2> HIDE DEF b
  <2>7. Streamed(dst \o BlockBytes(b, 4), from, text)
    BY <2>2, <2>4, <2>5, <2>6, StreamedBlock
  <2>8. Streamed(dst', Len(text'), text')
    BY <1>1, <1>3, <2>3, <2>7 DEF b
  <2> QED
    BY <1>1, <1>3, <2>1, <2>8 DEF ToldInv, Finishing
<1> QED
  BY <1>1, <1>2, <1>3

(* A stream that begins with one block begins with its header.             *)
Framed(b, size, p, c, n) == BlockBytes(b, size) \o p \o BlockBytes(c, n)

LEMMA FirstOf ==
  ASSUME NEW b, NEW size \in Nat, size >= 1, NEW p, IsSeq(p), NEW n \in Nat, n >= 1, NEW c
  PROVE  Framed(b, size, p, c, n)[1] = b
<1> DEFINE head == BlockBytes(b, size)
           mark == BlockBytes(c, n)
<1>1. IsSeq(head) /\ Len(head) = size /\ head[1] = b /\ IsSeq(mark)
  BY BlockBytesAre
<1> HIDE DEF head, mark
<1>2. /\ IsSeq(head \o p) /\ Len(head \o p) = Len(head) + Len(p) /\ Len(p) \in Nat
      /\ \A i \in 1 .. Len(head) : (head \o p)[i] = head[i]
  BY <1>1, JoinedAny
<1>3. \A i \in 1 .. Len(head \o p) : ((head \o p) \o mark)[i] = (head \o p)[i]
  BY <1>1, <1>2, JoinedAny
<1>4. 1 \in 1 .. Len(head) /\ 1 \in 1 .. Len(head \o p)
  BY <1>1, <1>2
<1>5. ((head \o p) \o mark)[1] = b
  BY <1>1, <1>2, <1>3, <1>4
<1> QED
  BY <1>5 DEF Framed, head, mark

(* The stream is a raw or an LZVN block.                                   *)
LEMMA ToldOther ==
  ASSUME EncodeInv, ToldInv, LZVNEncoded \/ EncodeRaw
  PROVE  ToldInv'
<1>1. /\ phase \in {"lzvn", "failed"}
      /\ UNCHANGED <<text, base, srcLiteral, triples, literals>>
      /\ \/ phase' \in {"failed", "refused"} /\ dst' = dst
         \/ /\ phase' = "encoded"
            /\ \/ dst' = Framed(LZVNBlock(Len(text), Len(payload)), 12, payload, EndOfStreamBlock, 4)
               \/ dst' = Framed(RawBlock(left), 8, text, EndOfStreamBlock, 4)
  BY DEF LZVNEncoded, EncodeRaw, Goto, frontVars, Framed
<1>2. CASE phase' \in {"failed", "refused"} /\ dst' = dst
  BY <1>1, <1>2, ToldStill
<1>3. CASE phase' = "encoded"
  <2>1. IsSeq(payload) /\ IsSeq(text)
    BY SomeSeq DEF EncodeInv, RoomInv, TypeInv
  <2>2. dst'[1] = LZVNBlock(Len(text), Len(payload)) \/ dst'[1] = RawBlock(left)
    <3>1. 4 \in Nat /\ 4 >= 1 /\ 8 \in Nat /\ 8 >= 1 /\ 12 \in Nat /\ 12 >= 1
      OBVIOUS
    <3>2. CASE dst' = Framed(LZVNBlock(Len(text), Len(payload)), 12, payload, EndOfStreamBlock, 4)
      BY <2>1, <3>1, <3>2, FirstOf
    <3>3. CASE dst' = Framed(RawBlock(left), 8, text, EndOfStreamBlock, 4)
      BY <2>1, <3>1, <3>3, FirstOf
    <3> QED
      BY <1>1, <1>3, <3>2, <3>3
  <2>3. dst'[1].magic # "bvx2"
    BY <2>2 DEF LZVNBlock, RawBlock
  <2> QED
    BY <1>1, <1>3, <2>3 DEF ToldInv, Finishing
<1> QED
  BY <1>1, <1>2, <1>3

LEMMA ToldNext ==
  ASSUME EncodeInv, ToldInv, EncodeLZFSE
  PROVE  ToldInv'
<1>1. NextLZFSE /\ UNCHANGED chunk
  BY DEF EncodeLZFSE
<1>2. CASE SplitLiterals \/ SplitMatch \/ PushRest \/ PushFails \/ WriteBlock
  BY <1>1, <1>2, ToldLiterals, ToldMatch, ToldRest, ToldBack
<1>3. CASE SkipEmitted \/ NothingFound \/ KeepIncoming \/ EndBase
  <2>1. /\ UNCHANGED <<text, base, srcLiteral, triples, literals, dst>>
        /\ phase = "base" /\ phase' \in {"base", "based"}
    BY <1>3 DEF SkipEmitted, NothingFound, KeepIncoming, EndBase, Continue, Advance, Searching,
       Looking, NotGood, frontVars
  <2> QED
    BY <2>1, ToldStill
<1>4. CASE FlushPending \/ FlushLiterals \/ EmitGood \/ EmitPendingKeepIncoming \/ EmitLonger
           \/ FinishPending \/ FinishLiterals
  <2>1. phase \in {"base", "finish"} /\ \E m, keep : Add(m, keep)
    BY <1>4 DEF FlushPending, FlushLiterals, EmitGood, EmitPendingKeepIncoming, EmitLonger,
       FinishPending, FinishLiterals, Searching, Looking, NotGood
  <2> QED
    BY <1>1, <2>1, ToldAdded
<1>5. CASE FinishMatches \/ EndStream
  BY <1>1, <1>5, ToldFinished, ToldEnded
<1> QED
  BY <1>1, <1>2, <1>3, <1>4, <1>5 DEF NextLZFSE

LEMMA ToldKept ==
  ASSUME EncodeInv, ToldInv, [NextEncode]_encodeVars
  PROVE  ToldInv'
<1>1. CASE EncodeLZVN \/ UNCHANGED encodeVars
  <2>1. UNCHANGED <<text, phase, base, srcLiteral, triples, literals, dst, job, chunk>>
    BY <1>1 DEF EncodeLZVN, encodeVars, lzfseVars, frontVars
  <2>2. Collected => Collected'
    BY <2>1, SameCollected
  <2> QED
    BY <2>1, <2>2 DEF ToldInv, Finishing
<1>2. CASE ChooseRaw \/ ChooseLZVN \/ ChooseLZFSE \/ FirstChunkDone \/ LastChunkDone
  <2>1. /\ UNCHANGED <<text, base, srcLiteral, triples, literals, dst>>
        /\ phase \in {"start", "based"} /\ phase' \in {"failed", "lzvn", "base", "finish"}
        /\ phase' = "finish" => chunk' = "last"
    BY <1>2 DEF ChooseRaw, ChooseLZVN, ChooseLZFSE, FirstChunkDone, LastChunkDone, Goto, frontVars
  <2> QED
    BY <2>1, ToldStill
<1>3. CASE MiddleChunkDone
  <2>1. /\ UNCHANGED <<text, triples, literals, dst>> /\ phase = "based" /\ phase' = "base"
        /\ base' = base + ChunkSize /\ srcLiteral' = srcLiteral - ChunkSize
    BY <1>3 DEF MiddleChunkDone, Translate
  <2>2. base' + srcLiteral' = base + srcLiteral
    <3>1. base \in Nat /\ srcLiteral \in Int /\ ChunkSize \in Nat
      BY DispatchAssumption DEF EncodeInv, TypeInv
    <3> QED
      BY <2>1, <3>1
  <2> QED
    BY <2>1, <2>2, ToldStill
<1>4. CASE LZVNEncoded \/ EncodeRaw
  BY <1>4, ToldOther
<1>5. CASE EncodeLZFSE
  BY <1>5, ToldNext
<1> QED
  BY <1>1, <1>2, <1>3, <1>4, <1>5 DEF NextEncode

LEMMA ToldStarts == InitEncode => ToldInv
<1> SUFFICES ASSUME InitEncode PROVE ToldInv
  OBVIOUS
<1>1. /\ base = 0 /\ srcLiteral = 0 /\ triples = <<>> /\ literals = <<>> /\ dst = <<>>
      /\ phase = "start"
  BY DEF InitEncode, InitLZFSE
<1>2. Len(text) \in Nat
  BY EncodeInvStarts, LenProperties DEF EncodeInv, TypeInv
<1>3. Halts(<<>>, <<>>, 0, 0, 0, 0, 0, text)
  BY <1>2, HaltsAtOnce
<1>4. Gathered(0, base + srcLiteral)
  BY <1>1, <1>3 DEF Gathered
<1>5. Collected
  BY <1>1, <1>4, StreamedStarts DEF Collected
<1>6. <<>> \in Seq(Triple)
  OBVIOUS
<1> QED
  BY <1>1, <1>5, <1>6 DEF ToldInv, Finishing

(* No byte of a source is lost or told twice: at every moment of an        *)
(* encoding the blocks written and the triples collected stand for the     *)
(* source up to src_literal, and the blocks of a finished LZFSE stream for *)
(* all of it, for every source, every destination and buffers of any size. *)
THEOREM NothingIsLost == EncodeSpec => []NothingLost
<1>1. InitEncode => ToldInv
  BY ToldStarts
<1>2. EncodeInv /\ ToldInv /\ [NextEncode]_encodeVars => ToldInv'
  BY ToldKept
<1>3. EncodeInv /\ ToldInv => NothingLost
  BY InvNothingLost DEF EncodeInv
<1> QED
  BY <1>1, <1>2, <1>3, AlwaysEncodeInv, PTL DEF EncodeSpec

=============================================================================
