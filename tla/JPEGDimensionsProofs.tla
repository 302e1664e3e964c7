------------------------ MODULE JPEGDimensionsProofs ------------------------
(***************************************************************************)
(* Proofs about the walk over a JPEG file, for any set of files: it never  *)
(* reads outside the file and never goes back.                             *)
(***************************************************************************)
EXTENDS JPEGDimensions, TLAPS

(* A segment is only looked into once its length is known to be there and  *)
(* to keep it inside the file: why the later reads are in bounds.          *)
SegmentInv ==
  pc = "segment" => i + 2 <= Count /\ Word(i) >= 2 /\ i + Word(i) <= Count

(* The walk starts at the front.                                           *)
StartInv == pc = "soi" => i = 0

IInv == TypeOK /\ SegmentInv /\ StartInv

(* A subscript inside the file yields a byte.                              *)
LEMMA ByteType ==
  ASSUME bytes \in Seq(0 .. MaxU8), NEW k \in Nat, k < Count
  PROVE  Byte(k) \in 0 .. MaxU8
<1> DEFINE Octet == 0 .. MaxU8
<1>1. bytes \in Seq(Octet) /\ k + 1 \in 1 .. Len(bytes)
  BY DEF Count
<1>2. bytes[k + 1] \in Octet
  <2> HIDE DEF Octet
  <2> QED
    BY <1>1
<1> QED
  BY <1>2 DEF Byte

(* Two bytes inside the file make a UInt16.                                *)
LEMMA WordType ==
  ASSUME bytes \in Seq(0 .. MaxU8), NEW k \in Nat, k + 2 <= Count
  PROVE  Word(k) \in 0 .. MaxU16
<1>1. Count \in Nat
  BY DEF Count
<1>2. Byte(k) \in 0 .. MaxU8 /\ Byte(k + 1) \in 0 .. MaxU8
  BY <1>1, ByteType
<1>3. MaxU8 \in Nat /\ MaxU16 \in Nat
  BY DEF MaxU8, MaxU16
<1>4. /\ Byte(k) \in Nat /\ Byte(k) <= MaxU8
      /\ Byte(k + 1) \in Nat /\ Byte(k + 1) <= MaxU8
  BY <1>2, <1>3
<1>5. Word(k) \in Nat /\ Word(k) <= MaxU16
  BY <1>4 DEF Word, MaxU8, MaxU16
<1> QED
  BY <1>3, <1>5

(* The walk starts in the file, which may be empty.                        *)
LEMMA InitIInv == Init => IInv
<1>1. MaxU8 \in Nat /\ MaxU16 \in Nat
  BY DEF MaxU8, MaxU16
<1>2. Init => bytes \in Seq(0 .. MaxU8)
  BY FilesAssumption DEF Init
<1> QED
  BY <1>1, <1>2 DEF Init, IInv, TypeOK, SegmentInv, StartInv, Statement, Count

(* One step keeps the invariant and, what Forward says, goes ahead.        *)
LEMMA StepIInv ==
  ASSUME IInv, [Next]_vars
  PROVE  IInv' /\ (UNCHANGED vars \/ (i' >= i /\ i' <= Count))
<1> DEFINE Ahead == i' >= i /\ i' <= Count
<1>0. /\ bytes \in Seq(0 .. MaxU8) /\ i \in 0 .. Count /\ Count \in Nat
      /\ marker \in 0 .. MaxU8 /\ size \in (0 .. MaxU16) \X (0 .. MaxU16)
      /\ SegmentInv /\ StartInv
  BY DEF IInv, TypeOK, Count
<1>1. ASSUME pc' \in Statement, pc' \notin {"segment", "soi"}, UNCHANGED <<bytes, size>>,
             i' \in i .. Count, marker' \in 0 .. MaxU8
      PROVE  IInv' /\ Ahead
  BY <1>0, <1>1 DEF IInv, TypeOK, SegmentInv, StartInv, Count
<1>2. ASSUME NEW why, Fail(why)
      PROVE  IInv' /\ Ahead
  BY <1>0, <1>1, <1>2 DEF Fail, Statement
<1>3. CASE ReadSOI
  BY <1>0, <1>1, <1>3 DEF ReadSOI, Goto, IInv, TypeOK, SegmentInv, StartInv, Count, Statement
<1>4. CASE MissingSOI
  BY <1>2, <1>4 DEF MissingSOI
<1>5. CASE SkipData \/ SkipFill
  BY <1>0, <1>1, <1>5 DEF SkipData, SkipFill, Statement
<1>6. CASE EndData \/ SkipStandalone
  BY <1>0, <1>1, <1>6 DEF EndData, SkipStandalone, Goto, Statement
<1>7. CASE ReadMarker
  <2>1. Byte(i) \in 0 .. MaxU8
    BY <1>0, <1>7, ByteType DEF ReadMarker
  <2> QED
    BY <1>0, <1>1, <1>7, <2>1 DEF ReadMarker, Goto, Statement
<1>8. CASE NoFrame \/ TruncatedLength \/ OverrunningSegment \/ ShortFrame
  BY <1>2, <1>8 DEF NoFrame, TruncatedLength, OverrunningSegment, ShortFrame
<1>9. CASE CheckSegment
  <2>1. /\ pc' = "segment" /\ UNCHANGED <<bytes, i, marker, size>>
        /\ i + 2 <= Count /\ Word(i) >= 2 /\ i + Word(i) <= Count
    BY <1>9 DEF CheckSegment, Goto
  <2>2. SegmentInv' /\ Count' = Count
    BY <2>1 DEF SegmentInv, StartInv, Word, Byte, Count
  <2> QED
    BY <1>0, <2>1, <2>2 DEF IInv, TypeOK, StartInv, Statement
<1>10. CASE ReadFrame
  <2>1. /\ pc = "segment" /\ pc' = "done" /\ UNCHANGED <<bytes, i, marker>>
        /\ Word(i) >= 7 /\ size' = <<Word(i + 5), Word(i + 3)>>
    BY <1>10 DEF ReadFrame, Goto
  <2>2. i + 2 <= Count /\ i + Word(i) <= Count
    BY <1>0, <2>1 DEF SegmentInv
  <2>3. Word(i) \in 0 .. MaxU16
    BY <1>0, <2>2, WordType
  <2>4. i + 7 <= Count
    BY <1>0, <2>1, <2>2, <2>3
  <2>5. Word(i + 3) \in 0 .. MaxU16 /\ Word(i + 5) \in 0 .. MaxU16
    BY <1>0, <2>4, WordType
  <2> QED
    BY <1>0, <2>1, <2>5 DEF IInv, TypeOK, SegmentInv, StartInv, Count, Statement
<1>11. CASE SkipSegment
  <2>1. /\ pc = "segment" /\ pc' = "data" /\ UNCHANGED <<bytes, marker, size>>
        /\ i' = i + Word(i)
    BY <1>11 DEF SkipSegment, Goto
  <2>2. i + 2 <= Count /\ i + Word(i) <= Count
    BY <1>0, <2>1 DEF SegmentInv
  <2>3. Word(i) \in 0 .. MaxU16
    BY <1>0, <2>2, WordType
  <2>4. i' \in i .. Count
    BY <1>0, <2>1, <2>2, <2>3
  <2> QED
    BY <1>0, <1>1, <2>1, <2>4 DEF Statement
<1>12. CASE UNCHANGED vars
  BY <1>12 DEF vars, IInv, TypeOK, SegmentInv, StartInv, Word, Byte, Count
<1> QED
  BY <1>3, <1>4, <1>5, <1>6, <1>7, <1>8, <1>9, <1>10, <1>11, <1>12
     DEF Next, Walk, Returned

(* The strengthened invariant holds throughout the walk.                   *)
LEMMA AlwaysIInv == Spec => []IInv
<1>1. IInv /\ [Next]_vars => IInv'
  BY StepIInv
<1> QED
  BY InitIInv, <1>1, PTL DEF Spec

-----------------------------------------------------------------------------

(* The walk stays inside the file, whatever bytes a user's file holds, and *)
(* what it returns as dimensions are two 16-bit numbers.                   *)
THEOREM TypeCorrect == Spec => []TypeOK
<1>1. IInv => TypeOK
  BY DEF IInv
<1> QED
  BY AlwaysIInv, <1>1, PTL

(* No read of a length, a height or a width is outside the file, for any   *)
(* file: the program cannot trap on a malformed JPEG.                      *)
THEOREM ReadsNeverOverrun == Spec => []ReadsInBounds
<1>1. ASSUME IInv, pc = "segment", KnownFrame(marker), Word(i) >= 7
      PROVE  i + 7 <= Count
  <2>1. i + 2 <= Count /\ i + Word(i) <= Count /\ i \in Nat /\ Count \in Nat
    BY <1>1 DEF IInv, TypeOK, SegmentInv, StartInv, Count
  <2>2. Word(i) \in 0 .. MaxU16
    BY <1>1, <2>1, WordType DEF IInv, TypeOK
  <2> QED
    BY <1>1, <2>1, <2>2
<1>2. IInv => ReadsInBounds
  BY <1>1 DEF ReadsInBounds, IInv, SegmentInv
<1> QED
  BY AlwaysIInv, <1>2, PTL

(* The walk only goes forward and never past the end of the file: no       *)
(* length found in a file makes it visit a byte twice.                     *)
THEOREM GoesForward == Spec => Forward
<1>1. IInv /\ [Next]_vars => [i' >= i /\ i' <= Count]_vars
  BY StepIInv DEF vars
<1> QED
  BY AlwaysIInv, <1>1, PTL DEF Spec, Forward

=============================================================================
