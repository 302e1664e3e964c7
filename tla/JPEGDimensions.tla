--------------------------- MODULE JPEGDimensions ---------------------------
(***************************************************************************)
(* JPEGSource.Dimensions.read: walks the segments of a JPEG file to the    *)
(* first frame header it knows and takes the dimensions from it.  The      *)
(* bytes are those of a user's file and may be anything; an access beyond  *)
(* their end would trap.                                                   *)
(***************************************************************************)
EXTENDS Integers, Sequences

CONSTANT Files   \* the files to read: sequences of bytes

MaxU8 == 255
MaxU16 == 65535

ASSUME FilesAssumption == Files \subseteq Seq(0 .. MaxU8)

VARIABLES
  bytes,    \* the file
  i,        \* position of the walk, from 0
  pc,       \* the statement the walk is at
  marker,   \* the marker last read
  size,     \* <<width, height>> once found
  reason    \* why the file is malformed

vars == <<bytes, i, pc, marker, size, reason>>

Byte(k) == bytes[k + 1]
Count == Len(bytes)

(* Two bytes at position k, high byte first.                               *)
Word(k) == (MaxU8 + 1) * Byte(k) + Byte(k + 1)

Standalone(m) == m \in {216, 217} \cup 208 .. 215
KnownFrame(m) == m \in {192, 193, 194}

Statement == {"soi", "data", "fill", "marker", "segment", "done", "failed"}

Init ==
  /\ bytes \in Files
  /\ i = 0
  /\ pc = "soi"
  /\ marker = 0
  /\ size = <<0, 0>>
  /\ reason = "none"

Goto(from, to) == pc = from /\ pc' = to

Fail(why) ==
  /\ pc' = "failed"
  /\ reason' = why
  /\ UNCHANGED <<bytes, i, marker, size>>

ReadSOI ==
  /\ Goto("soi", "data")
  /\ Count >= 4 /\ Byte(0) = 255 /\ Byte(1) = 216
  /\ i' = 2
  /\ UNCHANGED <<bytes, marker, size, reason>>

MissingSOI ==
  /\ pc = "soi"
  /\ ~(Count >= 4 /\ Byte(0) = 255 /\ Byte(1) = 216)
  /\ Fail("missing SOI marker")

(* The first inner loop: bytes that are not 0xFF.                          *)
SkipData ==
  /\ pc = "data"
  /\ i < Count /\ Byte(i) # 255
  /\ i' = i + 1
  /\ UNCHANGED <<bytes, pc, marker, size, reason>>

EndData ==
  /\ Goto("data", "fill")
  /\ i < Count => Byte(i) = 255
  /\ UNCHANGED <<bytes, i, marker, size, reason>>

(* The second: the 0xFF bytes before a marker.                             *)
SkipFill ==
  /\ pc = "fill"
  /\ i < Count /\ Byte(i) = 255
  /\ i' = i + 1
  /\ UNCHANGED <<bytes, pc, marker, size, reason>>

ReadMarker ==
  /\ Goto("fill", "marker")
  /\ i < Count /\ Byte(i) # 255
  /\ marker' = Byte(i)
  /\ i' = i + 1
  /\ UNCHANGED <<bytes, size, reason>>

NoFrame ==
  /\ pc = "fill"
  /\ i >= Count
  /\ Fail("no SOF marker found")

SkipStandalone ==
  /\ Goto("marker", "data")
  /\ Standalone(marker)
  /\ UNCHANGED <<bytes, i, marker, size, reason>>

(* Mutant: forgets that the length needs two bytes.                        *)
CheckSegmentUnguarded ==
  /\ Goto("marker", "segment")
  /\ ~Standalone(marker)
  /\ i < Count
  /\ UNCHANGED <<bytes, i, marker, size, reason>>

(* The length is there, and it is that of a segment inside the file.       *)
CheckSegment ==
  /\ Goto("marker", "segment")
  /\ ~Standalone(marker)
  /\ i + 2 <= Count
  /\ Word(i) >= 2 /\ i + Word(i) <= Count
  /\ UNCHANGED <<bytes, i, marker, size, reason>>

TruncatedLength ==
  /\ pc = "marker"
  /\ ~Standalone(marker)
  /\ i + 2 > Count
  /\ Fail("truncated segment length")

OverrunningSegment ==
  /\ pc = "marker"
  /\ ~Standalone(marker)
  /\ i + 2 <= Count
  /\ ~(Word(i) >= 2 /\ i + Word(i) <= Count)
  /\ Fail("segment overruns file")

(* Mutant: takes the height for the width.                                 *)
ReadFrameSwapped ==
  /\ Goto("segment", "done")
  /\ KnownFrame(marker)
  /\ Word(i) >= 7
  /\ size' = <<Word(i + 3), Word(i + 5)>>
  /\ UNCHANGED <<bytes, i, marker, reason>>

(* A frame header: length, precision, height, width.                       *)
ReadFrame ==
  /\ Goto("segment", "done")
  /\ KnownFrame(marker)
  /\ Word(i) >= 7
  /\ size' = <<Word(i + 5), Word(i + 3)>>
  /\ UNCHANGED <<bytes, i, marker, reason>>

ShortFrame ==
  /\ pc = "segment"
  /\ KnownFrame(marker)
  /\ Word(i) < 7
  /\ Fail("SOF segment too short")

(* Mutant: steps back to the length.                                       *)
SkipSegmentBack ==
  /\ Goto("segment", "data")
  /\ ~KnownFrame(marker)
  /\ i' = i - 2
  /\ UNCHANGED <<bytes, marker, size, reason>>

SkipSegment ==
  /\ Goto("segment", "data")
  /\ ~KnownFrame(marker)
  /\ i' = i + Word(i)
  /\ UNCHANGED <<bytes, marker, size, reason>>

Walk ==
  \/ ReadSOI \/ MissingSOI
  \/ SkipData \/ EndData \/ SkipFill \/ ReadMarker \/ NoFrame
  \/ SkipStandalone \/ CheckSegment \/ TruncatedLength \/ OverrunningSegment
  \/ ReadFrame \/ ShortFrame \/ SkipSegment

Returned == pc \in {"done", "failed"} /\ UNCHANGED vars

Next == Walk \/ Returned

Spec == Init /\ [][Next]_vars

FairSpec == Spec /\ WF_vars(Walk)

-----------------------------------------------------------------------------
(* Correctness.                                                            *)

(* The walk never leaves the file, and what it has read of it fits the     *)
(* types of the code: a marker is a byte, the dimensions are UInt16.       *)
TypeOK ==
  /\ bytes \in Seq(0 .. MaxU8)
  /\ i \in 0 .. Count
  /\ pc \in Statement
  /\ marker \in 0 .. MaxU8
  /\ size \in (0 .. MaxU16) \X (0 .. MaxU16)

(* Wherever the walk reads bytes of a segment (its length, and the height  *)
(* and width of a frame), they lie in the file, whatever the file holds.   *)
ReadsInBounds ==
  pc = "segment" =>
    /\ i + 2 <= Count
    /\ KnownFrame(marker) /\ Word(i) >= 7 => i + 7 <= Count

(* The walk only goes forward, and never past the end: what a segment says *)
(* of its length cannot send it back over bytes it has seen.               *)
Forward == [][i' >= i /\ i' <= Count]_vars

(* It ends, for every file.                                                *)
Ends == <>(pc \in {"done", "failed"})

=============================================================================
