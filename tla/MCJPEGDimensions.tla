-------------------------- MODULE MCJPEGDimensions --------------------------
(***************************************************************************)
(* An instance of JPEGDimensions for TLC: files put together from pieces   *)
(* whose meaning is known, whole and cut off anywhere.                     *)
(***************************************************************************)
EXTENDS JPEGDimensions, SequencesExt

SOI == <<255, 216>>

(* Fill and stray bytes, a restart marker, a comment that holds the bytes  *)
(* of a frame header, frames of both kinds, a frame too short to be one,   *)
(* and a segment of impossible length.                                     *)
Frame(m, h, w) == <<255, m, 0, 8, 8, 0, h, 0, w, 9>>
Pieces ==
  {<<255, 255>>, <<7>>, <<255, 208>>, <<255, 254, 0, 5, 255, 192, 1>>,
   Frame(192, 3, 4), Frame(194, 5, 6), Frame(195, 7, 8),
   <<255, 193, 0, 4, 1, 2>>, <<255, 225, 0, 1>>}

Whole == {SOI \o p \o q \o r : p \in Pieces, q \in Pieces, r \in Pieces}

MCFiles == UNION {{SubSeq(x, 1, n) : n \in 0 .. Len(x)} : x \in Whole}

(* What a file of pieces means: the first of them that has a say decides.  *)
(* A frame of an unknown kind has no dimensions to give.                   *)
Unknown == Frame(195, 7, 8)
Skipped == {<<7>>, <<255, 208>>, <<255, 254, 0, 5, 255, 192, 1>>, Unknown}

Deciding(pieces) == {k \in DOMAIN pieces : pieces[k] \notin Skipped}
First(K) == CHOOSE k \in K : \A l \in K : k <= l

Meaning(pieces) ==
  IF Deciding(pieces) = {} THEN "no SOF marker found"
  ELSE LET first == pieces[First(Deciding(pieces))]
       IN IF first = <<255, 225, 0, 1>> THEN "segment overruns file"
          ELSE IF first = <<255, 193, 0, 4, 1, 2>> THEN "SOF segment too short"
          ELSE "none"

MadeOf(pieces) == bytes = SOI \o pieces[1] \o pieces[2] \o pieces[3]

(* A known frame behind an unknown one.  "Treating an unrecognised SOF as  *)
(* malformed" (JPEGSource.swift:37-39) would refuse such a file, which the *)
(* code (line 65) takes for the later frame's.                             *)
Disputed(pieces) ==
  /\ Meaning(pieces) = "none"
  /\ \E k \in 1 .. First(Deciding(pieces)) : pieces[k] = Unknown

(* The walk returns the dimensions of the first frame header of a file     *)
(* made of whole pieces, and those of no other: not of a frame inside the  *)
(* payload of a comment, nor of one that comes later.  A file whose only   *)
(* frames are of kinds it does not know is malformed.  Of a disputed file  *)
(* this says nothing.                                                      *)
FirstFrameFound ==
  pc \in {"done", "failed"} =>
  \A p, q, r \in Pieces \ {<<255, 255>>} :
    LET pieces == <<p, q, r>>
        first == pieces[First(Deciding(pieces))]
    IN MadeOf(pieces) /\ ~Disputed(pieces) =>
         /\ reason = Meaning(pieces)
         /\ pc = "done" => size = <<first[9], first[7]>>

=============================================================================
