------------------------------- MODULE MCLZFSE -------------------------------
(***************************************************************************)
(* A source through lzfse_encode_buffer and the stream through             *)
(* lzfse_decode, every call of which gets some part of the stream and of   *)
(* the destination.                                                        *)
(***************************************************************************)
EXTENDS LZFSEEncode, LZFSEDecoder

CONSTANT MaxCalls   \* bounds the calls of the decoder
VARIABLES
  calls,
  kept    \* no call was made after one that lost part of an LZVN block

vars == <<encodeVars, decoderVars, calls, kept>>

Init == InitEncode /\ InitDecoder /\ calls = 0 /\ kept = TRUE

(* Bytes with few repetitions, for literals, and pieces that repeat.       *)
Fresh(from, to) == [i \in 1 .. to - from |-> (5 * (from + i) * (from + i) + (from + i) \div 9) % 251]
Same(n) == [i \in 1 .. n |-> 7]
Word == <<1, 2, 3, 4, 5>>
Twice(t) == t \o t

Texts ==
  {Fresh(0, 5), Fresh(0, 12), Word \o Word \o Same(9),            \* raw and LZVN blocks
   Word \o Same(22), Fresh(0, 40), Fresh(0, 30) \o Same(40),
   Word \o Fresh(0, 3) \o Word \o Fresh(3, 8) \o <<9, 1, 2, 3, 4>> \o Fresh(8, 30) \o Word \o Fresh(30, 44),
   Twice(Fresh(0, 16)) \o Twice(Fresh(16, 30)) \o Fresh(30, 40),
   Fresh(0, 60) \o Word \o <<4, 5, 6, 7>> \o Word \o <<6, 4, 5, 6, 7>> \o Fresh(60, 80),   \* in chunks
   Word \o Same(125), Twice(Fresh(0, 22)) \o Fresh(22, 30) \o Same(30) \o Fresh(30, 50)}

MCSources ==
  UNION {{<<t, n>> : n \in {14, 17, 40, 60, 80, 110, Len(t) + 11, Len(t) + 12, Len(t) + 256}} : t \in Texts}

(* The stream as it was written; with the headers of the older form; with  *)
(* a block that is none.                                                   *)
Older ==
  IF dst[1].magic # "bvx2" THEN dst
  ELSE BlockBytes([dst[1] EXCEPT !.magic = "bvx1"], 1 + HeaderV1 - dst[1].headerSize) \o Tail(dst)
Unknown == BlockBytes([magic |-> "bvx?"], 4)

(* Of a literal or match that lzvn_decode was cut off in, the caller does  *)
(* not keep L, M and D, so that the next call begins with an instruction.  *)
LostInLZVN == s.magic = "bvxn" /\ (call.L # 0 \/ call.M # 0)

Call(srcEnd_, dstEnd) ==
  /\ calls < MaxCalls
  /\ calls' = calls + 1
  /\ kept' = (kept /\ ~LostInLZVN)
  /\ s' = [s EXCEPT !.srcEnd = srcEnd_, !.dstEnd = dstEnd]
  /\ status' = "running"
  /\ UNCHANGED <<encodeVars, out, symbol, call, reg, at>>

FirstCall ==
  /\ phase = "encoded" /\ status = "idle"
  /\ dstSize = Len(text) + 256 \/ dstSize = Len(text) + 12
  /\ stream' \in {dst, Older, Unknown}
  /\ \/ \E n \in 0 .. Len(stream') : Call(n, Len(text) + 1)
     \/ \E n \in 0 .. Len(text) + 1 : Call(Len(stream'), n)

(* More of the stream, of the destination or of both.                      *)
CallAgain ==
  /\ status \in {"SRC_EMPTY", "DST_FULL"}
  /\ \E n \in {s.srcEnd, s.srcEnd + 5, Len(stream)},
        d \in {s.dstEnd, s.dstEnd + 1, s.dstEnd + 7, Len(text)} :
       s.srcEnd <= n /\ n <= Len(stream) /\ s.dstEnd <= d /\ Call(n, d)
  /\ UNCHANGED stream

Next ==
  \/ NextEncode /\ UNCHANGED <<decoderVars, calls, kept>>
  \/ NextDecode /\ UNCHANGED <<encodeVars, calls, kept>>
  \/ FirstCall \/ CallAgain

Spec == Init /\ [][Next]_vars

----------------------------------------------------------------------------
(* What is in the destination is the beginning of the text.                *)
OutIsText == Len(out) <= Len(text) /\ out = SubSeq(text, 1, Len(out))

(* Whatever the sizes of the calls, what is in the destination is the      *)
(* beginning of the text, and the end-of-stream marker is reached only     *)
(* with all of the text out: until a call follows one that was cut off     *)
(* inside an instruction of an LZVN block (MoreRoomIsEnough says what      *)
(* becomes of those).                                                      *)
DecodesText ==
  phase = "encoded" /\ kept =>
    /\ OutIsText
    /\ s.eos => out = text /\ s.src = Len(stream)

(* With all of the stream and room for the text a call never fails and     *)
(* never asks for more; with less room it fills the destination.           *)
WholeStreamDecodes ==
  phase = "encoded" /\ stream # Unknown /\ s.srcEnd = Len(stream) /\ kept =>
    /\ status \notin {"SRC_EMPTY", "ERROR"}
    /\ status = "DST_FULL" => Len(out) = s.dstEnd /\ s.dstEnd < Len(text)
    /\ status = "OK" => BytesWritten = Len(text)

(* The literals of a compressed block are those its triples take, but for  *)
(* the zeros at the end: no literal of an earlier block is ever read.      *)
LiteralsUsedUp ==
  status = "running" /\ s.magic = "none" /\ s.src > 0 =>
    Len(s.literals) - s.lit \in 0 .. 3

(* A block is decoded from its own literals and its own part of the        *)
(* stream, into the room of the call.                                      *)
BlocksKeepToTheirOwn == DecoderInBounds /\ LiteralsUsedUp

----------------------------------------------------------------------------
(* What comments say of the decoder and the code does not see to.          *)

(* A decoder that ran out of room inside an LZVN block has a valid state   *)
(* and needs "more space in dst" (lzfse_decode_base.c:618): given it, it   *)
(* goes on with the text.                                                  *)
MoreRoomIsEnough ==
  phase = "encoded" /\ stream # Unknown /\ s.srcEnd = Len(stream) =>
    OutIsText /\ status # "ERROR"

=============================================================================
