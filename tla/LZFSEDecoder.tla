---------------------------- MODULE LZFSEDecoder ----------------------------
(***************************************************************************)
(* lzfse_decode: goes through the blocks of a stream of which only a first *)
(* part may be there yet, into a buffer that may be too small.  It can be  *)
(* called again with more of either; s is the lzfse_decoder_state that     *)
(* lives from call to call.                                                *)
(***************************************************************************)
EXTENDS LZFSEFormat

CONSTANTS HeaderV1,     \* sizeof(lzfse_compressed_block_header_v1)
          Unwritten     \* of the LZVN decoder

VARIABLES
  stream, out,     \* the source; what the destination holds so far
  s,               \* the decoder's state
  status,          \* where the running call is, or what the last one returned
  symbol,          \* L, M, D that lzfse_decode_lmd holds, dist the raw distance
  call, reg, at    \* of the LZVN decoder

decoderVars == <<stream, out, s, status, symbol, call, reg, at>>

LZVND == INSTANCE LZVNDecoder

NoSymbol == [L |-> 0, M |-> 0, D |-> 0]
NewState ==
  [src |-> 0, srcEnd |-> 0, dst |-> 0, dstEnd |-> 0, eos |-> FALSE, magic |-> "none",
   raw |-> 0, payload |-> 0, dPrev |-> 0,                         \* raw and LZVN blocks
   triples |-> <<>>, literals |-> <<>>, lmdBytes |-> 0, lit |-> 0, \* compressed blocks
   L |-> 0, M |-> 0, D |-> 0]

InitDecoder ==
  /\ stream = <<>> /\ out = <<>>
  /\ s = NewState /\ status = "idle" /\ symbol = NoSymbol
  /\ call = LZVND!NewCall /\ reg = LZVND!NewReg /\ at = "idle"

SrcSpace == s.srcEnd - s.src
DstSpace == s.dstEnd - Len(out)
Header == stream[s.src + 1]

Return(code) == status' = code /\ UNCHANGED <<stream, out, s, symbol, call, reg, at>>
Enter(state) == s' = state /\ UNCHANGED <<stream, out, status, symbol, call, reg, at>>

----------------------------------------------------------------------------
(* Between two blocks.                                                     *)

AtHeader(magics) ==
  status = "running" /\ s.magic = "none" /\ SrcSpace >= 4 /\ Header.magic \in magics

NoHeader ==
  /\ status = "running" /\ s.magic = "none" /\ SrcSpace < 4
  /\ Return("SRC_EMPTY")

EndOfStream ==
  /\ AtHeader({"bvx$"})
  /\ s' = [s EXCEPT !.src = @ + 4, !.eos = TRUE]
  /\ status' = "OK"
  /\ UNCHANGED <<stream, out, symbol, call, reg, at>>

RawHeader ==
  /\ AtHeader({"bvx-"})
  /\ IF SrcSpace < 8 THEN Return("SRC_EMPTY")
     ELSE Enter([s EXCEPT !.src = @ + 8, !.magic = "bvx-", !.raw = Header.raw])

LZVNHeader ==
  /\ AtHeader({"bvxn"})
  /\ IF SrcSpace < 12 THEN Return("SRC_EMPTY")
     ELSE Enter([s EXCEPT !.src = @ + 12, !.magic = "bvxn", !.raw = Header.raw,
                          !.payload = Header.payload, !.dPrev = 0])

(* All of the block has to be there.  The literals are decoded at once,    *)
(* the triples later, from a payload src is left at.                       *)
CompressedHeader ==
  /\ AtHeader({"bvx1", "bvx2"})
  /\ LET size == IF Header.magic = "bvx1" THEN HeaderV1 ELSE Header.headerSize
         fixed == IF Header.magic = "bvx1" THEN HeaderV1 ELSE FixedHeader
     IN IF SrcSpace < fixed \/ SrcSpace < size + Header.literalBytes + Header.lmdBytes
          THEN Return("SRC_EMPTY")
        ELSE IF Len(Header.triples) > MatchesPerBlock \/ Len(Header.literals) > LiteralsPerBlock
          THEN Return("ERROR")     \* lzfse_check_block_header_v1
        ELSE Enter([s EXCEPT !.src = @ + size + Header.literalBytes, !.magic = Header.magic,
                      !.triples = Header.triples, !.literals = Header.literals,
                      !.lmdBytes = Header.lmdBytes, !.lit = 0,
                      !.L = 0, !.M = 0, !.D = -1])

UnknownHeader ==
  /\ status = "running" /\ s.magic = "none" /\ SrcSpace >= 4
  /\ Header.magic \notin {"bvx$", "bvx-", "bvxn", "bvx1", "bvx2"}
  /\ Return("ERROR")

----------------------------------------------------------------------------
(* An uncompressed block.                                                  *)

(* Mutant of CopyRaw: the room in the destination does not count.          *)
CopyRawUnbounded ==
  /\ status = "running" /\ s.magic = "bvx-"
  /\ IF s.raw = 0 THEN Enter([s EXCEPT !.magic = "none"])
     ELSE IF SrcSpace <= 0 THEN Return("SRC_EMPTY")
     ELSE LET n == Lesser(s.raw, SrcSpace)
          IN /\ out' = out \o SubSeq(stream, s.src + 1, s.src + n)
             /\ s' = [s EXCEPT !.src = @ + n, !.dst = @ + n, !.raw = @ - n]
             /\ UNCHANGED <<stream, status, symbol, call, reg, at>>

CopyRaw ==
  /\ status = "running" /\ s.magic = "bvx-"
  /\ IF s.raw = 0 THEN Enter([s EXCEPT !.magic = "none"])
     ELSE IF SrcSpace <= 0 THEN Return("SRC_EMPTY")
     ELSE IF DstSpace <= 0 THEN Return("DST_FULL")
     ELSE LET n == Lesser(s.raw, Lesser(SrcSpace, DstSpace))
          IN /\ out' = out \o SubSeq(stream, s.src + 1, s.src + n)
             /\ s' = [s EXCEPT !.src = @ + n, !.dst = @ + n, !.raw = @ - n]
             /\ UNCHANGED <<stream, status, symbol, call, reg, at>>

----------------------------------------------------------------------------
(* A compressed block: lzfse_decode_lmd.  A call that finds a literal or a *)
(* match of an earlier one unfinished begins with that.                    *)

(* Mutant of StartTriples: an unfinished literal without a match is lost.  *)
StartTriplesAtMatch ==
  /\ status = "running" /\ s.magic \in {"bvx1", "bvx2"}
  /\ IF SrcSpace <= 0 \/ s.lmdBytes > SrcSpace
       THEN Return("SRC_EMPTY")
       ELSE /\ status' = IF s.M # 0 THEN "execute" ELSE "decode"
            /\ symbol' = [L |-> s.L, M |-> s.M, D |-> s.D]
            /\ UNCHANGED <<stream, out, s, call, reg, at>>

StartTriples ==
  /\ status = "running" /\ s.magic \in {"bvx1", "bvx2"}
  /\ IF SrcSpace <= 0 \/ s.lmdBytes > SrcSpace
       THEN Return("SRC_EMPTY")
       ELSE /\ status' = IF s.L # 0 \/ s.M # 0 THEN "execute" ELSE "decode"
            /\ symbol' = [L |-> s.L, M |-> s.M, D |-> s.D]
            /\ UNCHANGED <<stream, out, s, call, reg, at>>

(* Literals are looked up with a margin of 64 bytes behind the buffer.     *)
DecodeTriple ==
  /\ status = "decode" /\ s.triples # <<>>
  /\ LET t == Head(s.triples)
     IN IF s.lit + t.L >= LiteralsPerBlock + 64 THEN Return("ERROR")
        ELSE /\ symbol' = [t EXCEPT !.D = IF t.D # 0 THEN t.D ELSE symbol.D]
             /\ s' = [s EXCEPT !.triples = Tail(@)]
             /\ status' = "execute"
             /\ UNCHANGED <<stream, out, call, reg, at>>

BlockDone ==
  /\ status = "decode" /\ s.triples = <<>>
  /\ s' = [s EXCEPT !.magic = "none", !.src = @ + s.lmdBytes, !.dst = Len(out)]
  /\ status' = "running"
  /\ UNCHANGED <<stream, out, symbol, call, reg, at>>

(* What the literal buffer holds behind the block's literals is left from  *)
(* earlier blocks.                                                         *)
LiteralAt(i) == IF i <= Len(s.literals) THEN s.literals[i] ELSE -1
LiteralBytes(n) == [i \in 1 .. n |-> LiteralAt(s.lit + i)]
CopyOf(o, D, n) == [i \in 1 .. n |-> o[Len(o) - D + 1 + ((i - 1) % D)]]

(* Mutant of BadDistance: the literal before the match does not count.     *)
BadDistanceShort == symbol.D < 0 \/ symbol.D > Len(out)

(* D as an unsigned number: the initial -1 is beyond any output.           *)
BadDistance == symbol.D < 0 \/ symbol.D > Len(out) + symbol.L

DistanceTooFar ==
  /\ status = "execute" /\ BadDistance
  /\ Return("ERROR")

(* Both paths: with 32 bytes to spare by wide copies, or byte by byte.     *)
ExecuteTriple ==
  /\ status = "execute" /\ ~BadDistance
  /\ symbol.L + symbol.M <= DstSpace
  /\ LET o == out \o LiteralBytes(symbol.L)
     IN out' = o \o CopyOf(o, symbol.D, symbol.M)
  /\ s' = [s EXCEPT !.lit = @ + symbol.L]
  /\ status' = "decode"
  /\ UNCHANGED <<stream, symbol, call, reg, at>>

(* The destination ends inside the literal or the match.                   *)
Cut(bytes, L, M, lit) ==
  /\ out' = out \o bytes
  /\ s' = [s EXCEPT !.L = L, !.M = M, !.D = symbol.D, !.lit = lit,
                    !.dst = Len(out) + Len(bytes)]
  /\ status' = "DST_FULL"
  /\ UNCHANGED <<stream, symbol, call, reg, at>>

CutLiteral ==
  /\ status = "execute" /\ ~BadDistance /\ symbol.L > DstSpace
  /\ Cut(LiteralBytes(DstSpace), symbol.L - DstSpace, symbol.M, s.lit + DstSpace)

CutMatch ==
  /\ status = "execute" /\ ~BadDistance
  /\ symbol.L <= DstSpace /\ symbol.L + symbol.M > DstSpace
  /\ LET o == out \o LiteralBytes(symbol.L)
         n == DstSpace - symbol.L
     IN Cut(LiteralBytes(symbol.L) \o CopyOf(o, symbol.D, n), 0, symbol.M - n, s.lit + symbol.L)

----------------------------------------------------------------------------
(* An LZVN block: the LZVN decoder runs on what there is of the payload    *)
(* and on no more room than the block has bytes.  Of its state only the    *)
(* positions and the previous distance outlive the call.                   *)

StartLZVN ==
  /\ status = "running" /\ s.magic = "bvxn"
  /\ IF s.payload > 0 /\ SrcSpace <= 0 THEN Return("SRC_EMPTY")
     ELSE /\ call' = [LZVND!NewCall EXCEPT
                        !.src = s.src, !.srcEnd = s.src + Lesser(SrcSpace, s.payload),
                        !.dst = s.dst, !.dstEnd = s.dst + Lesser(DstSpace, s.raw),
                        !.dPrev = s.dPrev]
          /\ at' = "called"
          /\ status' = "lzvn"
          /\ UNCHANGED <<stream, out, s, symbol, reg>>

RunLZVN ==
  /\ status = "lzvn" /\ at # "returned"
  /\ LZVND!NextDecoder
  /\ UNCHANGED <<s, status, symbol>>

(* The block is done, or it contradicts its header, or the call is over.   *)
LZVNReturned ==
  /\ status = "lzvn" /\ at = "returned"
  /\ LET payload == s.payload - (call.src - s.src)
         raw == s.raw - (call.dst - s.dst)
         done == payload = 0 /\ raw = 0 /\ call.eos
         invalid == payload = 0 \/ raw = 0 \/ call.eos
     IN /\ s' = [s EXCEPT !.src = call.src, !.dst = call.dst, !.payload = payload,
                          !.raw = raw, !.dPrev = call.dPrev,
                          !.magic = IF done THEN "none" ELSE @]
        /\ status' = IF done THEN "running" ELSE IF invalid THEN "ERROR" ELSE "DST_FULL"
  /\ UNCHANGED <<stream, out, symbol, call, reg, at>>

NextDecode ==
  \/ NoHeader \/ EndOfStream \/ RawHeader \/ LZVNHeader \/ CompressedHeader
  \/ UnknownHeader \/ CopyRaw
  \/ StartTriples \/ DecodeTriple \/ BlockDone
  \/ DistanceTooFar \/ ExecuteTriple \/ CutLiteral \/ CutMatch
  \/ StartLZVN \/ RunLZVN \/ LZVNReturned

----------------------------------------------------------------------------
(* lzfse_decode_buffer: how many bytes it says it wrote.                   *)
BytesWritten ==
  IF status = "DST_FULL" THEN s.dstEnd ELSE IF status = "OK" THEN s.dst ELSE 0

(* Nothing is read behind the part of the stream a call was given, and     *)
(* nothing written behind the room it was given, by any kind of block.     *)
DecoderInBounds ==
  status # "idle" =>
    /\ s.src <= s.srcEnd
    /\ Len(out) <= s.dstEnd
    /\ s.magic \in {"bvx1", "bvx2"} /\ status \in {"decode", "execute"} =>
         s.src + s.lmdBytes <= s.srcEnd

=============================================================================
