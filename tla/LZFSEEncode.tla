----------------------------- MODULE LZFSEEncode -----------------------------
(***************************************************************************)
(* lzfse_encode_buffer: which of the three kinds of blocks a source is     *)
(* encoded with, the chunks a huge source is cut into, and the uncompressed*)
(* block when anything else fails.  LZFSE.encode calls it with 256 bytes   *)
(* more than the source has.                                               *)
(***************************************************************************)
EXTENDS LZFSEEncoder

CONSTANTS
  Backlog,               \* of the LZVN encoder
  Sources,               \* <<text, dst_size>>: what the encoder is called with
  LZVNThreshold,         \* LZFSE_ENCODE_LZVN_THRESHOLD, 4096
  RawLimit,              \* INT32_MAX
  ChunkThreshold,        \* 0xffffffff
  ChunkSize              \* encoder_block_size, 262144

ASSUME DispatchAssumption ==
  /\ LongCount \in 16 .. 271 /\ Backlog \in Nat /\ Backlog >= LongCount
  /\ Sources \subseteq Seq(0 .. 255) \X Nat
  /\ {LZVNThreshold, RawLimit, ChunkThreshold, ChunkSize} \subseteq Nat
  /\ 8 <= LZVNThreshold /\ LZVNThreshold <= RawLimit /\ RawLimit <= ChunkThreshold
  /\ MaxD + 5 <= ChunkSize /\ 8 * MaxL + 10 < ChunkSize /\ ChunkSize <= ChunkThreshold

VARIABLES
  left,        \* src_size: what the chunks before did not cover
  chunk,       \* "first", "middle", "last"
  \* of the LZVN encoder:
  enc, srcCurrent, lzvnLiteral, payload, lzvnPending, dPrev, table

lzvnEncVars == <<enc, srcCurrent, lzvnLiteral, payload, lzvnPending, dPrev, table>>
encodeVars == <<lzfseVars, left, chunk, lzvnEncVars>>

ExtraSize == 4 + 12      \* the end-of-stream marker and the block's header

LZVN == INSTANCE LZVNEncoder
          WITH Inputs <- {}, dstSize <- dstSize - ExtraSize,
               srcLiteral <- lzvnLiteral, pending <- lzvnPending

InitEncode ==
  /\ \E source \in Sources : text = source[1] /\ dstSize = source[2]
  /\ phase = "start"
  /\ InitLZFSE
  /\ left = Len(text) /\ chunk = "last"
  /\ enc = "start" /\ srcCurrent = 0 /\ lzvnLiteral = 0 /\ payload = <<>>
  /\ lzvnPending = LZVN!NoMatch /\ dPrev = 0 /\ table = << >>

Goto(p) ==
  /\ phase' = p
  /\ UNCHANGED <<text, dstSize, srcLiteral, triples, literals, job>>

(* A source LZVN would refuse, or a destination without room for its       *)
(* header and marker.                                                      *)
ChooseRaw ==
  /\ phase = "start"
  /\ Len(text) < 8 \/ (Len(text) < LZVNThreshold /\ dstSize <= ExtraSize)
  /\ Goto("failed")
  /\ UNCHANGED <<frontVars, dst, left, chunk, lzvnEncVars>>

ChooseLZVN ==
  /\ phase = "start"
  /\ Len(text) \in 8 .. LZVNThreshold - 1 /\ dstSize > ExtraSize
  /\ Goto("lzvn")
  /\ UNCHANGED <<frontVars, dst, left, chunk, lzvnEncVars>>

EncodeLZVN ==
  /\ phase = "lzvn" /\ enc \notin {"encoded", "failed"}
  /\ UNCHANGED <<lzfseVars, left, chunk>>
  /\ LZVN!NextEncoder

(* No gain is a failure, too.                                              *)
LZVNEncoded ==
  /\ phase = "lzvn" /\ enc \in {"encoded", "failed"}
  /\ IF enc = "encoded" /\ Len(payload) < Len(text)
       THEN /\ dst' = BlockBytes(LZVNBlock(Len(text), Len(payload)), 12) \o payload
                        \o BlockBytes(EndOfStreamBlock, 4)
            /\ Goto("encoded")
       ELSE Goto("failed") /\ UNCHANGED dst
  /\ UNCHANGED <<frontVars, left, chunk, lzvnEncVars>>

----------------------------------------------------------------------------
(* A huge source in chunks: the first as it is, those after it with the    *)
(* source pointer moved so that the search covers offsets from ChunkSize   *)
(* to 2 * ChunkSize, and the rest.                                         *)

NextChunk(rest) ==
  /\ left' = rest
  /\ IF rest >= ChunkSize
       THEN chunk' = "middle" /\ srcEnd' = 2 * ChunkSize
       ELSE chunk' = "last" /\ srcEnd' = ChunkSize + rest

ChooseLZFSE ==
  /\ phase = "start" /\ Len(text) >= LZVNThreshold
  /\ phase' = "base"
  /\ IF Len(text) >= ChunkThreshold
       THEN chunk' = "first" /\ srcEnd' = ChunkSize
       ELSE chunk' = "last" /\ srcEnd' = Len(text)
  /\ UNCHANGED <<text, dstSize, base, srcEncodeI, pending, history, srcLiteral,
                 triples, literals, dst, job, left, lzvnEncVars>>

FirstChunkDone ==
  /\ phase = "based" /\ chunk = "first"
  /\ Goto("base")
  /\ NextChunk(left - ChunkSize)
  /\ UNCHANGED <<base, srcEncodeI, pending, history, dst, lzvnEncVars>>

(* lzfse_encode_translate between two chunks.                              *)
MiddleChunkDone ==
  /\ phase = "based" /\ chunk = "middle"
  /\ phase' = "base"
  /\ Translate(ChunkSize)
  /\ NextChunk(left - ChunkSize)
  /\ UNCHANGED <<text, dstSize, triples, literals, dst, job, lzvnEncVars>>

LastChunkDone ==
  /\ phase = "based" /\ chunk = "last"
  /\ Goto("finish")
  /\ UNCHANGED <<frontVars, dst, left, chunk, lzvnEncVars>>

EncodeLZFSE ==
  /\ NextLZFSE
  /\ UNCHANGED <<left, chunk, lzvnEncVars>>

(* Mutant of EncodeRaw: room for an LZVN header is asked for.              *)
EncodeRawWithRoom ==
  /\ phase = "failed"
  /\ IF Len(text) + ExtraSize <= dstSize /\ Len(text) < RawLimit
       THEN /\ dst' = BlockBytes(RawBlock(left), 8) \o text \o BlockBytes(EndOfStreamBlock, 4)
            /\ Goto("encoded")
       ELSE Goto("refused") /\ UNCHANGED dst
  /\ UNCHANGED <<frontVars, left, chunk, lzvnEncVars>>

(* try_uncompressed: over whatever was written so far.                     *)
EncodeRaw ==
  /\ phase = "failed"
  /\ IF Len(text) + 12 <= dstSize /\ Len(text) < RawLimit
       THEN /\ dst' = BlockBytes(RawBlock(left), 8) \o text \o BlockBytes(EndOfStreamBlock, 4)
            /\ Goto("encoded")
       ELSE Goto("refused") /\ UNCHANGED dst
  /\ UNCHANGED <<frontVars, left, chunk, lzvnEncVars>>

NextEncode ==
  \/ ChooseRaw \/ ChooseLZVN \/ EncodeLZVN \/ LZVNEncoded
  \/ ChooseLZFSE \/ EncodeLZFSE
  \/ FirstChunkDone \/ MiddleChunkDone \/ LastChunkDone \/ EncodeRaw

EncodeSpec == InitEncode /\ [][NextEncode]_encodeVars

----------------------------------------------------------------------------
(* LZFSE.encode stops the program when nothing was written: with room for  *)
(* the raw block's 12 bytes that happens for no source below 2 GiB.        *)
EncodeNeverFails ==
  phase = "refused" => dstSize < Len(text) + 12 \/ Len(text) >= RawLimit

(* The stream is never longer than the destination, whatever was written   *)
(* and given up before.                                                    *)
StreamFits == Len(dst) <= dstSize

(* A source always ends up as a stream that fits: the room of the raw      *)
(* block does not depend on what was tried before.                         *)
FallbackFits == EncodeNeverFails /\ StreamFits

=============================================================================
