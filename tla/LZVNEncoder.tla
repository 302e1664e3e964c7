----------------------------- MODULE LZVNEncoder -----------------------------
(***************************************************************************)
(* lzvn_encode_buffer: the search for matches over one text, the choice    *)
(* between a pending and an incoming match, and the instructions written   *)
(* to a buffer of limited room.  Positions count bytes from 0, as in the   *)
(* source; Byte(p) is src[p].                                              *)
(***************************************************************************)
EXTENDS LZVNFormat, FiniteSets

CONSTANTS
  Inputs,      \* <<text, dst_size>>: what the encoder may be called with
  Backlog      \* LZVN_ENCODE_MAX_LITERAL_BACKLOG

MinSrcSize == 8
MinDstSize == 8
MinMargin == 8
EndOfStream == <<6, 0, 0, 0, 0, 0, 0, 0>>

ASSUME InputsAssumption ==
  Inputs \subseteq Seq(0 .. 255) \X Nat
ASSUME BacklogAssumption == Backlog \in Nat /\ Backlog >= LongCount

VARIABLES
  text,         \* src[src_begin .. src_end - 1]
  dstSize,      \* room for the payload, the end-of-stream marker included
  enc,          \* where the encoder is
  srcCurrent,   \* the byte being looked at
  srcLiteral,   \* the first byte not yet encoded
  payload,      \* dst[dst_begin .. dst - 1]
  pending,      \* the match found and not yet emitted
  dPrev,        \* distance of the last emitted match, or 0
  table         \* the last four positions of each hash value met so far

encVars == <<text, dstSize, enc, srcCurrent, srcLiteral, payload, pending, dPrev, table>>

Byte(p) == text[p + 1]
SrcEnd == Len(text)
SrcCurrentEnd == SrcEnd - MinMargin

(* Mutant of Room: the margin of the search is kept back as well.          *)
RoomWithMargin == dstSize - 8 - MinMargin - Len(payload)

(* dst_end - dst while matches and literals are emitted: 8 bytes are kept  *)
(* back for the marker.                                                    *)
Room == dstSize - 8 - Len(payload)

NoMatch == [mBegin |-> 0, mEnd |-> 0, M |-> 0, D |-> 0, K |-> 0]

(* hash3i, on the three bytes at p: bits 12 to 25 of the product with      *)
(* 1 + 64 + 4096.                                                          *)
Hash(p) ==
  LET i == Byte(p) + 256 * Byte(p + 1) + 65536 * Byte(p + 2)
  IN ((65 * i + 4096 * (i % 16384)) \div 4096) % 16384

(* lzvn_init_table fills every entry with position 0.                      *)
Entry(h) == IF h \in DOMAIN table THEN table[h] ELSE <<0, 0, 0, 0>>

InitEncoder ==
  /\ \E input \in Inputs : text = input[1] /\ dstSize = input[2]
  /\ enc = "start"
  /\ srcCurrent = 0
  /\ srcLiteral = 0
  /\ payload = <<>>
  /\ pending = NoMatch
  /\ dPrev = 0
  /\ table = << >>

(* lzvn_encode_partial up to the call of lzvn_encode.                      *)
StartEncoder ==
  /\ enc = "start"
  /\ enc' = IF dstSize < MinDstSize THEN "failed"
            ELSE IF SrcEnd >= MinSrcSize THEN "search" ELSE "rest"
  /\ UNCHANGED <<text, dstSize, srcCurrent, srcLiteral, payload, pending, dPrev, table>>

----------------------------------------------------------------------------
(* The search for one match.                                               *)

Agree(p, D) == Byte(p) = Byte(p - D)

(* Forward, four bytes at a time while more than four are left.            *)
ForwardEnd(D) ==
  LET blocks == (SrcEnd - 4 - srcCurrent + 3) \div 4
      stop == srcCurrent + 4 * (IF blocks > 1 THEN blocks ELSE 1)
      differ == {p \in srcCurrent .. stop - 1 : ~Agree(p, D)}
  IN IF differ = {} THEN stop ELSE CHOOSE p \in differ : \A q \in differ : p <= q

(* Mutant of BackwardBegin: back over bytes that are already encoded.      *)
BackwardBeginAnywhere(D) ==
  CHOOSE b \in D .. srcCurrent :
    /\ \A p \in b .. srcCurrent - 1 : Agree(p, D)
    /\ b > D => ~Agree(b - 1, D)

(* Backwards, over bytes that are still literals.                          *)
BackwardBegin(D) ==
  LET least == IF D > srcLiteral THEN D ELSE srcLiteral
  IN CHOOSE b \in least .. srcCurrent :
       /\ \A p \in b .. srcCurrent - 1 : Agree(p, D)
       /\ b > least => ~Agree(b - 1, D)

(* lzvn_find_match and lzvn_find_matchN, which differ in who compares the  *)
(* first four bytes: a match of the current position at distance D.        *)
Matches(D) ==
  /\ D \in 1 .. MaxDistance
  /\ \A p \in srcCurrent .. srcCurrent + 2 : Agree(p, D)

FindMatch(D) ==
  LET b == BackwardBegin(D)
      e == ForwardEnd(D)
  IN [mBegin |-> b, mEnd |-> e, M |-> e - b, D |-> D,
      K |-> e - b - (IF D < ShortDistance THEN 2 ELSE 3)]

(* UPDATE.                                                                 *)
Better(best, m) ==
  IF m.K > best.K \/ (m.K = best.K /\ m.mEnd > best.mEnd + 1) THEN m ELSE best

Tried(best, D) == IF Matches(D) THEN Better(best, FindMatch(D)) ELSE best

(* The best of the four table entries and the previous distance.           *)
Incoming ==
  LET entry == Entry(Hash(srcCurrent))
      best == Tried(Tried(Tried(Tried(NoMatch, srcCurrent - entry[1]), srcCurrent - entry[2]),
                          srcCurrent - entry[3]), srcCurrent - entry[4])
  IN IF dPrev # 0 /\ Matches(dPrev)
       THEN LET m == FindMatch(dPrev) IN Better(best, [m EXCEPT !.K = m.M - 1])
       ELSE best

----------------------------------------------------------------------------
(* lzvn_emit_match and lzvn_emit_literal.                                  *)

MatchPieces(m) == Emit(m.mBegin - srcLiteral, m.M, m.D, dPrev)

EmitMatch(m) ==
  /\ Fits(MatchPieces(m), Room)
  /\ payload' = payload \o Bytes(MatchPieces(m), text, srcLiteral)
  /\ srcLiteral' = m.mEnd
  /\ dPrev' = m.D

EmitLiterals(n) ==
  /\ Fits(EmitLiteral(n), Room)
  /\ payload' = payload \o Bytes(EmitLiteral(n), text, srcLiteral)
  /\ srcLiteral' = srcLiteral + n
  /\ UNCHANGED dPrev

(* The end of an iteration: the table learns the position and the search   *)
(* moves on.                                                               *)
Commit ==
  LET h == Hash(srcCurrent)
      learnt == [k \in 1 .. 4 |-> IF k = 1 THEN srcCurrent ELSE Entry(h)[k - 1]]
  IN /\ table' = [x \in DOMAIN table \cup {h} |-> IF x = h THEN learnt ELSE table[x]]
     /\ srcCurrent' = srcCurrent + 1
     /\ UNCHANGED <<text, dstSize, enc>>

(* The destination is full: lzvn_encode returns with nothing committed.    *)
GiveUp ==
  /\ enc' = "rest"
  /\ UNCHANGED <<text, dstSize, srcCurrent, srcLiteral, payload, dPrev, table>>

Searching == enc = "search" /\ srcCurrent < SrcCurrentEnd
Looking == Searching /\ srcCurrent >= srcLiteral

(* Still inside a match that was emitted.                                  *)
SkipEmitted ==
  /\ Searching /\ srcCurrent < srcLiteral
  /\ Commit
  /\ UNCHANGED <<srcLiteral, payload, pending, dPrev>>

TooManyLiterals == srcCurrent - srcLiteral >= Backlog

NothingFound ==
  /\ Looking /\ Incoming.M = 0 /\ ~TooManyLiterals
  /\ Commit
  /\ UNCHANGED <<srcLiteral, payload, pending, dPrev>>

FlushPending ==
  /\ Looking /\ Incoming.M = 0 /\ TooManyLiterals /\ pending.M # 0
  /\ \/ EmitMatch(pending) /\ pending' = NoMatch /\ Commit
     \/ ~Fits(MatchPieces(pending), Room) /\ GiveUp /\ UNCHANGED pending

FlushLiterals ==
  /\ Looking /\ Incoming.M = 0 /\ TooManyLiterals /\ pending.M = 0
  /\ \/ EmitLiterals(LongCount) /\ Commit /\ UNCHANGED pending
     \/ ~Fits(EmitLiteral(LongCount), Room) /\ GiveUp /\ UNCHANGED pending

KeepIncoming ==
  /\ Looking /\ Incoming.M # 0 /\ pending.M = 0
  /\ pending' = Incoming
  /\ Commit
  /\ UNCHANGED <<srcLiteral, payload, dPrev>>

EmitPendingKeepIncoming ==
  /\ Looking /\ Incoming.M # 0 /\ pending.M # 0 /\ pending.mEnd <= Incoming.mBegin
  /\ \/ EmitMatch(pending) /\ pending' = Incoming /\ Commit
     \/ ~Fits(MatchPieces(pending), Room) /\ GiveUp /\ UNCHANGED pending

EmitBetter ==
  /\ Looking /\ Incoming.M # 0 /\ pending.M # 0 /\ pending.mEnd > Incoming.mBegin
  /\ LET better == IF Incoming.K > pending.K THEN Incoming ELSE pending
     IN \/ EmitMatch(better) /\ pending' = NoMatch /\ Commit
        \/ ~Fits(MatchPieces(better), Room) /\ GiveUp /\ pending' = better

EndSearch ==
  /\ enc = "search" /\ srcCurrent >= SrcCurrentEnd
  /\ enc' = "rest"
  /\ UNCHANGED <<text, dstSize, srcCurrent, srcLiteral, payload, pending, dPrev, table>>

(* The rest as literals, whether or not a match was pending; a failure is  *)
(* noticed by src_literal alone.                                           *)
EmitRest ==
  /\ enc = "rest"
  /\ LET n == SrcEnd - srcLiteral
     IN \/ EmitLiterals(n)
        \/ ~Fits(EmitLiteral(n), Room) /\ UNCHANGED <<payload, srcLiteral, dPrev>>
  /\ enc' = "end"
  /\ UNCHANGED <<text, dstSize, srcCurrent, pending, table>>

(* lzvn_emit_end_of_stream and the test of lzvn_encode_buffer.             *)
EndStream ==
  /\ enc = "end"
  /\ payload' = payload \o (IF Len(payload) + 8 <= dstSize THEN EndOfStream ELSE <<>>)
  /\ enc' = IF srcLiteral = SrcEnd THEN "encoded" ELSE "failed"
  /\ UNCHANGED <<text, dstSize, srcCurrent, srcLiteral, pending, dPrev, table>>

NextEncoder ==
  \/ StartEncoder \/ SkipEmitted \/ NothingFound \/ FlushPending \/ FlushLiterals
  \/ KeepIncoming \/ EmitPendingKeepIncoming \/ EmitBetter \/ EndSearch
  \/ EmitRest \/ EndStream

EncoderSpec == InitEncoder /\ [][NextEncoder]_encVars

----------------------------------------------------------------------------
(* A pending match repeats earlier bytes, begins no earlier than the first *)
(* byte not yet encoded, and leaves the bytes after it that the 4- and     *)
(* 8-byte loads and stores of emit() may touch inside the source.  It was  *)
(* found several iterations before it is emitted, with what was encoded    *)
(* then (FlushLiterals moves src_literal without looking).                 *)
PendingSound ==
  enc = "search" /\ pending.M # 0 =>
    /\ srcLiteral <= pending.mBegin
    /\ pending.mBegin + 8 <= SrcEnd
    /\ pending.mEnd = pending.mBegin + pending.M
    /\ pending.mEnd <= SrcEnd
    /\ pending.M >= 3
    /\ pending.D <= pending.mBegin
    /\ \A p \in pending.mBegin .. pending.mEnd - 1 : Agree(p, pending.D)

(* lzvn_encode_base.h: "The call ensures src_literal is never left too far *)
(* behind src_current".                                                    *)
LiteralBacklogBounded ==
  enc = "search" => srcCurrent - srcLiteral <= Backlog + 1

(* What the encoder carries from one iteration to the next is sound: the   *)
(* match it holds back and the first byte not yet encoded.                 *)
PositionsSound == PendingSound /\ LiteralBacklogBounded

(* No store leaves the destination, the 4- and 8-byte ones of emit()       *)
(* included: what is written for the pending match, if it fits, touches no *)
(* byte at or beyond dst_end, and the payload never exceeds the buffer.    *)
StoresInBounds ==
  /\ Len(payload) <= dstSize
  /\ enc = "search" /\ pending.M # 0 /\ Fits(MatchPieces(pending), Room) =>
       \A i \in DOMAIN MatchPieces(pending) :
         Offsets(MatchPieces(pending))[i] + MatchPieces(pending)[i].touched <= Room

(* The room test of emit() is not so strict that a text is refused that    *)
(* would go in: with 8 bytes for the marker, 10 that emit_literal asks     *)
(* for, and a byte for every seven of the text, a text always goes in,     *)
(* whatever matches were found and given up before.  Seven bytes, the      *)
(* literals and the shortest match of one instruction, become eight at     *)
(* worst.                                                                  *)
FailsOnlyForRoom ==
  enc = "failed" => dstSize <= SrcEnd + (SrcEnd \div 7) + 8 + 10

=============================================================================
