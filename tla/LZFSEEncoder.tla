---------------------------- MODULE LZFSEEncoder ----------------------------
(***************************************************************************)
(* lzfse_encode_base and lzfse_encode_finish: the search for matches and   *)
(* the back end that collects them and writes a block when its buffers are *)
(* full.  Positions are offsets from the pointer src, which moves forward  *)
(* (base) when a huge input is encoded in chunks; Byte(p) is src[p].       *)
(***************************************************************************)
EXTENDS LZFSEFormat, FiniteSets

CONSTANTS GoodMatch,     \* LZFSE_ENCODE_GOOD_MATCH, 40
          MatchParts     \* 100: LZFSE_ENCODE_MAX_MATCH_LENGTH is that many MaxM

ASSUME EncoderAssumption ==
  /\ GoodMatch \in Nat /\ GoodMatch >= 5
  /\ MatchParts \in Nat \ {0}

(* Empty buffers take what lags behind a match and the longest match:      *)
(* 10000 matches and 40000 literals in the source.                         *)
ASSUME MarginAssumption ==
  /\ MaxL <= MaxM /\ MatchParts * MaxM >= 4
  /\ MatchesPerBlock >= MatchParts + 26
  /\ LiteralsPerBlock >= 8 * MaxL + 26

HashWidth == 4
MaxMatchLength == MatchParts * MaxM
MaxLag == 8 * MaxL     \* the literals that make the search emit something

VARIABLES
  text,        \* the source buffer
  dstSize,     \* the room for the stream
  phase,       \* where the encoder is
  base, srcEnd, srcEncodeI, srcLiteral, pending, history,   \* front end
  triples, literals, dst,                                   \* back end
  job          \* the match lzfse_backend_match is adding

frontVars == <<base, srcEnd, srcEncodeI, pending, history>>
lzfseVars == <<text, dstSize, phase, frontVars, srcLiteral, triples, literals, dst, job>>

Byte(p) == text[base + p + 1]
Value(p) == [i \in 1 .. 4 |-> Byte(p + i - 1)]

(* hashX: the upper 14 bits of the 32-bit product with 40503 * 2^16 +      *)
(* 31153, or, which is the same, with -25033 * 2^16 + 31153.               *)
HashX(x) ==
  LET low == x[1] + 256 * x[2]
      high == x[3] + 256 * x[4]
      mixed == ((low * 31153) \div 65536) - (low * 25033) + (high * 31153)
  IN (mixed % 65536) \div 4

NoMatch == [pos |-> 0, ref |-> 0, length |-> 0]
NoJob == [match |-> NoMatch, keep |-> NoMatch, L |-> 0, M |-> 0, retried |-> FALSE,
          caller |-> "base", triples |-> 0, literals |-> 0, srcLiteral |-> 0]
InvalidPos == -4 * MaxD
EmptyLine == [k \in 1 .. HashWidth |-> [pos |-> InvalidPos, value |-> <<0, 0, 0, 0>>]]
Line(h) == IF h \in DOMAIN history THEN history[h] ELSE EmptyLine

(* memset and lzfse_encode_init; src_end is set by the caller.             *)
InitLZFSE ==
  /\ base = 0 /\ srcEnd = 0 /\ srcEncodeI = 0 /\ srcLiteral = 0
  /\ pending = NoMatch /\ history = << >>
  /\ triples = <<>> /\ literals = <<>> /\ dst = <<>> /\ job = NoJob

----------------------------------------------------------------------------
(* The search.                                                             *)

Pos == srcEncodeI

(* Eight bytes at a time while that stays inside the source.               *)
MatchLength(ref) ==
  LET left == srcEnd - Pos - 12
      stop == 4 + (IF left > 0 THEN 8 * ((left + 7) \div 8) ELSE 0)
      differ == {n \in 4 .. stop - 1 : Byte(ref + n) # Byte(Pos + n)}
  IN IF differ = {} THEN stop ELSE CHOOSE n \in differ : \A o \in differ : n <= o

Usable(entry) == entry.value = Value(Pos) /\ entry.pos + MaxD >= Pos

Longer(best, entry) ==
  IF Usable(entry) /\ MatchLength(entry.pos) > best.length
    THEN [pos |-> Pos, ref |-> entry.pos, length |-> MatchLength(entry.pos)]
    ELSE best

(* The first of the longest matches among the entries of the line.         *)
Longest ==
  LET line == Line(HashX(Value(Pos)))
      none == [NoMatch EXCEPT !.pos = Pos]
  IN Longer(Longer(Longer(Longer(none, line[1]), line[2]), line[3]), line[4])

(* Backwards over literals.                                                *)
Expand(m) ==
  LET most == Lesser(m.pos - srcLiteral, m.ref)
      Same(n) == \A i \in 1 .. n : Byte(m.ref - i) = Byte(m.pos - i)
      n == IF most <= 0 THEN 0
           ELSE CHOOSE k \in 0 .. most : Same(k) /\ (k < most => ~Same(k + 1))
  IN [pos |-> m.pos - n, ref |-> m.ref - n, length |-> m.length + n]

Incoming == Expand([Longest EXCEPT !.length = Lesser(@, MaxMatchLength)])

----------------------------------------------------------------------------
(* lzfse_backend_match, one piece of the match at a time.                  *)

HasRoom(L) ==
  /\ Len(triples) + 1 + 8 <= MatchesPerBlock
  /\ Len(literals) + L + 16 <= LiteralsPerBlock

(* lzfse_push_lmd.                                                         *)
Push(L, M, D) ==
  /\ HasRoom(L)
  /\ triples' = Append(triples, [L |-> L, M |-> M, D |-> D])
  /\ literals' = literals \o [i \in 1 .. L |-> Byte(srcLiteral + i - 1)]
  /\ srcLiteral' = srcLiteral + L + M

(* The end of an iteration: the line learns the position.                  *)
Advance ==
  LET x == Value(Pos)
      h == HashX(x)
      new == [pos |-> Pos, value |-> x]
  IN /\ history' = [k \in DOMAIN history \cup {h} |->
                      IF k # h THEN history[k]
                      ELSE [i \in 1 .. HashWidth |-> IF i = 1 THEN new ELSE Line(h)[i - 1]]]
     /\ srcEncodeI' = srcEncodeI + 1
     /\ UNCHANGED <<base, srcEnd>>

(* Calls lzfse_backend_match; afterwards the pending match is keep.        *)
Add(m, keep) ==
  /\ phase' = "push"
  /\ job' = [match |-> m, keep |-> keep, L |-> m.pos - srcLiteral, M |-> m.length,
             retried |-> FALSE, caller |-> phase, triples |-> Len(triples),
             literals |-> Len(literals), srcLiteral |-> srcLiteral]
  /\ UNCHANGED <<text, dstSize, frontVars, srcLiteral, triples, literals, dst>>

(* lzfse_backend_literals.                                                 *)
LiteralMatch(L) == [pos |-> srcLiteral + L, ref |-> srcLiteral + L - 1, length |-> 0]

SplitLiterals ==
  /\ phase = "push" /\ job.L > MaxL
  /\ Push(MaxL, 0, 1)
  /\ job' = [job EXCEPT !.L = @ - MaxL]
  /\ UNCHANGED <<text, dstSize, phase, frontVars, dst>>

SplitMatch ==
  /\ phase = "push" /\ job.L <= MaxL /\ job.M > MaxM
  /\ Push(job.L, MaxM, job.match.pos - job.match.ref)
  /\ job' = [job EXCEPT !.L = 0, !.M = @ - MaxM]
  /\ UNCHANGED <<text, dstSize, phase, frontVars, dst>>

(* The rest, with which the call of the back end succeeds.                 *)
PushRest ==
  /\ phase = "push" /\ job.L <= MaxL /\ job.M <= MaxM
  /\ Push(job.L, job.M, job.match.pos - job.match.ref)
  /\ phase' = job.caller
  /\ pending' = job.keep
  /\ job' = NoJob
  /\ \/ job.caller = "base" /\ Advance
     \/ job.caller = "finish" /\ UNCHANGED <<base, srcEnd, srcEncodeI, history>>
  /\ UNCHANGED <<text, dstSize, dst>>

(* Mutant of PushFails: the position is not taken back.                    *)
PushFailsAhead ==
  /\ phase = "push"
  /\ ~HasRoom(Lesser(job.L, MaxL))
  /\ phase' = IF job.retried THEN "failed" ELSE "block"
  /\ triples' = SubSeq(triples, 1, job.triples)
  /\ literals' = SubSeq(literals, 1, job.literals)
  /\ UNCHANGED <<text, dstSize, frontVars, srcLiteral, dst, job>>

(* The buffers are full: what was pushed of the match is taken back, and   *)
(* the first time a block is written.                                      *)
PushFails ==
  /\ phase = "push"
  /\ ~HasRoom(Lesser(job.L, MaxL))
  /\ phase' = IF job.retried THEN "failed" ELSE "block"
  /\ triples' = SubSeq(triples, 1, job.triples)
  /\ literals' = SubSeq(literals, 1, job.literals)
  /\ srcLiteral' = job.srcLiteral
  /\ UNCHANGED <<text, dstSize, frontVars, dst, job>>

----------------------------------------------------------------------------
(* lzfse_encode_matches.                                                   *)

Padded ==
  literals \o [i \in 1 .. (4 - (Len(literals) % 4)) % 4 |-> 0]

RawBytes ==
  FoldLeft(LAMBDA sum, t : sum + t.L + t.M, 0, triples)

Block == CompressedBlock(EncodeDistances(triples), Padded, RawBytes)

(* The tests of the remaining room: before the header, before each group   *)
(* of four literals, before the padding, before each match.                *)
BlockFits ==
  LET left == dstSize - Len(dst)
      groups == Len(Padded) \div 4
      lmd == Block.headerSize + Block.literalBytes
  IN /\ FullHeader <= left
     /\ groups > 0 => Block.headerSize + LiteralCost * (groups - 1) + 16 <= left
     /\ lmd + 8 <= left
     /\ triples # <<>> => lmd + 8 + MatchCost * (Len(triples) - 1) + 16 <= left

BlockSize(b) == b.headerSize + b.literalBytes + b.lmdBytes

(* Either there is nothing to write, or the block goes out, or the state   *)
(* is what it was: distances and literals are restored.                    *)
NothingToWrite == triples = <<>> /\ literals = <<>>

(* Mutant of WriteMatches: the literals are kept for the next block.       *)
WriteMatchesOnly ==
  /\ NothingToWrite \/ BlockFits
  /\ dst' = dst \o (IF NothingToWrite THEN <<>> ELSE BlockBytes(Block, BlockSize(Block)))
  /\ triples' = <<>>
  /\ UNCHANGED literals

WriteMatches ==
  /\ NothingToWrite \/ BlockFits
  /\ dst' = dst \o (IF NothingToWrite THEN <<>> ELSE BlockBytes(Block, BlockSize(Block)))
  /\ triples' = <<>>
  /\ literals' = <<>>

MatchesDoNotFit ==
  /\ ~NothingToWrite /\ ~BlockFits
  /\ phase' = "failed"
  /\ triples' = RestoreDistances(EncodeDistances(triples))
  /\ literals' = SubSeq(Padded, 1, Len(literals))
  /\ UNCHANGED dst

(* The full block, and the match once more.                                *)
WriteBlock ==
  /\ phase = "block"
  /\ \/ /\ WriteMatches
        /\ phase' = "push"
        /\ job' = [job EXCEPT !.L = job.match.pos - srcLiteral, !.M = job.match.length,
                              !.retried = TRUE, !.triples = 0, !.literals = 0]
     \/ MatchesDoNotFit /\ UNCHANGED job
  /\ UNCHANGED <<text, dstSize, frontVars, srcLiteral>>

----------------------------------------------------------------------------
(* lzfse_encode_base.                                                      *)

Searching == phase = "base" /\ Pos < srcEnd - 8
Looking == Searching /\ Pos >= srcLiteral
LagsBehind == Pos - srcLiteral > MaxLag

Continue ==
  /\ Advance
  /\ UNCHANGED <<text, dstSize, phase, srcLiteral, triples, literals, dst, job>>

SkipEmitted == Searching /\ Pos < srcLiteral /\ Continue /\ UNCHANGED pending

NothingFound ==
  /\ Looking /\ Longest.length = 0 /\ ~LagsBehind
  /\ Continue /\ UNCHANGED pending

FlushPending ==
  /\ Looking /\ Longest.length = 0 /\ LagsBehind /\ pending.length > 0
  /\ Add(pending, NoMatch)

FlushLiterals ==
  /\ Looking /\ Longest.length = 0 /\ LagsBehind /\ pending.length = 0
  /\ Add(LiteralMatch(MaxL), pending)

EmitGood ==
  /\ Looking /\ Longest.length > 0 /\ Incoming.length >= GoodMatch
  /\ Add(Incoming, NoMatch)

NotGood == Looking /\ Longest.length > 0 /\ Incoming.length < GoodMatch
Overlap == pending.pos + pending.length > Incoming.pos

KeepIncoming ==
  /\ NotGood /\ pending.length = 0
  /\ pending' = Incoming
  /\ Continue

EmitPendingKeepIncoming ==
  /\ NotGood /\ pending.length > 0 /\ ~Overlap
  /\ Add(pending, Incoming)

EmitLonger ==
  /\ NotGood /\ pending.length > 0 /\ Overlap
  /\ Add(IF Incoming.length > pending.length THEN Incoming ELSE pending, NoMatch)

EndBase ==
  /\ phase = "base" /\ Pos >= srcEnd - 8
  /\ phase' = "based"
  /\ UNCHANGED <<text, dstSize, frontVars, srcLiteral, triples, literals, dst, job>>

(* lzfse_encode_finish.                                                    *)
FinishPending ==
  /\ phase = "finish" /\ pending.length > 0
  /\ Add(pending, NoMatch)

FinishLiterals ==
  /\ phase = "finish" /\ pending.length = 0 /\ srcLiteral < srcEnd
  /\ Add(LiteralMatch(srcEnd - srcLiteral), pending)

(* lzfse_backend_end_of_stream, in its two steps.                          *)
FinishMatches ==
  /\ phase = "finish" /\ pending.length = 0 /\ srcLiteral >= srcEnd
  /\ \/ WriteMatches /\ phase' = "mark"
     \/ MatchesDoNotFit
  /\ UNCHANGED <<text, dstSize, frontVars, srcLiteral, job>>

EndStream ==
  /\ phase = "mark"
  /\ IF Len(dst) + 4 <= dstSize
       THEN phase' = "encoded" /\ dst' = dst \o BlockBytes(EndOfStreamBlock, 4)
       ELSE phase' = "failed" /\ UNCHANGED dst
  /\ UNCHANGED <<text, dstSize, frontVars, srcLiteral, triples, literals, job>>

(* Mutant of Translate: the history keeps its offsets.                     *)
TranslateWithoutHistory(delta) ==
  /\ base' = base + delta
  /\ srcEncodeI' = srcEncodeI - delta
  /\ srcLiteral' = srcLiteral - delta
  /\ pending' = [pending EXCEPT !.pos = @ - delta, !.ref = @ - delta]
  /\ UNCHANGED history

(* lzfse_encode_translate: the source pointer moves, offsets stay with     *)
(* their bytes.                                                            *)
Translate(delta) ==
  /\ base' = base + delta
  /\ srcEncodeI' = srcEncodeI - delta
  /\ srcLiteral' = srcLiteral - delta
  /\ pending' = [pending EXCEPT !.pos = @ - delta, !.ref = @ - delta]
  /\ history' = [h \in DOMAIN history |-> [k \in 1 .. HashWidth |->
                   [history[h][k] EXCEPT !.pos = Greater(@ - delta, InvalidPos)]]]

NextLZFSE ==
  \/ SplitLiterals \/ SplitMatch \/ PushRest \/ PushFails \/ WriteBlock
  \/ SkipEmitted \/ NothingFound \/ FlushPending \/ FlushLiterals
  \/ EmitGood \/ KeepIncoming \/ EmitPendingKeepIncoming \/ EmitLonger
  \/ EndBase \/ FinishPending \/ FinishLiterals \/ FinishMatches \/ EndStream

----------------------------------------------------------------------------
(* The arrays of the encoder state are written without a test of their     *)
(* own: the margins of lzfse_push_lmd have to keep them inside, with the   *)
(* zeros that fill the literals up to a multiple of 4.                     *)
BuffersBounded ==
  /\ Len(triples) <= MatchesPerBlock
  /\ Len(Padded) <= LiteralsPerBlock

(* A match that did not fit in the buffers always fits once they are       *)
(* empty: what lags behind and how long a match may be is bounded.         *)
RetryFits ==
  phase = "push" /\ job.retried => HasRoom(Lesser(job.L, MaxL))

(* A comment of lzfse_encode_base: "not lag too far behind the current     *)
(* search point".                                                          *)
LagBounded ==
  phase = "base" => Pos - srcLiteral <= MaxLag + 2

(* The margins of the back end and the limit of the front end fit each     *)
(* other: nothing is written behind an array, and a block that was written *)
(* makes room for the match that had none.                                 *)
MarginsSuffice == BuffersBounded /\ RetryFits /\ LagBounded

(* A pending match repeats bytes of the source at a distance the format    *)
(* has, begins no earlier than the first byte not yet encoded, and stays   *)
(* so while literals are flushed and the source pointer moves.             *)
PendingSound ==
  phase \in {"base", "based", "finish"} /\ pending.length > 0 =>
    /\ srcLiteral <= pending.pos
    /\ pending.pos + pending.length <= srcEnd
    /\ pending.pos - pending.ref \in 1 .. MaxD
    /\ base + pending.ref >= 0
    /\ \A i \in 0 .. pending.length - 1 : Byte(pending.ref + i) = Byte(pending.pos + i)

(* Every position in the history that may still be used holds the four     *)
(* bytes noted with it, after any number of translations.                  *)
HistoryTrue ==
  phase \in {"base", "based"} =>
    \A h \in DOMAIN history, k \in 1 .. HashWidth :
      history[h][k].pos > InvalidPos /\ base + history[h][k].pos >= 0 =>
        history[h][k].value = Value(history[h][k].pos)

(* What refers to earlier bytes refers to the right ones, in every chunk.  *)
ReferencesTrue == PendingSound /\ HistoryTrue

(* What one triple adds to the bytes so far: literals, and then bytes that *)
(* repeat those D before them.                                             *)
Told(o, t, lits) ==
  LET l == o.out \o SubSeq(lits, o.lit + 1, o.lit + t.L)
  IN [out |-> l \o [i \in 1 .. t.M |-> l[Len(l) - t.D + 1 + ((i - 1) % t.D)]],
      lit |-> o.lit + t.L]

(* The bytes triples stand for, given those before them.                   *)
Replay(before, ts, lits) ==
  LET told[n \in 0 .. Len(ts)] ==
        IF n = 0 THEN [out |-> before, lit |-> 0] ELSE Told(told[n - 1], ts[n], lits)
  IN told[Len(ts)].out

(* The bytes the compressed blocks of a stream stand for.                  *)
Written(stream) ==
  LET written[n \in 0 .. Len(stream)] ==
        IF n = 0 THEN <<>>
        ELSE IF stream[n].magic # "bvx2" THEN written[n - 1]
        ELSE Replay(written[n - 1], RestoreDistances(stream[n].triples), stream[n].literals)
  IN written[Len(stream)]

(* What the blocks written and the triples collected stand for is the      *)
(* source up to src_literal, after every piece of a match: nothing is lost *)
(* or doubled by a piece that is taken back, a block that is written or    *)
(* refused in between, or a chunk that ends.  The blocks of a finished     *)
(* stream stand for all of the source.                                     *)
NothingLost ==
  /\ phase # "encoded" =>
       Replay(Written(dst), triples, literals) = SubSeq(text, 1, base + srcLiteral)
  /\ phase = "encoded" /\ dst[1].magic = "bvx2" => Written(dst) = text

=============================================================================
