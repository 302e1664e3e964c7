----------------------------- MODULE LZFSEEntropy ----------------------------
(***************************************************************************)
(* The coding of one compressed block: lzfse_encode_matches from its       *)
(* tables on, and lzfse_decode from the header of the block to its last    *)
(* triple.  A distance is as it is written, 0 for the one before it.       *)
(***************************************************************************)
EXTENDS LZFSEHeader, FiniteSets

CONSTANTS Inputs,     \* pairs of a block and the bytes left in the destination; a block
                      \* is its literals, padded to a multiple of 4, and its triples
          Undefined   \* what a shift by -1 may give

(* A literal is a byte, and a value of a triple one that has a symbol; no  *)
(* block is without a triple.                                              *)
ASSUME InputsAssumption ==
  \A input \in Inputs :
    /\ input[1].literals \in Seq(0 .. 255) /\ Len(input[1].literals) % 4 = 0
    /\ input[1].triples \in Seq([L : 0 .. MaxValue.L, M : 0 .. MaxValue.M, D : 0 .. MaxValue.D]) \ {<<>>}
    /\ input[2] \in Nat

VARIABLES
  block, room,        \* what is coded, and how much may be written
  phase,              \* of either direction
  i,                  \* literals or triples still to be coded
  header,             \* header1; its fields are set one after the other
  table,              \* the four encoder tables
  accum,              \* the output stream's accumulator
  dst,                \* the bits written for the block
  source,             \* the bits the decoder is given
  found,              \* the header it has read
  decoder,            \* its four tables
  in,                 \* the input stream
  literals, triples   \* what it has decoded

encoderVars == <<block, room, i, header, table, accum, dst>>
decoderVars == <<source, found, decoder, in, literals, triples>>

EmptyHeader ==
  [freq |-> <<>>, rawBytes |-> 0, matches |-> 0, literals |-> 0,
   literalBits |-> 0, literalBytes |-> 0, lmdBits |-> 0, lmdBytes |-> 0,
   state |-> [j \in 0 .. 3 |-> 0], lmdState |-> [kind \in {"L", "M", "D"} |-> 0]]

InitEntropy ==
  /\ \E input \in Inputs : block = input[1] /\ room = input[2]
  /\ phase = "tables" /\ i = 0 /\ table = <<>> /\ accum = <<>> /\ dst = <<>>
  /\ header = EmptyHeader
  /\ source = <<>> /\ found = EmptyHeader /\ decoder = <<>> /\ in = NoStream
  /\ literals = <<>> /\ triples = <<>>

Size(bits) == Len(bits) \div 8

----------------------------------------------------------------------------
(* Encoder.                                                                *)

(* How often each symbol occurs.                                           *)
Occurrences(kind, symbols) ==
  Listed([s \in 1 .. Symbols[kind] |-> Cardinality({n \in DOMAIN symbols : symbols[n] = s - 1})])

SymbolsOf(kind) ==
  Listed([n \in DOMAIN block.triples |-> BaseFromValue(kind, block.triples[n][kind])])

Frequencies ==
  [kind \in Kinds |->
     NormalizeFreq(States[kind],
       Occurrences(kind, IF kind = "literal" THEN block.literals ELSE SymbolsOf(kind)))]

(* A mutant: a turn of a loop reserves one store.                          *)
NeededForOneStore ==
  CASE phase = "tables" -> FullHeaderSize
    [] phase \in {"literals", "matches"} /\ i > 0 -> 8
    [] phase = "literals" /\ i = 0 -> Size(Finished(accum)) + 8
    [] OTHER -> 0

(* Bytes that must be free before the next step writes any: a full header, *)
(* 16 for a turn of a loop, 8 for the padding after the last literals.     *)
Needed ==
  CASE phase = "tables" -> FullHeaderSize
    [] phase \in {"literals", "matches"} /\ i > 0 -> 16
    [] phase = "literals" /\ i = 0 -> Size(Finished(accum)) + 8
    [] OTHER -> 0
HasRoom == Size(dst) + Needed <= room

(* Then the state is reverted, which LZFSEEncoder models.                  *)
DstFull ==
  /\ phase \in {"tables", "literals", "matches"} /\ ~HasRoom
  /\ phase' = "full"
  /\ UNCHANGED <<encoderVars, decoderVars>>

MakeTables ==
  /\ phase = "tables" /\ HasRoom
  /\ LET freq == Frequencies
     IN /\ \E u \in Undefined :
             table' = [kind \in Kinds |-> EncoderTable(States[kind], freq[kind], u)]
        /\ header' = [header EXCEPT
             !.freq = freq, !.matches = Len(block.triples), !.literals = Len(block.literals),
             !.rawBytes = Total([n \in DOMAIN block.triples |->
                                   block.triples[n].L + block.triples[n].M])]
        /\ dst' = Zeros(8 * FixedSize) \o FreqTableBits(freq)
  /\ phase' = "literals" /\ i' = Len(block.literals)
  /\ UNCHANGED <<block, room, accum, decoderVars>>

(* The last four first, each with a state of its own.                      *)
EncodeLiterals ==
  /\ phase = "literals" /\ i > 0 /\ HasRoom
  /\ LET After(acc, j) == Encode([table |-> table.literal, state |-> header.state[j], accum |-> acc],
                                 block.literals[i - 3 + j])
         t3 == After(accum, 3)
         t2 == After(t3.accum, 2)
         t1 == After(t2.accum, 1)
         t0 == After(t1.accum, 0)
     IN /\ accum' = t0.accum
        /\ header' = [header EXCEPT !.state =
             [j \in 0 .. 3 |-> <<t0.state, t1.state, t2.state, t3.state>>[j + 1]]]
  /\ i' = i - 4
  /\ phase' = "flush literals"
  /\ UNCHANGED <<block, room, table, dst, decoderVars>>

(* The values of a triple, the symbol's extra bits before its state's.     *)
EncodeValue(kind, value, acc) ==
  LET symbol == BaseFromValue(kind, value)
  IN Encode([table |-> table[kind], state |-> header.lmdState[kind],
             accum |-> acc \o Bits(value - BaseValue[kind][symbol], ExtraBits[kind][symbol])],
            symbol)

(* A mutant: the values in the order in which they are read.               *)
EncodeMatchInOrder ==
  /\ phase = "matches" /\ i > 0 /\ HasRoom
  /\ LET l == EncodeValue("L", block.triples[i].L, accum)
         m == EncodeValue("M", block.triples[i].M, l.accum)
         d == EncodeValue("D", block.triples[i].D, m.accum)
     IN /\ accum' = d.accum
        /\ header' = [header EXCEPT !.lmdState = [L |-> l.state, M |-> m.state, D |-> d.state]]
  /\ i' = i - 1
  /\ phase' = "flush matches"
  /\ UNCHANGED <<block, room, table, dst, decoderVars>>

EncodeMatch ==
  /\ phase = "matches" /\ i > 0 /\ HasRoom
  /\ LET d == EncodeValue("D", block.triples[i].D, accum)
         m == EncodeValue("M", block.triples[i].M, d.accum)
         l == EncodeValue("L", block.triples[i].L, m.accum)
     IN /\ accum' = l.accum
        /\ header' = [header EXCEPT !.lmdState = [L |-> l.state, M |-> m.state, D |-> d.state]]
  /\ i' = i - 1
  /\ phase' = "flush matches"
  /\ UNCHANGED <<block, room, table, dst, decoderVars>>

(* fse_out_flush64 at the end of either loop's body.                       *)
FlushOut ==
  /\ phase \in {"flush literals", "flush matches"}
  /\ dst' = dst \o Flushed(accum)
  /\ accum' = Kept(accum)
  /\ phase' = IF phase = "flush literals" THEN "literals" ELSE "matches"
  /\ UNCHANGED <<block, room, i, header, table, decoderVars>>

(* fse_out_finish64 after the literals; then the padding before the        *)
(* payload of the triples.                                                 *)
FinishLiterals ==
  /\ phase = "literals" /\ i = 0 /\ HasRoom
  /\ LET written == dst \o Finished(accum)
     IN /\ dst' = written \o Zeros(64)
        /\ header' = [header EXCEPT
             !.literalBits = -Padding(accum),
             !.literalBytes = Size(written) - FixedSize - Size(FreqTableBits(header.freq))]
  /\ accum' = <<>>
  /\ i' = Len(block.triples)
  /\ phase' = "matches"
  /\ UNCHANGED <<block, room, table, decoderVars>>

FinishMatches ==
  /\ phase = "matches" /\ i = 0
  /\ LET written == dst \o Finished(accum)
         before == FixedSize + Size(FreqTableBits(header.freq)) + header.literalBytes
         complete == [header EXCEPT !.lmdBits = -Padding(accum), !.lmdBytes = Size(written) - before]
     IN /\ header' = complete
        /\ dst' = EncodeHeader(complete) \o SubSeq(written, Len(EncodeHeader(complete)) + 1, Len(written))
  /\ accum' = <<>>
  /\ phase' = "encoded"
  /\ UNCHANGED <<block, room, i, table, decoderVars>>

(* The block as lzfse_encode_finish leaves it, or the one after it begins. *)
Stream == dst \o Bits(EndOfStream, 32)

NextEncode ==
  \/ DstFull \/ MakeTables \/ EncodeLiterals \/ EncodeMatch
  \/ FlushOut \/ FinishLiterals \/ FinishMatches

----------------------------------------------------------------------------
(* Decoder.                                                                *)

(* The decoder is given one of the sources.                                *)
Given(sources) ==
  /\ phase = "encoded"
  /\ source' \in sources
  /\ phase' = "given"
  /\ UNCHANGED <<encoderVars, found, decoder, in, literals, triples>>

Fails == phase' = "error" /\ UNCHANGED <<encoderVars, decoderVars>>

Step(t) == t.table[t.state + 1]

(* fse_decode, and fse_value_decode, which takes the extra bits along.     *)
DecodeSymbol(t) ==
  LET k == BitCount(Step(t).span)
  IN [t EXCEPT !.state = Step(t).delta + Pulled(t.in, k), !.in = AfterPull(@, k),
               !.value = Step(t).symbol]

ValueBits(kind, t) == BitCount(Step(t).span) + ExtraBits[kind][Step(t).symbol]

DecodeValue(kind, inStream) ==
  LET t == [table |-> decoder[kind], state |-> found.lmdState[kind]]
      extra == ExtraBits[kind][Step(t).symbol]
      pulled == Pulled(inStream, ValueBits(kind, t))
  IN [state |-> Step(t).delta + (pulled \div 2^extra),
      value |-> BaseValue[kind][Step(t).symbol] + (pulled % 2^extra),
      in |-> AfterPull(inStream, ValueBits(kind, t))]

(* The header, its tables and the end of the literals' payload.            *)
ReadHeader ==
  /\ phase = "given"
  /\ LET h == DecodeHeader(source)
         end == HeaderSize(source) + h.literalBytes
         stream == InInit(source, h.literalBits, end, 0)
     IN IF \/ HeaderSize(source) < FixedSize \/ HeaderSize(source) > Size(source)
           \/ h.freq = <<>> \/ end + h.lmdBytes > Size(source)
           \/ ~Sound(h) \/ stream = NoStream
          THEN Fails
          ELSE /\ found' = h
               /\ decoder' = [kind \in Kinds |-> DecoderTable(States[kind], h.freq[kind])]
               /\ in' = stream
               /\ phase' = "flush in literals"
               /\ UNCHANGED <<encoderVars, source, literals, triples>>

(* fse_in_flush64 at the beginning of either loop's body.                  *)
FlushIn ==
  /\ \/ phase = "flush in literals" /\ Len(literals) < found.literals
     \/ phase = "flush in matches" /\ Len(triples) < found.matches
  /\ LET stream == InFlush(source, in, 0)
     IN IF stream = NoStream THEN Fails
        ELSE /\ in' = stream
             /\ phase' = IF phase = "flush in literals" THEN "pull literals" ELSE "pull match"
             /\ UNCHANGED <<encoderVars, source, found, decoder, literals, triples>>

DecodeLiterals ==
  /\ phase = "pull literals"
  /\ LET After(stream, j) == DecodeSymbol([table |-> decoder.literal, state |-> found.state[j],
                                           in |-> stream, value |-> 0])
         t0 == After(in, 0)
         t1 == After(t0.in, 1)
         t2 == After(t1.in, 2)
         t3 == After(t2.in, 3)
     IN /\ in' = t3.in
        /\ literals' = literals \o <<t0.value, t1.value, t2.value, t3.value>>
        /\ found' = [found EXCEPT !.state =
             [j \in 0 .. 3 |-> <<t0.state, t1.state, t2.state, t3.state>>[j + 1]]]
  /\ phase' = "flush in literals"
  /\ UNCHANGED <<encoderVars, source, decoder, triples>>

(* The input stream of the triples, which may not reach before them.       *)
StartMatches ==
  /\ phase = "flush in literals" /\ Len(literals) >= found.literals
  /\ LET start == HeaderSize(source) + found.literalBytes
         stream == InInit(source, found.lmdBits, start + found.lmdBytes, start)
     IN IF stream = NoStream THEN Fails
        ELSE /\ in' = stream
             /\ phase' = "flush in matches"
             /\ UNCHANGED <<encoderVars, source, found, decoder, literals, triples>>

DecodeMatch ==
  /\ phase = "pull match"
  /\ LET l == DecodeValue("L", in)
         m == DecodeValue("M", l.in)
         d == DecodeValue("D", m.in)
     IN /\ in' = d.in
        /\ triples' = Append(triples, [L |-> l.value, M |-> m.value, D |-> d.value])
        /\ found' = [found EXCEPT !.lmdState = [L |-> l.state, M |-> m.state, D |-> d.state]]
  /\ phase' = "flush in matches"
  /\ UNCHANGED <<encoderVars, source, decoder, literals>>

DecodedBlock ==
  /\ phase = "flush in matches" /\ Len(triples) >= found.matches
  /\ phase' = "decoded"
  /\ UNCHANGED <<encoderVars, decoderVars>>

NextDecode ==
  \/ ReadHeader \/ FlushIn \/ DecodeLiterals \/ StartMatches \/ DecodeMatch \/ DecodedBlock

----------------------------------------------------------------------------
(* Every state of the encoder and of the decoder is below its number of    *)
(* states, whatever the block decoded: the next index into the tables is   *)
(* in them, also where a header's frequencies leave states to no symbol    *)
(* (the assertions of lzfse_decode_lmd).                                   *)
StatesInRange ==
  /\ \A j \in 0 .. 3 : {header.state[j], found.state[j]} \subseteq 0 .. States.literal - 1
  /\ \A kind \in {"L", "M", "D"} :
       {header.lmdState[kind], found.lmdState[kind]} \subseteq 0 .. States[kind] - 1

(* What one turn of a loop pushes never takes the accumulator over 64      *)
(* bits, and fse_out_flush leaves at most 7 of them.                       *)
AccumulatorFits ==
  Len(accum) <= IF phase \in {"flush literals", "flush matches"} THEN 64 ELSE 7

(* What one turn pulls was in the accumulator: the one flush per triple is *)
(* enough for the largest L, M and D with the rarest symbols.              *)
PullsFit ==
  /\ phase = "pull literals" =>
       LET k(j) == BitCount(Step([table |-> decoder.literal, state |-> found.state[j]]).span)
       IN k(0) + k(1) + k(2) + k(3) <= Len(in.bits)
  /\ phase = "pull match" =>
       LET k(kind) == ValueBits(kind, [table |-> decoder[kind], state |-> found.lmdState[kind]])
       IN k("L") + k("M") + k("D") <= Len(in.bits)

(* One flush per turn is enough in both directions.                        *)
BitsFit == AccumulatorFits /\ PullsFit

(* A flush stores 8 bytes wherever it begins: never behind the             *)
(* destination's end, as the tests of the turns before leave room for it.  *)
(* That goes for fse_out_finish64 too (lines 295 and 368 of                *)
(* lzfse_encode_base.c), which nothing tests: after the last turn of a     *)
(* loop, and where there was no turn.                                      *)
StoresInBounds ==
  /\ phase \in {"flush literals", "flush matches", "literals", "matches"} => Size(dst) <= room
  /\ \/ phase \in {"flush literals", "flush matches"}
     \/ phase \in {"literals", "matches"} /\ i = 0
     => Size(dst) + 8 <= room

(* The 8 bytes fse_in_checked_flush64 loads lie in the source, except that *)
(* the last of them may be the one behind it, which nothing tests: only if *)
(* the block is the end of the source. When anything follows the block, a  *)
(* marker at the least, no load leaves the source.                         *)
BlockEnd == HeaderSize(source) + found.literalBytes + found.lmdBytes
ReadsInSource ==
  in # NoStream =>
    /\ in.pos >= 0 /\ BlockEnd <= Size(source)
    /\ in.pos + 8 <= IF BlockEnd = Size(source) THEN Size(source) + 1 ELSE Size(source)

(* The 8-byte stores stay in the destination, and the 8-byte loads in a    *)
(* source that does not end with the block: in one that does, one byte too *)
(* many is loaded, and not used.                                           *)
WideAccessesInBounds == StoresInBounds /\ ReadsInSource

(* Normalised frequencies add up to the number of states, and a symbol     *)
(* that occurs keeps one.                                                  *)
NormalizedFrequencies ==
  phase = "literals" /\ i = header.literals =>
    \A kind \in Kinds :
      /\ Total(header.freq[kind]) = States[kind]
      /\ kind = "literal" =>
           \A n \in DOMAIN block.literals : header.freq.literal[block.literals[n] + 1] > 0
      /\ kind # "literal" =>
           \A n \in DOMAIN block.triples : header.freq[kind][SymbolsOf(kind)[n] + 1] > 0

(* The finished block decodes to itself: a prefix at any time, all of it   *)
(* at the end, with no error between.                                      *)
BlockDecodes ==
  source = Stream =>
    /\ phase # "error"
    /\ literals = SubSeq(block.literals, 1, Len(literals))
    /\ triples = SubSeq(block.triples, 1, Len(triples))
    /\ phase = "decoded" =>
         /\ literals = block.literals /\ triples = block.triples
         /\ found.state = [j \in 0 .. 3 |-> 0]
=============================================================================
