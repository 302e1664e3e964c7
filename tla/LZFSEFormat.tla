----------------------------- MODULE LZFSEFormat -----------------------------
(***************************************************************************)
(* The blocks of an LZFSE stream.  A stream is a sequence with one element *)
(* per byte; the first byte of a block stands for its header, the bytes of *)
(* a raw or LZVN payload for themselves, all others are Filler.            *)
(***************************************************************************)
EXTENDS Integers, Sequences, SequencesExt

CONSTANTS
  MaxL, MaxM, MaxD,                  \* LZFSE_ENCODE_MAX_{L,M,D}_VALUE: 315, 2359, 262139
  MatchesPerBlock, LiteralsPerBlock, \* 10000 and 40000
  FullHeader,                        \* sizeof(lzfse_compressed_block_header_v2)
  TablesSize,                        \* what the frequency tables come to (encoded)
  LiteralCost, MatchCost,            \* payload bytes of four literals, of one match
  LongCount                          \* the longest count of an LZVN instruction

ASSUME FormatAssumption ==
  /\ MaxL \in Nat \ {0} /\ MaxM \in Nat \ {0} /\ MaxD \in Nat \ {0}
  /\ MatchesPerBlock \in Nat /\ MatchesPerBlock >= 9
  /\ LiteralsPerBlock \in Nat /\ LiteralsPerBlock >= MaxL + 16 /\ LiteralsPerBlock % 4 = 0
  /\ FullHeader \in Nat /\ TablesSize \in Nat
  /\ LiteralCost \in 0 .. 8 /\ MatchCost \in 0 .. 8

Lesser(a, b) == IF a <= b THEN a ELSE b
Greater(a, b) == IF a >= b THEN a ELSE b

Filler == [magic |-> "none"]
FixedHeader == 32     \* the part of a V2 header before the tables
EndOfStreamBlock == [magic |-> "bvx$"]
RawBlock(raw) == [magic |-> "bvx-", raw |-> raw]
LZVNBlock(raw, payload) == [magic |-> "bvxn", raw |-> raw, payload |-> payload]

(* Both forms of a header of a compressed block come down to this one.     *)
CompressedBlock(triples, literals, raw) ==
  [magic |-> "bvx2", headerSize |-> FixedHeader + TablesSize,
   triples |-> triples, literals |-> literals, raw |-> raw,
   literalBytes |-> LiteralCost * (Len(literals) \div 4),
   lmdBytes |-> 8 + MatchCost * Len(triples)]

(* A block's header and whatever of its payload is not told apart.         *)
BlockBytes(block, size) == <<block>> \o [i \in 1 .. size - 1 |-> Filler]

----------------------------------------------------------------------------
(* A distance equal to the one before it is written as 0.                  *)

LastDistance(triples, n) ==
  LET told == {i \in 1 .. n : triples[i].D # 0}
  IN IF told = {} THEN 0 ELSE triples[CHOOSE i \in told : \A j \in told : j <= i].D

EncodeDistances(triples) ==
  [i \in DOMAIN triples |->
     IF triples[i].D = LastDistance(triples, i - 1)
       THEN [triples[i] EXCEPT !.D = 0] ELSE triples[i]]

RestoreDistances(triples) ==
  [i \in DOMAIN triples |->
     IF triples[i].D = 0
       THEN [triples[i] EXCEPT !.D = LastDistance(triples, i - 1)] ELSE triples[i]]

=============================================================================
