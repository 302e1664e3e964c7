----------------------------- MODULE LZFSEHeader -----------------------------
(***************************************************************************)
(* The values of L, M and D as symbols and extra bits, and the header of a *)
(* compressed block, bit for bit.                                          *)
(***************************************************************************)
EXTENDS FSE

Kinds == {"L", "M", "D", "literal"}
Symbols == [L |-> 20, M |-> 20, D |-> 64, literal |-> 256]
States == [L |-> 64, M |-> 64, D |-> 256, literal |-> 1024]

(* {l,m,d}_extra_bits and {l,m,d}_base_value: four distances' symbols have *)
(* the same number of extra bits.                                          *)
ExtraBits ==
  [L |-> [s \in 0 .. 19 |-> IF s < 16 THEN 0 ELSE <<2, 3, 5, 8>>[s - 15]],
   M |-> [s \in 0 .. 19 |-> IF s < 16 THEN 0 ELSE <<3, 5, 8, 11>>[s - 15]],
   D |-> [s \in 0 .. 63 |-> s \div 4]]
BaseValue ==
  [L |-> [s \in 0 .. 19 |-> IF s < 16 THEN s ELSE <<16, 20, 28, 60>>[s - 15]],
   M |-> [s \in 0 .. 19 |-> IF s < 16 THEN s ELSE <<16, 24, 56, 312>>[s - 15]],
   D |-> [s \in 0 .. 63 |-> 4 * (2^(s \div 4) - 1) + (s % 4) * 2^(s \div 4)]]

(* LZFSE_ENCODE_MAX_{L,M,D}_VALUE.                                         *)
MaxValue == [L |-> 315, M |-> 2359, D |-> 262139]

(* {l,m,d}_base_from_value.                                                *)
BaseFromValue(kind, value) ==
  CHOOSE s \in DOMAIN BaseValue[kind] :
    BaseValue[kind][s] <= value /\ value < BaseValue[kind][s] + 2^ExtraBits[kind][s]

----------------------------------------------------------------------------
(* A frequency is written with 2, 3, 5, 8 or 14 bits, of which the lowest  *)
(* tell how many.                                                          *)

EncodeFreqValue(v) ==
  CASE v \in {0, 1} -> Bits(2 * v, 2)
    [] v \in {2, 3} -> Bits(4 * v - 7, 3)
    [] v \in 4 .. 7 -> Bits(8 * v - 29, 5)
    [] v \in 8 .. 23 -> Bits(7 + (v - 8) * 16, 8)
    [] OTHER -> Bits(15 + (v - 24) * 16, 14)

FreqBitsTable == <<2, 3, 2, 5, 2, 3, 2, 8, 2, 3, 2, 5, 2, 3, 2, 14>>
FreqValueTable ==
  <<0, 2, 1, 4, 0, 3, 1, -1, 0, 2, 1, 5, 0, 3, 1, -1,
    0, 2, 1, 6, 0, 3, 1, -1, 0, 2, 1, 7, 0, 3, 1, -1>>

DecodeFreqValue(b) ==
  LET n == FreqBitsTable[(b % 16) + 1]
  IN [nbits |-> n,
      value |-> CASE n = 8 -> 8 + ((b \div 16) % 16)
                  [] n = 14 -> 24 + ((b \div 16) % 1024)
                  [] OTHER -> FreqValueTable[(b % 32) + 1]]

AllFreqs(freq) == freq.L \o freq.M \o freq.D \o freq.literal

(* lzfse_encode_v1_freq_table: whole bytes, the last one padded.           *)
FreqTableBits(freq) ==
  LET all == AllFreqs(freq)
  IN Finished(Joined(LAMBDA s, t : s \o t, LAMBDA j : EncodeFreqValue(all[j]), <<>>, Len(all)))

(* The tables of a header; <<>> where lzfse_decode_v1 fails: the header    *)
(* ends within a code, or is longer than its codes.  What is above the 32  *)
(* bits the accumulator can hold is not needed: no code has more than 14.  *)
(* A header without tables leaves them all zero.                           *)
DecodeFreqTable(bits) ==
  LET n == 20 + 20 + 64 + 256
      Read == [used : -1 .. Len(bits), freqs : Seq(Nat)]
      next == [t \in Read |->
        LET left == Len(bits) - t.used
            v == DecodeFreqValue(Number(Field(bits, t.used, Lower(left, 24))))
        IN IF t.used < 0 \/ v.nbits > left THEN [t EXCEPT !.used = -1]
           ELSE [used |-> t.used + v.nbits, freqs |-> Append(t.freqs, v.value)]]
      codes == Joined(LAMBDA f, g : [t \in Read |-> g[f[t]]], LAMBDA i : next, next, n)
      all == IF bits = <<>> THEN [used |-> 0, freqs |-> Zeros(n)]
             ELSE codes[[used |-> 0, freqs |-> <<>>]]
  IN IF all.used < 0 \/ Len(bits) - all.used >= 8 THEN <<>>
     ELSE [L |-> SubSeq(all.freqs, 1, 20), M |-> SubSeq(all.freqs, 21, 40),
           D |-> SubSeq(all.freqs, 41, 104), literal |-> SubSeq(all.freqs, 105, n)]

----------------------------------------------------------------------------
(* lzfse_encode_v1_state and the rest of the header, which ends with the   *)
(* tables.                                                                 *)

FixedSize == 32      \* offsetof(lzfse_compressed_block_header_v2, freq)
FullHeaderSize == FixedSize + 2 * (20 + 20 + 64 + 256)
Magic == 846755426         \* 'bvx2'
EndOfStream == 611874402   \* 'bvx$'

EncodeHeader(h) ==
  LET tables == FreqTableBits(h.freq)
  IN Bits(Magic, 32) \o Bits(h.rawBytes, 32)
     \o Bits(h.literals, 20) \o Bits(h.literalBytes, 20) \o Bits(h.matches, 20)
     \o Bits(7 + h.literalBits, 3) \o Zeros(1)
     \o Bits(h.state[0], 10) \o Bits(h.state[1], 10) \o Bits(h.state[2], 10) \o Bits(h.state[3], 10)
     \o Bits(h.lmdBytes, 20) \o Bits(7 + h.lmdBits, 3) \o Zeros(1)
     \o Bits(FixedSize + Len(tables) \div 8, 32)
     \o Bits(h.lmdState.L, 10) \o Bits(h.lmdState.M, 10) \o Bits(h.lmdState.D, 10) \o Zeros(2)
     \o tables

HeaderSize(source) == Number(Field(source, 192, 32))

(* lzfse_decode_v1.                                                        *)
DecodeHeader(source) ==
  LET field(word, offset, n) == Number(Field(source, 64 * word + offset, n))
  IN [rawBytes |-> field(0, 32, 32),
      literals |-> field(1, 0, 20), literalBytes |-> field(1, 20, 20), matches |-> field(1, 40, 20),
      literalBits |-> field(1, 60, 3) - 7,
      state |-> [j \in 0 .. 3 |-> field(2, 10 * j, 10)],
      lmdBytes |-> field(2, 40, 20), lmdBits |-> field(2, 60, 3) - 7,
      lmdState |-> [L |-> field(3, 32, 10), M |-> field(3, 42, 10), D |-> field(3, 52, 10)],
      freq |-> DecodeFreqTable(Field(source, 256, 8 * (HeaderSize(source) - FixedSize)))]

(* lzfse_check_block_header_v1.                                            *)
Sound(h) ==
  /\ h.literals <= 40000 /\ h.matches <= 10000
  /\ \A j \in 0 .. 3 : h.state[j] < States.literal
  /\ \A kind \in {"L", "M", "D"} : h.lmdState[kind] < States[kind]
  /\ \A kind \in Kinds : Total(h.freq[kind]) <= States[kind]
=============================================================================
