--------------------------------- MODULE FSE ---------------------------------
(***************************************************************************)
(* Finite state entropy coding (lzfse_fse.c, lzfse_fse.h): the tables, the *)
(* steps of a state, and the streams of bits.  Bits are sequences of 0 and *)
(* 1 from the least significant; where the code keeps a shift k, span is   *)
(* 2^k, which for a number of states that is a power of two is one of its  *)
(* divisors.                                                               *)
(***************************************************************************)
EXTENDS Integers, Sequences

CONSTANT PrecisionBits   \* of a normalised frequency before it is rounded: 31

ASSUME PrecisionAssumption == PrecisionBits \in 12 .. 31

(* Its divisors but 1 are even.                                            *)
PowerOfTwo(n) == n \in Nat \ {0} /\ \A d \in 1 .. n : n % d = 0 => d = 1 \/ d % 2 = 0

(* 2^k with n <= f * 2^k < 2 * n.                                          *)
Span(n, f) == CHOOSE K \in 1 .. n : n % K = 0 /\ n <= f * K /\ f * K < 2 * n

(* A symbol with frequency f whose states begin at offset.  With f = n the *)
(* code shifts by -1 for delta1: anything may come of it.                  *)
EncoderEntry(n, f, offset, undefined) ==
  LET K == Span(n, f)
  IN [s0 |-> f * K - n, span |-> K, delta0 |-> offset - f + n \div K,
      delta1 |-> IF K = 1 THEN undefined ELSE offset - f + (2 * n) \div K]

(* A mutant: one state too many takes the longer code.                     *)
DecoderEntryOneTooMany(n, f, j) ==
  LET K == Span(n, f)
      j0 == (2 * n) \div K - f
  IN IF j <= j0 THEN [span |-> K, delta |-> (f + j) * K - n]
                ELSE [span |-> K \div 2, delta |-> (j - j0) * (K \div 2)]

(* The jth state of a symbol with frequency f.                             *)
DecoderEntry(n, f, j) ==
  LET K == Span(n, f)
      j0 == (2 * n) \div K - f
  IN IF j < j0 THEN [span |-> K, delta |-> (f + j) * K - n]
               ELSE [span |-> K \div 2, delta |-> (j - j0) * (K \div 2)]

WrittenSpan(e, s) == IF s >= e.s0 THEN e.span ELSE e.span \div 2
NextState(e, s) == (IF s >= e.s0 THEN e.delta0 ELSE e.delta1) + (s \div WrittenSpan(e, s))
WrittenValue(e, s) == s % WrittenSpan(e, s)

----------------------------------------------------------------------------
(* Tables: a frequency per symbol, both counted from 1 in the sequence and *)
(* from 0 in the code.                                                     *)

(* The function as a tuple, which TLC evaluates once.                      *)
Listed(f) == <<>> \o f

(* The items 1 to n joined by an associative op, by halves.                *)
Joined(op(_, _), item(_), none, n) ==
  LET part[r \in (1 .. n) \X (1 .. n)] ==
        IF r[1] = r[2] THEN item(r[1])
        ELSE LET mid == (r[1] + r[2]) \div 2
             IN op(part[<<r[1], mid>>], part[<<mid + 1, r[2]>>])
  IN IF n = 0 THEN none ELSE part[<<1, n>>]

TotalBefore(freq, i) == Joined(LAMBDA a, b : a + b, LAMBDA j : freq[j], 0, i - 1)
Total(freq) == TotalBefore(freq, Len(freq) + 1)

EncoderTable(n, freq, undefined) ==
  [i \in DOMAIN freq |->
     IF freq[i] = 0 THEN <<>>
     ELSE EncoderEntry(n, freq[i], TotalBefore(freq, i), undefined)]

(* The states no symbol has keep what was there, at first all zeros.       *)
DecoderTable(n, freq) ==
  LET entries(i) ==
        [j \in 1 .. freq[i] |->
           LET e == DecoderEntry(n, freq[i], j - 1)
           IN [symbol |-> i - 1, span |-> e.span, delta |-> e.delta]]
      used == Joined(LAMBDA s, t : s \o t, entries, <<>>, Len(freq))
  IN used \o [s \in 1 .. n - Len(used) |-> [symbol |-> 0, span |-> 1, delta |-> 0]]

Lower(a, b) == IF a <= b THEN a ELSE b
Higher(a, b) == IF a >= b THEN a ELSE b

(* Each symbol in turn gives up all but one of its states, shifted, until  *)
(* none is left over; then all of them again with the next lower shift.    *)
AdjustFreqs(freqs, overrun) ==
  LET pass[shift \in 0 .. 4] ==
        IF shift = 4 THEN [freq |-> freqs, overrun |-> overrun]
        ELSE LET t == pass[shift + 1]
                 offered == Listed([i \in DOMAIN freqs |-> Higher(t.freq[i] - 1, 0) \div 2^shift])
                 left == Listed([i \in 1 .. Len(freqs) + 1 |-> Higher(t.overrun - TotalBefore(offered, i), 0)])
             IN [freq |-> Listed([i \in DOMAIN freqs |-> t.freq[i] - Lower(offered[i], left[i])]),
                 overrun |-> left[Len(freqs) + 1]]
  IN pass[0].freq

(* A mutant: a symbol that is rounded to no state keeps none.              *)
NormalizeWithoutMinimum(n, counts) ==
  LET count == Total(counts)
      step == IF count = 0 THEN 0 ELSE 2^PrecisionBits \div count
      freq == Listed([i \in DOMAIN counts |->
                ((counts[i] * step) \div (2^(PrecisionBits - 1) \div n) + 1) \div 2])
      most == CHOOSE i \in DOMAIN freq : \A j \in DOMAIN freq : freq[j] <= freq[i]
  IN [freq EXCEPT ![most] = @ + n - Total(freq)]

NormalizeFreq(n, counts) ==
  LET count == Total(counts)
      step == IF count = 0 THEN 0 ELSE 2^PrecisionBits \div count
      rounded(t) == ((t * step) \div (2^(PrecisionBits - 1) \div n) + 1) \div 2
      freq == Listed([i \in DOMAIN counts |->
                 IF counts[i] # 0 /\ rounded(counts[i]) = 0 THEN 1 ELSE rounded(counts[i])])
      remaining == n - Total(freq)
      most == CHOOSE i \in DOMAIN freq :
                /\ \A j \in DOMAIN freq : freq[j] <= freq[i]
                /\ \A j \in 1 .. i - 1 : freq[j] < freq[i]
  IN IF -remaining < freq[most] \div 4
       THEN [freq EXCEPT ![most] = @ + remaining]
       ELSE AdjustFreqs(freq, -remaining)

----------------------------------------------------------------------------
(* Bits.                                                                   *)

(* An integer of TLC has no bit above these.                               *)
Bits(v, n) == [i \in 1 .. n |-> IF i > 30 THEN 0 ELSE (v \div 2^(i - 1)) % 2]

Number(bits) ==
  LET sum[i \in 0 .. Len(bits)] ==
        IF i = 0 THEN 0 ELSE sum[i - 1] + (IF bits[i] = 0 THEN 0 ELSE 2^(i - 1))
  IN sum[Len(bits)]

Field(bits, offset, n) == SubSeq(bits, offset + 1, offset + n)
WholeBytes(n) == n - (n % 8)
Zeros(n) == [i \in 1 .. n |-> 0]
BitCount(span) == CHOOSE k \in 0 .. 15 : 2^k = span

(* fse_out_flush: what goes out and what the accumulator keeps.            *)
Flushed(accum) == Field(accum, 0, WholeBytes(Len(accum)))
Kept(accum) == Field(accum, WholeBytes(Len(accum)), Len(accum) % 8)

(* fse_out_finish: the last bytes, padded; and the count it leaves.        *)
Padding(accum) == WholeBytes(Len(accum) + 7) - Len(accum)
Finished(accum) == accum \o Zeros(Padding(accum))

(* fse_encode: the state and the accumulator after it.                     *)
Encode(t, symbol) ==
  LET e == t.table[symbol + 1]
  IN [t EXCEPT !.state = NextState(e, t.state),
               !.accum = @ \o Bits(WrittenValue(e, t.state), BitCount(WrittenSpan(e, t.state)))]

(* An input stream: the byte it has come down to and the bits it holds.    *)
NoStream == [pos |-> -1, bits |-> <<>>]

InInit(source, n, end, start) ==
  LET size == IF n # 0 THEN 8 ELSE 7
      bits == Field(source, 8 * (end - size), 8 * size)
      held == IF n # 0 THEN n + 64 ELSE 56
  IN IF end < start + size \/ held < 56 \/ held >= 64
          \/ \E i \in held + 1 .. Len(bits) : bits[i] # 0
       THEN NoStream
       ELSE [pos |-> end - size, bits |-> Field(bits, 0, held)]

(* A mutant: the accumulator is filled up to 48 bits.                      *)
InFlushTo48(source, in, start) ==
  LET nbits == Higher(0, WholeBytes(47 - Len(in.bits)))
      buf == in.pos - nbits \div 8
  IN IF buf < start THEN NoStream
     ELSE [pos |-> buf, bits |-> Field(source, 8 * buf, nbits) \o in.bits]

InFlush(source, in, start) ==
  LET nbits == WholeBytes(63 - Len(in.bits))
      buf == in.pos - nbits \div 8
  IN IF buf < start THEN NoStream
     ELSE [pos |-> buf, bits |-> Field(source, 8 * buf, nbits) \o in.bits]

(* fse_in_pull takes from the top.                                         *)
Pulled(in, n) == Number(Field(in.bits, Len(in.bits) - n, n))
AfterPull(in, n) == [in EXCEPT !.bits = Field(@, 0, Len(@) - n)]
=============================================================================
