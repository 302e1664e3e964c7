---------------------------- MODULE MCLZFSEEntropy ----------------------------
(***************************************************************************)
(* Blocks through the coding and back, with the code's own tables; some    *)
(* with a header or a payload the encoder does not write.                  *)
(***************************************************************************)
EXTENDS LZFSEEntropy

vars == <<encoderVars, decoderVars, phase>>

Triple(l, m, d) == [L |-> l, M |-> m, D |-> d]

(* Of one symbol per table, and of none among the literals.                *)
NoLiterals == [literals |-> <<>>, triples |-> <<Triple(0, 5, 1)>>]
OneSymbol == [literals |-> [n \in 1 .. 8 |-> 7], triples |-> [n \in 1 .. 3 |-> Triple(2, 3, 0)]]

(* Rounding takes too many states, by little and by much.                  *)
Rounded ==
  [literals |-> [n \in 1 .. 24 |-> n], triples |-> [n \in 1 .. 7 |-> Triple(n, n + 3, n)]]
Adjusted ==
  [literals |-> [n \in 1 .. 80 |-> n],
   triples |-> [n \in 1 .. 19 |-> Triple(IF n < 19 THEN n - 1 ELSE 315, n + 2, 40 * n * n)]]

(* The largest triple, its symbols as rare as they can be.                 *)
Largest ==
  [literals |-> [n \in 1 .. 40 |-> (n * n) % 5],
   triples |-> [n \in 1 .. 150 |-> IF n = 60 THEN Triple(315, 2359, 262139)
                                   ELSE Triple(1, 3 + (n % 2), IF n % 3 = 0 THEN 0 ELSE n % 7)]]

(* The first and the last value of every symbol.                           *)
Ends(kind, n) ==
  LET s == (n \div 2) % Symbols[kind]
  IN BaseValue[kind][s] + (n % 2) * (2^ExtraBits[kind][s] - 1)
Boundaries ==
  [literals |-> [n \in 1 .. 256 |-> n - 1],
   triples |-> [n \in 1 .. 128 |-> Triple(Ends("L", n - 1), Ends("M", n - 1),
                     IF n \in {4, 6, 8} THEN 0 ELSE Ends("D", n - 1))]]

Long == [literals |-> [n \in 1 .. 640 |-> (n * n * n) % 256], triples |-> <<Triple(1, 3, 1)>>]

Ample == 2000
MCInputs ==
  {NoLiterals, OneSymbol, Rounded, Adjusted, Largest, Boundaries} \X {Ample}
  \cup {NoLiterals} \X {FullHeaderSize - 1, FullHeaderSize}
  \cup {Boundaries} \X {FullHeaderSize, FullHeaderSize + 1, 910, 911, 912} \cup {<<Long, FullHeaderSize>>}
MCUndefined == {-20000, 0, 3}

Init == InitEntropy

(* With one thing in the header changed: what the decoder does not take,   *)
(* and what it takes and decodes to something.                             *)
Altered ==
  LET payload == SubSeq(Stream, Len(EncodeHeader(header)) + 1, Len(Stream))
      With(h) == EncodeHeader(h) \o payload
      freq == header.freq
  IN {With([header EXCEPT !.literalBits = IF @ = 0 THEN -3 ELSE 0]),
      With([header EXCEPT !.lmdBits = IF @ = -7 THEN -6 ELSE -7]),
      With([header EXCEPT !.literals = 400]), With([header EXCEPT !.literals = 40001]),
      With([header EXCEPT !.matches = 300]), With([header EXCEPT !.matches = 10001]),
      With([header EXCEPT !.lmdState.L = 63]), With([header EXCEPT !.lmdState.D = 256]),
      With([header EXCEPT !.state[2] = 1023]), With([header EXCEPT !.literalBytes = 100000]),
      With([header EXCEPT !.freq.L[2] = @ + 1, !.freq.L[1] = @ + 1]),
      With([header EXCEPT !.freq.D = [n \in 1 .. 64 |-> IF freq.D[n] > 1 THEN freq.D[n] - 1 ELSE freq.D[n]]]),
      With([header EXCEPT !.freq.literal = SubSeq(@, 1, 200)]),
      With([header EXCEPT !.freq.literal = @ \o Zeros(8)]),
      With([header EXCEPT !.freq = [kind \in Kinds |-> <<>>]]),
      SubSeq(Stream, 1, Len(Stream) - 32), SubSeq(Stream, 1, Len(Stream) - 72)}

Give == Given({Stream} \cup (IF block \in {OneSymbol, Rounded} THEN Altered ELSE {}))

Next == NextEncode \/ NextDecode \/ Give

Spec == Init /\ [][Next]_vars
=============================================================================
