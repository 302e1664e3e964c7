----------------------------- MODULE LZVNFormat -----------------------------
(***************************************************************************)
(* The instructions of the LZVN format: which opcode writes a literal of L *)
(* bytes and a match of M bytes at distance D, as lzvn_encode_base.c       *)
(* chooses them, and which instruction an opcode is, as the jump table of  *)
(* lzvn_decode_base.c has it.                                              *)
(***************************************************************************)
EXTENDS Integers, Sequences, SequencesExt

CONSTANT LongCount   \* the largest count one instruction holds (271 in the source)

ASSUME LongCountAssumption == LongCount \in 16 .. 271

Lesser(a, b) == IF a <= b THEN a ELSE b

ShortDistance == 1536
LongDistance == 16384
MaxDistance == 65535

(***************************************************************************)
(* What an emitting function writes in one go: the opcode with its operand *)
(* bytes, the literal bytes after it, how many bytes have to be free       *)
(* beyond them for it to write at all, and how many bytes it may touch.    *)
(***************************************************************************)
Piece(code, literals, need, touched) ==
  [code |-> code, literals |-> literals, need |-> need, touched |-> touched]

(* The loops that split a count: LongCount at a time, then the rest.       *)
Counts(n) ==
  [i \in 1 .. (n + LongCount - 1) \div LongCount |->
     Lesser(LongCount, n - LongCount * (i - 1))]

Opcode(base, n) == IF n > 15 THEN <<base, n - 16>> ELSE <<base + n>>

LiteralPiece(n, touched) ==
  LET code == Opcode(224, n) IN Piece(code, n, n + 10, Len(code) + touched)

(* The literals an instruction with a match does not carry itself.         *)
LiteralsBefore(L) ==
  [i \in 1 .. (L + LongCount - 4) \div LongCount |->
     LET n == Lesser(LongCount, L - LongCount * (i - 1))
     IN LiteralPiece(n, 8 * ((n + 7) \div 8))]

LiteralsWithin(L) == IF L % LongCount <= 3 THEN L % LongCount ELSE 0

(* How much of the match the instruction with the distance holds.          *)
IsMedium(M, D, dPrev, within, first) ==
  D # dPrev /\ D \in ShortDistance .. LongDistance - 1 /\ M # first /\ M <= 34

OpeningLength(L, M, D, dPrev) ==
  LET within == LiteralsWithin(L)
      first == Lesser(M, 10 - 2 * within)
  IN IF IsMedium(M, D, dPrev, within, first) THEN M ELSE first

Opening(L, M, D, dPrev) ==
  LET within == LiteralsWithin(L)
      x == OpeningLength(L, M, D, dPrev)
      wide == 4 * D + ((x - 3) % 4)
      code ==
        IF D = dPrev
          THEN IF within = 0 THEN <<240 + x>>
               ELSE <<64 * within + 8 * (x - 3) + 6>>
        ELSE IF D < ShortDistance
          THEN <<(D \div 256) + 64 * within + 8 * (x - 3), D % 256>>
        ELSE IF IsMedium(M, D, dPrev, within, Lesser(M, 10 - 2 * within))
          THEN <<160 + ((x - 3) \div 4) + 8 * within, wide % 256, wide \div 256>>
        ELSE <<64 * within + 8 * (x - 3) + 7, D % 256, D \div 256>>
  IN Piece(code, within, 8, Len(code) + 4)

MatchesAfter(rest) ==
  LET counts == Counts(rest)
  IN [i \in DOMAIN counts |->
        LET code == Opcode(240, counts[i]) IN Piece(code, 0, Len(code), Len(code))]

(* emit() and emit_literal().                                              *)
Emit(L, M, D, dPrev) ==
  LiteralsBefore(L) \o <<Opening(L, M, D, dPrev)>>
    \o MatchesAfter(M - OpeningLength(L, M, D, dPrev))

EmitLiteral(L) ==
  LET counts == Counts(L)
  IN [i \in DOMAIN counts |-> LiteralPiece(counts[i], counts[i])]

(* Where each piece begins; the last entry is where all of them end.       *)
Offsets(pieces) ==
  LET offset[i \in 1 .. Len(pieces) + 1] ==
        IF i = 1 THEN 0
        ELSE offset[i - 1] + Len(pieces[i - 1].code) + pieces[i - 1].literals
  IN offset

(* Mutant of Fits: no margin for the wide stores.                          *)
FitsExactly(pieces, room) ==
  Offsets(pieces)[Len(pieces) + 1] <= room

(* OUT_FULL is not reached.                                                *)
Fits(pieces, room) ==
  \A i \in DOMAIN pieces : Offsets(pieces)[i] + pieces[i].need < room

(* The bytes of the pieces, the literals taken from a text.                *)
Bytes(pieces, text, from) ==
  LET taken[i \in 1 .. Len(pieces) + 1] ==
        IF i = 1 THEN from ELSE taken[i - 1] + pieces[i - 1].literals
  IN FlattenSeq([i \in DOMAIN pieces |->
       pieces[i].code \o SubSeq(text, taken[i] + 1, taken[i + 1])])

----------------------------------------------------------------------------
(* The instruction an opcode stands for.                                   *)
Instruction(op) ==
  CASE op \in 240 .. 255 -> IF op = 240 THEN "lrg_m" ELSE "sml_m"
    [] op \in 224 .. 239 -> IF op = 224 THEN "lrg_l" ELSE "sml_l"
    [] op \in 112 .. 127 \cup 208 .. 223 -> "udef"
    [] op \in 160 .. 191 -> "med_d"
    [] OTHER -> IF op % 8 <= 5 THEN "sml_d"
                ELSE IF op % 8 = 7 THEN "lrg_d"
                ELSE IF op >= 64 THEN "pre_d"
                ELSE IF op = 6 THEN "eos"
                ELSE IF op \in {14, 22} THEN "nop" ELSE "udef"

(* Its length without the literal bytes.                                   *)
OpcodeLength(op) ==
  CASE Instruction(op) \in {"sml_d", "lrg_m", "lrg_l"} -> 2
    [] Instruction(op) \in {"med_d", "lrg_d"} -> 3
    [] Instruction(op) = "eos" -> 8
    [] OTHER -> 1

(* Its literal, match and distance; the second and third operand byte are  *)
(* read only by the instructions that have them.                           *)
LiteralOf(op, second) ==
  CASE Instruction(op) \in {"sml_d", "lrg_d", "pre_d"} -> op \div 64
    [] Instruction(op) = "med_d" -> (op \div 8) % 4
    [] Instruction(op) = "sml_l" -> op % 16
    [] Instruction(op) = "lrg_l" -> second + 16
    [] OTHER -> 0

MatchOf(op, second) ==
  CASE Instruction(op) \in {"sml_d", "lrg_d", "pre_d"} -> ((op \div 8) % 8) + 3
    [] Instruction(op) = "med_d" -> 4 * (op % 8) + (second % 4) + 3
    [] Instruction(op) = "sml_m" -> op % 16
    [] Instruction(op) = "lrg_m" -> second + 16
    [] OTHER -> 0

DistanceOf(op, second, third, previous) ==
  CASE Instruction(op) = "sml_d" -> 256 * (op % 8) + second
    [] Instruction(op) = "med_d" -> (256 * third + second) \div 4
    [] Instruction(op) = "lrg_d" -> 256 * third + second
    [] OTHER -> previous

----------------------------------------------------------------------------
(* What the decoder reads in the instruction the encoder opens a match     *)
(* with is what the encoder wrote, and never another kind of instruction:  *)
(* the opcodes of the format overlap wherever a length exceeds its field.  *)
OpeningDecodes(L, M, D, dPrev) ==
  LET code == Opening(L, M, D, dPrev).code
      op == code[1]
      second == IF Len(code) > 1 THEN code[2] ELSE 0
      third == IF Len(code) > 2 THEN code[3] ELSE 0
  IN /\ op \in 0 .. 255 /\ second \in 0 .. 255 /\ third \in 0 .. 255
     /\ Instruction(op) \notin {"eos", "nop", "udef"}
     /\ OpcodeLength(op) = Len(code)
     /\ LiteralOf(op, second) = LiteralsWithin(L)
     /\ MatchOf(op, second) = OpeningLength(L, M, D, dPrev)
     /\ DistanceOf(op, second, third, dPrev) = D

=============================================================================
