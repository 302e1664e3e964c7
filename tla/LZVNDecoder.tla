----------------------------- MODULE LZVNDecoder -----------------------------
(***************************************************************************)
(* lzvn_decode: executes the instructions of a payload of which only a     *)
(* first part may be there yet, into a buffer that may be too small, and   *)
(* can be called again with more of either.  What a call leaves behind is  *)
(* the record call (lzvn_decoder_state); reg holds its local variables,    *)
(* which are lost when it returns.                                         *)
(***************************************************************************)
EXTENDS LZVNFormat

CONSTANT Unwritten   \* what a byte of the destination is before it is written

ASSUME UnwrittenAssumption == Unwritten \in 0 .. 255

VARIABLES
  stream,   \* the source buffer, a byte per position
  out,      \* the destination buffer up to dst_ptr
  call,     \* the decoder state between calls
  reg,      \* src_ptr, D, L, M and opc_len of the running call
  at        \* the label the call is at

lzvnVars == <<stream, out, call, reg, at>>

NewCall == [src |-> 0, srcEnd |-> 0, dst |-> 0, dstEnd |-> 0,
            L |-> 0, M |-> 0, D |-> 0, dPrev |-> 0, eos |-> FALSE]
NewReg == [src |-> 0, D |-> 0, L |-> 0, M |-> 0, skip |-> 0]

SrcLen == call.srcEnd - reg.src
DstLen == call.dstEnd - Len(out)

(* UPDATE_GOOD: an instruction begins at this position of both buffers.    *)
Good == [call EXCEPT !.src = reg.src, !.dst = Len(out), !.dPrev = reg.D]

(* Leaving with the state c; what was written beyond c.dst does not count. *)
Return(c) ==
  /\ at' = "returned"
  /\ call' = c
  /\ out' = SubSeq(out, 1, c.dst)
  /\ UNCHANGED <<stream, reg>>

Goto(label, r, c) ==
  /\ at' = label
  /\ reg' = r
  /\ call' = c
  /\ UNCHANGED stream

----------------------------------------------------------------------------
EmptyBuffer ==
  /\ at = "called"
  /\ call.src = call.srcEnd \/ call.dst = call.dstEnd
  /\ Return(call)

(* A match or literal was cut off by the end of the destination.           *)
ResumePartial ==
  /\ at = "called"
  /\ call.src # call.srcEnd /\ call.dst # call.dstEnd
  /\ call.L # 0 \/ call.M # 0
  /\ Goto(IF call.M = 0 THEN "literal" ELSE IF call.L = 0 THEN "match" ELSE "literal_match",
          [src |-> call.src, D |-> call.D, L |-> call.L, M |-> call.M, skip |-> 0],
          [call EXCEPT !.L = 0, !.M = 0, !.D = 0])
  /\ UNCHANGED out

FirstOpcode ==
  /\ at = "called"
  /\ call.src # call.srcEnd /\ call.dst # call.dstEnd
  /\ call.L = 0 /\ call.M = 0
  /\ Goto("op", [NewReg EXCEPT !.src = call.src, !.D = call.dPrev], call)
  /\ UNCHANGED out

----------------------------------------------------------------------------
(* One action per kind of instruction; an operand byte is read only when   *)
(* the source has it.                                                      *)
Op == stream[reg.src + 1]
Second == IF SrcLen > 1 THEN stream[reg.src + 2] ELSE 0
Third == IF SrcLen > 2 THEN stream[reg.src + 3] ELSE 0

AtInstruction(kinds) == at = "op" /\ Instruction(Op) \in kinds

Operands ==
  [reg EXCEPT !.L = LiteralOf(Op, Second), !.M = MatchOf(Op, Second),
              !.D = DistanceOf(Op, Second, Third, reg.D), !.skip = OpcodeLength(Op)]

(* Mutant of OpLiteralAndMatch: the literal may be cut off.                *)
OpLiteralAndMatchCut ==
  /\ AtInstruction({"sml_d", "med_d", "lrg_d", "pre_d"})
  /\ IF SrcLen <= Operands.skip
       THEN Return(Good)
       ELSE Goto("literal_match", Operands, Good) /\ UNCHANGED out

(* sml_d, med_d, lrg_d, pre_d: the literal and the byte after it have to   *)
(* be there.                                                               *)
OpLiteralAndMatch ==
  /\ AtInstruction({"sml_d", "med_d", "lrg_d", "pre_d"})
  /\ IF SrcLen <= Operands.skip + Operands.L
       THEN Return(Good)
       ELSE Goto("literal_match", Operands, Good) /\ UNCHANGED out

OpMatch ==
  /\ AtInstruction({"sml_m", "lrg_m"})
  /\ IF SrcLen <= Operands.skip
       THEN Return(Good)
       ELSE /\ Goto("match", [Operands EXCEPT !.src = @ + Operands.skip], Good)
            /\ UNCHANGED out

OpLiteral ==
  /\ AtInstruction({"sml_l", "lrg_l"})
  /\ IF Instruction(Op) = "lrg_l" /\ SrcLen <= 2
       THEN Return(Good)
       ELSE Goto("literal", Operands, Good) /\ UNCHANGED out

OpNop ==
  /\ AtInstruction({"nop"})
  /\ IF SrcLen <= 1
       THEN Return(Good)
       ELSE Goto("op", [reg EXCEPT !.src = @ + 1], Good) /\ UNCHANGED out

(* The state is updated only when the marker is complete: a cut-off one    *)
(* leaves the call at the instruction before it.                           *)
OpEos ==
  /\ AtInstruction({"eos"})
  /\ Return(IF SrcLen < 8 THEN call ELSE [Good EXCEPT !.src = @ + 8, !.eos = TRUE])

OpUndefined ==
  /\ AtInstruction({"udef"})
  /\ Return(call)

----------------------------------------------------------------------------
LiteralsAt(src, n) == SubSeq(stream, src + 1, src + n)

(* A copy byte by byte, which repeats the last D bytes when M exceeds D.   *)
(* A match before any distance copies the destination onto itself.         *)
CopyOf(D, n) ==
  [i \in 1 .. n |-> IF D = 0 THEN Unwritten ELSE out[Len(out) - D + 1 + ((i - 1) % D)]]

(* The destination ends inside a literal or a match.                       *)
Cut(src, bytes, L, M) ==
  /\ at' = "returned"
  /\ out' = out \o bytes
  /\ call' = [call EXCEPT !.src = src, !.dst = Len(out) + Len(bytes),
                          !.L = L, !.M = M, !.D = reg.D]
  /\ UNCHANGED <<stream, reg>>

CopyLiteralAndMatch ==
  /\ at = "literal_match"
  /\ LET src == reg.src + reg.skip
     IN IF reg.L > DstLen
          THEN Cut(src + DstLen, LiteralsAt(src, DstLen), reg.L - DstLen, reg.M)
        ELSE IF reg.D > Len(out) + reg.L \/ reg.D = 0
          THEN Return(call)    \* invalid_match_distance
        ELSE /\ out' = out \o LiteralsAt(src, reg.L)
             /\ Goto("match", [reg EXCEPT !.src = src + reg.L, !.L = 0, !.skip = 0], call)

(* Mutant of CopyMatch: what is left of a cut match is not remembered.     *)
CopyMatchForgets ==
  /\ at = "match"
  /\ IF reg.M > DstLen
       THEN Cut(reg.src, CopyOf(reg.D, DstLen), 0, 0)
       ELSE /\ out' = out \o CopyOf(reg.D, reg.M)
            /\ Goto("op", [reg EXCEPT !.M = 0, !.skip = 0], call)

CopyMatch ==
  /\ at = "match"
  /\ IF reg.M > DstLen
       THEN Cut(reg.src, CopyOf(reg.D, DstLen), 0, reg.M - DstLen)
       ELSE /\ out' = out \o CopyOf(reg.D, reg.M)
            /\ Goto("op", [reg EXCEPT !.M = 0, !.skip = 0], call)

CopyLiteral ==
  /\ at = "literal"
  /\ LET src == reg.src + reg.skip
     IN IF SrcLen <= reg.skip + reg.L
          THEN Return(call)
        ELSE IF reg.L > DstLen
          THEN Cut(src + DstLen, LiteralsAt(src, DstLen), reg.L - DstLen, 0)
        ELSE /\ out' = out \o LiteralsAt(src, reg.L)
             /\ Goto("op", [reg EXCEPT !.src = src + reg.L, !.L = 0, !.skip = 0], call)

(* Without ResumePartial: what a caller can see that clears L, M and D.    *)
NextDecoder ==
  \/ EmptyBuffer \/ FirstOpcode
  \/ OpLiteralAndMatch \/ OpMatch \/ OpLiteral \/ OpNop \/ OpEos \/ OpUndefined
  \/ CopyLiteralAndMatch \/ CopyMatch \/ CopyLiteral

----------------------------------------------------------------------------
(* No instruction reads an opcode, an operand or a literal beyond the end  *)
(* of the source, nor a match before the start of the output, and nothing  *)
(* is written beyond the end of the destination, whatever the stream.      *)
LZVNReadsInBounds ==
  /\ at = "op" => SrcLen >= 1
  /\ at = "literal_match" => reg.skip + reg.L <= SrcLen
  /\ at = "match" => reg.D \in 0 .. Len(out)
  /\ at # "idle" => Len(out) <= call.dstEnd /\ call.src <= call.srcEnd

=============================================================================
