------------------------------- MODULE MCLZVN -------------------------------
(***************************************************************************)
(* A text through the LZVN encoder and its payload through the decoder,    *)
(* every call of which gets some part of the source and the destination.   *)
(***************************************************************************)
EXTENDS LZVNEncoder, LZVNDecoder

CONSTANT MaxCalls   \* bounds the calls of the decoder
VARIABLES
  calls,
  resumedAt,  \* dst when the running call took up a cut instruction, or -1
  kept        \* no call was made after one that forgot what it took up

callVars == <<calls, resumedAt, kept>>
vars == <<encVars, lzvnVars, callVars>>

Init ==
  /\ InitEncoder
  /\ stream = <<>> /\ out = <<>> /\ call = NewCall /\ reg = NewReg
  /\ at = "idle" /\ calls = 0 /\ resumedAt = -1 /\ kept = TRUE

(* Bytes of which no three repeat, for literals, and pieces that do.       *)
Fresh(from, to) == [i \in 1 .. to - from |-> (5 * (from + i) * (from + i) + (from + i) \div 9) % 7]
Same(n) == [i \in 1 .. n |-> 7]
Word == <<1, 2, 3, 4, 5>>
Mark == <<7, 0, 7>>
Repeats == Word \o Word \o Same(8)

Texts ==
  {Fresh(0, 6), Same(9), Fresh(0, 40), Repeats,
   Word \o <<0, 6>> \o Word \o <<6, 0, 6>> \o Word \o Fresh(0, 9),
   Mark \o Fresh(0, 6) \o Mark \o Fresh(6, 46),
   Mark \o Fresh(0, 6) \o Mark \o Fresh(6, 9) \o Mark \o Fresh(9, 20),
   <<9, 10, 11, 12>> \o Fresh(0, 4) \o <<11, 12, 13, 14, 15>> \o Fresh(4, 9)
     \o <<9, 10, 11, 12, 13, 14, 15>> \o Fresh(9, 20),
   Fresh(0, 26) \o Same(50) \o Fresh(26, 37)}

MCInputs ==
  {<<t, Len(t) + n>> : t \in Texts, n \in {20, 30}} \cup Texts \X {7, 8, 20, 27, 40}

(* A call that took up a cut instruction, whose rest is no longer in the   *)
(* state when it returns, although neither position moved.                 *)
Forgotten == at = "returned" /\ resumedAt = call.dst /\ call.L = 0 /\ call.M = 0

Call(srcEnd, dstEnd) ==
  /\ calls < MaxCalls
  /\ calls' = calls + 1
  /\ resumedAt' = -1
  /\ kept' = (kept /\ ~Forgotten)
  /\ call' = [call EXCEPT !.srcEnd = srcEnd, !.dstEnd = dstEnd]
  /\ at' = "called"
  /\ UNCHANGED <<encVars, out, reg>>

(* Streams the encoder does not write, for one text: with instructions     *)
(* that do nothing, with one that does not exist, and with a match before  *)
(* any distance.                                                           *)
Undefined == <<30>> \o payload
NoDistance == <<242>> \o payload
Streams ==
  {payload} \cup (IF text = Repeats THEN {<<14, 22>> \o payload, Undefined, NoDistance} ELSE {})

FirstCall ==
  /\ enc = "encoded" /\ at = "idle"
  /\ stream' \in Streams
  /\ \E s \in 0 .. Len(stream'), d \in 0 .. SrcEnd : Call(s, d)

(* More of the source, of the destination or of both.                      *)
CallAgain ==
  /\ at = "returned" /\ ~call.eos
  /\ \E s \in {call.srcEnd, call.srcEnd + 1, call.srcEnd + 6, Len(stream)},
        d \in {call.dstEnd, call.dstEnd + 1, call.dstEnd + 4, SrcEnd + 2} :
       call.srcEnd <= s /\ s <= Len(stream) /\ call.dstEnd <= d /\ Call(s, d)
  /\ UNCHANGED stream

TakeUp ==
  /\ ResumePartial
  /\ resumedAt' = call.dst
  /\ UNCHANGED <<encVars, calls, kept>>

Next ==
  \/ NextEncoder /\ UNCHANGED <<lzvnVars, callVars>>
  \/ NextDecoder /\ UNCHANGED <<encVars, callVars>>
  \/ TakeUp \/ FirstCall \/ CallAgain

Spec == Init /\ [][Next]_vars

(* Whatever parts of the source and of the destination the calls get, what *)
(* is in the buffer is the beginning of the text, and the marker is        *)
(* reached only with all of the text out: until a call follows one that    *)
(* took up a cut instruction and then met an end marker that was cut off   *)
(* (CutsRemembered says what becomes of those).                            *)
DecodesText ==
  enc = "encoded" /\ stream # NoDistance /\ kept =>
    /\ IsPrefix(out, text)
    /\ call.eos => out = text

(* With all of the source there, a call that returns before the marker has *)
(* filled the destination to the last byte.                                *)
StopsOnlyWhenFull ==
  at = "returned" /\ ~call.eos /\ kept /\ stream # Undefined /\ call.srcEnd = Len(stream) =>
    call.dst = call.dstEnd

(* Every instruction that opens a match is read as it was written, for all *)
(* literals, lengths and distances at which its form changes.              *)
OpcodesDecode ==
  enc = "start" /\ text = Repeats =>
  \A L \in 0 .. 3, M \in 3 .. 40, last \in {0, 300, 16000},
     D \in {1, 255, 256, 300, 1535, 1536, 1791, 16000, 16383, 16384, 65535} :
    OpeningDecodes(L, M, D, last)

(* What the encoder writes decodes to the text, by whatever calls, as long *)
(* as none of them forgets what it took up.                                *)
DecodesAll == DecodesText /\ StopsOnlyWhenFull /\ OpcodesDecode

(* Where the instructions of the stream begin.                             *)
Starts ==
  LET from[p \in 0 .. Len(stream)] ==
        IF p + 1 >= Len(stream) THEN {p}
        ELSE LET next == p + OpcodeLength(stream[p + 1])
                           + LiteralOf(stream[p + 1], stream[p + 2])
             IN {p} \cup (IF next <= Len(stream) THEN from[next] ELSE {})
  IN from[0]

(* When a call returns, "src points to the next literal to copy, or the    *)
(* next op-code if L==0" (lzvn_decode_base.h:52): the next call never      *)
(* executes a literal.                                                     *)
CutsRemembered ==
  at = "returned" /\ call.L = 0 /\ kept => call.src \in Starts

=============================================================================
