------------------------------ MODULE MCNames ------------------------------
(***************************************************************************)
(* The names of assets in the instances for TLC.                           *)
(***************************************************************************)
EXTENDS Naturals, Sequences

(* Names with their true CRC32s.  "a" precedes "ab" and the byte order of  *)
(* their packed identifiers is not their order as numbers; "aaa" and "gyt" *)
(* have the same identifier; the two spellings of e-acute are one Swift    *)
(* string, of which the second sorts after "f" although its bytes precede. *)
Name(utf8, hash) == [utf8 |-> utf8, nfc |-> utf8, hash |-> hash]
a == Name(<<97>>, 48707)
ab == Name(<<97, 98>>, 18541)
aaa == Name(<<97, 97, 97>>, 29485)
gyt == Name(<<103, 121, 116>>, 29485)
f == Name(<<102>>, 11232)
eAcute == Name(<<195, 169>>, 36158)
eAcuteSplit == [utf8 |-> <<101, 204, 129>>, nfc |-> <<195, 169>>, hash |-> 64301]

=============================================================================
