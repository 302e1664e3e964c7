---------------------------- MODULE MCBOMWriter ----------------------------
(***************************************************************************)
(* An instance of BOMWriter for TLC: blocks of 0, 3 and 40 bytes, names the *)
(* length byte holds and one it does not, and addresses that end early     *)
(* enough for a few blocks to overflow them.                               *)
(***************************************************************************)
EXTENDS BOMWriter

MCPayloads == {[size |-> n] : n \in {0, 3, 40}}
MCVarNames == {[size |-> n] : n \in {1, 4}}

=============================================================================
