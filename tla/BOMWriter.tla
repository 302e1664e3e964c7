----------------------------- MODULE BOMWriter -----------------------------
(***************************************************************************)
(* The BOM container: a client adds blocks and names some of them, then    *)
(* finalize() lays the file out: a header, the blocks one after another,   *)
(* the index of block addresses, the table of variables, and at last the   *)
(* addresses of the two tables patched into the header.                    *)
(*                                                                         *)
(* A block is a record with a size; block identifiers count from 0, so     *)
(* block id is blocks[id + 1].  Every address is converted to UInt32, a    *)
(* conversion that traps when the value is too large.                      *)
(***************************************************************************)
EXTENDS Naturals, Sequences

CONSTANTS
  Payloads,    \* blocks a client may add: records with a field size
  VarNames,    \* names a client may give: records with a field size
  MaxBlocks,   \* bound on the number of blocks, for model checking
  MaxVars,     \* bound on the number of variables, for model checking
  MaxU32,      \* largest UInt32
  MaxName      \* most bytes of a variable name (255)

ASSUME BOMAssumption ==
  /\ \A b \in Payloads : b.size \in Nat
  /\ \A n \in VarNames : n.size \in Nat
  /\ {MaxBlocks, MaxVars, MaxU32, MaxName} \subseteq Nat

VARIABLES
  blocks,     \* payloads, block 0 first
  variables,  \* named blocks, in insertion order
  phase,      \* how far the writer is
  offset,     \* writer.offset: bytes emitted so far
  placed,     \* address of every block emitted so far
  index,      \* the index table, as written
  named,      \* how many variables are written
  header      \* the four words patched into the header

bomVars == <<blocks, variables, phase, offset, placed, index, named, header>>

HeaderSize == 512
NullBlock == [size |-> 0]
NullHeader == [indexOffset |-> 0, indexLength |-> 0,
               varsOffset |-> 0, varsLength |-> 0]

Phase == {"building", "packing", "naming", "done", "trapped"}

Fits(n) == n <= MaxU32

BOMInit ==
  /\ blocks = <<NullBlock>>
  /\ variables = <<>>
  /\ phase = "building"
  /\ offset = 0
  /\ placed = <<>>
  /\ index = <<>>
  /\ named = 0
  /\ header = NullHeader

-----------------------------------------------------------------------------

AddBlock(b) ==
  /\ phase = "building"
  /\ Len(blocks) < MaxBlocks
  /\ blocks' = Append(blocks, b)
  /\ UNCHANGED <<variables, phase, offset, placed, index, named, header>>

SetVariable(n, id) ==
  /\ phase = "building"
  /\ Len(variables) < MaxVars
  /\ variables' = Append(variables, [name |-> n, blockID |-> id])
  /\ UNCHANGED <<blocks, phase, offset, placed, index, named, header>>

(* The header is emitted with its addresses still 0; block 0 has none.     *)
WriteHeader ==
  /\ phase = "building"
  /\ phase' = "packing"
  /\ offset' = HeaderSize
  /\ placed' = <<0>>
  /\ UNCHANGED <<blocks, variables, index, named, header>>

PackBlock ==
  /\ phase = "packing"
  /\ Len(placed) < Len(blocks)
  /\ Fits(offset)
  /\ placed' = Append(placed, offset)
  /\ offset' = offset + blocks[Len(placed) + 1].size
  /\ UNCHANGED <<blocks, variables, phase, index, named, header>>

IndexSize == 4 + 8 * Len(blocks)

(* Mutant: an entry takes the address noted for the block before it.       *)
WriteIndexShifted ==
  /\ phase = "packing"
  /\ Len(placed) = Len(blocks)
  /\ Fits(offset + IndexSize)
  /\ index' = [i \in DOMAIN blocks |->
                [addr |-> IF i = 1 THEN 0 ELSE placed[i - 1], len |-> blocks[i].size]]
  /\ header' = [indexOffset |-> offset, indexLength |-> IndexSize,
                 varsOffset |-> offset + IndexSize, varsLength |-> 0]
  /\ offset' = offset + IndexSize + 4
  /\ phase' = "naming"
  /\ UNCHANGED <<blocks, variables, placed, named>>

(* Writes the index, and the count the table of variables starts with.     *)
WriteIndex ==
  /\ phase = "packing"
  /\ Len(placed) = Len(blocks)
  /\ Fits(offset + IndexSize)
  /\ index' = [i \in DOMAIN blocks |->
                [addr |-> placed[i], len |-> blocks[i].size]]
  /\ header' = [indexOffset |-> offset, indexLength |-> IndexSize,
                 varsOffset |-> offset + IndexSize, varsLength |-> 0]
  /\ offset' = offset + IndexSize + 4
  /\ phase' = "naming"
  /\ UNCHANGED <<blocks, variables, placed, named>>

WriteVariable ==
  /\ phase = "naming"
  /\ named < Len(variables)
  /\ variables[named + 1].name.size <= MaxName
  /\ named' = named + 1
  /\ offset' = offset + 5 + variables[named + 1].name.size
  /\ UNCHANGED <<blocks, variables, phase, placed, index, header>>

(* Mutant: takes the length as it comes.                                   *)
PatchHeaderUnchecked ==
  /\ phase = "naming"
  /\ named = Len(variables)
  /\ header' = [header EXCEPT !.varsLength = offset - header.varsOffset]
  /\ phase' = "done"
  /\ UNCHANGED <<blocks, variables, offset, placed, index, named>>

(* Patches the header; the file is complete.                               *)
PatchHeader ==
  /\ phase = "naming"
  /\ named = Len(variables)
  /\ Fits(offset)
  /\ header' = [header EXCEPT !.varsLength = offset - header.varsOffset]
  /\ phase' = "done"
  /\ UNCHANGED <<blocks, variables, offset, placed, index, named>>

(* An address that UInt32 cannot hold, or a name the length byte cannot.   *)
MustTrap ==
  \/ phase = "packing" /\ Len(placed) < Len(blocks) /\ ~Fits(offset)
  \/ phase = "packing" /\ Len(placed) = Len(blocks) /\ ~Fits(offset + IndexSize)
  \/ phase = "naming" /\ named < Len(variables)
       /\ variables[named + 1].name.size > MaxName
  \/ phase = "naming" /\ named = Len(variables) /\ ~Fits(offset)

Trap ==
  /\ MustTrap
  /\ phase' = "trapped"
  /\ UNCHANGED <<blocks, variables, offset, placed, index, named, header>>

Finalizing ==
  PackBlock \/ WriteIndex \/ WriteVariable \/ PatchHeader \/ Trap

Finished == phase \in {"done", "trapped"} /\ UNCHANGED bomVars

BOMNext ==
  \/ \E b \in Payloads : AddBlock(b)
  \/ \E n \in VarNames, id \in 0 .. Len(blocks) - 1 : SetVariable(n, id)
  \/ WriteHeader
  \/ Finalizing
  \/ Finished

BOMSpec == BOMInit /\ [][BOMNext]_bomVars

-----------------------------------------------------------------------------
(* Correctness.                                                            *)

(* Every name refers to a block that exists, and every address noted by    *)
(* finalize() or patched into the header is one UInt32 can hold.           *)
BOMTypeOK ==
  /\ \A i \in DOMAIN blocks : blocks[i].size \in Nat
  /\ \A i \in DOMAIN variables : variables[i].blockID \in 0 .. Len(blocks) - 1
  /\ phase \in Phase
  /\ offset \in Nat
  /\ placed \in Seq(0 .. MaxU32)
  /\ named \in 0 .. Len(variables)
  /\ header \in [indexOffset : 0 .. MaxU32, indexLength : 0 .. MaxU32,
                 varsOffset : 0 .. MaxU32, varsLength : 0 .. MaxU32]

(* No two blocks share a byte, none lies in the header, and none beyond    *)
(* what is written so far: the addresses finalize() notes while it packs   *)
(* are those of disjoint pieces of the file, in the order of identifiers.  *)
BlocksDisjoint ==
  \A i \in 2 .. Len(placed) :
    /\ HeaderSize <= placed[i]
    /\ placed[i] + blocks[i].size <= offset
    /\ \A j \in i + 1 .. Len(placed) : placed[i] + blocks[i].size <= placed[j]

(* What the first i of some pieces come to.                                *)
Totals(sizes) ==
  LET total[i \in 0 .. Len(sizes)] == IF i = 0 THEN 0 ELSE total[i - 1] + sizes[i]
  IN total

BlockSizes == [i \in DOMAIN blocks |-> blocks[i].size]
NameSizes == [i \in DOMAIN variables |-> 5 + variables[i].name.size]

(* Where the bytes of the blocks before block i end, counted from what is  *)
(* emitted and not from what finalize() notes.                             *)
BlockPlace(i) == HeaderSize + Totals(BlockSizes)[i - 1]

(* In a finished file the index leads to the bytes of every block: behind  *)
(* block 0, which is null, an entry has the block's length and the address *)
(* at which the bytes of its predecessors end.  The header leads to that   *)
(* index, right behind the last block, and to the variables, which follow  *)
(* the index and end where the file ends.                                  *)
TablesSound ==
  phase = "done" =>
    /\ Len(index) = Len(blocks)
    /\ index[1] = [addr |-> 0, len |-> 0]
    /\ \A i \in 2 .. Len(index) :
         index[i] = [addr |-> BlockPlace(i), len |-> blocks[i].size]
    /\ header.indexOffset = BlockPlace(Len(blocks) + 1)
    /\ header.indexLength = 4 + 8 * Len(index)
    /\ header.varsOffset = header.indexOffset + header.indexLength
    /\ header.varsOffset + header.varsLength = offset

FileSize ==
  HeaderSize + Totals(BlockSizes)[Len(blocks)] + IndexSize + 4
    + Totals(NameSizes)[Len(variables)]

(* The writer traps rather than wrap an address, and only for a file or a  *)
(* name that the format cannot hold.                                       *)
TrapsExactlyWhenTooLarge ==
  LET holds == /\ FileSize <= MaxU32
               /\ \A i \in DOMAIN variables : variables[i].name.size <= MaxName
  IN /\ phase = "done" => holds /\ offset = FileSize
     /\ phase = "trapped" => ~holds

=============================================================================
