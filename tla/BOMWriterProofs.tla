-------------------------- MODULE BOMWriterProofs --------------------------
(***************************************************************************)
(* Proofs about the BOM writer, for any blocks, any names and any width of *)
(* addresses: the extents it notes while packing stay disjoint, and the    *)
(* tables of a finished file give the places of its blocks.                *)
(***************************************************************************)
EXTENDS BOMWriter, SequenceTheorems, WellFoundedInduction, TLAPS

IsSeq(q) == q \in Seq({q[i] : i \in 1 .. Len(q)})

TypeInv ==
  /\ BOMTypeOK
  /\ IsSeq(blocks)
  /\ IsSeq(variables)
  /\ \A i \in 1 .. Len(variables) : variables[i].name.size \in Nat

(* How far the packing is: nothing is emitted while the client builds, and *)
(* later the blocks placed so far are the first of the container.          *)
PackInv ==
  /\ phase # "building" =>
       /\ HeaderSize <= offset
       /\ 1 <= Len(placed) /\ Len(placed) <= Len(blocks)
  /\ phase = "building" => placed = <<>> /\ 1 <= Len(blocks)

(* Once the index is written it agrees with the extents, it lies behind    *)
(* them, and the table of variables has begun right after it.              *)
IndexInv ==
  phase \in {"naming", "done"} =>
    /\ Len(placed) = Len(blocks)
    /\ index = [i \in DOMAIN blocks |-> [addr |-> placed[i], len |-> blocks[i].size]]
    /\ \A i \in 2 .. Len(placed) : placed[i] + blocks[i].size <= header.indexOffset
    /\ header.indexLength = IndexSize
    /\ header.varsOffset = header.indexOffset + header.indexLength
    /\ header.varsOffset <= offset
    /\ phase = "done" => header.varsOffset + header.varsLength = offset

(* What is written so far, and why the writer stopped.                     *)
SizeInv ==
  /\ phase = "building" => named = 0 /\ blocks[1].size = 0
  /\ phase = "packing" => named = 0 /\ offset = HeaderSize + Totals(BlockSizes)[Len(placed)]
  /\ phase \in {"naming", "done"} =>
       offset = HeaderSize + Totals(BlockSizes)[Len(blocks)] + IndexSize + 4
                  + Totals(NameSizes)[named]
  /\ phase = "done" => named = Len(variables) /\ FileSize <= MaxU32
  /\ \A i \in 1 .. named : variables[i].name.size <= MaxName
  /\ phase = "trapped" => \/ FileSize > MaxU32
                          \/ \E i \in DOMAIN variables : variables[i].name.size > MaxName

(* Every address noted is the place of its block, and so is what the       *)
(* header gives for the index, behind the last block.                      *)
PlaceInv ==
  /\ \A i \in 2 .. Len(placed) : placed[i] = BlockPlace(i)
  /\ placed # <<>> => placed[1] = 0 /\ blocks[1].size = 0
  /\ phase \in {"naming", "done"} => header.indexOffset = BlockPlace(Len(blocks) + 1)

IInv == TypeInv /\ PackInv /\ BlocksDisjoint /\ IndexInv

-----------------------------------------------------------------------------

(* Whatever block or name a client passes, its size is a natural number.   *)
LEMMA SizesAreNat ==
  /\ MaxU32 \in Nat /\ MaxName \in Nat
  /\ \A b \in Payloads : b.size \in Nat
  /\ \A n \in VarNames : n.size \in Nat
  BY BOMAssumption

(* A sequence has a length, whatever its elements.                         *)
LEMMA SeqLength ==
  ASSUME NEW p, IsSeq(p)
  PROVE  Len(p) \in Nat /\ DOMAIN p = 1 .. Len(p)
  BY LenProperties DEF IsSeq

(* Appending to it leaves what is there.                                   *)
LEMMA Appended ==
  ASSUME NEW p, IsSeq(p), NEW e
  PROVE  LET q == Append(p, e) IN
         /\ IsSeq(q) /\ Len(q) = Len(p) + 1 /\ DOMAIN q = 1 .. Len(p) + 1
         /\ \A i \in 1 .. Len(p) : q[i] = p[i]
         /\ q[Len(p) + 1] = e
<1> DEFINE n == Len(p)
           A == {p[i] : i \in 1 .. n} \cup {e}
           q == Append(p, e)
<1>1. n \in Nat /\ p \in [1 .. n -> A]
  BY LenProperties DEF IsSeq
<1>2. e \in A
  OBVIOUS
<1> HIDE DEF A
<1>3. p \in Seq(A)
  BY <1>1
<1>4. /\ q \in Seq(A) /\ Len(q) = n + 1 /\ q[n + 1] = e
      /\ \A i \in 1 .. n : q[i] = p[i]
  BY <1>2, <1>3, AppendProperties
<1> DEFINE B == {q[i] : i \in 1 .. Len(q)}
<1> HIDE DEF q
<1>5. DOMAIN q = 1 .. n + 1 /\ Len(q) \in Nat /\ q \in [1 .. Len(q) -> B]
  BY <1>4, LenProperties
<1> HIDE DEF B
<1>6. q \in Seq(B)
  BY <1>5
<1> QED
  BY <1>4, <1>5, <1>6 DEF IsSeq, q, B

(* The sizes that offset grows by are natural numbers.                      *)
LEMMA BlockSize ==
  ASSUME TypeInv, NEW k \in 1 .. Len(blocks)
  PROVE  blocks[k].size \in Nat
  BY SeqLength DEF TypeInv, BOMTypeOK

(* So is the size of the name of any variable of the table.                *)
LEMMA NameSize ==
  ASSUME TypeInv, NEW k \in 1 .. Len(variables)
  PROVE  variables[k].name.size \in Nat
  BY DEF TypeInv

(* A writer just created satisfies the invariant: block 0 is empty.        *)
LEMMA InitIInv == BOMInit => IInv
<1> SUFFICES ASSUME BOMInit PROVE IInv
  OBVIOUS
<1> USE SizesAreNat DEF BOMInit
<1>1. TypeInv
  <2>1. IsSeq(blocks) /\ IsSeq(variables) /\ Len(blocks) = 1 /\ Len(variables) = 0
    <3>1. blocks \in Seq({NullBlock}) /\ variables \in Seq({})
      OBVIOUS
    <3> QED
      BY <3>1 DEF IsSeq
  <2> QED
    BY <2>1 DEF TypeInv, BOMTypeOK, NullBlock, NullHeader, Phase
<1>2. PackInv /\ BlocksDisjoint /\ IndexInv
  BY DEF PackInv, BlocksDisjoint, IndexInv
<1> QED
  BY <1>1, <1>2 DEF IInv

(* Every variable keeps its type; no address is ever wider than UInt32.    *)
LEMMA StepTypeInv ==
  ASSUME IInv, [BOMNext]_bomVars
  PROVE  TypeInv'
<1> USE DEF TypeInv, BOMTypeOK
<1>0. TypeInv
  BY DEF IInv
<1>1. ASSUME NEW b \in Payloads, AddBlock(b)
      PROVE  TypeInv'
  <2>1. /\ blocks' = Append(blocks, b)
        /\ UNCHANGED <<variables, phase, offset, placed, index, named, header>>
    BY <1>1 DEF AddBlock
  <2>2. /\ IsSeq(blocks') /\ Len(blocks') = Len(blocks) + 1 /\ Len(blocks) \in Nat
        /\ DOMAIN blocks' = 1 .. Len(blocks) + 1 /\ DOMAIN blocks = 1 .. Len(blocks)
        /\ \A i \in 1 .. Len(blocks) : blocks'[i] = blocks[i]
        /\ blocks'[Len(blocks) + 1] = b
    BY <1>0, <2>1, Appended, SeqLength
  <2>3. ASSUME NEW i \in DOMAIN blocks' PROVE blocks'[i].size \in Nat
    <3>1. CASE i = Len(blocks) + 1
      BY <2>2, <3>1, SizesAreNat
    <3>2. CASE i # Len(blocks) + 1
      <4>1. i \in DOMAIN blocks /\ i \in 1 .. Len(blocks)
        BY <2>2, <3>2
      <4> QED
        BY <1>0, <2>2, <4>1
    <3> QED
      BY <3>1, <3>2
  <2>4. \A i \in DOMAIN variables : variables[i].blockID \in 0 .. Len(blocks') - 1
    BY <1>0, <2>2
  <2> QED
    BY <1>0, <2>1, <2>2, <2>3, <2>4
<1>2. ASSUME NEW n \in VarNames, NEW id \in 0 .. Len(blocks) - 1, SetVariable(n, id)
      PROVE  TypeInv'
  <2> DEFINE v == [name |-> n, blockID |-> id]
  <2>1. /\ variables' = Append(variables, v)
        /\ UNCHANGED <<blocks, phase, offset, placed, index, named, header>>
    BY <1>2 DEF SetVariable
  <2>2. v.name.size \in Nat /\ v.blockID \in 0 .. Len(blocks) - 1
    BY SizesAreNat
  <2> HIDE DEF v
  <2>3. /\ IsSeq(variables') /\ Len(variables) \in Nat /\ DOMAIN variables = 1 .. Len(variables)
        /\ DOMAIN variables' = 1 .. Len(variables) + 1
        /\ Len(variables') = Len(variables) + 1
        /\ \A i \in 1 .. Len(variables) : variables'[i] = variables[i]
        /\ variables'[Len(variables) + 1] = v
    BY <1>0, <2>1, Appended, SeqLength
  <2>4. ASSUME NEW i \in DOMAIN variables'
        PROVE  variables'[i].blockID \in 0 .. Len(blocks) - 1 /\ variables'[i].name.size \in Nat
    <3>1. CASE i = Len(variables) + 1
      BY <2>2, <2>3, <3>1
    <3>2. CASE i # Len(variables) + 1
      <4>1. i \in DOMAIN variables /\ i \in 1 .. Len(variables)
        BY SMTT(30), <1>0, <2>3, <3>2
      <4>2. variables'[i] = variables[i]
        BY <2>3, <4>1
      <4> QED
        BY <1>0, <4>1, <4>2
    <3> QED
      BY <3>1, <3>2
  <2>5. named \in 0 .. Len(variables')
    BY <1>0, <2>3
  <2> QED
    BY <1>0, <2>1, <2>3, <2>4, <2>5
<1>3. CASE WriteHeader
  BY <1>0, <1>3, SizesAreNat DEF WriteHeader, HeaderSize, Phase
<1>4. CASE PackBlock
  <2>1. blocks[Len(placed) + 1].size \in Nat
    BY <1>0, <1>4, BlockSize DEF PackBlock
  <2>2. /\ offset \in 0 .. MaxU32 /\ offset' = offset + blocks[Len(placed) + 1].size
        /\ placed' = Append(placed, offset)
        /\ UNCHANGED <<blocks, variables, phase, index, named, header>>
    BY <1>0, <1>4, SizesAreNat DEF PackBlock, Fits
  <2> DEFINE Address == 0 .. MaxU32
  <2>3. placed' \in Seq(Address)
    <3> HIDE DEF Address
    <3>1. placed \in Seq(Address) /\ offset \in Address
      BY <1>0, <2>2 DEF Address
    <3> QED
      BY <2>2, <3>1
  <2>4. PICK d \in Nat : offset' = offset + d
    BY <2>1, <2>2
  <2>5. offset' \in Nat
    BY <1>0, <2>4
  <2> QED
    BY <1>0, <2>2, <2>3, <2>5
<1>5. CASE WriteIndex
  <2>1. IndexSize \in Nat
    BY <1>0 DEF IndexSize
  <2>2. /\ UNCHANGED <<blocks, variables, placed, named>>
        /\ offset' = offset + IndexSize + 4 /\ phase' = "naming"
        /\ header' = [indexOffset |-> offset, indexLength |-> IndexSize,
                      varsOffset |-> offset + IndexSize, varsLength |-> 0]
        /\ offset + IndexSize <= MaxU32
    BY <1>5 DEF WriteIndex, Fits
  <2>3. header' \in [indexOffset : 0 .. MaxU32, indexLength : 0 .. MaxU32,
                     varsOffset : 0 .. MaxU32, varsLength : 0 .. MaxU32]
    BY <1>0, <2>1, <2>2, SizesAreNat
  <2> QED
    BY <1>0, <2>1, <2>2, <2>3 DEF Phase
<1>6. CASE WriteVariable
  <2>1. /\ UNCHANGED <<blocks, variables, phase, placed, index, header>>
        /\ named < Len(variables) /\ named' = named + 1
        /\ offset' = offset + 5 + variables[named + 1].name.size
    BY <1>6 DEF WriteVariable
  <2>2. named + 1 \in 1 .. Len(variables)
    BY <1>0, <2>1
  <2>3. variables[named + 1].name.size \in Nat
    BY <1>0, <2>2, NameSize
  <2>4. PICK d \in Nat : offset' = offset + 5 + d
    BY <2>1, <2>3
  <2>5. offset' \in Nat /\ named' \in 0 .. Len(variables)
    BY SMTT(30), <1>0, <2>1, <2>2, <2>4
  <2> QED
    BY <1>0, <2>1, <2>5
<1>7. CASE PatchHeader
  <2>1. /\ UNCHANGED <<blocks, variables, offset, placed, index, named>>
        /\ header' = [header EXCEPT !.varsLength = offset - header.varsOffset]
        /\ phase = "naming" /\ phase' = "done" /\ offset <= MaxU32
    BY <1>7 DEF PatchHeader, Fits
  <2>2. header.varsOffset <= offset
    BY <2>1 DEF IInv, IndexInv
  <2>3. offset - header.varsOffset \in 0 .. MaxU32
    BY <1>0, <2>1, <2>2, SizesAreNat
  <2>4. header' \in [indexOffset : 0 .. MaxU32, indexLength : 0 .. MaxU32,
                     varsOffset : 0 .. MaxU32, varsLength : 0 .. MaxU32]
    BY <1>0, <2>1, <2>3
  <2> QED
    BY <1>0, <2>1, <2>4 DEF Phase
<1>8. CASE Trap
  BY <1>0, <1>8 DEF Trap, Phase
<1>9. CASE UNCHANGED bomVars
  BY <1>0, <1>9 DEF bomVars
<1> QED
  BY <1>1, <1>2, <1>3, <1>4, <1>5, <1>6, <1>7, <1>8, <1>9
     DEF BOMNext, Finalizing, Finished

(* The extents stay disjoint: the only step that notes one notes the end   *)
(* of all that is written, and moves it past the block.                    *)
LEMMA StepLayout ==
  ASSUME IInv, TypeInv', [BOMNext]_bomVars
  PROVE  PackInv' /\ BlocksDisjoint'
<1>0. /\ PackInv /\ BlocksDisjoint
      /\ TypeInv /\ placed \in Seq(0 .. MaxU32) /\ offset \in Nat
      /\ IsSeq(blocks) /\ Len(blocks) \in Nat /\ DOMAIN blocks = 1 .. Len(blocks)
      /\ Len(variables) \in Nat /\ named \in 0 .. Len(variables)
  BY SeqLength DEF IInv, TypeInv, BOMTypeOK
<1>1. ASSUME NEW b \in Payloads, AddBlock(b)
      PROVE  PackInv' /\ BlocksDisjoint'
  BY <1>0, <1>1 DEF AddBlock, PackInv, BlocksDisjoint
<1>2. ASSUME NEW n \in VarNames, NEW id \in 0 .. Len(blocks) - 1, SetVariable(n, id)
      PROVE  PackInv' /\ BlocksDisjoint'
  BY <1>0, <1>2 DEF SetVariable, PackInv, BlocksDisjoint
<1>3. CASE WriteHeader
  <2>1. Len(blocks) >= 1
    BY <1>3 DEF IInv, PackInv, WriteHeader
  <2> QED
    BY <1>0, <1>3, <2>1 DEF WriteHeader, PackInv, BlocksDisjoint, HeaderSize
<1>4. CASE PackBlock
  <2> DEFINE size(i) == blocks[i].size
  <2>1. /\ offset' = offset + size(Len(placed) + 1)
        /\ placed' = Append(placed, offset) /\ blocks' = blocks /\ phase' = phase
        /\ phase = "packing" /\ Len(placed) < Len(blocks)
    BY <1>4 DEF PackBlock
  <2>2. /\ Len(placed') = Len(placed) + 1
        /\ \A i \in 1 .. Len(placed) : placed'[i] = placed[i] /\ placed[i] \in Nat
        /\ placed'[Len(placed) + 1] = offset
    BY SMTT(30), <1>0, <2>1, SizesAreNat
  <2>3. \A i \in 1 .. Len(blocks) : size(i) \in Nat
    BY <1>0, BlockSize
  <2>4. /\ HeaderSize <= offset /\ Len(placed) \in Nat /\ 1 <= Len(placed)
        /\ Len(blocks) \in Nat /\ HeaderSize \in Nat
    BY <1>0, <2>1 DEF PackInv, HeaderSize
  <2>5. ASSUME NEW i \in 2 .. Len(placed)
        PROVE  /\ HeaderSize <= placed[i] /\ placed[i] + size(i) <= offset
               /\ \A j \in i + 1 .. Len(placed) : placed[i] + size(i) <= placed[j]
    BY <1>0 DEF BlocksDisjoint
  <2> HIDE DEF size
  <2>6. ASSUME NEW i \in 2 .. Len(placed')
        PROVE  /\ HeaderSize <= placed'[i] /\ placed'[i] + size(i) <= offset'
               /\ \A j \in i + 1 .. Len(placed') : placed'[i] + size(i) <= placed'[j]
    <3>1. CASE i = Len(placed) + 1
      BY <1>0, <2>1, <2>2, <2>3, <2>4, <3>1
    <3>2. CASE i # Len(placed) + 1
      <4>1. i \in 2 .. Len(placed) /\ placed'[i] = placed[i] /\ placed[i] \in Nat
        BY <2>2, <2>4, <3>2
      <4>2. size(i) \in Nat /\ size(Len(placed) + 1) \in Nat
        BY <2>1, <2>3, <2>4, <4>1
      <4>3. ASSUME NEW j \in i + 1 .. Len(placed')
            PROVE  placed[i] + size(i) <= placed'[j]
        <5>1. CASE j = Len(placed) + 1
          BY <2>2, <2>5, <4>1, <5>1
        <5>2. CASE j # Len(placed) + 1
          <6>1. j \in i + 1 .. Len(placed) /\ j \in 1 .. Len(placed)
            BY <2>2, <2>4, <4>1, <5>2
          <6>2. placed'[j] = placed[j]
            BY <2>2, <6>1
          <6> QED
            BY <2>5, <4>1, <6>1, <6>2
        <5> QED
          BY <5>1, <5>2
      <4>4. placed[i] + size(i) <= offset'
        <5>1. PICK d \in Nat : offset' = offset + d
          BY <2>1, <4>2
        <5>2. placed[i] + size(i) <= offset
          BY <2>5, <4>1
        <5> QED
          BY <1>0, <4>1, <4>2, <5>1, <5>2
      <4> QED
        BY <2>5, <4>1, <4>3, <4>4
    <3> QED
      BY <3>1, <3>2
  <2>7. BlocksDisjoint'
    BY <2>1, <2>6 DEF BlocksDisjoint, size
  <2>8. HeaderSize <= offset'
    BY <1>0, <2>1, <2>3, <2>4
  <2>9. PackInv'
    BY <2>1, <2>2, <2>4, <2>8 DEF PackInv
  <2> QED
    BY <2>7, <2>9
<1>5. ASSUME UNCHANGED <<blocks, placed>>, phase # "building", phase' # "building",
             NEW d \in Nat, offset' = offset + d
      PROVE  PackInv' /\ BlocksDisjoint'
  <2>1. HeaderSize \in Nat /\ \A i \in 1 .. Len(blocks) : blocks[i].size \in Nat
    BY <1>0, BlockSize DEF HeaderSize
  <2>2. HeaderSize <= offset /\ Len(placed) <= Len(blocks) /\ 1 <= Len(placed)
    BY <1>0, <1>5 DEF PackInv
  <2>3. PackInv'
    BY <1>0, <1>5, <2>1, <2>2 DEF PackInv
  <2>4. ASSUME NEW i \in 2 .. Len(placed)
        PROVE  placed[i] + blocks[i].size <= offset'
    <3>1. placed[i] \in Nat /\ blocks[i].size \in Nat
      BY <1>0, <2>1, <2>2, SizesAreNat
    <3>2. placed[i] + blocks[i].size <= offset
      BY <1>0 DEF BlocksDisjoint
    <3> QED
      BY <1>0, <1>5, <3>1, <3>2
  <2>5. BlocksDisjoint'
    BY <1>0, <1>5, <2>4 DEF BlocksDisjoint
  <2> QED
    BY <2>3, <2>5
<1>6. CASE WriteIndex
  <2>1. IndexSize + 4 \in Nat /\ offset' = offset + (IndexSize + 4)
    BY <1>0, <1>6 DEF WriteIndex, IndexSize
  <2> QED
    BY <1>5, <1>6, <2>1 DEF WriteIndex
<1>7. CASE WriteVariable
  <2>1. named + 1 \in 1 .. Len(variables)
    BY <1>0, <1>7 DEF WriteVariable
  <2>2. variables[named + 1].name.size \in Nat
    BY <1>0, <2>1, NameSize
  <2>3. PICK d \in Nat : offset' = offset + 5 + d
    BY <1>7, <2>2 DEF WriteVariable
  <2>4. 5 + d \in Nat /\ offset' = offset + (5 + d)
    BY <1>0, <2>3
  <2> QED
    BY <1>5, <1>7, <2>4 DEF WriteVariable
<1>8. CASE PatchHeader
  BY <1>0, <1>8 DEF PatchHeader, PackInv, BlocksDisjoint
<1>9. CASE Trap
  BY <1>0, <1>9 DEF Trap, MustTrap, PackInv, BlocksDisjoint
<1>10. CASE UNCHANGED bomVars
  BY <1>0, <1>10 DEF bomVars, PackInv, BlocksDisjoint
<1> QED
  BY <1>1, <1>2, <1>3, <1>4, <1>6, <1>7, <1>8, <1>9, <1>10
     DEF BOMNext, Finalizing, Finished

(* The index, once written, keeps agreeing with the header and the offset. *)
LEMMA StepIndex ==
  ASSUME IInv, [BOMNext]_bomVars
  PROVE  IndexInv'
<1>0. /\ IndexInv /\ TypeInv /\ offset \in Nat
      /\ Len(blocks) \in Nat /\ DOMAIN blocks = 1 .. Len(blocks)
      /\ Len(variables) \in Nat /\ named \in 0 .. Len(variables)
      /\ header \in [indexOffset : 0 .. MaxU32, indexLength : 0 .. MaxU32,
                      varsOffset : 0 .. MaxU32, varsLength : 0 .. MaxU32]
  BY SeqLength DEF IInv, TypeInv, BOMTypeOK
<1>1. ASSUME NEW b \in Payloads, AddBlock(b)
      PROVE  IndexInv'
  BY <1>1 DEF AddBlock, IndexInv
<1>2. ASSUME NEW n \in VarNames, NEW id \in 0 .. Len(blocks) - 1, SetVariable(n, id)
      PROVE  IndexInv'
  BY <1>2 DEF SetVariable, IndexInv
<1>3. CASE WriteHeader
  BY <1>3 DEF WriteHeader, IndexInv
<1>4. CASE PackBlock
  BY <1>4 DEF PackBlock, IndexInv
<1>5. CASE WriteIndex
  <2>1. IndexSize \in Nat /\ IndexSize' = IndexSize
    BY <1>0, <1>5 DEF WriteIndex, IndexSize
  <2>2. \A i \in 2 .. Len(placed) : placed[i] + blocks[i].size <= offset
    BY DEF BlocksDisjoint, IInv
  <2>3. /\ header'.indexOffset = offset /\ header'.indexLength = IndexSize
        /\ header'.varsOffset = offset + IndexSize
        /\ offset' = offset + IndexSize + 4
        /\ Len(placed) = Len(blocks) /\ phase' = "naming" /\ UNCHANGED <<blocks, placed>>
        /\ index' = [i \in DOMAIN blocks |-> [addr |-> placed[i], len |-> blocks[i].size]]
    BY <1>5 DEF WriteIndex
  <2> QED
    BY <1>0, <2>1, <2>2, <2>3 DEF IndexInv
<1>6. CASE WriteVariable
  <2>1. named + 1 \in 1 .. Len(variables)
    BY <1>0, <1>6 DEF WriteVariable
  <2>2. variables[named + 1].name.size \in Nat
    BY <1>0, <2>1, NameSize
  <2>3. /\ phase = "naming" /\ UNCHANGED <<blocks, phase, placed, index, header>>
        /\ offset' = offset + 5 + variables[named + 1].name.size
    BY <1>6 DEF WriteVariable
  <2>4. PICK d \in Nat : offset' = offset + 5 + d
    BY <2>2, <2>3
  <2>5. header.varsOffset \in Nat /\ header.varsOffset <= offset
    BY <1>0, <2>3, SizesAreNat DEF IndexInv
  <2>6. header.varsOffset <= offset' /\ IndexSize' = IndexSize
    BY <1>0, <2>3, <2>4, <2>5 DEF IndexSize
  <2> QED
    BY <1>0, <2>3, <2>6 DEF IndexInv
<1>7. CASE PatchHeader
  <2>1. /\ phase = "naming" /\ UNCHANGED <<blocks, placed, index, offset>>
        /\ header'.indexOffset = header.indexOffset
        /\ header'.indexLength = header.indexLength
        /\ header'.varsOffset = header.varsOffset
        /\ header'.varsLength = offset - header.varsOffset
    BY <1>0, <1>7 DEF PatchHeader
  <2>2. header.varsOffset + (offset - header.varsOffset) = offset /\ IndexSize' = IndexSize
    BY <1>0, <2>1 DEF IndexSize
  <2> QED
    BY <1>0, <2>1, <2>2 DEF IndexInv
<1>8. CASE Trap
  BY <1>8 DEF Trap, IndexInv
<1>9. CASE UNCHANGED bomVars
  BY <1>0, <1>9 DEF bomVars, IndexInv, IndexSize
<1> QED
  BY <1>1, <1>2, <1>3, <1>4, <1>5, <1>6, <1>7, <1>8, <1>9
     DEF BOMNext, Finalizing, Finished

-----------------------------------------------------------------------------
(* Sums.                                                                   *)

(* Every set of natural numbers has a least element.                       *)
LEMMA LeastElement ==
  ASSUME NEW T \in SUBSET Nat, T # {}
  PROVE  \E x \in T : \A y \in T : x <= y
<1>1. \E x \in T : \A y \in T : ~(<<y, x>> \in OpToRel(<, Nat))
  BY NatLessThanWellFounded, WFMin
<1>2. PICK x \in T : \A y \in T : ~(<<y, x>> \in OpToRel(<, Nat))
  BY <1>1
<1>3. ASSUME NEW y \in T PROVE x <= y
  <2>1. x \in Nat /\ y \in Nat
    OBVIOUS
  <2>2. <<y, x>> \in OpToRel(<, Nat) <=> y < x
    BY <2>1 DEF OpToRel
  <2>3. ~(y < x)
    BY <1>2, <2>2, Zenon
  <2> QED
    BY <2>1, <2>3
<1> QED
  BY <1>3

(* A property of 0 that every number hands on to the next.                 *)
LEMMA UpTo ==
  ASSUME NEW n \in Nat, NEW T \in SUBSET (0 .. n), 0 \in T,
         \A k \in 0 .. n - 1 : k \in T => k + 1 \in T
  PROVE  T = 0 .. n
<1> DEFINE Rest == (0 .. n) \ T
<1>1. SUFFICES ASSUME Rest # {} PROVE FALSE
  OBVIOUS
<1>2. Rest \in SUBSET Nat
  OBVIOUS
<1>3. PICK k \in Rest : \A j \in Rest : k <= j
  BY <1>1, <1>2, LeastElement
<1>4. k \in 0 .. n /\ k \notin T /\ k # 0
  BY <1>3
<1>5. k - 1 \in 0 .. n - 1 /\ k - 1 \in 0 .. n /\ k - 1 < k /\ (k - 1) + 1 = k
  BY <1>4
<1>6. k - 1 \in T
  BY <1>3, <1>5
<1> QED
  BY <1>4, <1>5, <1>6

(* The totals of sizes exist and only grow.                                *)
LEMMA TotalsGrow ==
  ASSUME NEW n \in Nat, NEW sizes \in [1 .. n -> Nat]
  PROVE  /\ Totals(sizes) \in [0 .. n -> Nat]
         /\ Totals(sizes)[0] = 0
         /\ \A i \in 1 .. n : Totals(sizes)[i] = Totals(sizes)[i - 1] + sizes[i]
         /\ \A i \in 0 .. n : Totals(sizes)[i] <= Totals(sizes)[n]
<1> DEFINE Is(k, g) == g[0] = 0 /\ \A i \in 1 .. k : g[i] = g[i - 1] + sizes[i]
           T == {k \in 0 .. n : \E g \in [0 .. k -> Nat] : Is(k, g)}
           total == Totals(sizes)
           Step(g) == [i \in 0 .. n |-> IF i = 0 THEN 0 ELSE g[i - 1] + sizes[i]]
<1>1. 0 \in T
  <2>1. [i \in 0 .. 0 |-> 0] \in [0 .. 0 -> Nat] /\ Is(0, [i \in 0 .. 0 |-> 0])
    OBVIOUS
  <2> HIDE DEF Is
  <2> QED
    BY <2>1
<1>2. ASSUME NEW k \in 0 .. n - 1, k \in T PROVE k + 1 \in T
  <2>1. PICK g \in [0 .. k -> Nat] : Is(k, g)
    BY <1>2
  <2> DEFINE next == g[k] + sizes[k + 1]
             h == [i \in 0 .. k + 1 |-> IF i = k + 1 THEN next ELSE g[i]]
  <2>2. g[k] \in Nat /\ sizes[k + 1] \in Nat /\ k \in Nat /\ k + 1 \in 0 .. n
    BY <2>1
  <2>3. next \in Nat
    BY <2>2
  <2> HIDE DEF next
  <2>4. h \in [0 .. k + 1 -> Nat] /\ h[0] = 0
    BY <2>1, <2>2, <2>3
  <2>5. ASSUME NEW i \in 1 .. k + 1 PROVE h[i] = h[i - 1] + sizes[i]
    <3>1. CASE i = k + 1
      <4>1. h[i] = next /\ h[i - 1] = g[k]
        BY <2>2, <3>1
      <4> QED
        BY <3>1, <4>1 DEF next
    <3>2. CASE i # k + 1
      <4>1. i \in 1 .. k /\ h[i] = g[i] /\ h[i - 1] = g[i - 1]
        BY <2>2, <3>2
      <4> QED
        BY <2>1, <4>1
    <3> QED
      BY <3>1, <3>2
  <2> HIDE DEF h
  <2>6. Is(k + 1, h)
    BY <2>4, <2>5
  <2> HIDE DEF Is
  <2> QED
    BY <2>2, <2>4, <2>6
<1>3. T = 0 .. n
  <2>1. T \in SUBSET (0 .. n)
    OBVIOUS
  <2> HIDE DEF T
  <2> QED
    BY <1>1, <1>2, <2>1, UpTo
<1>4. \E g \in [0 .. n -> Nat] : Is(n, g)
  <2> HIDE DEF Is
  <2>1. n \in T
    <3> HIDE DEF T
    <3> QED
      BY <1>3
  <2> QED
    BY <2>1
<1> HIDE DEF T
<1>a. PICK g \in [0 .. n -> Nat] : Is(n, g)
  BY <1>4
<1>5. Len(sizes) = n
  OBVIOUS
<1>6. total = CHOOSE f : f = Step(f)
  BY <1>5 DEF Totals
<1>7. g = Step(g)
  BY <1>a
<1>8. total = Step(total)
  <2> HIDE DEF total, Step
  <2> QED
    BY <1>6, <1>7
<1>9. \A i \in 0 .. n : total[i] = IF i = 0 THEN 0 ELSE total[i - 1] + sizes[i]
  <2> HIDE DEF total
  <2> QED
    BY <1>8
<1>10. \A i \in 0 .. n : total[i] = g[i]
  <2> DEFINE Same == {k \in 0 .. n : total[k] = g[k]}
  <2> HIDE DEF total
  <2>1. 0 \in Same /\ Same \in SUBSET (0 .. n)
    BY <1>a, <1>9
  <2>2. ASSUME NEW k \in 0 .. n - 1, k \in Same PROVE k + 1 \in Same
    <3>1. k + 1 \in 1 .. n /\ (k + 1) - 1 = k /\ k + 1 # 0
      OBVIOUS
    <3> QED
      BY <1>a, <1>9, <2>2, <3>1
  <2> HIDE DEF Same
  <2>3. Same = 0 .. n
    BY <2>1, <2>2, UpTo
  <2> QED
    BY <2>3 DEF Same
<1>11. total \in [0 .. n -> Nat]
  <2> HIDE DEF total
  <2>1. total = [i \in 0 .. n |-> IF i = 0 THEN 0 ELSE total[i - 1] + sizes[i]]
    BY <1>8
  <2>2. DOMAIN total = 0 .. n /\ total = [i \in 0 .. n |-> total[i]]
    BY <2>1
  <2>3. \A i \in 0 .. n : total[i] \in Nat
    BY <1>a, <1>10
  <2> QED
    BY <2>2, <2>3
<1> HIDE DEF total
<1>12. ASSUME NEW i \in 0 .. n PROVE total[i] <= total[n]
  <2> DEFINE Below == {k \in 0 .. n : i <= k => total[i] <= total[k]}
  <2>1. 0 \in Below /\ Below \in SUBSET (0 .. n)
    BY <1>11
  <2>2. ASSUME NEW k \in 0 .. n - 1, k \in Below PROVE k + 1 \in Below
    <3>1. /\ k + 1 \in 1 .. n /\ (k + 1) - 1 = k /\ k \in 0 .. n /\ k + 1 \in 0 .. n
          /\ k + 1 # 0 /\ k \in Nat /\ i \in Nat
      OBVIOUS
    <3>2. total[k + 1] = total[k] + sizes[k + 1] /\ sizes[k + 1] \in Nat
          /\ total[k] \in Nat /\ total[i] \in Nat
      BY <1>9, <1>11, <3>1
    <3>3. CASE i <= k
      <4> DEFINE more == sizes[k + 1]
                 a == total[i]
                 b == total[k]
      <4>1. a <= b /\ a \in Nat /\ b \in Nat /\ more \in Nat
        BY <2>2, <3>2, <3>3
      <4> HIDE DEF more, a, b
      <4>2. a <= b + more
        BY <4>1
      <4>3. total[i] <= total[k + 1]
        BY <3>2, <4>2 DEF more, a, b
      <4> QED
        BY <3>1, <4>3
    <3>4. CASE ~(i <= k)
      <4>1. i <= k + 1 => i = k + 1
        BY <3>4
      <4> QED
        BY <1>11, <3>1, <4>1
    <3> QED
      BY <3>3, <3>4
  <2> HIDE DEF Below
  <2>3. Below = 0 .. n
    BY <2>1, <2>2, UpTo
  <2>4. n \in Below /\ i <= n
    BY <2>3
  <2> QED
    BY <2>4 DEF Below
<1>13. 0 \in 0 .. n /\ \A i \in 1 .. n : i \in 0 .. n /\ i # 0
  OBVIOUS
<1>14. total[0] = 0 /\ \A i \in 1 .. n : total[i] = total[i - 1] + sizes[i]
  BY <1>9, <1>13
<1> QED
  BY <1>11, <1>12, <1>14 DEF total

(* The totals of the blocks and of the variables.                          *)
LEMMA SizesTotal ==
  ASSUME TypeInv
  PROVE  /\ Totals(BlockSizes) \in [0 .. Len(blocks) -> Nat]
         /\ Totals(BlockSizes)[0] = 0
         /\ \A i \in 1 .. Len(blocks) :
              Totals(BlockSizes)[i] = Totals(BlockSizes)[i - 1] + blocks[i].size
         /\ \A i \in 0 .. Len(blocks) : Totals(BlockSizes)[i] <= Totals(BlockSizes)[Len(blocks)]
         /\ Totals(NameSizes) \in [0 .. Len(variables) -> Nat]
         /\ Totals(NameSizes)[0] = 0
         /\ \A i \in 1 .. Len(variables) :
              Totals(NameSizes)[i] = Totals(NameSizes)[i - 1] + (5 + variables[i].name.size)
<1>1. /\ Len(blocks) \in Nat /\ DOMAIN blocks = 1 .. Len(blocks)
      /\ Len(variables) \in Nat /\ DOMAIN variables = 1 .. Len(variables)
  BY SeqLength DEF TypeInv
<1>2. BlockSizes \in [1 .. Len(blocks) -> Nat]
  BY <1>1, BlockSize DEF BlockSizes
<1>3. NameSizes \in [1 .. Len(variables) -> Nat]
  <2>1. \A i \in 1 .. Len(variables) : 5 + variables[i].name.size \in Nat
    BY <1>1, NameSize
  <2> QED
    BY <1>1, <2>1 DEF NameSizes
<1>4. /\ \A i \in 1 .. Len(blocks) : BlockSizes[i] = blocks[i].size
      /\ \A i \in 1 .. Len(variables) : NameSizes[i] = 5 + variables[i].name.size
  BY <1>1 DEF BlockSizes, NameSizes
<1> DEFINE B == BlockSizes
           N == NameSizes
<1>5. /\ B \in [1 .. Len(blocks) -> Nat] /\ N \in [1 .. Len(variables) -> Nat]
      /\ \A i \in 1 .. Len(blocks) : B[i] = blocks[i].size
      /\ \A i \in 1 .. Len(variables) : N[i] = 5 + variables[i].name.size
  BY <1>2, <1>3, <1>4
<1> HIDE DEF B, N
<1>6. /\ Totals(B) \in [0 .. Len(blocks) -> Nat]
      /\ Totals(B)[0] = 0
      /\ \A i \in 1 .. Len(blocks) : Totals(B)[i] = Totals(B)[i - 1] + B[i]
      /\ \A i \in 0 .. Len(blocks) : Totals(B)[i] <= Totals(B)[Len(blocks)]
  BY <1>1, <1>5, TotalsGrow
<1>7. /\ Totals(N) \in [0 .. Len(variables) -> Nat]
      /\ Totals(N)[0] = 0
      /\ \A i \in 1 .. Len(variables) : Totals(N)[i] = Totals(N)[i - 1] + N[i]
  BY <1>1, <1>5, TotalsGrow
<1> QED
  BY <1>5, <1>6, <1>7 DEF B, N

(* The offset is the sum of what was emitted, and every trap has a reason  *)
(* that the size of the whole file confirms.                               *)
LEMMA StepSize ==
  ASSUME IInv, SizeInv, [BOMNext]_bomVars
  PROVE  SizeInv'
<1> DEFINE B == Totals(BlockSizes)
           N == Totals(NameSizes)
           count == Len(blocks)
           vars == Len(variables)
<1>0. /\ TypeInv /\ offset \in Nat /\ named \in 0 .. vars
      /\ count \in Nat /\ vars \in Nat /\ Len(placed) \in Nat /\ IndexSize \in Nat
      /\ DOMAIN variables = 1 .. vars /\ MaxU32 \in Nat /\ MaxName \in Nat
  BY LenProperties, SeqLength, SizesAreNat DEF IInv, TypeInv, BOMTypeOK, IndexSize
<1>1. /\ B \in [0 .. count -> Nat] /\ B[0] = 0
      /\ \A i \in 1 .. count : B[i] = B[i - 1] + blocks[i].size
      /\ \A i \in 0 .. count : B[i] <= B[count]
      /\ N \in [0 .. vars -> Nat] /\ N[0] = 0
      /\ \A i \in 1 .. vars : N[i] = N[i - 1] + (5 + variables[i].name.size)
  BY <1>0, SizesTotal
<1>2. FileSize = HeaderSize + B[count] + IndexSize + 4 + N[vars] /\ HeaderSize \in Nat
  BY DEF FileSize, HeaderSize
<1>b. count \in 0 .. count /\ vars \in 0 .. vars
  BY <1>0
<1>4. UNCHANGED <<blocks, variables>> =>
        /\ Totals(BlockSizes)' = B /\ Totals(NameSizes)' = N /\ FileSize' = FileSize
        /\ IndexSize' = IndexSize
  BY DEF Totals, BlockSizes, NameSizes, FileSize, IndexSize
<1> HIDE DEF B, N, count, vars
<1>3. B[count] \in Nat /\ N[vars] \in Nat
  BY <1>1, <1>b
<1>5. /\ phase = "building" => named = 0 /\ blocks[1].size = 0
      /\ phase = "packing" => named = 0 /\ offset = HeaderSize + B[Len(placed)]
      /\ phase \in {"naming", "done"} => offset = HeaderSize + B[count] + IndexSize + 4 + N[named]
      /\ phase = "done" => named = vars /\ FileSize <= MaxU32
      /\ \A i \in 1 .. named : variables[i].name.size <= MaxName
      /\ phase = "trapped" => \/ FileSize > MaxU32
                              \/ \E i \in DOMAIN variables : variables[i].name.size > MaxName
  BY DEF SizeInv, B, N, count, vars
<1>6. phase = "packing" => 1 <= Len(placed) /\ Len(placed) <= count
  BY DEF IInv, PackInv, count
<1>7. ASSUME NEW b \in Payloads, AddBlock(b) PROVE SizeInv'
  <2>1. phase' = "building" /\ named' = 0 /\ blocks' = Append(blocks, b) /\ UNCHANGED variables
    BY <1>5, <1>7 DEF AddBlock
  <2>2. blocks'[1].size = 0
    <3>1. IsSeq(blocks) /\ 1 \in 1 .. Len(blocks)
      BY <1>0, <1>7 DEF IInv, PackInv, TypeInv, AddBlock, count
    <3>2. blocks'[1] = blocks[1]
      BY <2>1, <3>1, Appended
    <3> QED
      BY <1>5, <1>7, <3>2 DEF AddBlock
  <2> QED
    BY <2>1, <2>2 DEF SizeInv
<1>8. ASSUME NEW n \in VarNames, NEW id \in 0 .. Len(blocks) - 1, SetVariable(n, id)
      PROVE SizeInv'
  <2>1. phase' = "building" /\ named' = 0 /\ blocks'[1].size = 0
    BY <1>5, <1>8 DEF SetVariable
  <2> QED
    BY <2>1 DEF SizeInv
<1>9. CASE WriteHeader
  <2>1. /\ phase' = "packing" /\ named' = 0 /\ offset' = HeaderSize /\ placed' = <<0>>
        /\ UNCHANGED <<blocks, variables>> /\ Len(placed') = 1 /\ 1 \in 1 .. count
    <3>1. 1 <= count
      BY <1>9 DEF IInv, PackInv, WriteHeader, count
    <3> QED
      BY <1>0, <1>5, <1>9, <3>1 DEF WriteHeader
  <2>2. B[1] = 0
    <3>1. B[1] = B[1 - 1] + blocks[1].size /\ 1 - 1 = 0
      BY <1>1, <2>1
    <3>2. blocks[1].size = 0 /\ B[0] = 0
      BY <1>1, <1>5, <1>9 DEF WriteHeader
    <3> QED
      BY <3>1, <3>2
  <2>3. offset' = HeaderSize + B[1]
    BY <1>2, <2>1, <2>2
  <2>4. /\ Totals(BlockSizes)'[Len(placed')] = B[1]
        /\ offset' = HeaderSize + Totals(BlockSizes)'[Len(placed')]
    BY <1>4, <2>1, <2>3
  <2> QED
    BY <2>1, <2>4 DEF SizeInv
<1>10. CASE PackBlock
  <2> DEFINE k == Len(placed)
  <2>1. /\ phase = "packing" /\ phase' = "packing" /\ k < count /\ placed' = Append(placed, offset)
        /\ offset' = offset + blocks[k + 1].size /\ UNCHANGED <<blocks, variables, named>>
    BY <1>10 DEF PackBlock, count
  <2>2. Len(placed') = k + 1
    <3>1. placed \in Seq(0 .. MaxU32)
      BY <1>0 DEF TypeInv, BOMTypeOK
    <3> QED
      BY <2>1, <3>1, AppendProperties
  <2>3. k \in Nat /\ k + 1 \in 1 .. count /\ k \in 0 .. count /\ (k + 1) - 1 = k
    BY <1>0, <2>1
  <2>4. B[k + 1] = B[k] + blocks[k + 1].size /\ offset = HeaderSize + B[k] /\ B[k] \in Nat
    BY <1>1, <1>5, <2>1, <2>3
  <2>5. blocks[k + 1].size \in Nat
    BY <1>0, <2>3, BlockSize DEF count
  <2>6. offset' = HeaderSize + B[k + 1]
    <3> DEFINE next == offset'
               size == blocks[k + 1].size
               before == B[k]
               after == B[k + 1]
    <3>1. /\ next = offset + size /\ after = before + size /\ offset = HeaderSize + before
          /\ size \in Nat /\ before \in Nat /\ HeaderSize \in Nat
      BY <1>2, <2>1, <2>4, <2>5
    <3> HIDE DEF next, size, before, after
    <3>2. next = HeaderSize + after
      BY <3>1
    <3> QED
      BY <3>2 DEF next, after
  <2> QED
    BY <1>4, <1>5, <2>1, <2>2, <2>6 DEF SizeInv
<1>11. CASE WriteIndex
  <2>1. /\ phase = "packing" /\ phase' = "naming" /\ Len(placed) = count
        /\ offset' = offset + IndexSize + 4 /\ UNCHANGED <<blocks, variables, named>>
    BY <1>11 DEF WriteIndex, count
  <2>2. offset' = HeaderSize + B[count] + IndexSize + 4 + N[named] /\ named = 0
    BY <1>0, <1>1, <1>2, <1>3, <1>5, <2>1
  <2> QED
    BY <1>4, <2>1, <2>2 DEF SizeInv, count
<1>12. CASE WriteVariable
  <2>1. /\ phase = "naming" /\ phase' = "naming" /\ named < vars /\ named' = named + 1
        /\ variables[named + 1].name.size <= MaxName
        /\ offset' = offset + 5 + variables[named + 1].name.size /\ UNCHANGED <<blocks, variables>>
    BY <1>12 DEF WriteVariable, vars
  <2>2. named + 1 \in 1 .. vars /\ named \in 0 .. vars /\ (named + 1) - 1 = named
    BY <1>0, <2>1
  <2>3. N[named + 1] = N[named] + (5 + variables[named + 1].name.size) /\ N[named] \in Nat
    BY <1>1, <2>2
  <2>4. variables[named + 1].name.size \in Nat
    BY <1>0, <2>2, NameSize DEF vars
  <2>5. offset = HeaderSize + B[count] + IndexSize + 4 + N[named]
    BY <1>5, <2>1
  <2>6. offset' = HeaderSize + B[count] + IndexSize + 4 + N[named + 1]
    <3> DEFINE next == offset'
               size == variables[named + 1].name.size
               before == N[named]
               after == N[named + 1]
               all == B[count]
               table == IndexSize
    <3>1. /\ next = offset + 5 + size /\ after = before + (5 + size)
          /\ offset = HeaderSize + all + table + 4 + before
          /\ size \in Nat /\ before \in Nat /\ all \in Nat /\ table \in Nat /\ HeaderSize \in Nat
      BY <1>0, <1>2, <1>3, <2>1, <2>3, <2>4, <2>5
    <3> HIDE DEF next, size, before, after, all, table
    <3>2. next = HeaderSize + all + table + 4 + after
      BY <3>1
    <3> QED
      BY <3>2 DEF next, all, table, after
  <2>7. \A i \in 1 .. named + 1 : variables[i].name.size <= MaxName
    <3>1. \A i \in 1 .. named + 1 : i \in 1 .. named \/ i = named + 1
      BY <1>0
    <3> QED
      BY <1>5, <2>1, <3>1
  <2> QED
    BY <1>4, <2>1, <2>6, <2>7 DEF SizeInv, count
<1>13. CASE PatchHeader
  <2>1. /\ phase = "naming" /\ phase' = "done" /\ named = vars /\ offset <= MaxU32
        /\ UNCHANGED <<blocks, variables, offset, named>>
    BY <1>13 DEF PatchHeader, Fits, vars
  <2>2. offset = HeaderSize + B[count] + IndexSize + 4 + N[named] /\ offset = FileSize
    BY <1>2, <1>5, <2>1
  <2> QED
    BY <1>4, <1>5, <2>1, <2>2 DEF SizeInv, count, vars
<1>14. CASE Trap
  <2>1. MustTrap /\ phase' = "trapped" /\ UNCHANGED <<blocks, variables, offset, named>>
    BY <1>14 DEF Trap
  <2>2. FileSize > MaxU32 \/ \E i \in DOMAIN variables : variables[i].name.size > MaxName
    <3>1. ASSUME phase = "packing", ~Fits(offset) \/ ~Fits(offset + IndexSize)
          PROVE  FileSize > MaxU32
      <4>1. Len(placed) \in 0 .. count /\ offset = HeaderSize + B[Len(placed)]
        BY <1>0, <1>5, <1>6, <3>1
      <4>2. B[Len(placed)] \in Nat /\ B[Len(placed)] <= B[count]
        BY <1>1, <4>1
      <4>3. offset + IndexSize > MaxU32
        BY <1>0, <3>1 DEF Fits
      <4> DEFINE part == B[Len(placed)]
                 all == B[count]
                 rest == N[vars]
                 table == IndexSize
                 size == FileSize
      <4>4. /\ size = HeaderSize + all + table + 4 + rest /\ offset = HeaderSize + part
            /\ part <= all /\ offset + table > MaxU32 /\ MaxU32 \in Nat
            /\ part \in Nat /\ all \in Nat /\ rest \in Nat /\ table \in Nat /\ HeaderSize \in Nat
        BY <1>0, <1>2, <1>3, <4>1, <4>2, <4>3
      <4> HIDE DEF part, all, rest, table, size
      <4>5. size > MaxU32
        BY <4>4
      <4> QED
        BY <4>5 DEF size
    <3>2. ASSUME phase = "naming", named < vars, variables[named + 1].name.size > MaxName
          PROVE  \E i \in DOMAIN variables : variables[i].name.size > MaxName
      <4>1. named + 1 \in DOMAIN variables
        BY <1>0, <3>2
      <4> QED
        BY <3>2, <4>1
    <3>3. ASSUME phase = "naming", named = vars, ~Fits(offset)
          PROVE  FileSize > MaxU32
      <4>1. offset = FileSize
        BY <1>2, <1>5, <3>3
      <4> QED
        BY <1>0, <3>3, <4>1 DEF Fits
    <3> QED
      BY <2>1, <3>1, <3>2, <3>3 DEF MustTrap, vars
  <2> QED
    BY <1>4, <1>5, <2>1, <2>2 DEF SizeInv
<1>15. CASE UNCHANGED bomVars
  <2>1. UNCHANGED <<blocks, variables, phase, offset, placed, named>>
    BY <1>15 DEF bomVars
  <2> QED
    BY <1>4, <1>5, <2>1 DEF SizeInv, B, N, count, vars
<1> QED
  BY <1>7, <1>8, <1>9, <1>10, <1>11, <1>12, <1>13, <1>14, <1>15
     DEF BOMNext, Finalizing, Finished

(* As the offset is the sum of what was emitted, the address noted for a   *)
(* block is the place of its bytes.                                        *)
LEMMA StepPlaces ==
  ASSUME IInv, SizeInv, PlaceInv, [BOMNext]_bomVars
  PROVE  PlaceInv'
<1>0. /\ TypeInv /\ IsSeq(blocks) /\ Len(blocks) \in Nat
      /\ placed \in Seq(0 .. MaxU32) /\ Len(placed) \in Nat
  BY SeqLength, LenProperties DEF IInv, TypeInv, BOMTypeOK
<1>1. /\ \A i \in 2 .. Len(placed) : placed[i] = BlockPlace(i)
      /\ placed # <<>> => placed[1] = 0 /\ blocks[1].size = 0
      /\ phase \in {"naming", "done"} => header.indexOffset = BlockPlace(Len(blocks) + 1)
      /\ phase = "building" => placed = <<>> /\ Len(placed) = 0
      /\ phase = "packing" => offset = HeaderSize + Totals(BlockSizes)[Len(placed)]
      /\ phase = "building" => blocks[1].size = 0
  BY DEF PlaceInv, IInv, PackInv, SizeInv
<1>2. UNCHANGED blocks => \A i : BlockPlace(i)' = BlockPlace(i)
  BY DEF BlockPlace, BlockSizes, Totals
<1>3. CASE UNCHANGED <<blocks, placed>> /\ phase' \notin {"naming", "done"}
  BY <1>1, <1>2, <1>3 DEF PlaceInv
<1>4. CASE UNCHANGED <<blocks, placed>> /\ UNCHANGED header.indexOffset
             /\ phase \in {"naming", "done"}
  BY <1>1, <1>2, <1>4 DEF PlaceInv
<1>5. ASSUME NEW b \in Payloads, AddBlock(b)
      PROVE  PlaceInv'
  BY <1>1, <1>5 DEF AddBlock, PlaceInv
<1>6. ASSUME NEW n \in VarNames, NEW id \in 0 .. Len(blocks) - 1, SetVariable(n, id)
      PROVE  PlaceInv'
  BY <1>3, <1>6 DEF SetVariable
<1>7. CASE WriteHeader
  BY <1>1, <1>7 DEF WriteHeader, PlaceInv
<1>8. CASE PackBlock
  <2>1. /\ phase = "packing" /\ phase' = "packing" /\ placed' = Append(placed, offset)
        /\ UNCHANGED blocks /\ 1 <= Len(placed)
    BY <1>8 DEF PackBlock, IInv, PackInv
  <2>2. /\ Len(placed') = Len(placed) + 1 /\ placed'[Len(placed) + 1] = offset
        /\ \A i \in 1 .. Len(placed) : placed'[i] = placed[i]
        /\ placed # <<>> /\ placed' # <<>>
    <3>1. offset \in 0 .. MaxU32
      BY <1>8, SizesAreNat DEF PackBlock, Fits, IInv, TypeInv, BOMTypeOK
    <3> QED
      BY <1>0, <2>1, <3>1, AppendProperties
  <2>3. ASSUME NEW i \in 2 .. Len(placed')
        PROVE  placed'[i] = BlockPlace(i)'
    <3>1. CASE i \in 2 .. Len(placed)
      <4>1. i \in 1 .. Len(placed)
        BY <3>1
      <4> QED
        BY <1>1, <1>2, <2>1, <2>2, <3>1, <4>1
    <3>2. CASE i = Len(placed) + 1
      <4>1. i - 1 = Len(placed)
        BY <1>0, <3>2
      <4>2. offset = BlockPlace(i)
        BY <1>1, <2>1, <4>1 DEF BlockPlace
      <4> QED
        BY <1>2, <2>1, <2>2, <3>2, <4>2
    <3> QED
      BY <1>0, <2>2, <3>1, <3>2
  <2>4. placed'[1] = 0 /\ blocks'[1].size = 0
    <3>1. 1 \in 1 .. Len(placed)
      BY <1>0, <2>1
    <3> QED
      BY <1>1, <2>1, <2>2, <3>1
  <2> QED
    BY <2>1, <2>3, <2>4 DEF PlaceInv
<1>9. CASE WriteIndex
  <2>1. /\ phase = "packing" /\ Len(placed) = Len(blocks) /\ UNCHANGED <<blocks, placed>>
        /\ header'.indexOffset = offset
    BY <1>9 DEF WriteIndex
  <2>2. (Len(blocks) + 1) - 1 = Len(placed)
    BY <1>0, <2>1
  <2>3. header'.indexOffset = BlockPlace(Len(blocks) + 1)
    BY <1>1, <2>1, <2>2 DEF BlockPlace
  <2> QED
    BY <1>1, <1>2, <2>1, <2>3 DEF PlaceInv
<1>10. CASE WriteVariable
  BY <1>4, <1>10 DEF WriteVariable
<1>11. CASE PatchHeader
  <2>1. header'.indexOffset = header.indexOffset
    BY <1>0, <1>11 DEF PatchHeader, TypeInv, BOMTypeOK
  <2> QED
    BY <1>4, <1>11, <2>1 DEF PatchHeader
<1>12. CASE Trap
  BY <1>3, <1>12 DEF Trap
<1>13. CASE UNCHANGED bomVars
  BY <1>1, <1>2, <1>13 DEF bomVars, PlaceInv
<1> QED
  BY <1>5, <1>6, <1>7, <1>8, <1>9, <1>10, <1>11, <1>12, <1>13
     DEF BOMNext, Finalizing, Finished

(* The strengthened invariant holds in every state the writer reaches.     *)
LEMMA AlwaysIInv == BOMSpec => [](IInv /\ SizeInv /\ PlaceInv)
<1>1. BOMInit => SizeInv
  <2> SUFFICES ASSUME BOMInit PROVE SizeInv
    OBVIOUS
  <2>1. blocks[1].size = 0 /\ named = 0 /\ phase = "building" /\ 1 .. 0 = {}
    BY DEF BOMInit, NullBlock
  <2> QED
    BY <2>1 DEF SizeInv
<1>2. IInv /\ [BOMNext]_bomVars => IInv'
  BY StepTypeInv, StepLayout, StepIndex DEF IInv
<1>3. IInv /\ SizeInv /\ [BOMNext]_bomVars => SizeInv'
  BY StepSize
<1>4. BOMInit => PlaceInv
  BY DEF BOMInit, PlaceInv
<1>5. IInv /\ SizeInv /\ PlaceInv /\ [BOMNext]_bomVars => PlaceInv'
  BY StepPlaces
<1> QED
  BY InitIInv, <1>1, <1>2, <1>3, <1>4, <1>5, PTL DEF BOMSpec

-----------------------------------------------------------------------------

(* Every variable of the writer keeps its type; every address noted or     *)
(* patched into the header is one that UInt32 holds.                       *)
THEOREM TypeCorrect == BOMSpec => []BOMTypeOK
<1>1. IInv => BOMTypeOK
  BY DEF IInv, TypeInv
<1> QED
  BY AlwaysIInv, <1>1, PTL

(* No two blocks of a container ever overlap, nor a block and the header.  *)
THEOREM ExtentsDisjoint == BOMSpec => []BlocksDisjoint
<1>1. IInv => BlocksDisjoint
  BY DEF IInv
<1> QED
  BY AlwaysIInv, <1>1, PTL

(* The index is made of the addresses noted, and those are the places.     *)
LEMMA SoundTables ==
  ASSUME IInv, PlaceInv
  PROVE  TablesSound
<1>1. ASSUME phase = "done"
      PROVE  TablesSound
  <2>1. /\ index = [i \in DOMAIN blocks |-> [addr |-> placed[i], len |-> blocks[i].size]]
        /\ Len(placed) = Len(blocks) /\ 1 <= Len(placed)
        /\ header.indexLength = 4 + 8 * Len(blocks)
        /\ header.varsOffset = header.indexOffset + header.indexLength
        /\ header.varsOffset + header.varsLength = offset
    BY <1>1 DEF IInv, IndexInv, IndexSize, PackInv
  <2>2. IsSeq(blocks) /\ placed \in Seq(0 .. MaxU32)
    BY <1>1 DEF IInv, TypeInv, BOMTypeOK
  <2>3. DOMAIN blocks = 1 .. Len(blocks) /\ Len(blocks) \in Nat
    BY <2>2, SeqLength
  <2>4. Len(index) = Len(blocks)
    BY <2>1, <2>3
  <2>5. /\ \A i \in 2 .. Len(placed) : placed[i] = BlockPlace(i)
        /\ placed[1] = 0 /\ blocks[1].size = 0
        /\ header.indexOffset = BlockPlace(Len(blocks) + 1)
    <3>1. placed # <<>>
      BY <2>1, <2>2
    <3> QED
      BY <1>1, <3>1 DEF PlaceInv
  <2>6. index[1] = [addr |-> 0, len |-> 0]
    <3>1. 1 \in DOMAIN blocks
      BY <2>1, <2>3
    <3> QED
      BY <2>1, <2>5, <3>1
  <2>7. ASSUME NEW i \in 2 .. Len(index)
        PROVE  index[i] = [addr |-> BlockPlace(i), len |-> blocks[i].size]
    <3>1. i \in DOMAIN blocks /\ i \in 2 .. Len(placed)
      BY <2>1, <2>3, <2>4
    <3> QED
      BY <2>1, <2>5, <3>1
  <2> QED
    BY <2>1, <2>4, <2>5, <2>6, <2>7 DEF TablesSound
<1> QED
  BY <1>1 DEF TablesSound

(* The index of a finished file gives each block the place of its bytes    *)
(* and its length, and the header leads to it and to the variables.        *)
THEOREM TablesDescribeFile == BOMSpec => []TablesSound
BY AlwaysIInv, SoundTables, PTL

(* finalize() traps for exactly the files the format cannot hold: a name   *)
(* longer than its length byte, or an address beyond UInt32; any other     *)
(* file is finished, and has the size of its parts.                        *)
THEOREM TrapsAreDeserved == BOMSpec => []TrapsExactlyWhenTooLarge
<1>1. ASSUME IInv, SizeInv
      PROVE  TrapsExactlyWhenTooLarge
  <2>1. /\ DOMAIN variables = 1 .. Len(variables) /\ \A i \in DOMAIN variables : variables[i].name.size \in Nat
        /\ FileSize \in Nat /\ MaxU32 \in Nat /\ MaxName \in Nat
    <3>1. TypeInv /\ IsSeq(variables) /\ Len(blocks) \in Nat
      BY <1>1, SeqLength DEF IInv, TypeInv
    <3>2. DOMAIN variables = 1 .. Len(variables) /\ Len(variables) \in Nat
      BY <3>1, SeqLength
    <3>3. \A i \in DOMAIN variables : variables[i].name.size \in Nat
      BY <3>1, <3>2, NameSize
    <3>4. Totals(BlockSizes)[Len(blocks)] \in Nat /\ Totals(NameSizes)[Len(variables)] \in Nat
      BY SMTT(30), <3>1, <3>2, SizesTotal
    <3>5. FileSize \in Nat
      <4>1. PICK a, b, c \in Nat : /\ a = Totals(BlockSizes)[Len(blocks)]
                                   /\ b = Totals(NameSizes)[Len(variables)]
                                   /\ c = Len(blocks)
        BY <3>1, <3>4
      <4>2. FileSize = 512 + a + (4 + 8 * c) + 4 + b
        BY <4>1 DEF FileSize, HeaderSize, IndexSize
      <4> QED
        BY <4>2
    <3> QED
      BY <3>2, <3>3, <3>5, SizesAreNat
  <2>2. phase = "done" => /\ offset = FileSize /\ FileSize <= MaxU32
                          /\ \A i \in DOMAIN variables : variables[i].name.size <= MaxName
    BY <1>1, <2>1 DEF SizeInv, FileSize
  <2>3. phase = "trapped" => \/ ~(FileSize <= MaxU32)
                             \/ ~ \A i \in DOMAIN variables : variables[i].name.size <= MaxName
    BY <1>1, <2>1 DEF SizeInv
  <2> QED
    BY <2>2, <2>3 DEF TrapsExactlyWhenTooLarge
<1> QED
  BY AlwaysIInv, <1>1, PTL

=============================================================================
