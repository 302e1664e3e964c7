------------------------------ MODULE BOMTree ------------------------------
(***************************************************************************)
(* The trees of a BOM container.  A tree is a header block that names one  *)
(* leaf block; the leaf lists pairs of block identifiers, or a block       *)
(* identifier and an inline key.  The writer sorts the entries, adds the   *)
(* blocks of each, then the leaf, then the header.                         *)
(*                                                                         *)
(* `blocks' is the sequence of blocks of the container (block id is        *)
(* blocks[id + 1]); every operator that inserts returns the longer one.    *)
(***************************************************************************)
EXTENDS Integers, Sequences, FiniteSets

CONSTANTS
  TreeBlockSize,    \* bytes of a leaf whose keys are blocks (4096)
  InlineBlockSize,  \* bytes of a leaf with inline keys (1024)
  MaxU16            \* largest UInt16, the type of a leaf's count

ASSUME TreeAssumption ==
  /\ {TreeBlockSize, InlineBlockSize, MaxU16} \subseteq Nat
  /\ MaxU16 >= 2  \* the tree of appearances has up to two entries

LeafHeaderSize == 12
LeafEntrySize == 8
TreeHeaderSize == 29

(* byteCompare(a, b) < 0: the first byte that differs decides, and a       *)
(* proper prefix comes first.                                              *)
ByteLess(a, b) ==
  \E i \in DOMAIN b :
    /\ \A j \in 1 .. i - 1 : j <= Len(a) /\ a[j] = b[j]
    /\ i > Len(a) \/ a[i] < b[i]

(* The elements of s at the indices I, sorted.  sorted(by:) is stable: an   *)
(* element's place is the number of elements that are smaller, or equal    *)
(* and earlier.                                                            *)
SortedAt(s, I, Less(_, _)) ==
  LET Before(i, j) ==
        Less(s[i], s[j]) \/ (i < j /\ ~Less(s[j], s[i]))
      Place(i) == 1 + Cardinality({j \in I : Before(j, i)})
  IN [k \in 1 .. Cardinality(I) |-> s[CHOOSE i \in I : Place(i) = k]]

Sorted(s, Less(_, _)) == SortedAt(s, DOMAIN s, Less)

DataBlock(d, n) == [size |-> n, data |-> d]

(* Mutant: a leaf has blockSize bytes whatever it holds.                   *)
LeafBlockFixed(pointers, blockSize) ==
  [size |-> blockSize, pointers |-> pointers]

(* A leaf is padded to blockSize, and grows past it if it must.            *)
LeafBlock(pointers, blockSize) ==
  LET n == LeafHeaderSize + LeafEntrySize * Len(pointers)
  IN [size |-> IF n < blockSize THEN blockSize ELSE n, pointers |-> pointers]

TreeBlock(leafID, blockSize, count, inline) ==
  [size |-> TreeHeaderSize, child |-> leafID, blockSize |-> blockSize,
   pathCount |-> count, isPathInternal |-> inline]

(* Mutant: refuses the largest number a leaf can count.                    *)
CanInsertBelow(entries) == Len(entries) < MaxU16

(* UInt16(sorted.count) traps when the leaf cannot count its entries.      *)
CanInsert(entries) == Len(entries) <= MaxU16

(* The header is the last block an insertion adds.                         *)
LastID(blocks) == Len(blocks) - 1

(* Mutant: compares nothing, so that entries keep the order they came in.  *)
KeyLessNever(e, f) == FALSE

KeyLess(e, f) == ByteLess(e.key, f.key)

(* Mutant: every key block is added before its value.                      *)
InsertKeyFirst(blocks, entries) ==
  LET sorted == Sorted(entries, KeyLess)
      first == Len(blocks)
      n == Len(sorted)
      pairs == [i \in 1 .. 2 * n |->
                 LET e == sorted[(i + 1) \div 2]
                 IN IF i % 2 = 0 THEN e.value ELSE DataBlock(e.key, Len(e.key))]
      pointers == [i \in 1 .. n |->
                    [key |-> first + 2 * (i - 1), value |-> first + 2 * i - 1]]
  IN blocks \o pairs \o <<LeafBlock(pointers, TreeBlockSize),
                          TreeBlock(first + 2 * n, TreeBlockSize, n, FALSE)>>

(* Mutant: the leaf lists the entries in the order they were given.        *)
InsertUnsorted(blocks, entries) ==
  LET first == Len(blocks)
      n == Len(entries)
      pairs == [i \in 1 .. 2 * n |->
                 LET e == entries[(i + 1) \div 2]
                 IN IF i % 2 = 1 THEN e.value ELSE DataBlock(e.key, Len(e.key))]
      pointers == [i \in 1 .. n |->
                    [value |-> first + 2 * (i - 1), key |-> first + 2 * i - 1]]
  IN blocks \o pairs \o <<LeafBlock(pointers, TreeBlockSize),
                          TreeBlock(first + 2 * n, TreeBlockSize, n, FALSE)>>

(* BOMTree.insert: entries are records of a key (bytes) and a value block. *)
Insert(blocks, entries) ==
  LET sorted == Sorted(entries, KeyLess)
      first == Len(blocks)
      n == Len(sorted)
      pairs == [i \in 1 .. 2 * n |->
                 LET e == sorted[(i + 1) \div 2]
                 IN IF i % 2 = 1 THEN e.value ELSE DataBlock(e.key, Len(e.key))]
      pointers == [i \in 1 .. n |->
                    [value |-> first + 2 * (i - 1), key |-> first + 2 * i - 1]]
  IN blocks \o pairs \o <<LeafBlock(pointers, TreeBlockSize),
                          TreeBlock(first + 2 * n, TreeBlockSize, n, FALSE)>>

InlineLess(e, f) == e.key < f.key

(* BOMTree.insertInlineKey: keys are numbers kept in the leaf.             *)
InsertInlineKey(blocks, entries) ==
  LET sorted == Sorted(entries, InlineLess)
      first == Len(blocks)
      n == Len(sorted)
      values == [i \in 1 .. n |-> sorted[i].value]
      pointers == [i \in 1 .. n |->
                    [value |-> first + i - 1, key |-> sorted[i].key]]
  IN blocks \o values \o <<LeafBlock(pointers, InlineBlockSize),
                           TreeBlock(first + n, InlineBlockSize, n, TRUE)>>

=============================================================================
