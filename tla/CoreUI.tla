------------------------------- MODULE CoreUI -------------------------------
(***************************************************************************)
(* The reader of the container, external to the repository: it takes the   *)
(* tree header a variable names, follows it to the leaf and finds a key    *)
(* by binary search, comparing keys byte by byte (inline keys as numbers). *)
(***************************************************************************)
EXTENDS BOMTree

Block(blocks, id) == blocks[id + 1]

LeafOf(blocks, treeID) == Block(blocks, Block(blocks, treeID).child)

(* Binary search for the place at which cmp[i] is 0, where cmp[i] < 0 says *)
(* that the key sought is before place i; 0 if there is none.              *)
Search(n, cmp) ==
  LET find[span \in (1 .. n + 1) \X (0 .. n)] ==
        LET mid == (span[1] + span[2]) \div 2 IN
        IF span[1] > span[2] THEN 0
        ELSE IF cmp[mid] = 0 THEN mid
        ELSE IF cmp[mid] < 0 THEN find[<<span[1], mid - 1>>]
        ELSE find[<<mid + 1, span[2]>>]
  IN find[<<1, n>>]

(* The value stored under a key of bytes, as a set of at most one block.   *)
Lookup(blocks, treeID, key) ==
  LET pointers == LeafOf(blocks, treeID).pointers
      KeyAt(i) == Block(blocks, pointers[i].key).data
      cmp == [i \in DOMAIN pointers |->
               IF KeyAt(i) = key THEN 0
               ELSE IF ByteLess(key, KeyAt(i)) THEN -1 ELSE 1]
      at == Search(Len(pointers), cmp)
  IN IF at = 0 THEN {} ELSE {Block(blocks, pointers[at].value)}

(* The value stored under an inline key.                                   *)
LookupInline(blocks, treeID, key) ==
  LET pointers == LeafOf(blocks, treeID).pointers
      cmp == [i \in DOMAIN pointers |-> key - pointers[i].key]
      at == Search(Len(pointers), cmp)
  IN IF at = 0 THEN {} ELSE {Block(blocks, pointers[at].value)}

=============================================================================
