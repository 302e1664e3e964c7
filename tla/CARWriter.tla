----------------------------- MODULE CARWriter -----------------------------
(***************************************************************************)
(* CARWriter.write(): from a list of renditions to the blocks, trees and   *)
(* variables of Assets.car, one action per variable, and then the BOM      *)
(* writer's finalize().                                                    *)
(***************************************************************************)
EXTENDS CARLayout, CoreUI

CONSTANTS
  Inputs,   \* the lists of renditions a compilation may hand over
  MaxU32,   \* largest UInt32
  CSISize   \* bytes of a rendition's CSI block, by body

ASSUME CARAssumption ==
  /\ CSISize \in [Bodies -> Nat]
  /\ MaxU32 \in Nat

(* The canonical form and the CRC32 of a name depend on its bytes only.    *)
ASSUME InputAssumption ==
  \A rs \in Inputs :
    /\ rs \in Seq({rs[i] : i \in DOMAIN rs})
    /\ \A i \in DOMAIN rs : IsRendition(rs[i])
    /\ \A i, j \in DOMAIN rs :
         rs[i].name.utf8 = rs[j].name.utf8 => rs[i].name = rs[j].name

VARIABLES
  renditions,  \* the input
  section,     \* the variable written next
  blocks, variables, phase, offset, placed, index, named, header

bomRest == <<phase, offset, placed, index, named, header>>
carVars == <<renditions, section, blocks, variables, bomRest>>

(* The container; the length of a name is all that matters of it there.    *)
BOM == INSTANCE BOMWriter WITH
  Payloads <- {}, VarNames <- {}, MaxBlocks <- 0, MaxVars <- 0, MaxName <- 255

CARInit ==
  /\ renditions \in Inputs
  /\ section = "CARHEADER"
  /\ BOM!BOMInit

VariableName(text, n) == [text |-> text, size |-> n]

-----------------------------------------------------------------------------

(* Adds blocks, names the last of them and goes on to the next section.    *)
Emit(name, newBlocks, next) ==
  /\ blocks' = newBlocks
  /\ variables' = Append(variables,
                         [name |-> name, blockID |-> LastID(newBlocks)])
  /\ section' = next
  /\ UNCHANGED <<renditions, bomRest>>

(* The value of a rendition: what CSIWriter makes of its body and scale.   *)
CSI(r) ==
  [size |-> CSISize[r.body],
   data |-> [source |-> r.source, body |-> r.body,
             scaleFactor |-> IF r.body = "svg" THEN 0
                             ELSE IF r.scale = NoScale THEN 100
                             ELSE 100 * r.scale]]

RenditionEntries(rs) ==
  [i \in DOMAIN rs |-> [key |-> Encode(RenditionKey(rs[i])), value |-> CSI(rs[i])]]

WriteCARHeader ==
  /\ section = "CARHEADER"
  /\ Emit(VariableName("CARHEADER", 9),
          Append(blocks, DataBlock([renditionCount |-> Len(renditions)], 436)),
          "RENDITIONS")

WriteRenditions ==
  /\ section = "RENDITIONS"
  /\ CanInsert(renditions)
  /\ Emit(VariableName("RENDITIONS", 10),
          Insert(blocks, RenditionEntries(renditions)), "FACETKEYS")

WriteFacetKeys ==
  /\ section = "FACETKEYS"
  /\ Emit(VariableName("FACETKEYS", 9),
          Insert(blocks, FacetEntries(Assets(renditions))), "APPEARANCEKEYS")

WriteAppearanceKeys ==
  /\ section = "APPEARANCEKEYS"
  /\ Emit(VariableName("APPEARANCEKEYS", 14),
          Insert(blocks, AppearanceEntries(UsedAppearances(renditions))),
          "KEYFORMAT")

WriteKeyFormat ==
  /\ section = "KEYFORMAT"
  /\ Emit(VariableName("KEYFORMAT", 9),
          Append(blocks, DataBlock(KeyFormat, 12 + 4 * Len(KeyFormat))),
          "EXTENDED_METADATA")

WriteExtendedMetadata ==
  /\ section = "EXTENDED_METADATA"
  /\ Emit(VariableName("EXTENDED_METADATA", 17),
          Append(blocks, DataBlock("deploymentTarget", 1028)), "BITMAPKEYS")

WriteBitmapKeys ==
  LET assets == BitmapAssets(Assets(renditions)) IN
  /\ section = "BITMAPKEYS"
  /\ assets # <<>>
  /\ Emit(VariableName("BITMAPKEYS", 10),
          InsertInlineKey(blocks, BitmapEntries(assets)), "finalize")

(* A catalog without bitmap assets has no such tree.                       *)
SkipBitmapKeys ==
  /\ section = "BITMAPKEYS"
  /\ BitmapAssets(Assets(renditions)) = <<>>
  /\ section' = "finalize"
  /\ UNCHANGED <<renditions, blocks, variables, bomRest>>

(* More renditions than a leaf can count.  (There are never more assets    *)
(* than renditions, so the other trees trap no earlier.)                   *)
CountTraps ==
  /\ section = "RENDITIONS"
  /\ ~CanInsert(renditions)
  /\ section' = "trapped"
  /\ UNCHANGED <<renditions, blocks, variables, bomRest>>

Finalize ==
  /\ section = "finalize"
  /\ BOM!WriteHeader \/ BOM!Finalizing
  /\ UNCHANGED <<renditions, section>>

Finished ==
  /\ section = "trapped" \/ phase \in {"done", "trapped"}
  /\ UNCHANGED carVars

CARNext ==
  \/ WriteCARHeader \/ WriteRenditions \/ WriteFacetKeys
  \/ WriteAppearanceKeys \/ WriteKeyFormat \/ WriteExtendedMetadata
  \/ WriteBitmapKeys \/ SkipBitmapKeys \/ CountTraps
  \/ Finalize \/ Finished

CARSpec == CARInit /\ [][CARNext]_carVars

-----------------------------------------------------------------------------
(* Correctness, of the finished file.                                      *)

Written == phase = "done"

(* The identifier of the block a variable names.                           *)
Variable(text) ==
  LET i == CHOOSE i \in DOMAIN variables : variables[i].name.text = text
  IN variables[i].blockID

HasVariable(text) ==
  \E i \in DOMAIN variables : variables[i].name.text = text

KeyTrees == {"RENDITIONS", "FACETKEYS", "APPEARANCEKEYS"}

(* CoreUI's binary search finds every rendition under its key: it returns  *)
(* a rendition with that key, the one that was put in unless two have it.  *)
RenditionsFound ==
  Written => \A i \in DOMAIN renditions :
    LET key == RenditionKey(renditions[i])
        twins == {j \in DOMAIN renditions : RenditionKey(renditions[j]) = key}
        found == Lookup(blocks, Variable("RENDITIONS"), Encode(key))
    IN found # {} /\ found \subseteq {CSI(renditions[j]) : j \in twins}

Pointers(t) == LeafOf(blocks, Variable(t)).pointers

(* The blocks a tree refers to: its leaf, and the values and keys of it.   *)
Uses(t) ==
  {Block(blocks, Variable(t)).child}
    \cup {Pointers(t)[i].value : i \in DOMAIN Pointers(t)}
    \cup (IF t \in KeyTrees THEN {Pointers(t)[i].key : i \in DOMAIN Pointers(t)} ELSE {})

References(t) ==
  IF ~HasVariable(t) THEN 0
  ELSE IF t \in KeyTrees THEN 2 * Len(Pointers(t)) + 1 ELSE Len(Pointers(t)) + 1

(* In every leaf the value block of an entry precedes its key block, the   *)
(* order without which UIImage(named:) returns nil (BOMTree.insert), and   *)
(* no block is left over or used twice: each but block 0 is named by a     *)
(* variable or by one entry of one leaf, or is the leaf of one tree.       *)
BlocksReferredToOnce ==
  LET trees == {t \in KeyTrees \cup {"BITMAPKEYS"} : HasVariable(t)} IN
  Written =>
    /\ \A t \in KeyTrees : \A i \in DOMAIN Pointers(t) :
         Pointers(t)[i].value < Pointers(t)[i].key
    /\ (UNION {Uses(t) : t \in trees}) \cup {variables[i].blockID : i \in DOMAIN variables}
         = 1 .. LastID(blocks)
    /\ LastID(blocks) =
         Len(variables) + References("RENDITIONS") + References("FACETKEYS")
           + References("APPEARANCEKEYS") + References("BITMAPKEYS")

Canonical == <<"CARHEADER", "RENDITIONS", "FACETKEYS", "APPEARANCEKEYS",
               "KEYFORMAT", "EXTENDED_METADATA", "BITMAPKEYS">>

(* The table of variables has the canonical order the comments ask for,    *)
(* with BITMAPKEYS when a rendition other than a colour exists.            *)
VariablesInOrder ==
  Written =>
    [i \in DOMAIN variables |-> variables[i].name.text] =
      IF \E i \in DOMAIN renditions : renditions[i].body # "color" THEN Canonical
      ELSE SubSeq(Canonical, 1, Len(Canonical) - 1)

(* Every appearance a stored key mentions has a row in APPEARANCEKEYS, or  *)
(* the lookup fails silently (AppearanceKeys).                             *)
AppearancesRegistered ==
  LET keys == LeafOf(blocks, Variable("RENDITIONS")).pointers
      rows == LeafOf(blocks, Variable("APPEARANCEKEYS")).pointers
  IN Written => \A i \in DOMAIN keys : \E k \in DOMAIN rows :
       Block(blocks, rows[k].value).data =
         Decode(Block(blocks, keys[i].key).data).appearance

(* CoreUI finds every table it asks for and every row it needs in them.    *)
TablesComplete == VariablesInOrder /\ AppearancesRegistered

(* The renditions that share a Swift name.                                 *)
Peers(i) ==
  {j \in DOMAIN renditions : SameName(renditions[i].name, renditions[j].name)}

Alike(i) == \A j \in Peers(i) :
  /\ renditions[j].name = renditions[i].name
  /\ FacetKind(renditions[j]) = FacetKind(renditions[i])

(* A lookup by name starts from the facet: for an asset all of whose       *)
(* renditions are of one kind, the facet found under the name's bytes      *)
(* agrees with the stored key of every rendition but an SVG source, which  *)
(* has a slot of its own.                                                  *)
FacetsLeadToRenditions ==
  Written => \A i \in DOMAIN renditions :
    Alike(i) /\ renditions[i].body # "svg" =>
      LET key == RenditionKey(renditions[i])
          facet == Lookup(blocks, Variable("FACETKEYS"), renditions[i].name.utf8)
      IN facet # {} /\ \A f \in facet : \A a \in DOMAIN f.data : f.data[a] = key[a]

(* The bitmap descriptor of an asset is found under its identifier and     *)
(* tells the idioms it comes in; an asset of SVG sources is a vector       *)
(* although the bitmaps made from it are stored beside them.               *)
DescriptorsFound ==
  Written => \A i \in DOMAIN renditions :
    LET mine == {renditions[j] : j \in Peers(i)}
        others == {j \in DOMAIN renditions \ Peers(i) :
                    renditions[j].name.hash = renditions[i].name.hash}
    IN Alike(i) /\ others = {} /\ renditions[i].body # "color" =>
         LookupInline(blocks, Variable("BITMAPKEYS"), renditions[i].name.hash) =
           {DataBlock([kind |-> IF \E r \in mine : r.body = "icon" THEN "icon"
                                ELSE IF \E r \in mine : r.body = "svg" THEN "vector"
                                ELSE "image",
                       idiomSubtypeCount |-> Cardinality({r.idiom : r \in mine})], 52)}

Trees == KeyTrees \cup {"BITMAPKEYS"}

(* How many entries a tree has to hold, counted in the input.              *)
EntryCount(t) ==
  CASE t = "RENDITIONS" -> Len(renditions)
    [] t = "FACETKEYS" ->
         Cardinality({renditions[i].name.nfc : i \in DOMAIN renditions})
    [] t = "APPEARANCEKEYS" ->
         IF \E i \in DOMAIN renditions : renditions[i].dark THEN 2 ELSE 1
    [] t = "BITMAPKEYS" ->
         Cardinality({renditions[i].name.nfc :
                        i \in {j \in DOMAIN renditions : renditions[j].body # "color"}})

HeaderOf(t) == Block(blocks, Variable(t))

(* The bytes of the finished file that the index gives a tree's leaf.      *)
LeafExtent(t) == index[HeaderOf(t).child + 1].len

(* However many entries a leaf has, the bytes the index gives it hold all  *)
(* of them and are no fewer than the block size of its tree, which         *)
(* assetutil reads at once and faults if they are not there (BOMTree.swift *)
(* :55); and the number in the header of the tree, 32 bits wide, is one    *)
(* the 16 bits of the leaf's own count hold: no tree but RENDITIONS needs  *)
(* a trap of its own.                                                      *)
LeavesWhole ==
  Written => \A t \in Trees : HasVariable(t) =>
    /\ HeaderOf(t).pathCount = EntryCount(t)
    /\ Len(Pointers(t)) = EntryCount(t)
    /\ EntryCount(t) <= MaxU16
    /\ LeafExtent(t) >= HeaderOf(t).blockSize
    /\ LeafExtent(t) >= LeafHeaderSize + LeafEntrySize * EntryCount(t)

(* The bytes of a tree, from what it is to hold.                           *)
TreeSize(entries, keySize(_), blockSize) ==
  LET n == Len(entries)
      leaf == LeafHeaderSize + LeafEntrySize * n
  IN BOM!Totals([i \in 1 .. n |-> keySize(entries[i].key) + entries[i].value.size])[n]
       + (IF leaf < blockSize THEN blockSize ELSE leaf) + TreeHeaderSize

(* The bytes of the catalog, from the input alone.                         *)
CatalogSize ==
  LET assets == Assets(renditions)
      bitmaps == BitmapAssets(assets)
      appearances == AppearanceEntries(UsedAppearances(renditions))
      inline(key) == 0
      blockCount == 1 + 3 + 2 * (Len(renditions) + Len(assets) + Len(appearances) + 3)
                      + IF bitmaps = <<>> THEN 0 ELSE Len(bitmaps) + 2
      names == 9 + 10 + 9 + 14 + 9 + 17 + 6 * 5 + IF bitmaps = <<>> THEN 0 ELSE 10 + 5
  IN BOM!HeaderSize + 436
       + TreeSize(RenditionEntries(renditions), Len, TreeBlockSize)
       + TreeSize(FacetEntries(assets), Len, TreeBlockSize)
       + TreeSize(appearances, Len, TreeBlockSize)
       + (12 + 4 * Len(KeyFormat)) + 1028
       + (IF bitmaps = <<>> THEN 0
          ELSE TreeSize(BitmapEntries(bitmaps), inline, InlineBlockSize))
       + (4 + 8 * blockCount) + 4 + names

(* The writer traps for exactly the lists of renditions that a leaf cannot *)
(* count or whose catalog has an address beyond UInt32, known from the     *)
(* list alone; for any other it makes a file of just that many bytes.      *)
TrapsExactlyForLimits ==
  /\ Written => /\ Len(renditions) <= MaxU16
                /\ offset = CatalogSize /\ CatalogSize <= MaxU32
  /\ section = "trapped" => Len(renditions) > MaxU16
  /\ phase = "trapped" => CatalogSize > MaxU32

=============================================================================
