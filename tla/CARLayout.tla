----------------------------- MODULE CARLayout -----------------------------
(***************************************************************************)
(* What the CAR writer derives from the list of renditions: rendition      *)
(* keys, facets, appearances and bitmap descriptors.                       *)
(*                                                                         *)
(* A rendition is a record [name, idiom, scale, dark, gamut, body, source] *)
(* whose body is one of Bodies and whose source tells its content apart.   *)
(* A name is a record [utf8, nfc, hash]: its bytes, the bytes of its       *)
(* canonical form (Swift strings are equal, and ordered, by it) and the    *)
(* CRC32 of the bytes as far as it matters, its low 16 bits.               *)
(***************************************************************************)
EXTENDS BOMTree

Bodies == {"icon", "image", "color", "svg", "jpeg"}

(* Idiom.rawValueByte                                                      *)
IdiomByte ==
  [universal |-> 0, iphone |-> 1, ipad |-> 2, tv |-> 3, car |-> 4,
   watch |-> 5, marketing |-> 6, mac |-> 7]

(* Scale.rawValueByte ?? 0: a rendition without a scale has 0.             *)
NoScale == 0

AnyAppearance == 0
DarkAppearance == 1
BitmapElement == 85

PartOf ==
  [icon |-> 220, image |-> 181, jpeg |-> 181, svg |-> 42, color |-> 0]

(* A rendition as the renderers make it.                                   *)
IsRendition(r) ==
  /\ r.name.utf8 \in Seq(Nat) /\ r.name.nfc \in Seq(Nat) /\ r.name.hash \in Nat
  /\ r.idiom \in DOMAIN IdiomByte /\ r.scale \in Nat
  /\ r.dark \in BOOLEAN /\ r.body \in Bodies

RenditionKey(r) ==
  [appearance   |-> IF r.dark THEN DarkAppearance ELSE AnyAppearance,
   localization |-> 0,
   scale        |-> r.scale,
   idiom        |-> IdiomByte[r.idiom],
   subtype      |-> 0,
   dimension2   |-> IF r.body = "icon" THEN 1 ELSE 0,
   identifier   |-> r.name.hash,
   element      |-> IF r.body = "color" THEN 0 ELSE BitmapElement,
   part         |-> PartOf[r.body]]

(* v1KeyFormat: the order of the tokens of a packed key.                   *)
KeyFormat ==
  <<"appearance", "localization", "scale", "idiom", "subtype", "dimension2",
    "identifier", "element", "part">>

(* RenditionKey.encode: every token as two bytes, low byte first.          *)
Encode(key) ==
  [i \in 1 .. 2 * Len(KeyFormat) |->
    LET token == key[KeyFormat[(i + 1) \div 2]]
    IN IF i % 2 = 1 THEN token % 256 ELSE token \div 256]

(* RenditionKey.decode                                                     *)
Decode(bytes) ==
  [a \in {KeyFormat[i] : i \in DOMAIN KeyFormat} |->
    LET i == CHOOSE i \in DOMAIN KeyFormat : KeyFormat[i] = a
    IN bytes[2 * i - 1] + 256 * bytes[2 * i]]

-----------------------------------------------------------------------------
(* Assets: the renditions grouped by name.                                 *)

SameName(m, n) == m.nfc = n.nfc

FacetKind(r) ==
  CASE r.body = "icon" -> "icon"
    [] r.body = "color" -> "color"
    [] OTHER -> "image"

NameLess(a, b) == ByteLess(a.name.nfc, b.name.nfc)

(* One asset per name, in the order of Swift strings, with the name and    *)
(* the kind of its first rendition; of the others only the set matters.    *)
Assets(rs) ==
  LET Group(n) == {rs[j] : j \in {j \in DOMAIN rs : SameName(rs[j].name, n)}}
      firsts == {i \in DOMAIN rs :
                  \A j \in 1 .. i - 1 : ~SameName(rs[i].name, rs[j].name)}
      asset == [i \in DOMAIN rs |->
                 [name |-> rs[i].name, kind |-> FacetKind(rs[i]),
                  renditions |-> Group(rs[i].name)]]
  IN SortedAt(asset, firsts, NameLess)

(* Mutant: takes any appearance for granted.                               *)
UsedAppearancesAny(rs) == {AnyAppearance}

UsedAppearances(rs) ==
  {AnyAppearance} \cup
    (IF \E i \in DOMAIN rs : rs[i].dark THEN {DarkAppearance} ELSE {})

-----------------------------------------------------------------------------
(* Values of the trees.                                                    *)

(* Mutant: every facet seeds a lookup as an image does.                    *)
FacetPairsAsImage(kind, identifier) ==
  [element |-> BitmapElement, part |-> PartOf.image, identifier |-> identifier]

(* Kind.pairs: the attributes a facet seeds a lookup with.                 *)
FacetPairs(kind, identifier) ==
  CASE kind = "icon"  -> [element |-> BitmapElement, part |-> PartOf.icon,
                          identifier |-> identifier]
    [] kind = "image" -> [element |-> BitmapElement, part |-> PartOf.image,
                          identifier |-> identifier]
    [] kind = "color" -> [identifier |-> identifier]

FacetValue(asset) ==
  LET pairs == FacetPairs(asset.kind, asset.name.hash)
  IN DataBlock(pairs, 6 + 4 * Cardinality(DOMAIN pairs))

FacetEntries(assets) ==
  [i \in DOMAIN assets |->
    [key |-> assets[i].name.utf8, value |-> FacetValue(assets[i])]]

AnyName  == <<1>>  \* stands for "UIAppearanceAny"
DarkName == <<2>>  \* stands for "UIAppearanceDark", which sorts after it

AppearanceEntries(used) ==
  <<[key |-> AnyName, value |-> DataBlock(AnyAppearance, 2)]>> \o
  (IF DarkAppearance \in used
   THEN <<[key |-> DarkName, value |-> DataBlock(DarkAppearance, 2)]>>
   ELSE <<>>)

Has(rs, bodies) == \E r \in rs : r.body \in bodies

(* Mutant: prefers the bitmaps of an SVG to its source.                    *)
InferKindBitmapFirst(rs) ==
  IF Has(rs, {"icon"}) THEN "icon"
  ELSE IF Has(rs, {"image"}) THEN "image" ELSE "vector"

InferKind(rs) ==
  IF Has(rs, {"icon"}) THEN "icon"
  ELSE IF Has(rs, {"svg"}) THEN "vector" ELSE "image"

Descriptor(rs) ==
  [kind |-> InferKind(rs),
   idiomSubtypeCount |-> Cardinality({r.idiom : r \in rs})]

(* Filtering sorts by nothing: what is kept stays in its order.            *)
Unordered(a, b) == FALSE

(* Assets with a descriptor: all but those of colours alone.               *)
BitmapAssets(assets) ==
  SortedAt(assets, {i \in DOMAIN assets :
                     Has(assets[i].renditions, Bodies \ {"color"})}, Unordered)

BitmapEntries(assets) ==
  [i \in DOMAIN assets |->
    [key |-> assets[i].name.hash,
     value |-> DataBlock(Descriptor(assets[i].renditions), 52)]]

=============================================================================
