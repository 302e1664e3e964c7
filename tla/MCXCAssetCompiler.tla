------------------------- MODULE MCXCAssetCompiler -------------------------
(***************************************************************************)
(* Instances of XCAssetCompiler for TLC: catalogs put together from a few  *)
(* asset sets, at the top or in folders, with files that are sound, absent *)
(* or broken.                                                              *)
(***************************************************************************)
EXTENDS XCAssetCompiler, MCNames

File(stem, format) ==
  [present |-> TRUE, format |-> format, good |-> TRUE, stem |-> stem]
Absent(stem) == [File(stem, "png") EXCEPT !.present = FALSE]
Broken(stem, format) == [File(stem, format) EXCEPT !.good = FALSE]

Image(file, idiom, scale, dark, gamut) ==
  [file |-> file, idiom |-> idiom, scale |-> scale, dark |-> dark,
   gamut |-> gamut, size |-> 0]
Icon(file, idiom, scale, size) ==
  [file |-> file, idiom |-> idiom, scale |-> scale, dark |-> FALSE,
   gamut |-> "sRGB", size |-> size]

Dir(path, kind, name, entries) ==
  [path |-> path, kind |-> kind, name |-> name, contents |-> "ok",
   entries |-> entries, children |-> {}]
Folder(path, children) ==
  [path |-> path, kind |-> "folder", name |-> f, contents |-> "none",
   entries |-> <<>>, children |-> children]

(* Entries of image sets.                                                  *)
Light == Image(File("light", "png"), "universal", 2, FALSE, "sRGB")
Wide  == Image(File("wide", "png"), "universal", 2, FALSE, "displayP3")
Dark  == Image(File("dark", "jpeg"), "universal", 2, TRUE, "sRGB")
Vector == Image(File("vector", "svg"), "universal", NoScale, FALSE, "sRGB")
Slot  == Image(NoFile, "ipad", 1, FALSE, "sRGB")
Lost  == Image(Absent("lost"), "universal", 1, FALSE, "sRGB")
Torn  == Image(Broken("torn", "png"), "universal", 1, FALSE, "sRGB")
Pdf   == Image(File("pdf", "other"), "universal", 1, FALSE, "sRGB")
Red   == Image(File("red", "none"), "universal", NoScale, FALSE, "sRGB")
NoRed == Image(Broken("nored", "none"), "universal", NoScale, TRUE, "sRGB")

ImageSets(path) ==
  {Dir(path, "imageset", n, e) : n \in {a, ab},
     e \in {<<Light, Slot>>, <<Vector, Dark>>, <<Slot, Lost>>, <<Torn>>, <<Pdf>>}}
    \cup {[Dir(path, "imageset", a, <<>>) EXCEPT !.contents = c] :
            c \in {"missing", "malformed"}}

ColorSets(path) ==
  {Dir(path, "colorset", f, e) : e \in {<<Red>>, <<Red, NoRed>>}}

Phone(size) == Icon(File("phone", "png"), "iphone", 2, size)
Pad == Icon(File("pad", "png"), "ipad", 2, 60)
Store == Icon(File("store", "png"), "marketing", 1, 1024)

IconSets(path) ==
  {Dir(path, "appiconset", f, e) :
     e \in {<<Phone(60), Pad>>, <<Phone(60), Store>>, <<Phone(60), Phone(40)>>,
            <<Icon(NoFile, "iphone", 2, 60)>>, <<Icon(Absent("lost"), "ipad", 2, 60)>>,
            <<Pad, Icon(File("nosize", "png"), "ipad", 2, 0)>>,
            <<Icon(File("noscale", "png"), "iphone", NoScale, 60)>>,
            <<Icon(File("vector", "svg"), "iphone", 2, 60)>>,
            <<Icon(Broken("torn", "png"), "iphone", 2, 60)>>}}

Some(S) == {{}} \cup {{x} : x \in S}

(* An image set beside a folder with another, a colour set or an icon set, *)
(* an icon set or none at the top.                                         *)
MCCatalogs ==
  {{i, Folder("p", g)} \cup k :
     i \in ImageSets("p1"), k \in Some(IconSets("p2")),
     g \in Some(ImageSets("p3")) \cup Some(ColorSets("p4"))
             \cup {{Folder("p5", {s})} : s \in IconSets("p6")}}

(* Sound catalogs in which the sets or their entries resemble each other.  *)
Resembling ==
  {{Dir("p1", "imageset", a, <<Light>>), Dir("p2", "colorset", a, <<Red>>)},
   {Dir("p1", "imageset", a, <<Light, Wide>>)},
   {Dir("p1", "imageset", a, <<Light>>),
    Folder("p", {Dir("p2", "imageset", a, <<[Light EXCEPT !.file = File("night", "png")]>>)})}}
  \cup {{d} : d \in {x \in IconSets("p1") : Len(x.entries) = 2}}

=============================================================================
