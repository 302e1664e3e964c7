---------------------------- MODULE MCCARWriter ----------------------------
(***************************************************************************)
(* Instances of CARWriter for TLC: the lists of renditions that one, two   *)
(* or three entries of a catalog give, as ImageRenderer, ColorRenderer and *)
(* the app icon path produce them, in the order compile() appends them.    *)
(***************************************************************************)
EXTENDS CARWriter, MCNames

Rendition(n, idiom, scale, dark, gamut, body, source) ==
  [name |-> n, idiom |-> idiom, scale |-> scale, dark |-> dark,
   gamut |-> gamut, body |-> body, source |-> source]

(* What one entry of a Contents.json turns into.                           *)
Png(n, idiom, scale, dark, gamut) ==
  <<Rendition(n, idiom, scale, dark, gamut, "image", "png")>>
Jpeg(n, idiom, scale, dark) ==
  <<Rendition(n, idiom, scale, dark, "none", "jpeg", "jpeg")>>
Svg(n, idiom, dark) ==
  <<Rendition(n, idiom, 1, dark, "none", "svg", "xml")>> \o
  [s \in 1 .. 3 |-> Rendition(n, idiom, s, dark, "sRGB", "image", "raster")]
Color(n, idiom, dark, gamut) ==
  <<Rendition(n, idiom, NoScale, dark, gamut, "color", "color")>>
IconOf(n, idiom, scale, size) ==
  <<Rendition(n, idiom, scale, FALSE, "sRGB", "icon", size)>>

ImageEntries(names) ==
  {Png(n, i, s, d, "sRGB") : n \in names, i \in {"universal", "ipad"},
                             s \in {NoScale, 2}, d \in BOOLEAN}
    \cup {Jpeg(n, "iphone", 2, FALSE) : n \in names}
    \cup {Svg(n, "universal", d) : n \in names, d \in BOOLEAN}

ColorEntries(names) ==
  {Color(n, "universal", d, "sRGB") : n \in names, d \in BOOLEAN}

IconEntries(names) ==
  {IconOf(n, i, 2, "60pt") : n \in names, i \in {"iphone", "ipad"}}

Lists(images, colors, icons) ==
  {i \o j \o c \o k : i \in images, j \in images \cup {<<>>},
                      c \in colors \cup {<<>>}, k \in icons \cup {<<>>}}

(* Assets whose names are told apart by bytes and by identifier.           *)
PlainInputs ==
  {<<>>} \cup ColorEntries({f})
    \cup Lists(ImageEntries({a, ab}), ColorEntries({f}), {})
    \cup Lists(ImageEntries({a}), {}, IconEntries({ab}))

(* Names that collide, one way or another.                                 *)
CollidingInputs ==
  Lists({Png(n, "universal", 2, FALSE, g) :
           n \in {a, aaa, gyt, eAcute, eAcuteSplit}, g \in {"sRGB", "displayP3"}}
          \cup {Svg(a, "universal", FALSE)},
        {Color(n, "universal", FALSE, "sRGB") : n \in {a, gyt}},
        {IconOf(n, "iphone", 2, "60pt") : n \in {a, gyt}})

(* As many images as a leaf of the scaled-down block size holds, and more. *)
ManyInputs ==
  Lists({Png(n, "universal", s, FALSE, "sRGB") : n \in {a, ab}, s \in 1 .. 2}
          \cup {Svg(ab, "ipad", FALSE)},
        {Color(f, "universal", FALSE, "sRGB")}, {})

MCInputs == PlainInputs \cup CollidingInputs \cup ManyInputs

MCCSISize == [icon |-> 1, image |-> 100, color |-> 20, svg |-> 400, jpeg |-> 3]

=============================================================================
