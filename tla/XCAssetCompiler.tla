-------------------------- MODULE XCAssetCompiler --------------------------
(***************************************************************************)
(* XCAssetCompiler.compile(): walks the catalog, decodes its asset sets,   *)
(* renders every image, colour and icon, collects the loose icon files and *)
(* hands the renditions to the CAR writer.  Everything it reads comes from *)
(* a file system that lists a directory in any order and may fail to read  *)
(* a file it has just been asked about.                                    *)
(*                                                                         *)
(* A directory is a record [path, kind, name, contents, entries,           *)
(* children]: kind is its extension ("folder" for all that are not asset   *)
(* sets), contents tells whether its Contents.json is there and decodes,   *)
(* entries are those of the file, children the directories inside.         *)
(***************************************************************************)
EXTENDS CARLayout, SequencesExt

CONSTANTS
  Catalogs,   \* catalogs to compile: sets of directories
  MaxDepth    \* how deep their folders nest

(* The directories at each depth of a catalog, and all of them.            *)
Levels(top) ==
  LET level[n \in 0 .. MaxDepth] ==
        IF n = 0 THEN top
        ELSE UNION {d.children : d \in {e \in level[n - 1] : e.kind = "folder"}}
  IN level

TreeOf(top) == UNION {Levels(top)[n] : n \in 0 .. MaxDepth}

FoldersOf(top) == {d \in TreeOf(top) : d.kind = "folder"}

(* Every directory is in one place, and none nests deeper than the bound;  *)
(* names, idioms, scales and appearances are what Contents.json decodes to.*)
ASSUME CatalogAssumption ==
  /\ MaxDepth \in Nat
  /\ \A top \in Catalogs :
       /\ \A d \in Levels(top)[MaxDepth] : d.kind = "folder" => d.children = {}
       /\ \A d \in FoldersOf(top) :
            /\ d.children \cap top = {}
            /\ \A e \in FoldersOf(top) : d # e => d.children \cap e.children = {}
       /\ \A d \in TreeOf(top) :
            /\ d.entries \in Seq(ToSet(d.entries))
            /\ \A e \in ToSet(d.entries) :
                 IsRendition([name |-> d.name, idiom |-> e.idiom, scale |-> e.scale,
                              dark |-> e.dark, body |-> "image"])

VARIABLES
  catalog,     \* the directories at the top of the catalog
  stage,       \* the loop compile() is in
  stack,       \* directories still to visit, innermost listing last
  loaded,      \* asset sets by kind, in the order they were visited
  todo,        \* entries the current loop still has to process
  rendered,    \* renditions so far
  iconFiles,   \* AppIconPlistEmitter's list of icon files
  looseFiles,  \* loose files so far
  error        \* why compile() threw

vars == <<catalog, stage, stack, loaded, todo, rendered, iconFiles,
          looseFiles, error>>

AssetKinds == {"imageset", "colorset", "appiconset"}

NoFile == [present |-> FALSE, format |-> "none", good |-> FALSE, stem |-> "none"]

Phases == <<"walking", "images", "colors", "plist", "icons", "loose", "done">>

Init ==
  /\ catalog \in Catalogs
  /\ stage = "walking"
  /\ stack = <<catalog>>
  /\ loaded = [k \in AssetKinds |-> <<>>]
  /\ todo = <<>>
  /\ rendered = <<>>
  /\ iconFiles = <<>>
  /\ looseFiles = <<>>
  /\ error = "none"

Throw(e) ==
  /\ error' = e
  /\ stage' = "failed"
  /\ UNCHANGED <<catalog, stack, loaded, todo, rendered, iconFiles, looseFiles>>

(* The entries of a list of asset sets, each with the name of its set.     *)
Jobs(sets) ==
  FlattenSeq([i \in DOMAIN sets |->
    [j \in DOMAIN sets[i].entries |->
      [name |-> sets[i].name, entry |-> sets[i].entries[j]]]])

-----------------------------------------------------------------------------
(* CatalogLoader.load: the walk.                                           *)

Children == Last(stack)
Listing(s) == [stack EXCEPT ![Len(stack)] = s]

(* Mutant: does not look into folders.                                     *)
EnterFolderShallow(d) ==
  /\ stage = "walking"
  /\ d \in Children
  /\ d.kind = "folder"
  /\ stack' = Listing(Children \ {d})
  /\ UNCHANGED <<catalog, stage, loaded, todo, rendered, iconFiles,
                 looseFiles, error>>

EnterFolder(d) ==
  /\ stage = "walking"
  /\ d \in Children
  /\ d.kind = "folder"
  /\ stack' = Append(Listing(Children \ {d}), d.children)
  /\ UNCHANGED <<catalog, stage, loaded, todo, rendered, iconFiles,
                 looseFiles, error>>

LeaveFolder ==
  /\ stage = "walking"
  /\ Children = {}
  /\ Len(stack) > 1
  /\ stack' = Front(stack)
  /\ UNCHANGED <<catalog, stage, loaded, todo, rendered, iconFiles,
                 looseFiles, error>>

LoadSet(d) ==
  /\ stage = "walking"
  /\ d \in Children
  /\ d.kind \in AssetKinds
  /\ d.contents = "ok"
  /\ stack' = Listing(Children \ {d})
  /\ loaded' = [loaded EXCEPT ![d.kind] = Append(@, d)]
  /\ UNCHANGED <<catalog, stage, todo, rendered, iconFiles, looseFiles, error>>

(* Contents.json is absent, does not decode, or vanishes before its read.  *)
LoadSetFails(d) ==
  /\ stage = "walking"
  /\ d \in Children
  /\ d.kind \in AssetKinds
  /\ Throw(IF d.contents = "missing" THEN "missingContentsJSON"
           ELSE "malformedContentsJSON")

(* The catalog is no directory, or one of its directories cannot be listed.*)
WalkFails ==
  /\ stage = "walking"
  /\ Throw(IF stack = <<catalog>> THEN "notADirectory" ELSE "unreadable")

EndWalk ==
  /\ stage = "walking"
  /\ stack = <<{}>>
  /\ Len(loaded["appiconset"]) <= 1
  /\ stage' = "images"
  /\ todo' = Jobs(loaded["imageset"])
  /\ UNCHANGED <<catalog, stack, loaded, rendered, iconFiles, looseFiles, error>>

TooManyIconSets ==
  /\ stage = "walking"
  /\ stack = <<{}>>
  /\ Len(loaded["appiconset"]) > 1
  /\ Throw("multipleAppIconSets")

-----------------------------------------------------------------------------
(* The loops of compile(); a loop takes entries from todo and, when it has *)
(* none left, gives way to the next.                                       *)

Job == Head(todo)
At(p) == stage = p /\ todo # <<>>

NextLoop(p, q, jobs) ==
  /\ stage = p
  /\ todo = <<>>
  /\ stage' = q
  /\ todo' = jobs
  /\ UNCHANGED <<catalog, stack, loaded, rendered, iconFiles, looseFiles, error>>

Produce(rs) ==
  /\ rendered' = rendered \o rs
  /\ todo' = Tail(todo)
  /\ UNCHANGED <<catalog, stage, stack, loaded, iconFiles, looseFiles, error>>

NewRendition(job, scale, gamut, body) ==
  [name |-> job.name, idiom |-> job.entry.idiom, scale |-> scale,
   dark |-> job.entry.dark, gamut |-> gamut, body |-> body,
   source |-> job.entry.file.stem]

(* Mutant: an SVG gives its vector and no bitmaps.                         *)
ImageRenditionsNoFanout(job) ==
  CASE job.entry.file.format = "png" ->
         <<NewRendition(job, job.entry.scale, job.entry.gamut, "image")>>
    [] job.entry.file.format = "svg" ->
         <<NewRendition(job, 1, "none", "svg")>>
    [] job.entry.file.format = "jpeg" ->
         <<NewRendition(job, job.entry.scale, "none", "jpeg")>>

(* What a readable source file of an image set is turned into: an SVG into *)
(* its vector and a bitmap at each of three scales, whatever its own scale.*)
ImageRenditions(job) ==
  CASE job.entry.file.format = "png" ->
         <<NewRendition(job, job.entry.scale, job.entry.gamut, "image")>>
    [] job.entry.file.format = "svg" ->
         <<NewRendition(job, 1, "none", "svg")>> \o
           [s \in 1 .. 3 |-> NewRendition(job, s, "sRGB", "image")]
    [] job.entry.file.format = "jpeg" ->
         <<NewRendition(job, job.entry.scale, "none", "jpeg")>>

SourceFormats == {"png", "svg", "jpeg"}

SkipImage ==
  /\ At("images")
  /\ Job.entry.file = NoFile
  /\ Produce(<<>>)

RenderImage ==
  /\ At("images")
  /\ Job.entry.file # NoFile
  /\ Job.entry.file.present
  /\ Job.entry.file.format \in SourceFormats
  /\ Job.entry.file.good
  /\ Produce(ImageRenditions(Job))

(* Absent, of no known format, undecodable, or not rasterised.  A read may *)
(* fail, and so may rsvg-convert, though the file is sound.                *)
RenderImageFails ==
  /\ At("images")
  /\ Job.entry.file # NoFile
  /\ Throw(IF ~Job.entry.file.present THEN "missingReferencedFile"
           ELSE IF Job.entry.file.format \notin SourceFormats
                THEN "unsupportedAssetType"
           ELSE "badSource")

StartColors == NextLoop("images", "colors", Jobs(loaded["colorset"]))

RenderColor ==
  /\ At("colors")
  /\ Job.entry.file.good
  /\ Produce(<<NewRendition(Job, NoScale, Job.entry.gamut, "color")>>)

RenderColorFails ==
  /\ At("colors")
  /\ ~Job.entry.file.good
  /\ Throw("invalidColorComponent")

(* Without an icon set compile() goes straight to the writer.              *)
StartPlist ==
  IF loaded["appiconset"] = <<>> THEN NextLoop("colors", "done", <<>>)
  ELSE NextLoop("colors", "plist", Jobs(loaded["appiconset"]))

-----------------------------------------------------------------------------
(* AppIconPlistEmitter.emit and the two loops over its icon files.         *)

(* Mutant: does not ask what size an icon has.                             *)
EmitIconAnySize ==
  /\ At("plist")
  /\ Job.entry.file.present
  /\ iconFiles' = Append(iconFiles, Job)
  /\ todo' = Tail(todo)
  /\ UNCHANGED <<catalog, stage, stack, loaded, rendered, looseFiles, error>>

EmitIcon ==
  /\ At("plist")
  /\ Job.entry.file.present
  /\ Job.entry.size # 0 /\ Job.entry.scale # NoScale
  /\ iconFiles' = Append(iconFiles, Job)
  /\ todo' = Tail(todo)
  /\ UNCHANGED <<catalog, stage, stack, loaded, rendered, looseFiles, error>>

(* No filename, no such file, or a size or scale that says nothing (0).    *)
EmitIconFails ==
  /\ At("plist")
  /\ \/ /\ Job.entry.file = NoFile
        /\ Throw("appIconSizeMissing")
     \/ /\ Job.entry.file # NoFile
        /\ ~Job.entry.file.present
        /\ Throw("missingReferencedFile")
     \/ /\ Job.entry.file.present
        /\ Job.entry.size = 0 \/ Job.entry.scale = NoScale
        /\ Throw("appIconSizeMissing")

StartIcons == NextLoop("plist", "icons", iconFiles)

RenderIcon ==
  /\ At("icons")
  /\ Job.entry.file.format = "png"
  /\ Job.entry.file.good
  /\ Produce(<<NewRendition(Job, Job.entry.scale, "sRGB", "icon")>>)

RenderIconFails ==
  /\ At("icons")
  /\ Throw(IF Job.entry.file.format # "png" THEN "unsupportedAppIconSource"
           ELSE "badSource")

StartLoose == NextLoop("icons", "loose", iconFiles)

(* IconFile.outputName, and the name of the loose file with its suffix.    *)
OutputName(job) == <<job.name, job.entry.size>>
LooseName(job) == <<OutputName(job), job.entry.scale>>

(* Mutant: leaves out the icons of iPads.                                  *)
CopyLooseFilePhoneOnly ==
  /\ At("loose")
  /\ looseFiles' = IF Job.entry.idiom = "ipad" THEN looseFiles
       ELSE Append(looseFiles, [name |-> LooseName(Job), source |-> Job.entry.file.stem])
  /\ todo' = Tail(todo)
  /\ UNCHANGED <<catalog, stage, stack, loaded, rendered, iconFiles, error>>

CopyLooseFile ==
  /\ At("loose")
  /\ looseFiles' = Append(looseFiles,
       [name |-> LooseName(Job), source |-> Job.entry.file.stem])
  /\ todo' = Tail(todo)
  /\ UNCHANGED <<catalog, stage, stack, loaded, rendered, iconFiles, error>>

(* The file is read a second time, which may fail though the first did not.*)
CopyLooseFileFails ==
  /\ At("loose")
  /\ Throw("badSource")

Finish == NextLoop("loose", "done", <<>>)

-----------------------------------------------------------------------------

Load == \E d \in Children : EnterFolder(d) \/ LoadSet(d) \/ LoadSetFails(d)

Walk ==
  LeaveFolder \/ WalkFails \/ EndWalk \/ TooManyIconSets \/ (stage = "walking" /\ Load)

Render ==
  \/ SkipImage \/ RenderImage \/ RenderImageFails \/ StartColors
  \/ RenderColor \/ RenderColorFails \/ StartPlist

BundleIcons ==
  \/ EmitIcon \/ EmitIconFails \/ StartIcons
  \/ RenderIcon \/ RenderIconFails \/ StartLoose
  \/ CopyLooseFile \/ CopyLooseFileFails \/ Finish

Returned == stage \in {"done", "failed"} /\ UNCHANGED vars

Next == Walk \/ Render \/ BundleIcons \/ Returned

Spec == Init /\ [][Next]_vars

-----------------------------------------------------------------------------
(* What the property list of the bundle declares.                          *)

FilesOf(idiom) ==
  {OutputName(iconFiles[i]) :
     i \in {j \in DOMAIN iconFiles : iconFiles[j].entry.idiom = idiom}}

(* CFBundleIconFiles: the names of the iPhone's icons and of the iPad's.   *)
CFBundleIconFiles == FilesOf("iphone") \cup FilesOf("ipad")

-----------------------------------------------------------------------------
(* Correctness.                                                            *)

Tree == TreeOf(catalog)

SetsIn(kind) == {d \in Tree : d.kind = kind}

Done == stage = "done"

(* However the file system lists its directories, each asset set of the    *)
(* catalog is loaded once, a set inside a folder of any name included.     *)
EverySetLoadedOnce ==
  stage \notin {"walking", "failed"} => \A k \in AssetKinds :
    /\ ToSet(loaded[k]) = SetsIn(k)
    /\ IsInjective(loaded[k])

(* What an entry must be like to end up in the product: its file is there, *)
(* sound and of a format the catalog takes, and an icon has a known size   *)
(* and scale besides.  An image set may leave a slot empty.                *)
Usable(kind, e) ==
  \/ kind = "imageset" /\ e.file = NoFile
  \/ kind = "imageset" /\ e.file.present /\ e.file.good /\ e.file.format \in SourceFormats
  \/ kind = "colorset" /\ e.file.good
  \/ /\ kind = "appiconset" /\ e.file.present /\ e.file.good /\ e.file.format = "png"
     /\ e.size # 0 /\ e.scale # NoScale

(* A compilation succeeds only if every Contents.json decoded and every    *)
(* entry could be used - images of a format the compiler takes, icons PNGs *)
(* of a known size and scale - and there was one icon set at most, which   *)
(* is the one it has a bundle of (CompileResult.appIconBundle).            *)
SuccessMeansSoundInput ==
  Done =>
  /\ Cardinality(SetsIn("appiconset")) <= 1
  /\ loaded["appiconset"] # <<>> <=> Cardinality(SetsIn("appiconset")) = 1
  /\ \A d \in Tree : d.kind \in AssetKinds =>
       d.contents = "ok" /\ \A i \in DOMAIN d.entries : Usable(d.kind, d.entries[i])

(* The renditions a catalog must give: for each entry of each set one, and *)
(* for an SVG a vector and three bitmaps.                                  *)
Wanted(kind, e) ==
  IF kind = "colorset" THEN {<<"color", NoScale>>}
  ELSE IF kind = "appiconset" THEN {<<"icon", e.scale>>}
  ELSE IF e.file = NoFile THEN {}
  ELSE IF e.file.format = "svg"
       THEN {<<"svg", 1>>} \cup {<<"image", s>> : s \in 1 .. 3}
  ELSE IF e.file.format = "jpeg" THEN {<<"jpeg", e.scale>>}
  ELSE {<<"image", e.scale>>}

EntriesIn == UNION {{<<d, i>> : i \in DOMAIN d.entries} : d \in
                      {t \in Tree : t.kind \in AssetKinds}}

(* No entry is lost: each has all its renditions, whatever the other sets  *)
(* are and in whatever order they come.                                    *)
EntriesRendered ==
  Done => \A x \in EntriesIn :
    LET e == x[1].entries[x[2]] IN
    \A w \in Wanted(x[1].kind, e) : \E i \in DOMAIN rendered :
      /\ rendered[i].name = x[1].name
      /\ rendered[i].source = e.file.stem
      /\ rendered[i].idiom = e.idiom
      /\ rendered[i].dark = e.dark
      /\ <<rendered[i].body, rendered[i].scale>> = w

(* And none is rendered twice.                                             *)
RenditionsCounted ==
  Done =>
    Len(rendered) =
      FoldSet(LAMBDA x, n : n + Cardinality(Wanted(x[1].kind, x[1].entries[x[2]])),
              0, EntriesIn)

(* Every name the property list declares has a loose file to back it, and  *)
(* the loose files are those of the icon renditions, in number and source, *)
(* which follow all other renditions.                                      *)
IconFilesBacked ==
  Done =>
    LET others == Len(rendered) - Len(looseFiles) IN
    /\ \A n \in CFBundleIconFiles : \E i \in DOMAIN looseFiles : looseFiles[i].name[1] = n
    /\ \A i \in 1 .. others : rendered[i].body # "icon"
    /\ \A i \in DOMAIN looseFiles :
         /\ rendered[others + i].body = "icon"
         /\ rendered[others + i].source = looseFiles[i].source

(* The renditions as BOMTree stores them: by key, else as they came.       *)
Stored(rs) ==
  Sorted([i \in DOMAIN rs |-> [key |-> Encode(RenditionKey(rs[i])),
                               source |-> rs[i].source]], KeyLess)

(* The renditions compile() would have made of the same sets, had the file *)
(* system listed the image sets in another order.                          *)
OtherOrders ==
  LET sets == loaded["imageset"]
      images == Cardinality({i \in DOMAIN rendered :
                              rendered[i].body \notin {"color", "icon"}})
      rest == SubSeq(rendered, images + 1, Len(rendered))
      orders == {q \in [DOMAIN sets -> ToSet(sets)] : IsInjective(q)}
      Of(job) == IF job.entry.file = NoFile THEN <<>> ELSE ImageRenditions(job)
      From(q) == FlattenSeq([i \in DOMAIN Jobs(q) |-> Of(Jobs(q)[i])])
  IN {From(q) \o rest : q \in orders}

(* The order in which a host lists directories does not show in the leaf   *)
(* of RENDITIONS as long as no two renditions share a key.                 *)
DeterministicUnlessKeysClash ==
  Done /\ IsInjective([i \in DOMAIN rendered |-> RenditionKey(rendered[i])]) =>
    \A rs \in OtherOrders : Stored(rs) = Stored(rendered)

(* How many renditions are stored, and in which order, the catalog alone   *)
(* decides, but for clashing keys.                                         *)
CatalogDecides == RenditionsCounted /\ DeterministicUnlessKeysClash

-----------------------------------------------------------------------------
(* What comments and README say, against what the code does.               *)

(* README: "CAR output is byte-deterministic across Linux and macOS",      *)
(* whose file systems list directories in orders of their own.             *)
ListingOrderInvisible ==
  Done => \A rs \in OtherOrders : Stored(rs) = Stored(rendered)

=============================================================================
