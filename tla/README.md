# AssetKit in TLA+

AssetKit compiles an `.xcassets` catalog into `Assets.car`, the file in which
iOS (CoreUI) looks up images, colours and icons at run time, and into the
property-list entries and loose files an app icon needs. This directory holds
TLA+ models of it, TLC configurations that check them on small instances, and
TLAPS proofs of the central properties for instances of any size.

Paths below are relative to `src/Sources/AssetKit`; C files are in
`src/Sources/CLZFSE`.

## 1. Inventory

| Component | State | Operations | What must hold |
|---|---|---|---|
| SVG rasteriser, `Rendition/SVGRasterizer.swift` | a child process, three pipes, a background closure, an error box, a semaphore, per call | `rasterize` | a PNG result is whole; errors are whole and never lost; nothing outlives the call; a call ends |
| BOM container, `BOM/BOMWriter.swift` | blocks, named variables | `addBlock`, `setVariable`, `finalize` | blocks do not overlap; index and header describe the file; no number wraps |
| BOM trees, `BOM/BOMTree.swift` | none (adds blocks) | `insert`, `insertInlineKey` | binary search finds every key; a value's block precedes its key's; each block is referred to once |
| CAR writer, `CAR/CARWriter.swift` | the container being filled | `write` | every section is there, in order; lookups lead to what was put in |
| Layout and tree values, `CAR/{CARLayout,RenditionKey,FacetKeys,BitmapKeys,AppearanceKeys,KeyFormat}.swift` | none | pure derivations | facets agree with keys; used appearances have rows; descriptors fit their asset |
| CSI records, `CAR/{CSIWriter,CSIHeader,CSITVL,TVLEntry,MLECBody,DWAREnvelope}.swift` | none | one record per rendition | lengths in headers are those of what follows |
| Catalog loader, `Catalog/CatalogLoader.swift` | lists of asset sets | `load`, `walk`, `decode` | every set is loaded once, whatever the listing order |
| Compiler, `XCAssetCompiler.swift` | renditions, loose files | `compile` | all or nothing: an error, or all of the catalog |
| Source handlers, `Rendition/{ImageRenderer,PNGSource,SVGSource,JPEGSource,ColorRenderer,SourceFormat}.swift` | none | an entry becomes renditions | each entry gives its renditions or an error |
| JPEG dimensions, `Rendition/JPEGSource.swift` | position in the file | `Dimensions.read` | never reads outside the file; ends; takes the first frame |
| App icon property list, `AppIcon/AppIconPlist.swift` | lists of names and files | `emit` | every declared name has a file |
| Schema and errors, `Schema/Contents.swift`, `Errors.swift` | none | decoding | |
| LZFSE binding, `Compression/LZFSE.swift` | none | `encode` | the codec's output fits the room allotted, so that the precondition on it never fails |
| LZFSE codec, `lzfse_encode_base.c`, `lzfse_encode.c`, `lzfse_decode_base.c`, `lzfse_decode.c` | encoder: hash history, pending match, `src_literal`, match and literal buffers, `dst`; decoder: position in the block, literals, partial symbol | `lzfse_encode_buffer`, `lzfse_encode_base`, `_finish`, `_translate`, `lzfse_decode` | what is decoded is what was encoded, whatever is full in between, and however source and destination are cut up |
| LZVN codec, `lzvn_encode_base.c`, `lzvn_decode_base.c` | encoder: hash table, pending match, `src_literal`, `dst`; decoder: positions, partial literal and match, last distance | `lzvn_encode_buffer`, `lzvn_decode` | the same, and nothing is read or written outside a buffer, whatever the stream |
| Entropy coder, `lzfse_fse.c`, `lzfse_fse.h`, `lzfse_encode_tables.h`, headers in both `_base.c` files | tables, four literal states and three for L, M, D, bit accumulators | table setup, normalisation, `fse_encode`, `fse_decode`, in- and output streams, block headers | states stay in their tables, bits in the accumulator, wide loads and stores in the buffer; decoding inverts encoding |
| Byte writer, `BOM/ByteWriter.swift` | a buffer | append | |

They interact by calls. `compile()` awaits the loader, calls a source handler
for each entry (an SVG calls the rasteriser three times), the icon emitter, and
`CARWriter.write()`, which derives a `CARLayout`, adds blocks and trees to a
`BOMWriter` and has it lay out the file. Bitmaps go through `LZFSE.encode`
into the C codec: below 4096 bytes LZVN, above LZFSE, whose back end hands each
full block to the entropy coder, and a raw block when neither gains anything.
The repository holds the decoder too and does not call it; CoreUI's does its
work at run time. The reader of the file is not part of
the repository, but most of the code exists to suit it.

Hard behaviours:

- **Processes.** In `rasterize` caller, closure and child block on one another
  through bounded pipes; the child may die at any time; closures compete for
  the threads of a pool. This is the only concurrency in the code, and the only
  part that can hang.
- **Order.** The reader trusts orders nobody checks at run time: of leaf
  entries, of block identifiers, of variables; a wrong one makes lookups return
  nothing, without an error. Directory listings have no order at all.
- **Numbers.** Every conversion to `UInt16` or `UInt32` traps on overflow; the
  bytes of a JPEG decide where the program reads next.
- **Names.** One name is a Swift string (canonical equivalence), a sequence of
  bytes, and a 16-bit hash, and assets are told apart by a different one of
  these at each stage.
- **Full buffers.** The LZFSE encoder pushes a match into fixed arrays without
  testing them, takes a half-pushed match back, writes a block, and tries again;
  a block that does not fit is undone in place. Both decoders stop in the middle
  of a literal or a match and go on in a later call.
- **Moving origins.** A huge source is encoded in chunks with the source
  pointer moved between them, and every offset kept has to move with it.
- **Wide loads and stores.** The codec copies 4, 8 or 16 bytes where fewer are
  meant; only margins computed elsewhere keep it inside its buffers.
- **Failure.** A file can be absent, broken, or gone between two uses; nothing
  may be half compiled.

`PROJECT.json` lists the hazards at their lines with the properties that
address them.

## 2. Modules

| Module | Models |
|---|---|
| `SVGRasterizer` | what the protocol promises: a call ends once, with a whole PNG or an error |
| `RsvgConvertRasterizer` | the implementation: caller, closure, child, pipes, pool; refines `SVGRasterizer` |
| `BOMWriter` | the container: any client, then `finalize()` one piece at a time |
| `BOMTree` | the two tree insertions, as operators from blocks to blocks |
| `CARLayout` | keys, assets, facets, appearances, descriptors, as operators on renditions (extends `BOMTree`) |
| `CoreUI` | the external reader: variable, tree header, leaf, binary search |
| `CARWriter` | `write()`, one action per variable, then `BOMWriter`'s actions (`BOM == INSTANCE BOMWriter`) |
| `XCAssetCompiler` | loader, `compile()`, source handlers, icon emitter (extends `CARLayout`) |
| `AssetKit` | `compile()` from the catalog to the finished file: `XCAssetCompiler`, then `CARWriter` on the list it made (extends both) |
| `JPEGDimensions` | the walk over a JPEG's markers |
| `LZVNFormat` | the instructions of LZVN: how they are chosen and written (`Emit`), and what an opcode stands for when read (`Instruction`, `LiteralOf`, ...) |
| `LZVNEncoder` | `lzvn_encode_buffer`: search, pending match, room test, end-of-stream marker |
| `LZVNDecoder` | `lzvn_decode`: one action per kind of instruction and per copy, with the state kept between calls |
| `LZFSEFormat` | the blocks of a stream and the encoding of repeated distances |
| `LZFSEEncoder` | the search of `lzfse_encode_base`, the back end with its buffers, `_finish`, `_translate` |
| `LZFSEEncode` | `lzfse_encode_buffer`: the choice between raw, LZVN, one chunk and many (extends `LZFSEEncoder`, `LZVN == INSTANCE LZVNEncoder`) |
| `LZFSEDecoder` | `lzfse_decode`: headers, raw, compressed and LZVN blocks (`LZVND == INSTANCE LZVNDecoder`) |
| `FSE` | table entries, normalisation, bit streams, as operators |
| `LZFSEHeader` | symbol tables, frequency codes, the packed header and the checks of a header |
| `LZFSEEntropy` | one compressed block bit by bit: `lzfse_encode_matches` and the decoder's side (extends `LZFSEHeader`) |
| `MC...` | instances for TLC; `MCJPEGDimensions`, `MCLZVN` and `MCLZFSE` also hold the properties that speak of how their inputs are made or compose encoder and decoder |
| `...Proofs` | theorems and TLAPS proofs |

Operators whose comment starts with "Mutant" or "A mutant" are variants of the
definition that follows them, each with a bug that code of this kind could have.
They take no part in the model; `PROJECT.json` names the property that each
violates when put in place of the original, and so shows that the property can
fail.

### State and actions against the code

**RsvgConvertRasterizer.** `pc[c]` is the statement of `rasterize()` call `c`
waits at: `readStdout` (line 107), `readStderr` (108), `waitWriter` (109),
`waitExit` (110). `writer[c]` is the statement of the closure (96-105); its
`defer` is `WriterSignal`, and a thread of the pool is held from `WriterStart`
to there. The contents of a pipe are the difference of two counters of chunks.
`readDataToEndOfFile` takes chunks and returns at end of file, that is when the
pipe is empty and the child has gone. The child is external: while `running` it
may start to read stdin, write stdout or stderr, or exit, in any order; a call
it has started blocks until the pipe lets it through; a signal may end it inside
one. Assumptions about the world outside the code:

- exit status 0 means that the child wrote its whole output;
- a write into a pipe whose reader has gone fails with an error (the host
  ignores SIGPIPE, which would otherwise end the process);
- the child holds its ends of stdout and stderr until it exits, and no other
  process holds one.

**BOMWriter.** `offset` is `writer.offset`, `placed` is `blockOffsets`, `header`
the four patched words. A block is a record with its size. Each iteration of
the two loops of `finalize()` is an action; each `UInt32(...)` conversion, and
the precondition on names, is a disjunct of `MustTrap`.

**BOMTree / CARLayout.** Translations of the pure functions. `Sorted` is Swift's
stable sort. Keys are sequences of bytes, because CoreUI compares packed bytes,
low byte of each token first, and that order differs from the order of the
numbers. The CRC32 of a name is a field of the name: instances carry true values
(`aaa` and `gyt` do share the low 16 bits). A name also has two byte forms, its
own and that of its canonical form, by which Swift compares strings.

**CARWriter.** `section` is the variable written next. `Finalize` is any step of
the container.

**XCAssetCompiler.** `stage` is the loop, `rendered` the code's `renditions` so
far, `todo` the loop's remaining entries, `stack` the directories being walked;
the next child is any of those left. A file is a record that says whether it is
there, its format and whether it decodes. Every step that reads a file may fail
although the file is sound.

**AssetKit.** The last lines of `compile()` (115-116): `HandOver` gives the
complete list to the writer, which then takes its steps to the end. Before that
`section` is "none".

**JPEGDimensions.** `pc` is the statement of the loop, `i` and `bytes` are those
of the code; positions count from 0.

**LZVNEncoder.** `enc` is the place in `lzvn_encode_partial`; an iteration of the
search is one action per outcome (nothing, keep, replace, emit pending or
incoming), and emitting is `Emit` of `LZVNFormat` with `Fits` as its tests of
the room. `table` holds only hash values met so far; the others have the initial
entry.

**LZVNDecoder.** `at` is the label the code jumps between, `reg` its local
variables, `call` the `lzvn_decoder_state`. The 256-entry jump table is
`Instruction`. A match before any distance (D = 0) copies the destination onto
itself; `Unwritten` stands for what is there.

**LZFSEEncoder.** `phase` is the function and place the encoder is at. Positions
are offsets from the source pointer, which is `base`, so that
`lzfse_encode_translate` is `Translate`. `job` is the match that
`lzfse_backend_match` is adding and the state to fall back to: each
`lzfse_push_lmd` is an action (`SplitLiterals`, `SplitMatch`, `PushRest`), a
failed one `PushFails`, then `WriteBlock` and one more attempt. A compressed
block is a value with the sizes its parts have; its bytes are in `LZFSEEntropy`.

**LZFSEEncode.** `chunk` and `left` are the loop of `lzfse_encode_buffer` over a
huge source; `ChooseRaw`, `ChooseLZVN` and `ChooseLZFSE` its first branch;
`EncodeRaw` the `try_uncompressed` at its end.

**LZFSEDecoder.** `s` is the `lzfse_decoder_state`; `status` what a call returned
or the place it is at; `symbol` the partial L, M and D.

**FSE, LZFSEHeader, LZFSEEntropy.** Accumulators are sequences of bits, lowest
first, so that overflow of the 64-bit word is a length. Symbols and states are
the code's, with true table sizes (1024, 64, 64, 256). The tables
(`l_base_value`, ...) are computed from the extra bits, as their comments say,
and equal to the arrays.

The codec's modules were compared with the compiled C code while they were
written: the bytes of `Emit` over all forms of literal, match and distance; the
triples the search finds in 57 texts, with the C constants scaled down to those
of the configuration; the header and payload of each block of `lzfse_entropy`,
bit for bit; and the symbol of every possible L, M and D.

## 3. Runs

Runs marked "violation" check one sentence of the documentation that the code
contradicts; TLC finds a counterexample.

| Run | Configuration | Shows |
|---|---|---|
| `rasterizer_safety` | two calls, one pool thread, pipe of 1 chunk, SVG and PNG of 2, up to 1 chunk of diagnostics | a PNG is whole (`PngIsComplete`); child and closure have ended on return (`NothingLeftBehind`); errors of the closure reach the caller (`WriteErrorReported`); refinement of the protocol (`RefinesPromise`) |
| `rasterizer_liveness` | one call on a pool thread, two pool threads, pipe of 2, SVG and PNG of 4, diagnostics up to 2 | every call that starts ends (`RefinesFairPromise`) |
| `rasterizer_chatty_child` (violation) | diagnostics may exceed the stderr pipe | `Terminates` fails: the child blocks on stderr, which nobody reads before stdout ends |
| `bom_writer` | up to 4 blocks of 0, 3 or 40 bytes, 2 variables, small `MaxU32` and name length | the index gives each block the place where its bytes were written, so that no two overlap, and the header leads to it and to the variables (`TablesSound`); `finalize()` traps for a file that does not fit and for no other (`TrapsExactlyWhenTooLarge`) |
| `assetkit_catalogs` | `compile()` down to the file: an image set beside a folder with a second set and an optional icon set; files sound, absent or broken. Besides, the writer by itself with lists of renditions from up to four entries of all kinds, with plain and with colliding names. Leaves of 28 bytes, `MaxU16` = 9, `MaxU32` = 4496 | of `compile()`: `EverySetLoadedOnce`; a result only if every file asked for is there, sound and of a known format, icons are PNGs of a known size and scale, and there is one icon set at most (`SuccessMeansSoundInput`); every entry has all its renditions (`EntriesRendered`), the catalog alone decides how many there are, and in which order they are stored unless two keys clash (`CatalogDecides`); every declared icon has its loose file (`IconFilesBacked`). Of the file: each rendition is found under its key (`RenditionsFound`), each block but block 0 is named by a variable or used in one tree, none twice, and values precede keys (`BlocksReferredToOnce`), sections come in the reader's order and every appearance used has a row (`TablesComplete`), `FacetsLeadToRenditions`, `DescriptorsFound`; a leaf that outgrows its block has all its entries in the file, never less than its block size, and the right count (`LeavesWhole`); the writer traps for exactly the lists of renditions that a leaf cannot count or whose catalog is too large, known from the list alone (`TrapsExactlyForLimits`). Of both: a binary search in the file finds for every entry of the catalog what was made from its file (`EntriesFound`) |
| `compiler_listing` (violation) | sound catalogs with two sets of one name | "byte-deterministic across Linux and macOS" (`README.md:54` of the repository) fails for sets of one name in two folders |
| `jpeg_files` | files of three pieces, each also cut off at every byte | `ReadsInBounds`, termination (`Ends`), the dimensions are those of the first frame, never of one inside another segment, and a file with frames of unknown kinds only is malformed (`FirstFrameFound`, which says nothing of a known frame behind an unknown one, see section 5) |
| `lzvn_stream` | nine texts into buffers of 7 to 40 bytes and of ample size; payloads (also with no-ops, an undefined opcode, a match without distance) through up to three calls, the first with any part of the source and any room, later ones with as much, 1 or 6 bytes more of the source or all of it, and as much, 1 or 4 bytes more room or ample | `LZVNReadsInBounds`; the pending match and the literals not yet written are sound (`PositionsSound`); the one room test per instruction covers its wide stores (`StoresInBounds`) and refuses no text that has room to spare (`FailsOnlyForRoom`); the output is always a beginning of the text, and all of it at the marker, as long as no call follows one that forgot a literal (next run), and every form of opcode decodes to itself (`DecodesAll`) |
| `lzvn_cut_literal` (violation) | the same texts and calls | "src points to the next literal to copy, or the next op-code if L==0" (`lzvn_decode_base.h:52`): not after a call that copied the rest of a cut literal and met an end marker that is cut off; its literal is executed as instructions by the next call (`CutsRemembered`) |
| `lzfse_stream` | eleven texts by all four ways of encoding, with nine sizes of the destination; streams (also with the older header, or an unknown block) through up to three calls | nothing lost or doubled when buffers fill or a block is refused (`NothingLost`); the margins of the back end keep its arrays (`MarginsSuffice`); pending match and history refer to the right bytes after translations (`ReferencesTrue`); a stream always fits (`FallbackFits`); what comes out is a beginning of the text, and with enough of source and room all of it, as long as no call follows one that was cut off inside an LZVN instruction (next run; `DecodesText`, `WholeStreamDecodes`); a block keeps to its own literals and payload (`BlocksKeepToTheirOwn`) |
| `lzfse_more_room` (violation) | the same | "block is not done and state is valid, so we need more space in dst" (`lzfse_decode_base.c:618`): inside an LZVN instruction the rest of it is not in the state, and a call with more room fails or gives other bytes (`MoreRoomIsEnough`) |
| `lzfse_entropy` | blocks with one symbol, rare symbols, the largest and the boundary values, no literals; rooms down to the last byte; headers with one field changed | states stay in their tables (`StatesInRange`); accumulators never overflow or run dry (`BitsFit`); 8-byte stores stay in the destination, the two that nothing tests included, and 8-byte loads in a source that goes on behind the block; of one that ends with it the last load takes one byte too many, and does not use it (`WideAccessesInBounds`); frequencies add up to the table, and a symbol that occurs has one (`NormalizedFrequencies`); a block decodes to itself (`BlockDecodes`) |

Why the bounds are enough. What decides a rasteriser run is whether something
exceeds a pipe or fits it, and who waits for whom; an SVG and a PNG of twice the
pipe's size make each party block in the middle of its data, and a second call
is enough to compete for a thread. A tree of two to ten entries has every
relation of neighbours a sort and a binary search depend on. Widths are scaled
down (`MaxU32`, `MaxU16`, `TreeBlockSize`) so that overflow happens within a few
entries; nothing in the models depends on their true values. A catalog of two or
three sets has all pairs of sets, and each failure occurs at the first and at a
later step. `MaxBlocks` and `MaxVars` bound the container's client, for model
checking only.

The codec's limits are scaled down in `lzvn_stream` (`LongCount` 20 instead of
271, `Backlog` 24 instead of 400) and `lzfse_stream` (L up to 2, M up to 5, D up
to 23, 33 matches and 44 literals per block, chunks of 28 bytes), so that texts
of 100 bytes split counts, fill blocks, go beyond the largest distance and take
several chunks; the relations between them that the code relies on are the
assumptions of `LZFSEFormat`, `LZFSEEncoder` and `LZFSEEncode`, and hold of the
true values. Distances and opcodes of LZVN have their true limits
(`DecodesAll` takes the values around each). In `lzfse_entropy` only the
precision of the normalisation is scaled (30 bits for 31), because a TLC integer
has 31 bits. A decoder is called at most three times (`MaxCalls`): one call that
is cut, one that resumes it and is cut again, one that ends. A next
call is made also where a decoder has forgotten what it needs to go on: what
comes of it is the subject of `lzvn_cut_literal` and `lzfse_more_room`, and the
flag `kept` of `MCLZVN` and `MCLZFSE` tells `DecodesAll`, `DecodesText` and
`WholeStreamDecodes` to say nothing from there on. All bounds on reads and
writes are checked after such calls too.

Fairness. Only three specifications state any, of the rasteriser, its promise and
the JPEG walk: `WF` on the steps of each caller,
closure and child (threads and processes that can run are scheduled), none on
starting a call or on killing a child; `WF` on the walk of the JPEG, a
sequential loop; `WF` on ending a call that has begun, which is the abstract
promise itself. A child with `WF` may go on choosing what to do next, but it can
read, write and print only finitely much before it must exit. A child that
sleeps for ever, or a pool without a free thread, is outside of what the code
promises; with `Workers = 1` and the caller on that thread the model deadlocks,
and so would the program.

## 4. Proofs

For every value of the constants, from the assumptions named in each module.
They are: that sizes are natural numbers and inputs of their type; in
`CARWriter` (`InputAssumption`), that names with equal bytes have equal canonical
forms and hashes, as functions of the bytes have; in `XCAssetCompiler`
(`CatalogAssumption`), that a catalog is a tree of finite depth, with every
directory in one place, whose entries have the idioms, scales and appearances
that `Contents.json` can decode to; and in the codec's modules the relations between its
limits that the code relies on (`MarginAssumption`, `DispatchAssumption`,
`LongCountAssumption`, `BacklogAssumption`, `PrecisionAssumption`), which hold of
the true values. `InputsAssumption` of `LZFSEEntropy` says what
`lzfse_encode_matches` is called with: literals are bytes, padded to a multiple of
four; the values of a triple have a symbol; no block is without a triple. TLC
evaluates each of them on the constants of a run.

- **RsvgConvertRasterizerProofs.** `TypeCorrect`, `PngResultComplete`,
  `ExitErrorComplete`, `CallCleansUp`, `WriteErrorSurfaces` prove the invariants
  of `rasterizer_safety`, and that an exit error has all of stderr
  (`DiagnosticsComplete`), for any number of calls and any sizes; `KeepsPromise`
  proves that the specification refines `SVGRasterizer`'s safety part. None of
  the invariants is inductive: that all was collected when a call returns
  depends on what was known at each earlier statement. The invariant proved by
  induction says, for each value of `pc`, what has been established by then:
  past `readStdout` the child has exited and stdout is drained, past
  `readStderr` stderr too, past `waitWriter` the closure has signalled, and of
  the closure that it is past `writing` without an error only if the whole SVG
  is written. The type invariant needs a companion too: what is taken out of a
  pipe never exceeds what was put in.
- **BOMWriterProofs.** `TypeCorrect`, `ExtentsDisjoint`, `TablesDescribeFile`,
  `TrapsAreDeserved`. `ExtentsDisjoint` is about a file at any moment, also one
  that is never finished. The induction carries that the sizes of blocks are natural
  numbers, that while the writer packs every extent noted ends at or before
  `offset`, and that the index agrees with the addresses noted until the file is
  done; and for `TablesDescribeFile` (`PlaceInv`), that the extent noted for a
  block begins where the parts written before it end. For the traps it carries
  (`SizeInv`) that `offset` is the sum of what is written, which only grows: so
  the first conversion to trap tells that the whole file is too large, and a
  file that is too large cannot get past all of them. Nothing in the induction
  depends on which payloads and names a client may use, so that
  `CARWriterProofs` can use it as it is.
- **CARWriterProofs.** `EveryRenditionFound`, `EveryTableComplete`,
  `EveryFacetLeads`, `EveryDescriptorFound`, `EveryBlockUsedOnce`,
  `LeavesAreWhole`: what `assetkit_catalogs` checks of the file, but for
  `TrapsExactlyForLimits` and `EntriesFound`, for any list of renditions. The
  argument has four parts.
  (1) Order: byte strings are totally ordered by their first difference, so the
  sorted leaf is a ranking of the entries, by key and then by place in the list,
  and a binary search over a ranking finds a key if and only if there is one.
  `EveryRenditionFound` also needs that packing a key into bytes loses nothing.
  (2) Shape: `InsertHolds` says what an insertion adds (the blocks of each entry,
  the leaf, the header, at which identifiers) and that it keeps what was there.
  (3) The induction: `CatalogInv` says that each variable written so far leads to
  a table that holds the entries made from the renditions; `SpanInv` that the
  tables lie end to end, so that the blocks of one are exactly those between its
  neighbours' headers. For `EveryBlockUsedOnce` the tree of a table uses each of
  them, and there are as many references as blocks.
  (4) `LeavesAreWhole` is about the finished file, and takes the container's
  invariant over, by `File == INSTANCE BOMWriterProofs`: a step that adds a table
  is one of the container's client, and `Finalize` is a step of the container;
  so the index gives each leaf the length of its block (`LeafInFile`). That the
  16 bits of a leaf hold its count is tested for RENDITIONS only; the other
  tables have no more rows than there are renditions (`CountInv`), as each is
  made for the first rendition of a name or of a descriptor, and that of
  appearances two at most.
- **XCAssetCompilerProofs.** `WalkLoadsEverySet`, `EveryEntryIsRendered`,
  `SuccessNeedsSoundInput`, `LooseFilesBackIcons`, `CatalogAloneDecides`, for any
  catalog. The walk's
  invariant (`Entered`) is that there is a set of folders entered so far, such
  that what is listed, loaded or entered is the top of the catalog and the
  contents of those folders, with nothing in two of these places; when nothing is
  listed any more, the folders entered are all of them, by induction on their
  depth. The loops' invariant (`LoopInv`) is that each job of the loop is either
  still to do or was sound and has its renditions, and that a loop that is over
  left none. For the loose files the renditions of icons are always a suffix
  of the list, in the order of the jobs.
  `CatalogAloneDecides` needs the list exactly: `MadeInv` says that in every phase
  it is the join of what each job dealt with so far gives, and nothing else. It
  is counted by cells, one for each entry and each rendition the entry must have:
  a join of sequences has a bijection from the cells to its places
  (`FlattenAt`), and so has a listing of directories (`JobsPlaced`), so that the
  number of renditions is that of the cells, whatever the order. For
  the leaf, another order of the image sets gives as many renditions and the same
  ones; two lists with the same entries, no two with one key, rank them alike
  (`RenditionsSortAlike` of `CARWriterProofs`, taken over by `Leaf == INSTANCE`).
- **LZVNProofs.** `CarriesSoundPositions` and `StaysInDestination` are about the
  encoder, for any text and destination. The induction carries that no entry
  of the hash table lies beyond the current position, that a pending match
  repeats the bytes it refers to, at a distance the format has, and begins at or
  behind `src_literal`, and that literals lag at most `Backlog` behind, or one
  more while a match is pending.
  `OpeningReadsBack`: for any literal count, match length from 3 and distance up
  to 65535 the opcode and operand bytes decode to what they were made of.
  `DecodesAll` checks it at the boundaries; the proof is by the five forms of
  instruction, each an argument about the fields of a byte.
  `ReadsAndWritesInBounds`: `LZVNReadsInBounds` for any
  bytes, under `AnySpec`, whose caller may give any source and more room before
  each call and keep or drop a cut instruction; what `lzvn_stream` and
  `lzfse_decode` do are cases of it. The invariant carries that a cut literal
  still lies in the source given so far, with the byte after it
  (`src + L < srcEnd`), which is what lets a resumed call go on without a test of
  its own; that a distance was tested against the output, unless a literal comes
  before its match, after which it is tested; and that the output never exceeds
  the room.
  `RefusesForRoomAlone`: a text is refused only if the buffer has less than the
  text, a byte for every seven of it and the 18 bytes the tests ask for. The
  induction (`CostInv`) carries that seven times the payload is at most eight
  times the text encoded, from an account of the pieces of an instruction, and
  that whatever was given up lacked that much room. The worst case is a
  three-byte match behind four literals, seven bytes written as eight. The
  bound TLC had checked before, two bytes for every full count of literals,
  was too low for the code's own limits (a match behind more than 16 literals
  may cost a byte more than it stands for, long before 271 of them), which
  showed when its step could not be proved; a longer text of the run now
  comes near the bound that holds.
- **LZFSEEncodeProofs.** `MarginsAlwaysSuffice`, `ReferencesStayTrue`,
  `FallbackAlwaysFits`, `NothingIsLost`, for any source and destination. None is inductive, nor
  can one be proved without the others: the margins of the arrays hold because a
  match begins at most `MaxLag + 10` behind the first byte not encoded
  (`JobInv`), which holds because the search never lags further (`LagInv`), which
  after a translation needs where the chunk lies in the source (`ChunkInv`,
  `PositionInv`); a retried match fits because the arrays were empty when it
  began, and what it has pushed since is known (`RetryInv`). `HistoryInv` carries
  that an entry which is not invalid holds the bytes of its position, before and
  after `lzfse_encode_translate`. `FallbackAlwaysFits` uses what `LZVNProofs`
  shows of the encoder's payload (`LZVNInv`). `NothingIsLost` says that decoding
  the triples and literals of the blocks written and of the arrays, in their
  order, gives the source up to `src_literal`. Decoding is a recursive function
  over the triples; the induction (`ToldInv`) carries instead a trace, the places
  in the source and in the literals after each triple (`Tale`), and that the
  trace of a match pushed in part stops where the state to fall back to is. So a
  triple that is added or taken back, or a block that is written or refused,
  only lengthens or cuts a trace, and one lemma (`TaleReplayed`) says that a
  trace is what decoding yields.
- **JPEGDimensionsProofs.** `TypeCorrect` and `ReadsNeverOverrun` say that no
  file, however malformed, makes the walk read outside it; `GoesForward` that
  the walk never goes back. The induction carries that a walk which has entered
  a segment has checked that its length, and the bytes that length announces,
  lie in the file.
- **LZFSEEntropyProofs.** `DecodingInvertsEncoding`: for a table of any power-of-two size
  and any frequency, the encoder's entry and the decoder's are inverse, the bits
  written are those read, and the next state is one of the symbol's own.
  `DecoderStaysInRange`: no payload leads out of the table. The argument: of the
  powers of two at least `n / f` there is a least one (by the well-foundedness
  of the natural numbers), and it parts the states into those that write k bits
  and those that write k - 1. For `f = n` the code shifts by -1 to compute a
  number it does not use; the theorem holds for any value of it.
  `FrequenciesStayNormalized`, `StatesStayInRange`, `OneFlushIsEnough`,
  `AccessesStayInBounds`: the invariants of `lzfse_entropy`, but for
  `BlockDecodes`, for any block, any room and any source. They are under
  `AnySpec`: the steps of the run, where `Given` gives the decoder any source of
  whole bytes that holds the fixed part of a header, instead of the encoded block
  and a few variations of it.
  The encoder's invariant (`EncoderInv`) carries that every state is one of its
  table's; that the tables are made from frequencies that add up to the number of
  states and in which every symbol of the block has a part; that at most 7 bits
  are left between the turns of a loop; and that the room which the last turn
  reserved is still there for what nothing checks. The normalisation's argument:
  a symbol that occurs gets at least one state, and what is then too many is
  taken back by passes that leave at least one each, which suffices as there are
  more states than symbols. The sum of a table is computed by halves, and is
  shown equal to the sum over the symbols one by one.
  The decoder's invariant (`DecoderInv`) carries that once a header is taken each
  state of each table has an entry whose delta and span lead to states only,
  also where the frequencies leave states to no symbol; that the block's end, as
  the header gives it, lies in the source; and that the stream holds 56 to 63
  bits after a flush. A turn pulls at most 40 of them for four literals, and 54
  for a triple.
  No store is made without room: the last one of a payload has no test before
  it, but the turn before it asked for 16 bytes and stored 8, and where there was
  no turn the header or the padding has left as much. Loads may reach one byte
  behind the block, no further. A payload that ends on
  a whole byte starts its stream with 7 bytes; the first flush then takes no new
  bits but loads 8 bytes from the same place, the last of them behind the block.
  Behind an encoded block there is always another or the marker, so this takes a
  source that ends with its block, as one that was cut off may; no bit of the byte
  is used.

Induction over numbers is done without the library's schemes, which the provers
cannot instantiate: a property that holds at 0 and passes to the successor holds
everywhere, because the set of numbers without it has no least element.

Only model-checked:

- liveness, which needs fairness and `ENABLED` (`RefinesFairPromise`, `Ends`);
- that the decoders give back what was encoded, in calls of any size
  (`DecodesText`, `WholeStreamDecodes`, `BlocksKeepToTheirOwn` of `lzfse_stream`,
  `DecodesAll` of `lzvn_stream`): these run a decoder over a payload whose bytes
  have no structure left but the decoder's own reading of them; `NothingIsLost`
  and `OpeningReadsBack` prove the encoder's half and the single instruction;
- that a whole block of the entropy coder decodes to itself (`BlockDecodes`): the
  decoder runs backwards through what the encoder wrote, over two payloads and
  four or three states at once; `DecodingInvertsEncoding` proves the single
  symbol;
- `EntriesFound`, which joins `EveryEntryIsRendered` and `EveryRenditionFound`
  over the call between compiler and writer: each half is proved in a module of
  its own;
- `TrapsExactlyForLimits`, whose right-hand side adds the sizes of all parts of
  a catalog up from the list of renditions;
- `FirstFrameFound`, which speaks of how the files of the instance were made.

## 5. Not modelled

- Pixels: PNG decoding and premultiplication, the contents of CSI records,
  their TVL entries, MLEC chunks and DWAR envelopes (a block with a size per
  kind of body). An MLEC body of height 0 gives chunks whose base address is
  nil (`CAR/MLECBody.swift:28`).
- The scanner for the attributes of an SVG's root element and the arithmetic on
  its dimensions, which can trap (`Rendition/SVGSource.swift:59`).
- The byte writer: its effect is the offset that `BOMWriter` keeps.
- JSON decoding (one outcome per file) and number parsing in the schema.
- The property list's shape and all wording of errors.
- Of the codec: the 32-bit variant of the bit streams, which is what Linux on
  aarch64 gets, as `lzfse_fse.h:37` looks for Apple's name of that processor
  (`__arm64__`); the entries that a decoder's tables keep of an earlier block
  where the frequencies of the next leave states to no symbol (the model has
  entries of zeros there, and no stream the encoder writes leads to one); the
  clipping of LZVN sources above 4 GiB, as its caller
  passes less than 4096 bytes; the allocation of scratch buffers.

What was met while modelling and is not a run of its own:

- The uncompressed block is not the codec's worst case, as
  `Compression/LZFSE.swift:16` says: with room for it a compressed stream may be
  longer than the source and 12 bytes. It always fits what it is given, and the
  raw block is there when it does not (`FallbackFits`).
- An undefined opcode in an LZVN payload is reported as a full destination,
  like a payload that ends early. `lzfse_decode_buffer` returns the destination's
  size for both (`lzfse_decode.c:45`), although `include/lzfse.h:121-124` speaks
  of the bytes written.
- "All renditions for one asset share the same FacetKeys.Kind"
  (`CAR/CARLayout.swift:30`) does not hold of an image set and a colour set of one
  name, which nothing refuses: their facet leads to the renditions of the first.
  `FacetsLeadToRenditions` is about names of one kind.
- "v1 only emits one logical icon size per appiconset"
  (`CAR/RenditionKey.swift:54`), but every entry of the set is emitted, and two
  that differ in size only have one key.
- A leaf longer than the block size its header states, which `BOM/BOMTree.swift:11`
  does not expect, is written as one leaf all the same (`LeavesWhole`).
- "treating an unrecognised SOF as malformed" (`Rendition/JPEGSource.swift:37-39`)
  holds of a file with no other frame; if a known one follows, the unknown one is
  skipped (line 65) and the later frame gives the dimensions. `FirstFrameFound`
  leaves such files out (`Disputed`).
- An end-of-stream marker of LZVN that is cut off leaves the state at the
  instruction before it, not at the marker. After a literal that was itself cut
  off this loses the literal's place (`lzvn_cut_literal`).
- Comments say that offsets stay positive when a huge source is encoded
  (`lzfse_encode.c:94`); what a match refers to may begin at -3, still within
  the source.
- The test of the room for the padding before an L, M, D payload
  (`lzfse_encode_base.c:319`) can never fail: the test before the last group of
  literals, or before the header, leaves more than those 8 bytes.

Read but checked by no run: the gamut is not part of a key, so an sRGB and a
display-P3 entry share one (`CAR/RenditionKey.swift:41`); loose files for idioms
other than iPhone and iPad are named by no `CFBundleIconFiles` entry
(`AppIcon/AppIconPlist.swift:48`).

## 6. Plan

Done, in this order: rasteriser with its promise and proofs; container with
proofs; trees, layout and the writer that composes them; compiler; both together; JPEG
walk with proofs; LZVN format, encoder and decoder with proofs; LZFSE encoder, its
dispatch and the decoder; entropy coder with proofs; then proofs for the
compiler, the CAR writer down to the finished file, and both encoders.

What would come next:

1. `SVGDimensions`: the attribute scanner as a state machine over character
   classes, and the arithmetic of `SVGSource` with its traps.
2. `CSIRecord`: sizes and length fields of the records, MLEC chunking, TVL
   stride arithmetic in 32 bits; `CARWriter`'s `CSISize` becomes an operator of it.
3. Composition of `AssetKit` with the rasteriser's promise and the walk of a
   JPEG instead of an outcome per file.
4. Proofs: `EntriesFound`, from the theorems of both halves and the fact that a
   list is handed over complete; `TrapsExactlyForLimits`; `DecodesAll`, from
   `OpeningReadsBack` and an account of the instructions like that of
   `RefusesForRoomAlone`.
5. `FirstFrameFound` for any file: a frame defined by the grammar of a JPEG
   instead of by how the instance builds its files.
