\* Catalogs with up to three asset sets, sound or not, and lists of renditions
\* by themselves; leaves that outgrow their block, counts and sizes up to limits.
CONSTANTS
  Catalogs <- MCCatalogs
  MaxDepth = 2
  Inputs <- MCInputs
  CSISize <- MCCSISize
  TreeBlockSize = 28
  InlineBlockSize = 28
  MaxU16 = 9
  MaxU32 = 4496
SPECIFICATION MCSpec
INVARIANTS
  EverySetLoadedOnce
  SuccessMeansSoundInput
  EntriesRendered
  IconFilesBacked
  CatalogDecides
  RenditionsFound
  BlocksReferredToOnce
  TablesComplete
  FacetsLeadToRenditions
  DescriptorsFound
  LeavesWhole
  TrapsExactlyForLimits
  EntriesFound
