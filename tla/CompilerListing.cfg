\* Sets of one name in two folders.
CONSTANTS
  Catalogs <- Resembling
  MaxDepth = 2
  TreeBlockSize = 4096
  InlineBlockSize = 1024
  MaxU16 = 65535
SPECIFICATION Spec
INVARIANTS
  ListingOrderInvisible
