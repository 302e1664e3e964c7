\* Files of 524 bytes and more; addresses up to 560.
CONSTANTS
  Payloads <- MCPayloads
  VarNames <- MCVarNames
  MaxBlocks = 4
  MaxVars = 2
  MaxU32 = 560
  MaxName = 3
SPECIFICATION BOMSpec
INVARIANTS
  TablesSound
  TrapsExactlyWhenTooLarge
