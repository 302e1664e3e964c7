\* The same streams and calls: more room after an LZVN block was cut off.
CONSTANTS
  MaxL = 2
  MaxM = 5
  MaxD = 23
  MatchesPerBlock = 33
  LiteralsPerBlock = 44
  FullHeader = 40
  TablesSize = 2
  LiteralCost = 3
  MatchCost = 2
  GoodMatch = 12
  MatchParts = 3
  LongCount = 16
  Backlog = 16
  Sources <- MCSources
  LZVNThreshold = 30
  RawLimit = 80
  ChunkThreshold = 84
  ChunkSize = 28
  HeaderV1 = 37
  Unwritten = 0
  MaxCalls = 3
SPECIFICATION Spec
CHECK_DEADLOCK FALSE
INVARIANT MoreRoomIsEnough
