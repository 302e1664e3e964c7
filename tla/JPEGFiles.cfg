\* Files of up to three pieces, and every prefix of them.
CONSTANT Files <- MCFiles
SPECIFICATION FairSpec
INVARIANTS
  ReadsInBounds
  FirstFrameFound
PROPERTY Ends
