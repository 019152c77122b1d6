CONSTANTS
  READ_CHUNK = 3
  MaxLen = 6
  Contents <- AllContents
SPECIFICATION FairSpec
INVARIANTS SplitsLikeWholeFile BufferBounded
PROPERTIES StreamEnds
