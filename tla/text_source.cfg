CONSTANTS
  READ_CHUNK = 3
  MaxLines = 4
  MaxBlocks = 4
  Inputs <- TextFiles
SPECIFICATION Spec
INVARIANTS SlicesParseLikeWhole NothingLost OneMarkPerSlice
