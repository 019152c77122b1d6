CONSTANTS
  READ_CHUNK = 3
  MaxLines = 4
  MaxBlocks = 2
  Inputs <- CommentFiles
SPECIFICATION Spec
INVARIANTS CommentsSkipped
