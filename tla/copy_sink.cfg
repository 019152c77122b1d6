CONSTANTS
  t1 = t1
  t2 = t2
  t3 = t3
  NoThread = NoThread
  Threads <- ThreeThreads
  Formats <- AllFormats
  Works <- ThreeWorks
SPECIFICATION FairSpec
INVARIANTS ChunksContiguous CompleteWhenDone RejectedLeavesNoTrace
PROPERTIES CopyEnds
