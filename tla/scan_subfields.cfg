CONSTANTS
  t1 = t1
  t2 = t2
  t3 = t3
  NoThread = NoThread
  Threads <- ThreeThreads
  BATCH = 2
  VECTOR_SIZE = 2
  Inputs <- BatchGlobs
  Binds <- SubfieldsCalls
SPECIFICATION Spec
INVARIANTS TypeOK OrdinalsExact ThreadOutputInOrder BatchesRestoreOrder
PROPERTIES ChunksStayInTheirBatch ExactlyOnce
SYMMETRY Symmetry
