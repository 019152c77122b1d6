CONSTANTS
  t1 = t1
  t2 = t2
  t3 = t3
  Threads <- TwoThreads
  VECTOR_SIZE = 2
  Inputs <- FewGlobs
  Readers <- AllReaders
SPECIFICATION FairSpec
INVARIANTS OrdinalsExact FilesStayTogether
PROPERTIES ScanTerminates ExactlyOnce
