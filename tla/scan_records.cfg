CONSTANTS
  t1 = t1
  t2 = t2
  t3 = t3
  NoThread = NoThread
  Threads <- TwoThreads
  BATCH = 2
  VECTOR_SIZE = 2
  Inputs <- AllGlobs
  Binds <- RecordCalls
  Profiled <- ProfiledGlobs
SPECIFICATION FairMetricsSpec
INVARIANTS CountersComplete MetricsAddUp
PROPERTIES ScanTerminates ExactlyOnce
