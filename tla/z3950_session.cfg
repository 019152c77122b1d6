CONSTANTS
  PRESENT_CHUNK = 2
  VECTOR_SIZE = 2
  MaxHits = 3
  MaxRecords <- FewRecords
  Servers <- AllServers
SPECIFICATION FairSpec
INVARIANTS FetchesInOrder CompleteOrError ConformingNeverRefused RowsMatchRecords
PROPERTIES SessionEnds
