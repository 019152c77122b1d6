CONSTANTS
  CombiningClass <- FewClasses
  Decomposition <- FewDecompositions
  Composition <- FewCompositions
  CodeTables <- FewTables
  Radix = 15
  LengthWidth = 1
  StartWidth = 2
  TotalWidth = 2
  Texts <- AnselTexts
  RecordsOf <- FewRecordsOf
  FormRecordsOf <- FewFormRecordsOf
  Neighbour <- FewNeighbour
  Octets <- FewOctets
  DamagedTexts <- FewDamagedTexts
  MaxDamaged = 80
  MaxText = 3
  DefaultLeader <- Leader
SPECIFICATION Spec
CHECK_DEADLOCK FALSE
INVARIANTS AnselCharactersRoundTrip
