CONSTANTS
  Strings <- AllStrings
  Records <- AllRecords
  NewFields <- FewFields
  Selectors <- FewSelectors
  Values <- FewValues
  Rules <- FewRules
  RuleLists <- FewRuleLists
  Moves <- FewMoves
  Templates <- FewTemplates
  Merges <- FewMerges
  Spelling <- FewSpelling
  Punctuation <- FewPunctuation
  Foreign <- FewForeign
  Marks <- FewMarks
  Folded <- FewFolded
  Materials <- FewMaterials
  Links <- FewLinks
  Positions <- FewPositions
  MaxEdits = 2
SPECIFICATION CatalogSpec
INVARIANTS KindMatchesTag DiffExplains MergeIsStable CleanupSettles SpecRangesPartition
PROPERTIES TagOrderKept UntouchedFieldsStay
