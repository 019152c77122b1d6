CONSTANTS
  Strings <- AllStrings
  Records <- FewRecords
  NewFields <- FewFields
  Selectors <- FewSelectors
  Values <- FewValues
  Rules <- FewRules
  RuleLists <- FewRuleLists
  Moves <- FewMoves
  Templates <- FewTemplates
  Merges <- FewMerges
  MaxEdits = 2
SPECIFICATION Spec
INVARIANTS ReplacedWhereItWas
