CONSTANTS
  Sizes = {1, 2}
  KeepRecentTokens = 2
  TokenBudget = 4
  MaxEntries = 6
  MaxAsides = 2
SPECIFICATION Spec
CHECK_DEADLOCK FALSE
INVARIANTS
  ToolResultsKeepCall
PROPERTIES
  KeepsRecentMessages
  CompactionCoversWhatItCuts
  BranchSummaryTellsWhatIsLeft
