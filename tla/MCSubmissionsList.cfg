SPECIFICATION Spec
CONSTANTS
  Outcomes = {"valid", "invalid"}
  Limit = 1
  MaxId = 3
INVARIANTS
  RowsAscend
  NothingStableMissed
  NeverMismatch
  AdvancedRowsCarryOutcome
  TotalCoversRows
