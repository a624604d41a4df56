SPECIFICATION Spec
CONSTANTS
  Outcomes = {"valid"}
  Limit = 1
  MaxId = 3
INVARIANT NothingSkipped
