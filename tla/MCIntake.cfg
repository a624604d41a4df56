SPECIFICATION Spec
CONSTANTS
  Requests = {r1, r2}
  Batches <- MCBatches
  Limit = 2
  Window = 2
  MaxNow = 2
  MaxAttempts = 2
  MaxFaults = 1
  MaxCrashes = 1
SYMMETRY MCSymmetry
INVARIANTS
  AnsweredIsRecorded
  OneSubmissionPerEvent
  ConflictIsGenuine
  StatusTellsFate
  WithinEnvelope
PROPERTIES
  RejectedOnlyWhenFull
  ImplementsAdmission
CHECK_DEADLOCK FALSE
