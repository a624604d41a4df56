SPECIFICATION Spec
CONSTANTS
  Messages <- MCMessages
  Usable <- MCUsable
  RecordOf <- MCRecordOf
  MaxReceive = 2
  InitialBackoff = 2
  MaxBackoff = 5
  Misanswers = {0, 400, 404}
  MaxFaults = 2
INVARIANTS
  DeletedIsRecorded
  BackoffFollowsStreak
  OneFaultDoesNotDrain
