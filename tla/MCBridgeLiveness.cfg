SPECIFICATION FairSpec
CONSTANTS
  Messages <- MCFewMessages
  Usable <- MCUsable
  RecordOf <- MCRecordOf
  MaxReceive = 2
  InitialBackoff = 2
  MaxBackoff = 2
  Misanswers = {0, 404}
  MaxFaults = 2
PROPERTIES
  EveryMessageSettles
  GoodEventsArrive
