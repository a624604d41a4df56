SPECIFICATION FairSpec
CONSTANTS
  Alerts <- MCAlerts
  Touched <- MCTouched
  Removals <- MCRemovals
  MaxWrites = 1
  Pins = {p1}
  NoPin = none
INVARIANTS
  TypeOK
  IntactVouches
  NeverDenies
PROPERTIES
  ImplementsScreen
  LoadingEnds
