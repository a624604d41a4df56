SPECIFICATION FairSweepSpec

CONSTANTS
  match = match
  quiet = quiet
  poison = poison
  unfit = unfit
  none = none
  d0 = d0
  d1 = d1
  d2 = d2
  r1 = r1
  r2 = r2
  NoEvent = none
  Active <- MCActive
  Classification <- MCClassification
  Normalizable <- MCNormalizable
  Matches <- MCMatches
  Events = {match, poison, unfit}
  Defs = {d0}
  Releases = {r2}
  MaxId = 3
  MaxFaults = 1
  MaxCrashes = 1
  MaxTampers <- MCNoTampers

INVARIANT
  LaterOnesFirst

PROPERTIES
  HealthyEvidenced
  EveryAdmittedClassified
