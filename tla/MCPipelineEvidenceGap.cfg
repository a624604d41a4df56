SPECIFICATION Spec

CONSTANTS
  match = match
  quiet = quiet
  poison = poison
  unfit = unfit
  none = none
  d0 = d0
  d1 = d1
  d2 = d2
  r1 = r1
  r2 = r2
  NoEvent = none
  Active <- MCActive
  Classification <- MCClassification
  Normalizable <- MCNormalizable
  Matches <- MCMatches
  Events = {match, quiet}
  Defs = {d0, d1}
  Releases = {r1}
  MaxId = 1
  MaxFaults = 0
  MaxCrashes = 0
  MaxTampers <- MCTampers

PROPERTIES
  EvidencedWhileIntact
