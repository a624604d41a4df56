SPECIFICATION Spec

CONSTANTS
  match = match
  quiet = quiet
  poison = poison
  unfit = unfit
  none = none
  d0 = d0
  d1 = d1
  d2 = d2
  r1 = r1
  r2 = r2
  NoEvent = none
  Active <- MCActive
  Classification <- MCClassification
  Normalizable <- MCNormalizable
  Matches <- MCMatches
  Events = {match, quiet, unfit}
  Defs = {d0, d1, d2}
  Releases = {r1, r2}
  MaxId = 2
  MaxFaults = 1
  MaxCrashes = 1
  MaxTampers <- MCTampers

INVARIANTS
  TypeOK
  StageArtifactsMatchStatus
  OneReleaseEvaluated
  OneChangeIsExposed
  UnfinishedTransactionsCurrent

PROPERTIES
  ArtifactsImmutable
  ImplementsAbstract
