SPECIFICATION Spec
CONSTANT Raw <- MCRaw
INVARIANTS
  MatchesAsRequired
  ReasonIsComplete
  PrecedenceHolds
  ResolversAgree
  VerdictReproduced
  ProvenanceHonest
  LitRowShowsTheFact
  AccountsAgree
CHECK_DEADLOCK FALSE
