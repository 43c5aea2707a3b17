CONSTANTS
  Phases = {1, 2}
  DependsOn <- NoDeps
  MaxRounds = 2
  FixRounds = 1
  MaxCommits = 1
  MaxMishaps = 1
  Allowed = {"restart", "nobranch", "nochecks", "noreport", "steer"}
SPECIFICATION Spec
INVARIANTS TypeOK CheckedAsVerified WorkCovered OneReport
PROPERTIES RunEnds
