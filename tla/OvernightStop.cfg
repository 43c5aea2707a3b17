CONSTANTS
  Phases = {1, 2}
  DependsOn <- NoDeps
  MaxRounds = 2
  FixRounds = 1
  MaxCommits = 1
  MaxMishaps = 0
  Allowed = {"restart", "nobranch", "nochecks", "noreport", "steer"}
SPECIFICATION Spec
PROPERTIES FenceHolds
