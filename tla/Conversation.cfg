CONSTANTS
  m1 = m1  m2 = m2  d1 = d1  p1 = p1  k1 = k1  k2 = k2
  Msgs <- MCMsgs
  Kinds = {"chat", "session"}
  Drivers <- MCDrivers
  Callers <- MCCallers
  Clis <- MCClis
  Worker = worker
  Tool = tool
  None = none
  MaxKicks = 1
  Allowed = {"stop", "nostart", "exit", "nostore", "kill", "worker"}
  MaxMishaps = 1
SPECIFICATION Spec
CONSTRAINT MCThreeAtOnce
INVARIANTS TypeOK GivenOnce Accounted Judged NothingStranded
CHECK_DEADLOCK FALSE
