CONSTANTS
  MaxRounds = 3
  FixRounds = 1
  Patient = TRUE
  MaxWork = 2
  MaxTip = 1
  MaxReports = 2
  MaxAccepts = 2
  MaxSendBacks = 1
  MaxFaults = 1
SPECIFICATION Spec
INVARIANTS  NothingUnverified  LandsOnce NoOrphans NothingStranded
CHECK_DEADLOCK FALSE
