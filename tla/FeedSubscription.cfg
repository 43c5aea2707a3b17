CONSTANTS
  Capacity = 1
  Page = 2
  MaxReplay = 2
  MaxSeq = 2
  MaxFaults = 1
  MaxBacklog = 2
SPECIFICATION FairSpec
PROPERTIES NoGap Delivered
CHECK_DEADLOCK FALSE
