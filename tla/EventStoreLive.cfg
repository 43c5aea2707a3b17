CONSTANTS
  c1 = c1
  c2 = c2
  a = a
  b = b
  Callers = {c1, c2, c3}
  Streams <- MCStreams
  Calls <- MCCallsLive
  WriteQueue = 2
  MaxBatch = 1
  MaxCachedHeads = 1
  MaxCalls = 3
  MaxRestarts = 1
SPECIFICATION FairSpec
PROPERTIES EveryCallAnswered ShutdownAnswersAll
CHECK_DEADLOCK FALSE
