CONSTANTS
  c1 = c1
  c2 = c2
  a = a
  b = b
  Callers <- MCCallers
  Streams <- MCStreams
  Calls <- MCCalls
  WriteQueue = 2
  MaxBatch = 2
  MaxCachedHeads = 1
  MaxCalls = 4
  MaxRestarts = 1
SPECIFICATION Spec
SYMMETRY MCSymmetry
INVARIANTS SeqNeverReused AnswersAreTrue FeedInOrder
PROPERTIES NothingLost LogSpec
CHECK_DEADLOCK FALSE
