CONSTANTS
  c = c
  p = p
  w1 = w1
  w2 = w2
  Conversations <- MCConversations
  Projects <- MCProjects
  Writers <- MCWriters
  Values = {0, 1}
  Initial = 0
  MaxSeq = 4
SPECIFICATION Spec
SYMMETRY MCSymmetry
INVARIANTS LiveMatchesLog
PROPERTIES NeverComesBack
