CONSTANTS
  h1 = h1
  h2 = h2
  c1 = c1
  c2 = c2
  g1 = g1
  Hashes <- MCHashes
  Holders <- MCHolders
  Collectors <- MCCollectors
  Grace = 2
  MaxPutTime = 1
  Chunk = 1
  MaxTime = 4
  MaxEvents = 1
SPECIFICATION BlobSpec
SYMMETRY MCSymmetry
INVARIANTS NoDanglingReference
PROPERTIES RecentKept
