CONSTANTS
  brain = brain
  orch = orch
  t1 = t1
  t2 = t2
  pid = pid
  dir = dir
  file = file
  tree = tree
  Owners <- MCOwners
  Jobs <- MCJobs
  Tasks <- MCTasks
  Artifacts <- MCArtifacts
  Pids <- MCPids
  Dirs <- MCDirs
  Worktrees <- MCWorktrees
  Reused <- MCReused
SPECIFICATION Spec
SYMMETRY MCSymmetry
CONSTRAINT MCOneByOne
INVARIANTS NothingForgotten MemoryIsLog
PROPERTIES FilesKept
