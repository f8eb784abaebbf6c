SPECIFICATION Spec
CONSTANTS
  MaxRuns = 2
  MaxCommands = 1
  Commands = {"restore"}
  Projects = {"explained"}
  SlowStart = FALSE
INVARIANTS RestoredFileKept
