SPECIFICATION Spec
CONSTANTS
  MaxRuns = 2
  MaxCommands = 1
  Commands = {"clear"}
  Projects = {"explained"}
  SlowStart = TRUE
INVARIANTS NothingResurrected
