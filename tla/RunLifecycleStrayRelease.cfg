SPECIFICATION Spec
CONSTANTS
  MaxRuns = 2
  MaxCommands = 1
  Commands = {}
  Projects = {"explained"}
  SlowStart = FALSE
INVARIANTS BorrowKeptWhileWatched
