SPECIFICATION Spec
CONSTANTS
  MaxRuns = 2
  MaxCommands = 1
  Commands = {"clear", "restore", "compact", "summary"}
  Projects = {"explained"}
  SlowStart = FALSE
INVARIANTS TypeOK OneOwner NothingResurrected InterruptedTurnKept BorrowHeld
